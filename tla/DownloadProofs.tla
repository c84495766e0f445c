--------------------------- MODULE DownloadProofs ---------------------------
(***************************************************************************)
(* Proofs about a parallel download, for every blob, concurrency and size  *)
(* of a listing.  First, that a download uses its batch as BatchOperation  *)
(* supposes: every step of the range stream, of the user callbacks and of  *)
(* the output stream is a step of the users of a batch, or none.  What is  *)
(* proved of a batch in sequence mode then holds in a download, and the    *)
(* invariant of the batch is a part of that of the download.               *)
(***************************************************************************)
EXTENDS Download, RangesProofs

BP == INSTANCE BatchOperationProofs WITH CallbackInOrder <- TRUE

-----------------------------------------------------------------------------
(* The batch of a download and that of BatchOperationProofs are the same.   *)
LEMMA BatchConstants ==
    /\ TRUE \in BOOLEAN
    /\ Concurrency \in Nat \ {0}
    /\ SharedRequest \in {1, 2}
    /\ MaxOperations \in Nat
    BY DownloadAssumption DEF DownloadAssumption

LEMMA SameTypeOK ==
    /\ Batch!TypeOK <=> BP!TypeOK
    /\ Batch!TypeOK' <=> BP!TypeOK'
    BY Zenon DEF Batch!TypeOK, BP!TypeOK, Batch!OperationState, BP!OperationState,
       Batch!Frame, BP!Frame, Batch!Pcs, BP!Pcs

LEMMA SameSequenceInv ==
    /\ Batch!SequenceInv <=> BP!SequenceInv
    /\ Batch!SequenceInv' <=> BP!SequenceInv'
    BY Zenon DEF Batch!SequenceInv, BP!SequenceInv, Batch!StackInv, BP!StackInv,
       Batch!ProgressInv, BP!ProgressInv, Batch!CallbackInv, BP!CallbackInv,
       Batch!StackOK, BP!StackOK, Batch!CallOK, BP!CallOK, Batch!Suspended, BP!Suspended,
       Batch!FiredOneByOne, BP!FiredOneByOne, Batch!FiredInOrder, BP!FiredInOrder,
       Batch!InProgress, BP!InProgress, Batch!CallsOf, BP!CallsOf, Batch!Running, BP!Running,
       Batch!Top, BP!Top, Batch!Total, BP!Total

LEMMA SameStep == Batch!Step <=> BP!Step
<1> USE DEF Batch!Running, BP!Running, Batch!Top, BP!Top, Batch!Caller, BP!Caller,
            Batch!Call, BP!Call, Batch!batch, BP!batch
<1>1. /\ Batch!RunAfterError <=> BP!RunAfterError
      /\ Batch!RunRequest <=> BP!RunRequest
      /\ Batch!RunNoOperation <=> BP!RunNoOperation
    BY Zenon DEF Batch!RunAfterError, BP!RunAfterError, Batch!RunRequest, BP!RunRequest,
       Batch!RunNoOperation, BP!RunNoOperation
<1>2. Batch!Ran <=> BP!Ran
    BY Zenon DEF Batch!Ran, BP!Ran, Batch!IsWorkloadHeavy, BP!IsWorkloadHeavy
<1>3. Batch!BatchOperationCallback <=> BP!BatchOperationCallback
    BY Zenon DEF Batch!BatchOperationCallback, BP!BatchOperationCallback,
       Batch!SettleWith, BP!SettleWith, Batch!MayFireNow, BP!MayFireNow,
       Batch!Settling, BP!Settling
<1>4. /\ Batch!FireUserCallback <=> BP!FireUserCallback
      /\ Batch!FireWhilePaused <=> BP!FireWhilePaused
      /\ Batch!FireNothing <=> BP!FireNothing
    BY Zenon DEF Batch!FireUserCallback, BP!FireUserCallback,
       Batch!FireWhilePaused, BP!FireWhilePaused, Batch!FireNothing, BP!FireNothing,
       Batch!CallbackOperationIndex, BP!CallbackOperationIndex, Batch!MayFire, BP!MayFire
<1>5. Batch!UserCallbackReturns <=> BP!UserCallbackReturns
    BY Zenon DEF Batch!UserCallbackReturns, BP!UserCallbackReturns,
       Batch!RemoveOperation, BP!RemoveOperation, Batch!Splice, BP!Splice
<1>6. /\ Batch!EmitEnd <=> BP!EmitEnd
      /\ Batch!NotComplete <=> BP!NotComplete
    BY Zenon DEF Batch!EmitEnd, BP!EmitEnd, Batch!NotComplete, BP!NotComplete,
       Batch!Complete, BP!Complete
<1>7. /\ Batch!EmitDrain <=> BP!EmitDrain
      /\ Batch!NoDrain <=> BP!NoDrain
      /\ Batch!ListenerReturns <=> BP!ListenerReturns
    BY Zenon DEF Batch!EmitDrain, BP!EmitDrain, Batch!NoDrain, BP!NoDrain,
       Batch!ListenerReturns, BP!ListenerReturns, Batch!ShouldDrain, BP!ShouldDrain,
       Batch!IsWorkloadHeavy, BP!IsWorkloadHeavy
<1> QED
    BY <1>1, <1>2, <1>3, <1>4, <1>5, <1>6, <1>7, Zenon DEF Batch!Step, BP!Step

LEMMA SameNext == [Batch!Next]_(Batch!vars) <=> [BP!Next]_(BP!vars)
<1> USE DEF Batch!Running, BP!Running, Batch!Top, BP!Top, Batch!Idle, BP!Idle,
            Batch!Call, BP!Call, Batch!batch, BP!batch, Batch!Total, BP!Total
<1>1. Batch!UserAdds <=> BP!UserAdds
    BY Zenon DEF Batch!UserAdds, BP!UserAdds, Batch!AddOperation, BP!AddOperation,
       Batch!AddOperationAs, BP!AddOperationAs
<1>2. Batch!UserEnablesComplete <=> BP!UserEnablesComplete
    BY Zenon DEF Batch!UserEnablesComplete, BP!UserEnablesComplete,
       Batch!EnableComplete, BP!EnableComplete, Batch!InProgress, BP!InProgress,
       Batch!CallsOf, BP!CallsOf
<1>3. /\ Batch!UserPauses <=> BP!UserPauses
      /\ Batch!UserResumes <=> BP!UserResumes
    BY Zenon DEF Batch!UserPauses, BP!UserPauses, Batch!UserResumes, BP!UserResumes,
       Batch!Pause, BP!Pause, Batch!Resume, BP!Resume
<1>4. (\E i \in 1..Batch!Total, failed \in BOOLEAN : Batch!RequestDone(i, failed))
        <=> (\E i \in 1..BP!Total, failed \in BOOLEAN : BP!RequestDone(i, failed))
    BY Zenon DEF Batch!RequestDone, BP!RequestDone, Batch!RequestDoneIn, BP!RequestDoneIn
<1>5. Batch!vars = BP!vars /\ Batch!vars' = BP!vars'
    BY Zenon DEF Batch!vars, BP!vars
<1>6. Batch!Terminated <=> BP!Terminated
    BY <1>5, Zenon DEF Batch!Terminated, BP!Terminated, Batch!vars, BP!vars
<1> QED
    BY <1>1, <1>2, <1>3, <1>4, <1>5, <1>6, SameStep, Zenon DEF Batch!Next, BP!Next

(* The invariants of the batch are kept by its steps.                       *)
LEMMA BatchNext ==
    Batch!TypeOK /\ Batch!SequenceInv /\ [Batch!Next]_(Batch!vars)
        => Batch!TypeOK' /\ Batch!SequenceInv'
<1>1. BP!TypeOK /\ [BP!Next]_(BP!vars) => BP!TypeOK'
    BY BatchConstants, BP!TypeNext, Zenon
<1>2. BP!TypeOK /\ BP!SequenceInv /\ [BP!Next]_(BP!vars) => BP!SequenceInv'
    BY BatchConstants, BP!SequenceNext, Zenon
<1> QED
    BY <1>1, <1>2, SameTypeOK, SameSequenceInv, SameNext, Zenon

LEMMA BatchInit == Init => Batch!Init /\ Batch!TypeOK /\ Batch!SequenceInv
<1>1. Batch!Init <=> BP!Init
    BY Zenon DEF Batch!Init, BP!Init
<1>2. BP!Init => BP!TypeOK
    BY BatchConstants, BP!TypeInit, Zenon
<1>3. BP!Init => BP!SequenceInv
    BY BatchConstants, BP!SequenceInit, Zenon
<1>4. Init => Batch!Init
    BY DEF Init, Batch!Init
<1> QED
    BY <1>1, <1>2, <1>3, <1>4, SameTypeOK, SameSequenceInv, Zenon

LEMMA Popped ==
    ASSUME NEW S, NEW s \in Seq(S), s # <<>>
    PROVE  /\ Len(s) \in Nat \ {0}
           /\ s[Len(s)] \in S
           /\ SubSeq(s, 1, Len(s) - 1) \in Seq(S)
           /\ Len(SubSeq(s, 1, Len(s) - 1)) = Len(s) - 1
           /\ \A n \in 1..(Len(s) - 1) : SubSeq(s, 1, Len(s) - 1)[n] = s[n]
    BY BatchConstants, BP!PopCall, Zenon

LEMMA Pushed ==
    ASSUME NEW S, NEW s \in Seq(S), NEW f \in S
    PROVE  /\ Append(s, f) \in Seq(S)
           /\ Len(Append(s, f)) = Len(s) + 1
           /\ Append(s, f) # <<>>
           /\ \A n \in 1..Len(s) : Append(s, f)[n] = s[n]
           /\ Append(s, f)[Len(s) + 1] = f
    OBVIOUS

LEMMA Overwritten ==
    ASSUME NEW S, NEW s \in Seq(S), NEW i, NEW v \in S
    PROVE  /\ [s EXCEPT ![i] = v] \in Seq(S)
           /\ Len([s EXCEPT ![i] = v]) = Len(s)
           /\ \A n \in 1..Len(s) :
                 [s EXCEPT ![i] = v][n] = IF n = i THEN v ELSE s[n]
<1>1. CASE i \in 1..Len(s)
    BY <1>1, ExceptSeq
<1>2. CASE i \notin 1..Len(s)
    <2>1. s \in [1..Len(s) -> S]
        BY LenProperties
    <2>2. [s EXCEPT ![i] = v] = s
        BY <1>2, <2>1
    <2> QED
        BY <1>2, <2>2
<1> QED
    BY <1>1, <1>2
-----------------------------------------------------------------------------
(* The listing.  A maximal range of data from a byte on: up to the first    *)
(* one that is followed by none.                                            *)
RunEnd(S, i) == CHOOSE j \in S : j >= i /\ j + 1 \notin S /\ i..j \subseteq S
RunStarts(S) == {i \in S : i - 1 \notin S}

LEMMA RunEndExists ==
    ASSUME NEW last \in Int, NEW S \in SUBSET Nat, \A k \in S : k <= last, NEW i \in S
    PROVE  /\ RunEnd(S, i) \in S /\ RunEnd(S, i) >= i
           /\ RunEnd(S, i) + 1 \notin S /\ i..RunEnd(S, i) \subseteq S
<1> DEFINE T == {j \in Nat : j >= i /\ j + 1 \notin S}
<1>1. i \in Nat /\ last \in Nat /\ last + 1 \notin S /\ i <= last
    OBVIOUS
<1>2. T \subseteq Nat /\ last \in T
    BY <1>1
<1> HIDE DEF T
<1>3. PICK j \in T : \A k \in T : j <= k
    BY <1>2, LeastNumber
<1>4. j \in Nat /\ j >= i /\ j + 1 \notin S
    BY <1>3 DEF T
<1>5. ASSUME NEW k \in i..j PROVE k \in S
    <2>1. CASE k = i
        BY <2>1
    <2>2. CASE k # i
        <3>1. k - 1 \in Nat /\ k - 1 >= i /\ ~(j <= k - 1) /\ k - 1 + 1 = k
            BY <1>1, <1>4, <1>5, <2>2
        <3>2. k - 1 \notin T
            BY <1>3, <3>1
        <3> QED
            BY <3>1, <3>2 DEF T
    <2> QED
        BY <2>1, <2>2
<1>6. j \in S /\ i..j \subseteq S
    BY <1>1, <1>4, <1>5
<1>7. \E m \in S : m >= i /\ m + 1 \notin S /\ i..m \subseteq S
    BY <1>4, <1>6
<1> QED
    BY <1>7 DEF RunEnd

LEMMA RunStartExists ==
    ASSUME NEW S \in SUBSET Nat, NEW i \in S
    PROVE  \E k \in RunStarts(S) : k <= i /\ k..i \subseteq S
<1> DEFINE T == {k \in Nat : k <= i /\ k..i \subseteq S}
<1>1. i \in Nat /\ i \in T /\ T \subseteq Nat
    OBVIOUS
<1> HIDE DEF T
<1>2. PICK k \in T : \A m \in T : k <= m
    BY <1>1, LeastNumber
<1>3. k \in Nat /\ k <= i /\ k..i \subseteq S /\ k \in S
    BY <1>1, <1>2 DEF T
<1>4. k - 1 \notin S
    <2> SUFFICES ASSUME k - 1 \in S PROVE FALSE
        OBVIOUS
    <2>1. k - 1 \in Nat /\ k - 1 <= i
        BY <1>3
    <2>2. \A m \in (k - 1)..i : m = k - 1 \/ m \in k..i
        BY <1>1, <2>1
    <2>3. k - 1 \in T
        BY <1>3, <2>1, <2>2 DEF T
    <2> QED
        BY <1>2, <1>3, <2>3
<1> QED
    BY <1>3, <1>4 DEF RunStarts

(* DataRanges: in order, not touching each other, and every byte of data is *)
(* in one of them.                                                          *)
Runs(t, S, first, last, bytes) ==
    /\ t \in Seq(Found)
    /\ \A n \in 1..Len(t) :
          /\ t[n].data /\ t[n].start \in first..last /\ t[n].end \in first..last
          /\ t[n].start <= t[n].end
          /\ t[n].start..t[n].end \subseteq S
          /\ t[n].start - 1 \notin S /\ t[n].end + 1 \notin S
          /\ NoneIn(bytes, IF n = 1 THEN first ELSE t[n - 1].end + 1, t[n].start - 1)
          /\ n > 1 => t[n - 1].end < t[n].start
          /\ n = Len(t) => NoneIn(bytes, t[n].end + 1, last)
    /\ t = <<>> => NoneIn(bytes, first, last)

LEMMA DataRangesList ==
    ASSUME blob.bytes \subseteq Nat, NEW first \in Nat, NEW last \in Nat,
           NEW S, S = blob.bytes \cap (first..last),
           NEW t, t = DataRanges(first, last)
    PROVE  Runs(t, S, first, last, blob.bytes)
<1> DEFINE R == RunStarts(S)
           starts == Sorted(R)
<1>0. /\ last \in Int /\ first \in Int /\ S \in SUBSET Nat
      /\ \A k \in S : k \in first..last /\ k <= last
    OBVIOUS
<1>1. IsFiniteSet(R) /\ R \in SUBSET Int
    <2>1. IsFiniteSet(first..last)
        BY <1>0, FS_Interval
    <2>2. R \subseteq first..last
        BY DEF RunStarts
    <2>3. IsFiniteSet(R)
        BY <2>1, <2>2, FS_Subset
    <2> QED
        BY <2>2, <2>3
<1>2. t = [n \in 1..Len(starts) |-> Piece(starts[n], RunEnd(S, starts[n]), TRUE)]
    BY DEF DataRanges, RunStarts, RunEnd
<1> HIDE DEF starts, R
<1>3. /\ Len(starts) \in Nat
      /\ \A n \in 1..Len(starts) : starts[n] \in R
      /\ \A n \in 1..(Len(starts) - 1) :
            starts[n] < starts[n + 1] /\ \A i \in R : i <= starts[n] \/ starts[n + 1] <= i
      /\ R # {} => /\ Len(starts) >= 1
                   /\ \A i \in R : starts[1] <= i /\ i <= starts[Len(starts)]
      /\ R = {} => starts = <<>>
    BY <1>1, SortedNeighbours DEF starts
<1>4. ASSUME NEW n \in 1..Len(starts)
      PROVE  /\ starts[n] \in S /\ starts[n] - 1 \notin S
             /\ t[n].start = starts[n] /\ t[n].data = TRUE /\ t[n] \in Found
             /\ t[n].end \in S /\ t[n].end >= t[n].start
             /\ t[n].end + 1 \notin S /\ t[n].start..t[n].end \subseteq S
    <2>1. starts[n] \in S /\ starts[n] - 1 \notin S
        BY <1>3 DEF R, RunStarts
    <2>2. /\ RunEnd(S, starts[n]) \in S /\ RunEnd(S, starts[n]) >= starts[n]
          /\ RunEnd(S, starts[n]) + 1 \notin S /\ starts[n]..RunEnd(S, starts[n]) \subseteq S
        BY <1>0, <2>1, RunEndExists
    <2>3. t[n] = Piece(starts[n], RunEnd(S, starts[n]), TRUE)
        BY <1>2
    <2>4. t[n].start = starts[n] /\ t[n].data = TRUE /\ t[n].end = RunEnd(S, starts[n])
        BY <2>3 DEF Piece
    <2>5. t[n] \in Found
        BY <1>0, <2>1, <2>2, <2>3 DEF Piece, Found
    <2> QED
        BY <2>1, <2>2, <2>4, <2>5, Zenon
<1>5. Len(t) = Len(starts) /\ t \in Seq(Found)
    <2>1. t \in [1..Len(starts) -> Found]
        BY <1>2, <1>4
    <2> QED
        BY <1>3, <2>1, SeqDef, LenProperties
<1>6. ASSUME NEW i \in S
      PROVE  \E k \in R : k <= i /\ k..i \subseteq S
    BY <1>0, RunStartExists DEF R
<1>7. ASSUME NEW n \in 1..Len(starts), n > 1
      PROVE  /\ t[n - 1].end < t[n].start
             /\ NoneIn(blob.bytes, t[n - 1].end + 1, t[n].start - 1)
    <2>1. /\ n - 1 \in 1..Len(starts) /\ n - 1 \in 1..(Len(starts) - 1) /\ n - 1 + 1 = n
          /\ starts[n - 1] < starts[n] /\ \A i \in R : i <= starts[n - 1] \/ starts[n] <= i
        BY <1>3, <1>7
    <2> DEFINE a == t[n - 1].start
               b == t[n - 1].end
               c == t[n].start
    <2>2. /\ a \in Nat /\ b \in Nat /\ c \in Nat /\ a < c /\ a <= b
          /\ a..b \subseteq S /\ b + 1 \notin S /\ c - 1 \notin S /\ c \in S
          /\ \A i \in R : i <= a \/ c <= i
        BY <1>0, <1>4, <2>1
    <2> HIDE DEF a, b, c
    <2>3. first <= a /\ c <= last
        <3>1. a \in S /\ c \in S
            BY <2>2
        <3> QED
            BY <1>0, <3>1
    <2>4. b < c
        <3> SUFFICES ASSUME c <= b PROVE FALSE
            BY <2>2
        <3>1. c - 1 \in a..b
            BY <2>2
        <3> QED
            BY <2>2, <3>1
    <2>5. ASSUME NEW i \in (b + 1)..(c - 1), i \in blob.bytes PROVE FALSE
        <3>1. i \in S
            BY <2>2, <2>3, <2>5
        <3>2. PICK k \in R : k <= i /\ k..i \subseteq S
            BY <1>6, <3>1
        <3>3. k \in Nat
            BY <1>0, <3>2 DEF R, RunStarts
        <3>4. k <= a
            BY <2>2, <2>5, <3>2, <3>3
        <3>5. b + 1 \in k..i
            BY <2>2, <2>5, <3>3, <3>4
        <3> QED
            BY <2>2, <3>2, <3>5
    <2> QED
        BY <2>4, <2>5 DEF NoneIn, a, b, c
<1>8. ASSUME 1 \in 1..Len(starts) PROVE NoneIn(blob.bytes, first, t[1].start - 1)
    <2>1. t[1].start = starts[1] /\ starts[1] \in Nat /\ starts[1] \in first..last
        BY <1>0, <1>4, <1>8
    <2>2. ASSUME NEW i \in first..(t[1].start - 1), i \in blob.bytes PROVE FALSE
        <3>1. i \in S /\ i \in Nat
            BY <2>1, <2>2
        <3>2. PICK k \in R : k <= i
            BY <1>6, <3>1
        <3>3. k \in Nat /\ starts[1] <= k
            BY <1>0, <1>3, <3>2 DEF R, RunStarts
        <3> QED
            BY <2>1, <2>2, <3>1, <3>2, <3>3
    <2> QED
        BY <2>2 DEF NoneIn
<1>9. ASSUME NEW n \in 1..Len(starts), n = Len(starts)
      PROVE  NoneIn(blob.bytes, t[n].end + 1, last)
    <2> DEFINE a == t[n].start
               b == t[n].end
    <2>1. /\ a \in Nat /\ b \in Nat /\ b + 1 \notin S /\ a <= b /\ first <= b
          /\ \A i \in R : i <= a
        <3>1. starts[n] \in R
            BY <1>3
        <3>2. \A i \in R : i <= starts[n]
            BY <1>3, <1>9, <3>1
        <3>3. a = starts[n] /\ b \in S /\ a \in S /\ a <= b /\ b + 1 \notin S
            BY <1>4
        <3> HIDE DEF a, b
        <3>4. a \in Nat /\ b \in Nat /\ first <= b
            BY <1>0, <3>3
        <3> QED
            BY <3>2, <3>3, <3>4
    <2> HIDE DEF a, b
    <2>2. ASSUME NEW i \in (b + 1)..last, i \in blob.bytes PROVE FALSE
        <3>1. i \in S /\ i \in Nat
            BY <2>1, <2>2
        <3>2. PICK k \in R : k <= i /\ k..i \subseteq S
            BY <1>6, <3>1
        <3>3. k \in Nat /\ k <= a
            BY <1>0, <2>1, <3>2 DEF R, RunStarts
        <3>4. b + 1 \in k..i
            BY <2>1, <2>2, <3>1, <3>3
        <3> QED
            BY <2>1, <3>2, <3>4
    <2> QED
        BY <2>2 DEF NoneIn, b
<1>10. ASSUME t = <<>> PROVE NoneIn(blob.bytes, first, last)
    <2>1. R = {}
        BY <1>3, <1>5, <1>10, EmptySeq
    <2>2. S = {}
        BY <1>6, <2>1
    <2> QED
        BY <2>2 DEF NoneIn
<1>11. ASSUME NEW n \in 1..Len(t)
       PROVE  t[n].start \in first..last /\ t[n].end \in first..last
    BY <1>0, <1>4, <1>5, <1>11
<1>12. ASSUME NEW n \in 1..Len(t)
       PROVE  /\ NoneIn(blob.bytes, IF n = 1 THEN first ELSE t[n - 1].end + 1, t[n].start - 1)
              /\ n > 1 => t[n - 1].end < t[n].start
    <2>1. n \in 1..Len(starts) /\ Len(starts) \in Nat
        BY <1>3, <1>5
    <2>2. CASE n = 1
        BY <1>8, <2>1, <2>2
    <2>3. CASE n > 1
        BY <1>7, <2>1, <2>3
    <2> QED
        BY <2>1, <2>2, <2>3
<1>13. \A n \in 1..Len(t) : n = Len(t) => NoneIn(blob.bytes, t[n].end + 1, last)
    BY <1>5, <1>9
<1>14. \A n \in 1..Len(t) :
          /\ t[n].data /\ t[n].start <= t[n].end
          /\ t[n].start..t[n].end \subseteq S
          /\ t[n].start - 1 \notin S /\ t[n].end + 1 \notin S
    BY <1>4, <1>5
<1> QED
    BY <1>5, <1>10, <1>11, <1>12, <1>13, <1>14, Zenon DEF Runs
(* What is known of a blob.                                                 *)
LEMMA BlobFacts ==
    ASSUME blob \in Blobs
    PROVE  /\ blob.from \in Nat /\ blob.size \in Nat \ {0} /\ blob.to \in Nat \ {0}
           /\ blob.kind \in {"page", "file", "append", "block"} /\ blob.listFails \in BOOLEAN
           /\ blob.bytes \subseteq Nat /\ blob.cuts \subseteq Nat \ {0}
           /\ \A i \in blob.bytes \cup blob.cuts : i < blob.size
           /\ LastOffset \in Nat /\ blob.from <= LastOffset
           /\ LastOffset <= blob.to /\ LastOffset <= blob.size - 1
           /\ LastOffset = blob.to \/ LastOffset = blob.size - 1
<1>1. blob \in Blob /\ blob.from < blob.size /\ blob.from <= blob.to
    BY DownloadAssumption DEF DownloadAssumption
<1>2. \A i \in blob.bytes \cup blob.cuts : i < blob.size
    BY DownloadAssumption DEF DownloadAssumption
<1>3. /\ blob.from \in Nat /\ blob.size \in Nat /\ blob.to \in Nat \ {0}
      /\ blob.kind \in {"page", "file", "append", "block"} /\ blob.listFails \in BOOLEAN
      /\ blob.bytes \subseteq Nat /\ blob.cuts \subseteq Nat \ {0}
    BY <1>1 DEF Blob
<1>4. /\ LastOffset \in Nat /\ blob.from <= LastOffset
      /\ LastOffset <= blob.to /\ LastOffset <= blob.size - 1
      /\ LastOffset = blob.to \/ LastOffset = blob.size - 1
    BY <1>1, <1>3 DEF LastOffset, Smaller
<1> QED
    BY <1>1, <1>2, <1>3, <1>4

(* A range that begins and ends with the same byte is the last of a listing *)
(* only where data begins or ends there, or the listing itself begins.      *)
SingleByte(first, last) ==
    first = last \/ ~(last \in blob.bytes <=> last - 1 \in blob.bytes)

(* What the service lists, completed, is a listing as ResizeSaves supposes. *)
LEMMA PaddedListing ==
    ASSUME blob \in Blobs, NEW first \in Nat, first = startOffset, NEW last \in Nat,
           first <= last, blob.kind = "append" => last = LastOffset,
           NEW found, found = Padded(Listed(last), last)
    PROVE  /\ Listing(found, first, last, blob.bytes)
           /\ found[Len(found)].start = last =>
                 IF blob.kind = "append" THEN first = last ELSE SingleByte(first, last)
<1>0. blob.bytes \subseteq Nat /\ first \in Int /\ last \in Int
    BY BlobFacts
<1>1. CASE blob.kind = "append"
    <2> DEFINE p == Piece(first, last, TRUE)
    <2>1. /\ p \in Found /\ p.start = first /\ p.end = last /\ p.data = TRUE
          /\ <<p>> \in Seq(Found) /\ Len(<<p>>) = 1 /\ <<p>>[1] = p /\ <<p>> # <<>>
        BY DEF Piece, Found
    <2> HIDE DEF p
    <2>2. Listed(last) = <<p>>
        BY <1>1 DEF Listed, p
    <2>3. found = <<p>>
        BY <2>1, <2>2 DEF Padded
    <2>4. NoneIn(blob.bytes, first - 1 + 1, first - 1)
        BY <1>0 DEF NoneIn
    <2> QED
        BY <1>0, <1>1, <2>1, <2>3, <2>4 DEF Listing
<1>2. CASE blob.kind # "append"
    <2> DEFINE S == blob.bytes \cap (first..last)
               t == DataRanges(first, last)
               N == Len(t)
    <2>1. Listed(last) = t
        BY <1>2 DEF Listed
    <2>s. S = blob.bytes \cap (first..last) /\ t = DataRanges(first, last)
        OBVIOUS
    <2> HIDE DEF S, t
    <2>2. Runs(t, S, first, last, blob.bytes)
        BY <1>0, <2>s, DataRangesList
    <2>3. N \in Nat /\ (t = <<>> <=> N = 0) /\ \A n \in 1..N : t[n] \in Found
        BY <2>2, LenProperties, EmptySeq, ElementOfSeq DEF Runs
    <2> DEFINE Before(f, n) == IF n = 1 THEN first - 1 ELSE f[n - 1].end
               Fits(f, n) == /\ Before(f, n) < f[n].start /\ f[n].start <= f[n].end
                             /\ NoneIn(blob.bytes, Before(f, n) + 1, f[n].start - 1)
                             /\ f[n].data \/ NoneIn(blob.bytes, f[n].start, f[n].end)
    <2>4. ASSUME NEW n \in 1..N PROVE Fits(t, n)
        <3>1. /\ t[n].start \in first..last /\ t[n].data /\ t[n].start <= t[n].end
              /\ NoneIn(blob.bytes, IF n = 1 THEN first ELSE t[n - 1].end + 1, t[n].start - 1)
              /\ n > 1 => t[n - 1].end < t[n].start
            BY <2>2 DEF Runs
        <3>2. CASE n = 1
            <4>1. first - 1 + 1 = first /\ first - 1 < t[n].start
                BY <1>0, <3>1
            <4> QED
                BY <3>1, <3>2, <4>1
        <3>3. CASE n # 1
            <4>1. n > 1
                BY <2>3, <3>3
            <4> QED
                BY <3>1, <3>3, <4>1
        <3> QED
            BY <3>2, <3>3
    <2>5. CASE t # <<>> /\ t[N].end = last
        <3>1. found = t
            BY <2>1, <2>2, <2>5 DEF Padded, Runs
        <3>2. Listing(t, first, last, blob.bytes)
            BY <2>2, <2>4, <2>5, Zenon DEF Listing, Runs
        <3>3. ASSUME t[N].start = last PROVE SingleByte(first, last)
            <4>1. N \in 1..N
                BY <2>3, <2>5
            <4>2. /\ t[N].start..t[N].end \subseteq S /\ t[N].start - 1 \notin S
                  /\ last \in last..last
                BY <1>0, <2>2, <4>1 DEF Runs
            <4>3. last..last \subseteq S /\ last - 1 \notin S
                <5> HIDE DEF N
                <5> QED
                    BY <2>5, <3>3, <4>2, Zenon
            <4> QED
                BY <1>0, <2>s, <4>2, <4>3 DEF SingleByte
        <3> QED
            BY <1>2, <3>1, <3>2, <3>3
    <2>6. CASE t = <<>> \/ t[N].end # last
        <3> DEFINE next == IF t = <<>> THEN first ELSE t[N].end + 1
                   p == Piece(next, last, FALSE)
        <3>1. t # <<>> => N \in 1..N /\ t[N].end \in first..last
            BY <2>2, <2>3 DEF Runs
        <3>2. /\ next \in first..last /\ NoneIn(blob.bytes, next, last)
              /\ t # <<>> => next # last + 1
            BY <1>0, <2>2, <2>3, <2>6, <3>1 DEF Runs
        <3>3. found = Append(t, p)
            BY <2>1, <3>2 DEF Padded
        <3>4. p \in Found /\ p.start = next /\ p.end = last /\ p.data = FALSE
            BY <3>2 DEF Piece, Found
        <3>5. next - 1 = IF N = 0 THEN first - 1 ELSE t[N].end
            BY <1>0, <2>3, <3>1
        <3> HIDE DEF p, next
        <3>6. /\ found \in Seq(Found) /\ found # <<>> /\ Len(found) = N + 1
              /\ \A n \in 1..N : found[n] = t[n]
              /\ found[N + 1] = p
            BY <2>2, <3>3, <3>4, AppendProperties DEF Runs
        <3>7. ASSUME NEW n \in 1..(N + 1) PROVE Fits(found, n)
            <4>1. CASE n \in 1..N
                <5>1. found[n] = t[n] /\ (n # 1 => found[n - 1] = t[n - 1])
                    BY <2>3, <3>6, <4>1
                <5> QED
                    BY <2>4, <4>1, <5>1
            <4>2. CASE n = N + 1
                <5>1. Before(found, n) = next - 1
                    BY <2>3, <3>5, <3>6, <4>2
                <5>2. /\ next - 1 < next /\ next <= last
                      /\ NoneIn(blob.bytes, next - 1 + 1, next - 1) /\ next - 1 \in Int
                    BY <1>0, <3>2 DEF NoneIn
                <5> QED
                    BY <3>2, <3>4, <3>6, <4>2, <5>1, <5>2
            <4> QED
                BY <2>3, <4>1, <4>2
        <3>8. Listing(found, first, last, blob.bytes)
            BY <3>4, <3>6, <3>7, Zenon DEF Listing
        <3>9. ASSUME found[Len(found)].start = last PROVE SingleByte(first, last)
            <4>1. next = last
                BY <3>4, <3>6, <3>9
            <4>2. CASE t = <<>>
                BY <4>1, <4>2 DEF SingleByte, next
            <4>3. CASE t # <<>>
                <5>1. t[N].end = last - 1 /\ N \in 1..N /\ t[N].start <= last - 1
                    BY <1>0, <2>2, <3>1, <4>1, <4>3 DEF next, Runs
                <5>2. last - 1 \in S /\ last \notin S
                    BY <1>0, <2>2, <5>1 DEF Runs
                <5> QED
                    BY <1>0, <2>s, <5>2 DEF SingleByte
            <4> QED
                BY <4>2, <4>3
        <3> QED
            BY <1>2, <3>8, <3>9
    <2> QED
        BY <2>5, <2>6
<1> QED
    BY <1>1, <1>2
(* The blocks of a block blob follow each other; those that are emitted,    *)
(* clipped, are a partition of what was asked for.                          *)
Clipped == [n \in 1..Len(Blocks) |-> Clip(Blocks[n])]

BlockEnds == {i - 1 : i \in blob.cuts} \cup {blob.size - 1}
BlockEnd(i) == CHOOSE j \in BlockEnds : j >= i /\ \A k \in BlockEnds : k >= i => j <= k
BlockStarts == {i \in {0} \cup blob.cuts : i <= blob.to /\ BlockEnd(i) >= blob.from}

LEMMA BlockEndExists ==
    ASSUME blob \in Blobs, NEW i \in {0} \cup blob.cuts
    PROVE  /\ BlockEnd(i) \in BlockEnds /\ BlockEnd(i) \in Nat /\ BlockEnd(i) >= i
           /\ \A k \in BlockEnds : k >= i => BlockEnd(i) <= k
<1> DEFINE T == {j \in BlockEnds : j >= i}
<1>1. /\ i \in Nat /\ i <= blob.size - 1 /\ blob.size - 1 \in Nat
      /\ \A j \in BlockEnds : j \in Nat
    BY BlobFacts DEF BlockEnds
<1>2. T \subseteq Nat /\ blob.size - 1 \in T
    BY <1>1 DEF BlockEnds
<1> HIDE DEF T
<1>3. PICK j \in T : \A k \in T : j <= k
    BY <1>2, LeastNumber
<1>4. \E m \in BlockEnds : m >= i /\ \A k \in BlockEnds : k >= i => m <= k
    BY <1>3 DEF T
<1>5. BlockEnd(i) \in BlockEnds /\ BlockEnd(i) >= i
      /\ \A k \in BlockEnds : k >= i => BlockEnd(i) <= k
    BY <1>4 DEF BlockEnd
<1> QED
    BY <1>1, <1>5

(* A block ends where the next one begins, or with the blob.                *)
LEMMA BlockNext ==
    ASSUME blob \in Blobs, NEW i \in BlockStarts, BlockEnd(i) < LastOffset
    PROVE  BlockEnd(i) + 1 \in BlockStarts
<1> DEFINE e == BlockEnd(i)
<1>1. /\ i \in {0} \cup blob.cuts /\ i <= blob.to /\ e >= blob.from
      /\ e \in Nat /\ e \in BlockEnds
    BY BlockEndExists DEF BlockStarts
<1>2. /\ blob.size \in Nat /\ blob.to \in Nat /\ LastOffset \in Nat /\ blob.from \in Nat
      /\ LastOffset <= blob.to /\ LastOffset <= blob.size - 1 /\ blob.cuts \subseteq Nat
    BY BlobFacts
<1>3. e + 1 \in blob.cuts /\ e + 1 <= blob.to
    BY <1>1, <1>2 DEF BlockEnds
<1>4. BlockEnd(e + 1) \in Nat /\ BlockEnd(e + 1) >= e + 1
    BY <1>3, BlockEndExists
<1> QED
    BY <1>1, <1>2, <1>3, <1>4 DEF BlockStarts

(* The block that holds the first byte that is asked for.                   *)
LEMMA FirstBlock ==
    ASSUME blob \in Blobs
    PROVE  \E i \in BlockStarts : i <= blob.from
<1> DEFINE T == {j \in BlockEnds : j >= blob.from}
<1>1. /\ blob.from \in Nat /\ blob.from <= blob.to /\ blob.from <= blob.size - 1
      /\ blob.size - 1 \in Nat /\ blob.to \in Nat
      /\ blob.cuts \subseteq Nat \ {0}
      /\ \A j \in BlockEnds : j \in Nat
    BY BlobFacts DEF BlockEnds
<1> DEFINE U == {m \in Nat : blob.from - m \in {0} \cup blob.cuts}
<1>2. U \subseteq Nat /\ blob.from \in U
    BY <1>1
<1> HIDE DEF U
<1>3. PICK m \in U : \A k \in U : m <= k
    BY <1>2, LeastNumber
<1> DEFINE i == blob.from - m
<1>4. m \in Nat /\ i \in {0} \cup blob.cuts /\ i <= blob.from
    BY <1>1, <1>3 DEF U
<1>5. BlockEnd(i) \in BlockEnds /\ BlockEnd(i) \in Nat /\ BlockEnd(i) >= i
    BY <1>4, BlockEndExists
<1>6. BlockEnd(i) >= blob.from
    <2> SUFFICES ASSUME BlockEnd(i) < blob.from PROVE FALSE
        BY <1>1, <1>5
    <2> DEFINE k == BlockEnd(i) + 1
    <2>1. k \in blob.cuts /\ k > i /\ k <= blob.from
        BY <1>1, <1>4, <1>5 DEF BlockEnds
    <2>2. blob.from - k \in Nat /\ blob.from - (blob.from - k) = k /\ blob.from - k < m
        BY <1>1, <1>4, <1>5, <2>1
    <2>3. blob.from - k \in U
        BY <2>1, <2>2 DEF U
    <2> QED
        BY <1>3, <1>4, <2>2, <2>3
<1> QED
    BY <1>1, <1>4, <1>6 DEF BlockStarts

LEMMA BlocksSaved ==
    ASSUME blob \in Blobs
    PROVE  /\ Clipped \in Seq(ByteRange)
           /\ Partition(Clipped, blob.from, LastOffset)
           /\ \A n \in 1..Len(Clipped) : Clipped[n].data
<1> DEFINE t == Sorted(BlockStarts)
           c == Clipped
           N == Len(t)
<1>1. /\ blob.from \in Nat /\ blob.to \in Nat /\ LastOffset \in Nat /\ blob.size \in Nat
      /\ blob.from <= LastOffset /\ LastOffset <= blob.to /\ LastOffset <= blob.size - 1
      /\ LastOffset = blob.to \/ LastOffset = blob.size - 1
      /\ \A i \in {0} \cup blob.cuts : i \in Nat /\ i < blob.size
      /\ blob.cuts \subseteq Nat
    BY BlobFacts
<1>2. BlockStarts \in SUBSET Int /\ IsFiniteSet(BlockStarts)
    <2>1. BlockStarts \subseteq 0..(blob.size - 1) /\ blob.size - 1 \in Int /\ 0 \in Int
        BY <1>1 DEF BlockStarts
    <2>2. IsFiniteSet(0..(blob.size - 1))
        BY <2>1, FS_Interval
    <2>3. IsFiniteSet(BlockStarts)
        BY <2>1, <2>2, FS_Subset
    <2> QED
        BY <2>1, <2>3
<1>3. \A i \in BlockStarts :
          /\ i \in Nat /\ i <= blob.to /\ i \in {0} \cup blob.cuts
          /\ BlockEnd(i) \in Nat /\ BlockEnd(i) >= i /\ BlockEnd(i) >= blob.from
          /\ \A k \in BlockEnds : k >= i => BlockEnd(i) <= k
    BY <1>1, BlockEndExists DEF BlockStarts
<1>4. /\ N \in Nat
      /\ \A n \in 1..N : t[n] \in BlockStarts
      /\ \A n \in 1..(N - 1) :
            t[n] < t[n + 1] /\ \A i \in BlockStarts : i <= t[n] \/ t[n + 1] <= i
      /\ BlockStarts # {} => /\ N >= 1
                             /\ \A i \in BlockStarts : t[1] <= i /\ i <= t[N]
    BY <1>2, SortedNeighbours
<1>5. Blocks = [n \in 1..N |-> Piece(t[n], BlockEnd(t[n]), TRUE)]
    BY DEF Blocks, BlockStarts, BlockEnd, BlockEnds
<1> HIDE DEF t, N
<1>6. Len(Blocks) = N
    BY <1>4, <1>5
<1>7. c = [n \in 1..N |-> Clip(Piece(t[n], BlockEnd(t[n]), TRUE))]
    BY <1>5, <1>6 DEF Clipped
<1> HIDE DEF c
<1>8. ASSUME NEW n \in 1..N
      PROVE  /\ c[n] \in ByteRange
             /\ c[n].start = Larger(t[n], blob.from)
             /\ c[n].end = Smaller(BlockEnd(t[n]), blob.to) /\ c[n].data
    <2>1. c[n] = Piece(Larger(t[n], blob.from), Smaller(BlockEnd(t[n]), blob.to), TRUE)
        BY <1>7 DEF Clip, Piece
    <2>2. /\ Larger(t[n], blob.from) \in Nat
          /\ Smaller(BlockEnd(t[n]), blob.to) \in Int
        BY <1>1, <1>3, <1>4 DEF Larger, Smaller
    <2> QED
        BY <2>1, <2>2 DEF Piece, ByteRange
<1>9. c \in Seq(ByteRange) /\ Len(c) = N
    <2>1. c \in [1..N -> ByteRange]
        BY <1>7, <1>8
    <2> QED
        BY <1>4, <2>1, SeqDef, LenProperties
<1>10. N >= 1 /\ \A i \in BlockStarts : t[1] <= i /\ i <= t[N]
    BY <1>4, FirstBlock
<1>11. ASSUME NEW n \in 1..N
       PROVE  /\ c[n].start = IF n = 1 THEN blob.from ELSE c[n - 1].end + 1
              /\ c[n].end >= c[n].start
    <2>1. /\ t[n] \in Nat /\ t[n] <= blob.to /\ BlockEnd(t[n]) \in Nat
          /\ BlockEnd(t[n]) >= t[n] /\ BlockEnd(t[n]) >= blob.from
        BY <1>3, <1>4
    <2>2. c[n].end >= c[n].start
        BY <1>1, <1>8, <2>1 DEF Larger, Smaller
    <2>3. CASE n = 1
        <3>1. t[1] <= blob.from
            <4>1. PICK i \in BlockStarts : i <= blob.from
                BY FirstBlock
            <4>2. t[1] <= i /\ i \in Nat
                BY <1>3, <1>10
            <4> QED
                BY <1>1, <2>1, <2>3, <4>1, <4>2
        <3>2. c[n].start = blob.from
            BY <1>1, <1>8, <2>1, <2>3, <3>1 DEF Larger
        <3> QED
            BY <2>2, <2>3, <3>2
    <2>4. CASE n # 1
        <3> DEFINE m == n - 1
                   e == BlockEnd(t[m])
        <3>1. /\ m \in 1..N /\ m \in 1..(N - 1) /\ m + 1 = n
            BY <1>4, <2>4
        <3>2. /\ t[m] \in BlockStarts /\ t[m] \in Nat /\ t[m] < t[n]
              /\ e \in Nat /\ e >= t[m] /\ e >= blob.from
              /\ \A i \in BlockStarts : i <= t[m] \/ t[n] <= i
              /\ \A k \in BlockEnds : k >= t[m] => e <= k
            BY <1>3, <1>4, <3>1
        <3>3. t[n] \in blob.cuts /\ t[n] <= blob.size - 1
            BY <1>1, <1>3, <1>4, <3>2
        <3>4. t[n] - 1 \in BlockEnds
            BY <3>3 DEF BlockEnds
        <3> HIDE DEF e, m
        <3>5. e <= t[n] - 1
            BY <2>1, <3>2, <3>4
        <3>6. e + 1 = t[n]
            <4> SUFFICES ASSUME e + 1 < t[n] PROVE FALSE
                BY <2>1, <3>2, <3>5
            <4>1. e < LastOffset
                BY <1>1, <2>1, <3>2, <3>3
            <4>2. e + 1 \in BlockStarts
                BY <3>2, <4>1, BlockNext DEF e
            <4> QED
                BY <2>1, <3>2, <4>2
        <3>7. c[m].end = e /\ c[n].start = e + 1
            BY <1>1, <1>8, <2>1, <3>1, <3>2, <3>6 DEF Larger, Smaller, e
        <3> QED
            BY <2>2, <2>4, <3>7 DEF m
    <2> QED
        BY <2>3, <2>4
<1>12. c[N].end = LastOffset
    <2>1. N \in 1..N /\ t[N] \in BlockStarts
        BY <1>4, <1>10
    <2> DEFINE e == BlockEnd(t[N])
    <2>2. /\ t[N] \in Nat /\ e \in Nat /\ e >= t[N]
          /\ \A k \in BlockEnds : k >= t[N] => e <= k
        BY <1>3, <2>1
    <2> HIDE DEF e
    <2>3. e >= LastOffset
        <3> SUFFICES ASSUME e < LastOffset PROVE FALSE
            BY <1>1, <2>2
        <3>1. e + 1 \in BlockStarts
            BY <2>1, BlockNext DEF e
        <3> QED
            BY <1>10, <2>2, <3>1
    <2>4. e <= blob.size - 1
        <3>1. blob.size - 1 \in BlockEnds /\ blob.size - 1 >= t[N]
            BY <1>1, <1>3, <2>1 DEF BlockEnds
        <3> QED
            BY <2>2, <3>1
    <2>5. Smaller(e, blob.to) = LastOffset
        BY <1>1, <2>2, <2>3, <2>4 DEF Smaller
    <2> QED
        BY <1>8, <2>1, <2>5 DEF e
<1>13. Partition(c, blob.from, LastOffset)
    <2>1. c # <<>>
        BY <1>9, <1>10, EmptySeq
    <2> QED
        BY <1>9, <1>11, <1>12, <2>1 DEF Partition
<1> QED
    BY <1>8, <1>9, <1>13 DEF c
-----------------------------------------------------------------------------
(* The types.  In addition to TypeOK: the ranges that are listed are those  *)
(* of byte offsets, the next page is asked for where the last one ended,    *)
(* and before the blocks are listed nothing has happened.                   *)
ListTypes ==
    /\ ranges \in Seq(ByteRange) /\ assigned \in Seq(ByteRange)
    /\ listing = "asked" /\ blob.kind # "block" =>
          startOffset = dataOffset /\ startOffset <= LastOffset
    /\ listedAll => listing = "done"

UnlistedBlocks ==
    blob.kind = "block" /\ listing = "asked" =>
        /\ stack = <<>> /\ emitting = None /\ ~emittedAll
        /\ Total = 0 /\ ranges = <<>> /\ ~full

BatchInv == Batch!TypeOK /\ Batch!SequenceInv
TypeInv == TypeOK /\ ListTypes

(* The innermost call.                                                      *)
LEMMA TopFacts ==
    ASSUME BatchInv, stack # <<>>
    PROVE  /\ Len(stack) \in Nat \ {0} /\ Batch!Top = stack[Len(stack)]
           /\ Batch!Top.op \in Nat /\ Batch!Top.pc \in Batch!Pcs
           /\ Batch!Caller \in Seq(Batch!Frame) /\ Len(Batch!Caller) = Len(stack) - 1
           /\ \A n \in 1..(Len(stack) - 1) :
                 Batch!Caller[n] = stack[n] /\ stack[n].pc \in Batch!Suspended
           /\ Batch!CallOK(Batch!Top, status, current)
<1>1. stack \in Seq(Batch!Frame)
    BY DEF BatchInv, Batch!TypeOK
<1>2. /\ Len(stack) \in Nat \ {0}
      /\ stack[Len(stack)] \in Batch!Frame
      /\ SubSeq(stack, 1, Len(stack) - 1) \in Seq(Batch!Frame)
      /\ Len(SubSeq(stack, 1, Len(stack) - 1)) = Len(stack) - 1
      /\ \A n \in 1..(Len(stack) - 1) :
            SubSeq(stack, 1, Len(stack) - 1)[n] = stack[n]
    BY <1>1, Popped
<1>3. /\ \A n \in 1..Len(stack) : Batch!CallOK(stack[n], status, current)
      /\ \A n \in 1..(Len(stack) - 1) : stack[n].pc \in Batch!Suspended
    BY DEF BatchInv, Batch!SequenceInv, Batch!StackInv, Batch!StackOK
<1> QED
    BY <1>2, <1>3 DEF Batch!Top, Batch!Caller, Batch!Frame

(* Steps of the batch add no operation.                                     *)
LEMMA StepKeepsTotal ==
    ASSUME Batch!TypeOK, Batch!Step
    PROVE  Total' = Total
<1>1. ASSUME NEW i, NEW v \in Batch!OperationState
      PROVE  Len([status EXCEPT ![i] = v]) = Len(status)
    <2>1. status \in Seq(Batch!OperationState)
        BY DEF Batch!TypeOK
    <2> QED
        BY <2>1, Overwritten
<1>2. CASE UNCHANGED status
    BY <1>2 DEF Total
<1>3. CASE \E i, v : v \in Batch!OperationState /\ status' = [status EXCEPT ![i] = v]
    BY <1>1, <1>3 DEF Total
<1>4. UNCHANGED status \/ \E i, v : v \in Batch!OperationState /\ status' = [status EXCEPT ![i] = v]
    <2>1. CASE Batch!RunRequest \/ Batch!RunNoOperation
        BY <2>1 DEF Batch!RunRequest, Batch!RunNoOperation, Batch!OperationState
    <2>2. CASE Batch!BatchOperationCallback
        BY <2>2 DEF Batch!BatchOperationCallback, Batch!SettleWith, Batch!OperationState
    <2>3. CASE Batch!UserCallbackReturns
        BY <2>3 DEF Batch!UserCallbackReturns, Batch!RemoveOperation, Batch!OperationState
    <2> QED
        BY <2>1, <2>2, <2>3 DEF Batch!Step, Batch!RunAfterError, Batch!Ran,
           Batch!FireUserCallback, Batch!FireWhilePaused, Batch!FireNothing, Batch!EmitEnd,
           Batch!NotComplete, Batch!EmitDrain, Batch!NoDrain, Batch!ListenerReturns, Batch!batch
<1> QED
    BY <1>2, <1>3, <1>4

(* The steps of a download that are steps of its batch.                     *)
BatchActions == BatchRuns \/ RanPausing \/ BatchSteps \/ Drain \/ End

LEMMA BatchActionsAreSteps == BatchActions => Batch!Step
    BY DEF BatchActions, BatchRuns, RunOperation, RanPausing, RanFor, BatchSteps, Drain, DrainTo,
       End, EndWith, Batch!Step

LEMMA TypeInit == Init => TypeInv /\ UnlistedBlocks
<1> SUFFICES ASSUME Init PROVE TypeInv /\ UnlistedBlocks
    OBVIOUS
<1>1. /\ blob \in Blobs /\ startOffset = blob.from /\ dataOffset = blob.from
      /\ ranges = <<>> /\ ~listedAll /\ listing = "asked" /\ index = 0
      /\ assigned = <<>> /\ failures = {} /\ answers = <<>> /\ status = <<>>
      /\ halted = FALSE /\ emittedAll = FALSE /\ emitting = None /\ handled = FALSE
      /\ full = FALSE /\ closed = FALSE /\ closing = 0 /\ stack = <<>> /\ listedAll = FALSE
    BY DEF Init
<1>2. blob.from \in Nat /\ blob.from <= LastOffset
    BY <1>1, BlobFacts
<1>3. Len(<<>>) = 0 /\ <<>> \in Seq(ByteRange)
    BY EmptySeq
<1>4. TypeOK
    <2>1. /\ index \in 0..Len(ranges) /\ Len(assigned) = Total
          /\ Len(ranges) = 0 /\ Len(answers) = 0
        BY <1>1, <1>3 DEF Total
    <2>2. /\ \A n \in 1..Len(ranges) :
                ranges[n].start \in Nat /\ ranges[n].end \in Nat /\ ranges[n].data \in BOOLEAN
          /\ \A n \in 1..Len(answers) : answers[n] \in {"success", "error"}
        BY <2>1
    <2>3. /\ startOffset \in Nat /\ dataOffset \in Nat
          /\ halted \in BOOLEAN /\ emittedAll \in BOOLEAN /\ listedAll \in BOOLEAN
          /\ listing \in {"asked", "done", "failed", "thrown"}
          /\ emitting \in Nat \cup {None}
          /\ failures \subseteq 1..Total
          /\ handled \in BOOLEAN /\ full \in BOOLEAN /\ closed \in BOOLEAN
          /\ closing \in Nat
        BY <1>1, <1>2
    <2> QED
        BY <1>1, <2>1, <2>2, <2>3, Zenon DEF TypeOK
<1>5. ListTypes /\ UnlistedBlocks
    BY <1>1, <1>2, <1>3 DEF ListTypes, UnlistedBlocks, Total
<1> QED
    BY <1>4, <1>5 DEF TypeInv
(* A page of a listing: where it ends, and what is saved of it.             *)
LEMMA ListPage ==
    ASSUME blob \in Blobs, startOffset \in Nat, startOffset <= LastOffset,
           NEW last, last = Smaller(ListEnd, LastOffset)
    PROVE  /\ last \in Nat /\ startOffset <= last /\ last <= LastOffset /\ ListEnd \in Int
           /\ ListEnd >= LastOffset => last = LastOffset
           /\ ListEnd < LastOffset => last = ListEnd /\ last = startOffset + ListSize - 1
           /\ blob.kind = "append" => last = LastOffset
           /\ blob.kind # "append" => last = Smaller(startOffset + ListSize - 1, LastOffset)
<1>1. /\ blob.to \in Nat /\ LastOffset \in Nat /\ LastOffset <= blob.to
    BY BlobFacts
<1>2. ListSize \in Nat \ {0}
    BY DownloadAssumption DEF DownloadAssumption
<1> QED
    BY <1>1, <1>2 DEF ListEnd, Smaller

Page(last) == Padded(Listed(last), last)

LEMMA PageSaved ==
    ASSUME blob \in Blobs, startOffset \in Nat, startOffset <= LastOffset,
           NEW last, last = Smaller(ListEnd, LastOffset),
           NEW found, found = Page(last)
    PROVE  /\ found \in Seq(Found) /\ found # <<>> /\ found[Len(found)].end = last
           /\ \/ Saved(Resize(found, startOffset, startOffset), startOffset, last, blob.bytes)
              \/ /\ Saved(Resize(found, startOffset, startOffset), startOffset, last - 1,
                          blob.bytes)
                 /\ IF blob.kind = "append" THEN startOffset = last
                    ELSE SingleByte(startOffset, last)
<1>1. /\ last \in Nat /\ startOffset <= last
      /\ blob.kind = "append" => last = LastOffset
    BY ListPage
<1>2. /\ Listing(found, startOffset, last, blob.bytes)
      /\ found[Len(found)].start = last =>
            IF blob.kind = "append" THEN startOffset = last ELSE SingleByte(startOffset, last)
    BY <1>1, PaddedListing DEF Page
<1>3. found \in Seq(Found) /\ found # <<>> /\ found[Len(found)].end = last
    BY <1>2 DEF Listing
<1>4. \/ Saved(Resize(found, startOffset, startOffset), startOffset, last, blob.bytes)
      \/ /\ Saved(Resize(found, startOffset, startOffset), startOffset, last - 1, blob.bytes)
         /\ found[Len(found)].start = last
    BY <1>1, <1>2, ResizeSaves
<1> QED
    BY <1>2, <1>3, <1>4, Zenon

(* What the answer of the service changes.                                  *)
LEMMA ListAnswersFacts ==
    ASSUME BatchInv, TypeInv, ListAnswers
    PROVE  \E new \in Seq(ByteRange), last \in Nat :
              /\ ranges' = ranges \o new
              /\ last = Smaller(ListEnd, LastOffset)
              /\ startOffset <= last /\ last <= LastOffset
              /\ \/ Saved(new, startOffset, last, blob.bytes)
                 \/ /\ Saved(new, startOffset, last - 1, blob.bytes)
                    /\ IF blob.kind = "append" THEN startOffset = last
                       ELSE SingleByte(startOffset, last)
              /\ dataOffset' = last + 1 /\ startOffset' \in Nat
              /\ listedAll' \in BOOLEAN /\ listing' = IF listedAll' THEN "done" ELSE "asked"
              /\ listedAll' => last = LastOffset
              /\ ~listedAll' => last < LastOffset /\ startOffset' = last + 1
<1>1. /\ blob \in Blobs /\ startOffset \in Nat /\ startOffset <= LastOffset
      /\ startOffset = dataOffset
    BY DEF TypeInv, TypeOK, ListTypes, ListAnswers
<1> DEFINE last == Smaller(ListEnd, LastOffset)
           found == Page(last)
           new == Resize(found, startOffset, startOffset)
<1>2. /\ last \in Nat /\ startOffset <= last /\ last <= LastOffset /\ ListEnd \in Int
      /\ ListEnd >= LastOffset => last = LastOffset
      /\ ListEnd < LastOffset => last = ListEnd /\ last = startOffset + ListSize - 1
    BY <1>1, ListPage
<1>3. /\ found[Len(found)].end = last
      /\ \/ Saved(new, startOffset, last, blob.bytes)
         \/ /\ Saved(new, startOffset, last - 1, blob.bytes)
            /\ IF blob.kind = "append" THEN startOffset = last
               ELSE SingleByte(startOffset, last)
    BY <1>1, PageSaved
<1>4. /\ ranges' = ranges \o Resize(found, startOffset, dataOffset)
      /\ dataOffset' = found[Len(found)].end + 1
      /\ startOffset' = startOffset + ListSize
      /\ listedAll' = (ListEnd >= LastOffset)
      /\ listing' = IF listedAll' THEN "done" ELSE "asked"
    BY DEF ListAnswers, Page
<1>5. ListSize \in Nat \ {0} /\ LastOffset \in Nat
    BY <1>1, BlobFacts, DownloadAssumption DEF DownloadAssumption
<1> HIDE DEF last, found
<1>6. new \in Seq(ByteRange)
    BY <1>3 DEF Saved
<1>7. ranges' = ranges \o new /\ dataOffset' = last + 1
    BY <1>1, <1>3, <1>4
<1> HIDE DEF new
<1>8. /\ startOffset' \in Nat /\ listedAll' \in BOOLEAN
      /\ listedAll' => last = LastOffset
      /\ ~listedAll' => last < LastOffset /\ startOffset' = last + 1
    <2>1. ListEnd >= LastOffset \/ ListEnd < LastOffset
        BY <1>2, <1>5
    <2>2. CASE ListEnd >= LastOffset
        <3>1. listedAll' = TRUE
            BY <1>4, <2>2, Zenon
        <3> QED
            BY <1>1, <1>2, <1>4, <1>5, <2>2, <3>1
    <2>3. CASE ListEnd < LastOffset
        <3>1. ~(ListEnd >= LastOffset)
            BY <1>2, <1>5, <2>3
        <3>2. (ListEnd >= LastOffset) = FALSE
            BY <3>1
        <3>3. listedAll' = FALSE
            BY <1>4, <3>2, Zenon
        <3> QED
            BY <1>1, <1>2, <1>4, <1>5, <2>3, <3>3
    <2> QED
        BY <2>1, <2>2, <2>3
<1>9. last = Smaller(ListEnd, LastOffset)
    BY DEF last
<1> QED
    BY <1>2, <1>3, <1>4, <1>6, <1>7, <1>8, <1>9
(* The steps that list no ranges keep what is known of those.               *)
LEMMA SameRanges ==
    ASSUME TypeInv, UNCHANGED <<blob, startOffset, dataOffset, ranges, listedAll, listing>>
    PROVE  /\ (blob \in Blobs /\ startOffset \in Nat /\ dataOffset \in Nat)'
           /\ (\A n \in 1..Len(ranges) : /\ ranges[n].start \in Nat /\ ranges[n].end \in Nat
                                         /\ ranges[n].data \in BOOLEAN)'
           /\ (listedAll \in BOOLEAN /\ listing \in {"asked", "done", "failed", "thrown"})'
           /\ (ranges \in Seq(ByteRange) /\ (listedAll => listing = "done"))'
           /\ (listing = "asked" /\ blob.kind # "block" =>
                  startOffset = dataOffset /\ startOffset <= LastOffset)'
    BY DEF TypeInv, TypeOK, ListTypes, LastOffset, Smaller

LEMMA TypeBatchActions ==
    ASSUME BatchInv, TypeInv, BatchActions
    PROVE  TypeInv'
<1>1. /\ UNCHANGED <<blob, listVars, index, emittedAll, assigned, output, full>>
      /\ Total' = Total /\ stack # <<>>
    <2>1. Total' = Total
        BY BatchActionsAreSteps, StepKeepsTotal DEF BatchInv
    <2>2. Batch!Step
        BY BatchActionsAreSteps
    <2>3. stack # <<>>
        BY <2>2 DEF Batch!Step, Batch!RunAfterError, Batch!RunRequest, Batch!RunNoOperation,
           Batch!Ran, Batch!BatchOperationCallback, Batch!SettleWith, Batch!Settling,
           Batch!FireUserCallback, Batch!FireWhilePaused, Batch!FireNothing,
           Batch!UserCallbackReturns, Batch!RemoveOperation, Batch!EmitEnd, Batch!NotComplete,
           Batch!EmitDrain, Batch!NoDrain, Batch!ListenerReturns, Batch!Running
    <2>4. UNCHANGED <<blob, listVars, index, emittedAll, assigned, output, full>>
        BY DEF BatchActions, BatchRuns, BatchSteps, RanPausing, RanFor, Drain, DrainTo, End,
           EndWith, Others, emitVars, outputVars
    <2> QED
        BY <2>1, <2>3, <2>4
<1>2. failures' \subseteq 1..Total
    <2>1. failures \subseteq 1..Total
        BY DEF TypeInv, TypeOK
    <2>2. CASE BatchRuns
        <3>1. failures' = failures \/ (failures' = failures \cup {Batch!Top.op} /\ Batch!Top.pc = "run")
            BY <2>2 DEF BatchRuns, RunOperation, Batch!RunAfterError, Batch!Running
        <3>2. Batch!Top.pc = "run" => Batch!Top.op \in 1..Total
            BY <1>1, TopFacts DEF Batch!CallOK, Total
        <3> QED
            BY <2>1, <3>1, <3>2
    <2> QED
        BY <2>1, <2>2 DEF BatchActions, BatchSteps, RanPausing, RanFor, Drain, DrainTo, End, EndWith
<1>3. /\ emitting' \in Nat \cup {None} /\ halted' \in BOOLEAN /\ handled' \in BOOLEAN
      /\ closing' \in Nat /\ closed' \in BOOLEAN
      /\ \A n \in 1..Len(answers') : answers'[n] \in {"success", "error"}
    <2>1. /\ emitting \in Nat \cup {None} /\ halted \in BOOLEAN /\ handled \in BOOLEAN
          /\ closing \in Nat /\ closed \in BOOLEAN
          /\ \A n \in 1..Len(answers) : answers[n] \in {"success", "error"}
        BY DEF TypeInv, TypeOK
    <2>2. CASE BatchRuns \/ BatchSteps
        BY <2>1, <2>2 DEF BatchRuns, BatchSteps, Others, emitVars, outputVars
    <2>3. CASE RanPausing
        <3>1. halted' \in BOOLEAN
            BY <2>1, <2>3, Zenon DEF RanPausing, RanFor
        <3> QED
            BY <2>1, <2>3, <3>1 DEF RanPausing, RanFor, outputVars
    <2>4. CASE Drain
        <3>1. emitting' = emitting \/ emitting' = Len(stack')
            BY <2>4 DEF Drain, DrainTo
        <3>2. Len(stack') \in Nat
            <4>1. Batch!EmitDrain
                BY <2>4 DEF Drain, DrainTo
            <4>2. stack' = Append(Batch!Caller, Batch!Call("onDrain", 0))
                BY <4>1 DEF Batch!EmitDrain
            <4>3. Len(Append(Batch!Caller, Batch!Call("onDrain", 0))) = Len(Batch!Caller) + 1
                BY <1>1, TopFacts
            <4> QED
                BY <1>1, <4>2, <4>3, TopFacts
        <3> QED
            BY <2>1, <2>4, <3>1, <3>2 DEF Drain, DrainTo, outputVars
    <2>5. CASE End
        <3>1. /\ UNCHANGED <<emitting, halted, handled>>
              /\ closed' = (closed \/ ~error) /\ closing' = closing + IF ~error THEN 1 ELSE 0
              /\ answers' = answers \/ answers' = Append(answers, "error")
            BY <2>5 DEF End, EndWith, emitVars, Answer
        <3>2. answers' = answers \/ answers' = Append(answers, "error")
            BY <3>1
        <3>3. closed' \in BOOLEAN
            BY <3>1, Zenon
        <3> QED
            BY <2>1, <3>1, <3>3
    <2> QED
        BY <2>2, <2>3, <2>4, <2>5 DEF BatchActions
<1> QED
    BY <1>1, <1>2, <1>3, SameRanges DEF TypeInv, TypeOK, ListTypes, listVars
LEMMA TypeListAnswers ==
    ASSUME BatchInv, TypeInv, ListAnswers
    PROVE  TypeInv'
<1>1. PICK new \in Seq(ByteRange), last \in Nat :
          /\ ranges' = ranges \o new
          /\ startOffset <= last /\ last <= LastOffset
          /\ Saved(new, startOffset, last, blob.bytes) \/ Saved(new, startOffset, last - 1, blob.bytes)
          /\ dataOffset' = last + 1 /\ startOffset' \in Nat
          /\ listedAll' \in BOOLEAN /\ listing' = IF listedAll' THEN "done" ELSE "asked"
          /\ ~listedAll' => last < LastOffset /\ startOffset' = last + 1
    BY ListAnswersFacts
<1>2. /\ UNCHANGED <<status, blob, index, halted, emittedAll, assigned, failures, handled, outputVars>>
      /\ emitting' = None \/ emitting' = 0
    BY DEF ListAnswers, batchVars
<1>3. /\ ranges \in Seq(ByteRange) /\ Len(ranges) \in Nat /\ Len(new) \in Nat
      /\ ranges' \in Seq(ByteRange) /\ Len(ranges') = Len(ranges) + Len(new)
      /\ \A n \in 1..Len(ranges) : ranges'[n] = ranges[n]
      /\ \A n \in 1..Len(new) : ranges'[Len(ranges) + n] = new[n]
    BY <1>1, ConcatProperties, LenProperties DEF TypeInv, ListTypes
<1>4. ASSUME NEW n \in 1..Len(new)
      PROVE  new[n].start \in Nat /\ new[n].end \in Nat /\ new[n].data \in BOOLEAN
    <2>1. new[n] \in ByteRange
        BY ElementOfSeq
    <2>2. new[n].end >= new[n].start
        BY <1>1 DEF Saved, Partition
    <2> QED
        BY <2>1, <2>2 DEF ByteRange
<1>5. ASSUME NEW n \in 1..Len(ranges')
      PROVE  ranges'[n].start \in Nat /\ ranges'[n].end \in Nat /\ ranges'[n].data \in BOOLEAN
    <2>1. CASE n \in 1..Len(ranges)
        BY <1>3, <2>1 DEF TypeInv, TypeOK
    <2>2. CASE n \notin 1..Len(ranges)
        <3>1. n - Len(ranges) \in 1..Len(new) /\ Len(ranges) + (n - Len(ranges)) = n
            BY <1>3, <2>2
        <3>2. ranges'[n] = new[n - Len(ranges)]
            BY <1>3, <3>1
        <3> QED
            BY <1>4, <3>1, <3>2
    <2> QED
        BY <2>1, <2>2
<1>6. ListTypes'
    <2>1. LastOffset' = LastOffset /\ LastOffset \in Nat
        BY <1>2, BlobFacts DEF LastOffset, Smaller, TypeInv, TypeOK
    <2>2. listing' = "asked" => ~listedAll'
        BY <1>1
    <2>3. listing' = "asked" => startOffset' = dataOffset' /\ startOffset' <= LastOffset'
        BY <1>1, <2>1, <2>2
    <2>4. listedAll' => listing' = "done"
        BY <1>1
    <2>5. assigned' \in Seq(ByteRange)
        BY <1>2 DEF TypeInv, ListTypes
    <2> QED
        BY <1>3, <2>3, <2>4, <2>5 DEF ListTypes
<1>7. TypeOK'
    <2>1. dataOffset' \in Nat /\ index' \in 0..Len(ranges')
        BY <1>1, <1>2, <1>3 DEF TypeInv, TypeOK
    <2>2. listing' \in {"asked", "done", "failed", "thrown"} /\ emitting' \in Nat \cup {None}
        BY <1>1, <1>2
    <2>3. /\ blob' \in Blobs /\ halted' \in BOOLEAN /\ emittedAll' \in BOOLEAN
          /\ Len(assigned') = Total' /\ failures' \subseteq 1..Total' /\ handled' \in BOOLEAN
          /\ full' \in BOOLEAN /\ closed' \in BOOLEAN /\ closing' \in Nat
          /\ \A n \in 1..Len(answers') : answers'[n] \in {"success", "error"}
        BY <1>2 DEF TypeInv, TypeOK, Total, outputVars
    <2> QED
        BY <1>1, <1>5, <2>1, <2>2, <2>3 DEF TypeOK
<1> QED
    BY <1>6, <1>7 DEF TypeInv

LEMMA TypeBlocksAnswer ==
    ASSUME BatchInv, TypeInv, UnlistedBlocks, BlocksAnswer
    PROVE  TypeInv'
<1>1. /\ UNCHANGED <<status, blob, startOffset, dataOffset, index, halted, emittedAll, assigned,
                     failures, handled, outputVars>>
      /\ ranges' = Clipped /\ listedAll' = TRUE /\ listing' = "done" /\ emitting' = 0
    BY DEF BlocksAnswer, batchVars, Clipped
<1>2. /\ Clipped \in Seq(ByteRange) /\ Partition(Clipped, blob.from, LastOffset)
    BY BlocksSaved DEF TypeInv, TypeOK
<1>3. ASSUME NEW n \in 1..Len(ranges')
      PROVE  ranges'[n].start \in Nat /\ ranges'[n].end \in Nat /\ ranges'[n].data \in BOOLEAN
    <2>1. ranges'[n] \in ByteRange
        BY <1>1, <1>2, ElementOfSeq
    <2>2. ranges'[n].end >= ranges'[n].start
        BY <1>1, <1>2 DEF Partition
    <2> QED
        BY <2>1, <2>2 DEF ByteRange
<1>4. index' \in 0..Len(ranges')
    <2>1. ranges = <<>> /\ Len(<<>>) = 0
        BY DEF BlocksAnswer, UnlistedBlocks
    <2>2. index = 0
        BY <2>1 DEF TypeInv, TypeOK
    <2> QED
        BY <1>1, <1>2, <2>2, LenProperties
<1>5. ListTypes'
    BY <1>1, <1>2 DEF TypeInv, ListTypes
<1>6. TypeOK'
    BY <1>1, <1>3, <1>4 DEF TypeInv, TypeOK, Total, outputVars
<1> QED
    BY <1>5, <1>6 DEF TypeInv

LEMMA TypeEmitRange ==
    ASSUME BatchInv, TypeInv, EmitRange
    PROVE  TypeInv' /\ Total' = Total + 1 /\ assigned' = Append(assigned, ranges[index + 1])
<1>1. /\ UNCHANGED <<blob, startOffset, dataOffset, ranges, listedAll, listing, halted, emittedAll,
                     emitting, failures, handled, outputVars>>
      /\ index' = index + 1 /\ index < Len(ranges)
      /\ assigned' = Append(assigned, ranges[index + 1])
      /\ status' = Append(status, "queued")
    BY DEF EmitRange, EmitRangeBy, Batch!AddOperation, Batch!AddOperationAs, listVars
<1>2. Total' = Total + 1 /\ Total \in Nat
    <2>1. status \in Seq(Batch!OperationState) /\ "queued" \in Batch!OperationState
        BY DEF BatchInv, Batch!TypeOK, Batch!OperationState
    <2> QED
        BY <1>1, <2>1, Pushed, LenProperties DEF Total
<1>3. ranges[index + 1] \in ByteRange /\ index' \in 0..Len(ranges')
    <2>1. /\ ranges \in Seq(ByteRange) /\ Len(ranges) \in Nat /\ index \in 0..Len(ranges)
        BY LenProperties DEF TypeInv, TypeOK, ListTypes
    <2>2. index + 1 \in 1..Len(ranges)
        BY <1>1, <2>1
    <2> QED
        BY <1>1, <2>1, <2>2, ElementOfSeq
<1>4. assigned' \in Seq(ByteRange) /\ Len(assigned') = Total'
    <2>1. assigned \in Seq(ByteRange) /\ Len(assigned) = Total
        BY DEF TypeInv, TypeOK, ListTypes
    <2> QED
        BY <1>1, <1>2, <1>3, <2>1, Pushed
<1>5. failures' \subseteq 1..Total'
    BY <1>1, <1>2 DEF TypeInv, TypeOK
<1>6. TypeOK'
    BY <1>1, <1>3, <1>4, <1>5, SameRanges DEF TypeInv, TypeOK, outputVars
<1>7. ListTypes'
    BY <1>1, <1>4, SameRanges DEF ListTypes
<1> QED
    BY <1>1, <1>2, <1>6, <1>7 DEF TypeInv

LEMMA TypeOthers ==
    ASSUME BatchInv, TypeInv,
           \/ EmissionStops \/ EmissionEnds
           \/ UserCallbackWrites \/ UserCallbackStops \/ UserCallbackIgnores
           \/ OutputDrains \/ OutputEnds
           \/ \E i \in 1..Total, failed \in BOOLEAN : RequestDone(i, failed)
    PROVE  TypeInv'
<1>1. UNCHANGED <<status, blob, listVars, index, assigned>>
    BY DEF EmissionStops, EmissionEnds, UserCallbackWrites, UserCallbackStops, UserCallbackIgnores,
       OutputDrains, OutputEnds, RequestDone, Batch!EnableComplete, Batch!Pause, Batch!Resume,
       Batch!RequestDone, Batch!RequestDoneIn, Batch!batch, batchVars, Others, emitVars
<1>2. /\ emitting' = emitting \/ emitting' = None
      /\ halted' = halted \/ halted' = TRUE
      /\ emittedAll' = emittedAll \/ emittedAll' = TRUE
      /\ handled' = handled \/ handled' = TRUE
      /\ full' = full \/ full' \in BOOLEAN
      /\ closed' = closed
      /\ closing' = closing \/ (closing > 0 /\ closing' = closing - 1)
      /\ answers' = answers \/ answers' = Append(answers, "success")
      /\ failures' = failures \/ \E i \in 1..Total : failures' = failures \cup {i}
    BY DEF EmissionStops, EmissionEnds, UserCallbackWrites, UserCallbackStops, UserCallbackIgnores,
       OutputDrains, OutputEnds, RequestDone, Others, emitVars, outputVars, Answer
<1>3. /\ emitting \in Nat \cup {None} /\ halted \in BOOLEAN /\ handled \in BOOLEAN
      /\ closing \in Nat /\ closed \in BOOLEAN /\ full \in BOOLEAN /\ emittedAll \in BOOLEAN
      /\ failures \subseteq 1..Total
      /\ \A n \in 1..Len(answers) : answers[n] \in {"success", "error"}
    BY DEF TypeInv, TypeOK
<1>4. /\ emitting' \in Nat \cup {None} /\ halted' \in BOOLEAN /\ handled' \in BOOLEAN
      /\ closing' \in Nat /\ closed' \in BOOLEAN /\ full' \in BOOLEAN /\ emittedAll' \in BOOLEAN
      /\ failures' \subseteq 1..Total
      /\ \A n \in 1..Len(answers') : answers'[n] \in {"success", "error"}
    <2>1. \A n \in 1..Len(answers') : answers'[n] \in {"success", "error"}
        BY <1>2, <1>3
    <2>2. failures' \subseteq 1..Total
        BY <1>2, <1>3
    <2>3. closing' \in Nat
        BY <1>2, <1>3
    <2>4. /\ emitting' \in Nat \cup {None} /\ halted' \in BOOLEAN /\ handled' \in BOOLEAN
          /\ closed' \in BOOLEAN /\ full' \in BOOLEAN /\ emittedAll' \in BOOLEAN
        BY <1>2, <1>3
    <2> QED
        BY <2>1, <2>2, <2>3, <2>4
<1>5. Total' = Total
    BY <1>1 DEF Total
<1> QED
    BY <1>1, <1>4, <1>5, SameRanges DEF TypeInv, TypeOK, ListTypes, listVars

LEMMA TypeListFails ==
    ASSUME BatchInv, TypeInv, ListFails
    PROVE  TypeInv'
<1>1. /\ UNCHANGED <<status, blob, startOffset, dataOffset, ranges, listedAll, emitVars, assigned,
                     failures, handled, output, full, closed, closing>>
      /\ listing = "asked" /\ listing' \in {"failed", "thrown"}
      /\ answers' = answers \/ answers' = Append(answers, "error")
    BY DEF ListFails, batchVars, Answer
<1>2. \A n \in 1..Len(answers') : answers'[n] \in {"success", "error"}
    <2>1. \A n \in 1..Len(answers) : answers[n] \in {"success", "error"}
        BY DEF TypeInv, TypeOK
    <2> QED
        BY <1>1, <2>1
<1> QED
    BY <1>1, <1>2 DEF TypeInv, TypeOK, ListTypes, Total, emitVars
(* Without calls in progress, emission or operations hardly anything can    *)
(* happen.                                                                  *)
LEMMA UnlistedNext ==
    ASSUME BatchInv, UnlistedBlocks, [Next]_vars
    PROVE  UnlistedBlocks'
<1> SUFFICES ASSUME (blob.kind = "block" /\ listing = "asked")'
             PROVE  (/\ stack = <<>> /\ emitting = None /\ ~emittedAll
                     /\ Total = 0 /\ ranges = <<>> /\ ~full)'
    BY DEF UnlistedBlocks
<1>1. blob' = blob
    BY DEF Next, Internal, External, Stopped, vars, EmitRange, EmitRangeBy, EmissionStops,
       EmissionEnds, BatchRuns, RanPausing, RanFor, BatchSteps, Drain, DrainTo,
       UserCallbackWrites, UserCallbackStops, UserCallbackIgnores, End, EndWith, Others,
       ListAnswers, BlocksAnswer, ListFails, OutputDrains, OutputEnds, RequestDone
<1>2. blob.kind = "block" /\ ~ListAnswers /\ ~BlocksAnswer /\ ~ListFails
    BY <1>1 DEF ListAnswers, BlocksAnswer, ListFails
<1>3. listing = "asked"
    BY <1>2 DEF Next, Internal, External, Stopped, vars, EmitRange, EmitRangeBy, EmissionStops,
       EmissionEnds, BatchRuns, RanPausing, RanFor, BatchSteps, Drain, DrainTo,
       UserCallbackWrites, UserCallbackStops, UserCallbackIgnores, End, EndWith, Others,
       OutputDrains, OutputEnds, RequestDone, listVars
<1>4. /\ stack = <<>> /\ emitting = None /\ ~emittedAll
      /\ Total = 0 /\ ranges = <<>> /\ ~full
    BY <1>2, <1>3 DEF UnlistedBlocks
<1>5. ~Emitting /\ \A pc : ~Batch!Running(pc)
    BY <1>4, EmptySeq DEF Emitting, None, Batch!Running
<1>6. ~Batch!Step
    BY <1>4 DEF Batch!Step, Batch!RunAfterError, Batch!RunRequest, Batch!RunNoOperation,
       Batch!Ran, Batch!BatchOperationCallback, Batch!SettleWith, Batch!Settling,
       Batch!FireUserCallback, Batch!FireWhilePaused, Batch!FireNothing,
       Batch!UserCallbackReturns, Batch!RemoveOperation, Batch!EmitEnd, Batch!NotComplete,
       Batch!EmitDrain, Batch!NoDrain, Batch!ListenerReturns, Batch!Running
<1>7. ~BatchActions
    BY <1>6, BatchActionsAreSteps
<1>8. OutputEnds \/ UNCHANGED vars
    BY <1>2, <1>4, <1>5, <1>7 DEF Next, Internal, External, Stopped, BatchActions, EmitRange,
       EmitRangeBy, EmissionStops, EmissionEnds, UserCallbackWrites, UserCallbackStops,
       UserCallbackIgnores, OutputDrains
<1> QED
    BY <1>4, <1>8 DEF OutputEnds, vars, batchVars, emitVars, listVars, outputVars, Total

LEMMA TypeNext ==
    ASSUME BatchInv, TypeInv, UnlistedBlocks, [Next]_vars
    PROVE  TypeInv'
<1>1. CASE BatchActions
    BY <1>1, TypeBatchActions
<1>2. CASE ListAnswers
    BY <1>2, TypeListAnswers
<1>3. CASE BlocksAnswer
    BY <1>3, TypeBlocksAnswer
<1>4. CASE EmitRange
    BY <1>4, TypeEmitRange
<1>5. CASE ListFails
    BY <1>5, TypeListFails
<1>6. CASE \/ EmissionStops \/ EmissionEnds
           \/ UserCallbackWrites \/ UserCallbackStops \/ UserCallbackIgnores
           \/ OutputDrains \/ OutputEnds
           \/ \E i \in 1..Total, failed \in BOOLEAN : RequestDone(i, failed)
    BY <1>6, TypeOthers
<1>7. CASE UNCHANGED vars
    BY <1>7, SameRanges DEF vars, batchVars, emitVars, listVars, outputVars, TypeInv, TypeOK,
       ListTypes, Total
<1> QED
    BY <1>1, <1>2, <1>3, <1>4, <1>5, <1>6, <1>7
       DEF Next, Internal, External, Stopped, BatchActions
-----------------------------------------------------------------------------
(* The emission.  While the range stream emits, it was called from the      *)
(* event loop or a 'drain' listener; what it has called is about the last   *)
(* operation; operations are added by it alone, one at a time; and it has   *)
(* not been stopped, because a failed read before the last operation would  *)
(* have stopped it.                                                         *)
CalledByEmission(f) ==
    /\ f.pc \in {"run", "ran", "succeed", "fail", "userCallback"} => f.op = Total
    /\ f.pc = "fire" => IF f.op = 0 THEN current = Total + 1 ELSE f.op = Total
    /\ f.op \in failures => \E i \in failures : i < f.op /\ Reads(i)

Adding(n) == stack[n].pc \in {"run", "ran"}

EmissionInv ==
    /\ emitting # None =>
          /\ emitting \in 0..Len(stack) /\ ~emittedAll
          /\ emitting > 0 => stack[emitting].pc = "onDrain"
          /\ \A n \in 1..Len(stack) : n > emitting => CalledByEmission(stack[n])
    /\ emittedAll = completing
    /\ \A n \in 1..Len(stack) : Adding(n) => emitting # None /\ n > emitting
    /\ \A m, n \in 1..Len(stack) : Adding(m) /\ Adding(n) => m = n

(* The failures.  An operation has failed when its callback is being called *)
(* with an error, or the batch knows of one; the first was that of a read;  *)
(* and once the user callback of a read that failed is over, the range      *)
(* stream has been stopped.  An operation without a read is never waiting   *)
(* for an answer.                                                           *)
FailureInv ==
    /\ error => \E i \in failures : Reads(i)
    /\ \A i \in failures :
          /\ Reads(i) /\ i < current => emittedAll
          /\ IF status[i] \in {"queued", "running"}
             THEN Batch!Running("fail") /\ Batch!Top.op = i ELSE error
    /\ Batch!Running("fail") =>
          Batch!Top.op \in failures /\ (Reads(Batch!Top.op) \/ error)
    /\ handled => Batch!InProgress("userCallback") # {}
    /\ handled /\ current \in failures /\ Reads(current) => emittedAll
    /\ \A i \in 1..Total :
          status[i] = "running" /\ ~Reads(i) => Batch!Running("succeed") /\ Batch!Top.op = i

(* While a call that the emission does not wait for runs, the emission, if  *)
(* there is one, is further down.                                           *)
LEMMA EmissionBelow ==
    ASSUME BatchInv, EmissionInv, emitting # None, stack # <<>>,
           ~Emitting \/ Batch!Top.pc # "onDrain"
    PROVE  /\ emitting \in 0..(Len(stack) - 1) /\ Len(stack) > emitting
           /\ CalledByEmission(Batch!Top)
<1>1. Len(stack) \in Nat \ {0} /\ Batch!Top = stack[Len(stack)]
    BY TopFacts
<1>2. emitting \in 0..Len(stack) /\ (emitting > 0 => stack[emitting].pc = "onDrain")
    BY DEF EmissionInv
<1>3. emitting # Len(stack)
    BY <1>1, <1>2 DEF Emitting
<1>4. emitting \in 0..(Len(stack) - 1) /\ Len(stack) > emitting /\ Len(stack) \in 1..Len(stack)
    BY <1>1, <1>2, <1>3
<1>5. CalledByEmission(stack[Len(stack)])
    BY <1>4 DEF EmissionInv
<1> QED
    BY <1>1, <1>4, <1>5

LEMMA NotAdding ==
    ASSUME BatchInv, EmissionInv, emitting = None \/ Emitting
    PROVE  /\ \A n \in 1..Len(stack) : ~Adding(n)
           /\ Batch!InProgress("ran") = {} /\ Batch!InProgress("run") = {}
<1>1. ASSUME NEW n \in 1..Len(stack), Adding(n) PROVE FALSE
    <2>1. emitting # None /\ n > emitting
        BY <1>1 DEF EmissionInv
    <2>2. emitting = Len(stack) /\ Len(stack) \in Nat
        BY <2>1, LenProperties DEF Emitting, BatchInv, Batch!TypeOK
    <2> QED
        BY <2>1, <2>2
<1> QED
    BY <1>1 DEF Adding, Batch!InProgress, Batch!CallsOf

(* The user callback of a read that failed runs outside of the emission.    *)
LEMMA FailedOutsideEmission ==
    ASSUME BatchInv, EmissionInv, FailureInv, Batch!Running("userCallback"),
           Batch!Top.op \in failures
    PROVE  emitting = None
<1> SUFFICES ASSUME emitting # None PROVE FALSE
    OBVIOUS
<1>1. stack # <<>> /\ Batch!Top.pc = "userCallback"
    BY DEF Batch!Running
<1>2. CalledByEmission(Batch!Top) /\ ~emittedAll
    BY <1>1, EmissionBelow DEF EmissionInv
<1>3. Batch!Top.op = current
    BY <1>1, TopFacts DEF Batch!CallOK
<1>4. PICK i \in failures : i < current /\ Reads(i)
    BY <1>2, <1>3 DEF CalledByEmission
<1> QED
    BY <1>2, <1>4 DEF FailureInv

(* Every step of a download is one of its batch and its users, or none.     *)
LEMMA StepIsBatchStep ==
    ASSUME BatchInv, TypeInv, EmissionInv, FailureInv, [Next]_vars
    PROVE  [Batch!Next]_(Batch!vars)
<1>1. CASE BatchActions
    BY <1>1, BatchActionsAreSteps DEF Batch!Next
<1>2. CASE \E i \in 1..Total, failed \in BOOLEAN : RequestDone(i, failed)
    BY <1>2 DEF RequestDone, Batch!Next, Total, Batch!Total
<1>3. CASE EmitRange
    <2>1. /\ Emitting /\ ~waiting /\ Total < MaxOperations /\ Batch!AddOperation(stack)
        BY <1>3 DEF EmitRange, EmitRangeBy, Pausing
    <2>2. Len(stack) \in Nat /\ (Len(stack) = 0 <=> stack = <<>>)
        BY LenProperties, EmptySeq DEF BatchInv, Batch!TypeOK
    <2>3. ~completing /\ (Len(stack) > 0 => stack[Len(stack)].pc = "onDrain")
        BY <2>1, <2>2 DEF EmissionInv, Emitting, None
    <2>4. Batch!Idle \/ Batch!Running("onDrain")
        BY <2>2, <2>3 DEF Batch!Idle, Batch!Running, Batch!Top
    <2>5. Batch!UserAdds
        BY <2>1, <2>3, <2>4 DEF Batch!UserAdds, Total, Batch!Total
    <2> QED
        BY <2>5 DEF Batch!Next
<1>4. CASE EmissionEnds
    <2>1. Emitting /\ Batch!EnableComplete(stack)
        BY <1>4 DEF EmissionEnds
    <2>2. Len(stack) \in Nat /\ (Len(stack) = 0 <=> stack = <<>>)
        BY LenProperties, EmptySeq DEF BatchInv, Batch!TypeOK
    <2>3. ~completing /\ (Len(stack) > 0 => stack[Len(stack)].pc = "onDrain")
        BY <2>1, <2>2 DEF EmissionInv, Emitting, None
    <2>4. Batch!Idle \/ Batch!Running("onDrain")
        BY <2>2, <2>3 DEF Batch!Idle, Batch!Running, Batch!Top
    <2>5. Batch!InProgress("ran") = {}
        BY <2>1, NotAdding
    <2>6. Batch!UserEnablesComplete
        BY <2>1, <2>3, <2>4, <2>5 DEF Batch!UserEnablesComplete
    <2> QED
        BY <2>6 DEF Batch!Next
<1>5. CASE UserCallbackStops
    <2>1. /\ Batch!Running("userCallback") /\ Batch!EnableComplete(stack)
          /\ Batch!Top.op \in failures
        BY <1>5 DEF UserCallbackStops
    <2>2. Batch!InProgress("ran") = {}
        BY <2>1, FailedOutsideEmission, NotAdding
    <2>3. Batch!UserEnablesComplete
        BY <2>1, <2>2 DEF Batch!UserEnablesComplete
    <2> QED
        BY <2>3 DEF Batch!Next
<1>6. CASE UserCallbackWrites
    <2>1. CASE UNCHANGED batchVars
        BY <2>1 DEF batchVars, Batch!vars
    <2>2. CASE Batch!Pause /\ paused
        BY <2>2 DEF Batch!Pause, Batch!vars, BatchInv, Batch!TypeOK
    <2>3. CASE Batch!Pause /\ ~paused
        <3>1. Batch!UserPauses
            BY <1>6, <2>3 DEF UserCallbackWrites, Batch!UserPauses
        <3> QED
            BY <3>1 DEF Batch!Next
    <2> QED
        BY <1>6, <2>1, <2>2, <2>3 DEF UserCallbackWrites
<1>7. CASE OutputDrains
    BY <1>7 DEF OutputDrains, EventLoop, Batch!Next, Batch!UserResumes, Batch!Idle
<1>8. CASE \/ ListAnswers \/ BlocksAnswer \/ ListFails \/ EmissionStops
           \/ UserCallbackIgnores \/ OutputEnds \/ UNCHANGED vars
    <2>1. UNCHANGED batchVars
        BY <1>8 DEF ListAnswers, BlocksAnswer, ListFails, EmissionStops, UserCallbackIgnores,
           OutputEnds, vars
    <2> QED
        BY <2>1 DEF batchVars, Batch!vars
<1> QED
    BY <1>1, <1>2, <1>3, <1>4, <1>5, <1>6, <1>7, <1>8
       DEF Next, Internal, External, Stopped, BatchActions
(* What a step does to the stack of calls: Kept says that the callers of    *)
(* the innermost call stay, Above(k) that the innermost call after the step *)
(* is the k-th.                                                             *)
Kept ==
    /\ Len(stack') \in Nat /\ Len(stack') >= Len(stack) - 1
    /\ \A n \in 1..(Len(stack) - 1) : stack'[n] = stack[n]

LEMMA CallReturned ==
    ASSUME BatchInv, stack # <<>>, stack' = Batch!Caller
    PROVE  /\ Kept /\ Len(stack') = Len(stack) - 1
           /\ \A pc : Batch!Running(pc)' => pc \in Batch!Suspended
<1>1. /\ Len(stack) \in Nat \ {0} /\ Batch!Caller \in Seq(Batch!Frame)
      /\ Len(Batch!Caller) = Len(stack) - 1
      /\ \A n \in 1..(Len(stack) - 1) :
            Batch!Caller[n] = stack[n] /\ stack[n].pc \in Batch!Suspended
    BY TopFacts
<1>2. Kept /\ Len(stack') = Len(stack) - 1
    BY <1>1 DEF Kept
<1>3. ASSUME NEW pc, Batch!Running(pc)' PROVE pc \in Batch!Suspended
    <2>1. stack' # <<>> /\ stack'[Len(stack')].pc = pc
        BY <1>3 DEF Batch!Running, Batch!Top
    <2>2. Len(stack') \in 1..(Len(stack) - 1)
        BY <1>1, <1>2, <2>1, EmptySeq
    <2> QED
        BY <1>1, <2>1, <2>2
<1> QED
    BY <1>2, <1>3

LEMMA CallReplaced ==
    ASSUME BatchInv, stack # <<>>, NEW f \in Batch!Frame, stack' = Append(Batch!Caller, f)
    PROVE  /\ Kept /\ Len(stack') = Len(stack) /\ stack'[Len(stack)] = f
           /\ Batch!Top' = f /\ stack' # <<>>
           /\ \A pc : Batch!Running(pc)' <=> pc = f.pc
<1>1. /\ Len(stack) \in Nat \ {0} /\ Batch!Caller \in Seq(Batch!Frame)
      /\ Len(Batch!Caller) = Len(stack) - 1
      /\ \A n \in 1..(Len(stack) - 1) : Batch!Caller[n] = stack[n]
    BY TopFacts
<1>2. /\ Len(stack') = Len(Batch!Caller) + 1 /\ stack' # <<>>
      /\ \A n \in 1..Len(Batch!Caller) : stack'[n] = Batch!Caller[n]
      /\ stack'[Len(Batch!Caller) + 1] = f
    BY <1>1, Pushed
<1>3. Kept /\ Len(stack') = Len(stack) /\ stack'[Len(stack)] = f
    BY <1>1, <1>2 DEF Kept
<1> QED
    BY <1>2, <1>3 DEF Batch!Running, Batch!Top

LEMMA CallsReplaced ==
    ASSUME BatchInv, stack # <<>>, NEW f \in Batch!Frame, NEW g \in Batch!Frame,
           stack' = Append(Append(Batch!Caller, f), g)
    PROVE  /\ Kept /\ Len(stack') = Len(stack) + 1
           /\ stack'[Len(stack)] = f /\ stack'[Len(stack) + 1] = g
           /\ Batch!Top' = g /\ stack' # <<>>
           /\ \A pc : Batch!Running(pc)' <=> pc = g.pc
<1>1. /\ Len(stack) \in Nat \ {0} /\ Batch!Caller \in Seq(Batch!Frame)
      /\ Len(Batch!Caller) = Len(stack) - 1
      /\ \A n \in 1..(Len(stack) - 1) : Batch!Caller[n] = stack[n]
    BY TopFacts
<1> DEFINE t == Append(Batch!Caller, f)
<1>2. /\ t \in Seq(Batch!Frame) /\ Len(t) = Len(Batch!Caller) + 1
      /\ \A n \in 1..Len(Batch!Caller) : t[n] = Batch!Caller[n]
      /\ t[Len(Batch!Caller) + 1] = f
    BY <1>1, Pushed
<1> HIDE DEF t
<1>3. /\ Len(stack') = Len(t) + 1 /\ stack' # <<>>
      /\ \A n \in 1..Len(t) : stack'[n] = t[n]
      /\ stack'[Len(t) + 1] = g
    BY <1>2, Pushed DEF t
<1>4. /\ Kept /\ Len(stack') = Len(stack) + 1
      /\ stack'[Len(stack)] = f /\ stack'[Len(stack) + 1] = g
    BY <1>1, <1>2, <1>3 DEF Kept
<1> QED
    BY <1>3, <1>4 DEF Batch!Running, Batch!Top

LEMMA CallPushed ==
    ASSUME BatchInv, NEW g \in Batch!Frame, stack' = Append(stack, g)
    PROVE  /\ Kept /\ Len(stack') = Len(stack) + 1 /\ Len(stack) \in Nat
           /\ \A n \in 1..Len(stack) : stack'[n] = stack[n]
           /\ stack'[Len(stack) + 1] = g
           /\ Batch!Top' = g /\ stack' # <<>>
           /\ \A pc : Batch!Running(pc)' <=> pc = g.pc
<1>1. stack \in Seq(Batch!Frame) /\ Len(stack) \in Nat
    BY LenProperties DEF BatchInv, Batch!TypeOK
<1>2. /\ Len(stack') = Len(stack) + 1 /\ stack' # <<>>
      /\ \A n \in 1..Len(stack) : stack'[n] = stack[n]
      /\ stack'[Len(stack) + 1] = g
    BY <1>1, Pushed
<1>3. Kept
    BY <1>1, <1>2 DEF Kept
<1> QED
    BY <1>1, <1>2, <1>3 DEF Batch!Running, Batch!Top

LEMMA CallFields ==
    ASSUME NEW pc \in Batch!Pcs, NEW op \in Nat
    PROVE  /\ Batch!Call(pc, op) \in Batch!Frame
           /\ Batch!Call(pc, op).pc = pc /\ Batch!Call(pc, op).op = op
    BY DEF Batch!Call, Batch!Frame

(* The emission, when a step replaces or ends the innermost call.           *)
LEMMA EmissionKept ==
    ASSUME BatchInv, EmissionInv, UNCHANGED <<emitting, emittedAll, completing>>,
           stack # <<>>, ~Emitting \/ Batch!Top.pc # "onDrain", Kept,
           emitting # None =>
              \A n \in 1..Len(stack') : n > emitting => CalledByEmission(stack[n])',
           \A n \in 1..Len(stack') :
              n >= Len(stack) /\ Adding(n)' => n = Len(stack) /\ Adding(n)
    PROVE  EmissionInv'
<1>1. Len(stack) \in Nat \ {0} /\ Len(stack') \in Nat /\ Len(stack') >= Len(stack) - 1
    BY TopFacts DEF Kept
<1>2. ASSUME NEW n \in 1..Len(stack'), Adding(n)'
      PROVE  n \in 1..Len(stack) /\ Adding(n)
    <2>1. CASE n < Len(stack)
        BY <1>1, <1>2, <2>1 DEF Adding, Kept
    <2>2. CASE n >= Len(stack)
        BY <1>1, <1>2, <2>2
    <2> QED
        BY <1>1, <2>1, <2>2
<1>3. emitting # None =>
          /\ emitting \in 0..Len(stack') /\ ~emittedAll
          /\ emitting > 0 => stack'[emitting].pc = "onDrain"
    <2> SUFFICES ASSUME emitting # None
                 PROVE  /\ emitting \in 0..Len(stack') /\ ~emittedAll
                        /\ emitting > 0 => stack'[emitting].pc = "onDrain"
        OBVIOUS
    <2>1. emitting \in 0..(Len(stack) - 1)
        BY EmissionBelow
    <2> QED
        BY <1>1, <2>1 DEF EmissionInv, Kept
<1> QED
    BY <1>2, <1>3 DEF EmissionInv

(* What the emission has called and is not the innermost call stays so.     *)
LEMMA CalledKept ==
    ASSUME BatchInv, EmissionInv, emitting # None, stack # <<>>, Kept,
           UNCHANGED <<assigned, failures>>, Total' = Total,
           NEW n \in 1..(Len(stack) - 1), n > emitting
    PROVE  CalledByEmission(stack[n])'
<1>1. /\ stack'[n] = stack[n] /\ stack[n].pc \in Batch!Suspended
      /\ n \in 1..Len(stack)
    BY TopFacts DEF Kept
<1>2. CalledByEmission(stack[n])
    BY <1>1 DEF EmissionInv
<1> QED
    BY <1>1, <1>2 DEF CalledByEmission, Batch!Suspended, Reads
(* The user callbacks in progress, as long as the innermost call is none.   *)
LEMMA UsersKept ==
    ASSUME BatchInv, stack # <<>>, Kept, Batch!Top.pc # "userCallback",
           Batch!InProgress("userCallback") # {}
    PROVE  Batch!InProgress("userCallback")' # {}
<1>1. PICK n \in 1..Len(stack) : stack[n].pc = "userCallback"
    BY DEF Batch!InProgress, Batch!CallsOf
<1>2. n \in 1..(Len(stack) - 1) /\ Len(stack) \in Nat
    BY <1>1, TopFacts
<1>3. n \in 1..Len(stack') /\ stack'[n].pc = "userCallback"
    BY <1>1, <1>2 DEF Kept
<1> QED
    BY <1>3 DEF Batch!InProgress, Batch!CallsOf

(* Steps of the batch that concern no operation.                            *)
QuietStep ==
    \/ Batch!Ran \/ Batch!FireWhilePaused \/ Batch!FireNothing \/ Batch!EmitEnd
    \/ Batch!NotComplete \/ Batch!NoDrain \/ Batch!ListenerReturns

LEMMA QuietFacts ==
    ASSUME BatchInv, QuietStep
    PROVE  /\ stack # <<>> /\ Kept /\ Len(stack') <= Len(stack)
           /\ UNCHANGED <<status, error, current, completing, operations, queued, paused>>
           /\ Batch!Top.pc \in {"ran", "fire", "tryEnd", "tryDrain", "onDrain", "onEnd"}
           /\ ~Batch!Running("fail") /\ ~Batch!Running("succeed")
           /\ ~Batch!Running("fail")' /\ ~Batch!Running("succeed")'
           /\ \A n \in 1..Len(stack') : n >= Len(stack) =>
                 /\ n = Len(stack) /\ stack'[n].op = 0
                 /\ stack'[n].pc \in {"tryDrain", "tryEnd", "onEnd"}
<1>1. /\ stack # <<>>
      /\ UNCHANGED <<status, error, current, completing, operations, queued, paused>>
      /\ Batch!Top.pc \in {"ran", "fire", "tryEnd", "tryDrain", "onDrain", "onEnd"}
      /\ \/ stack' = Batch!Caller
         \/ \E pc \in {"tryDrain", "tryEnd", "onEnd"} :
               stack' = Append(Batch!Caller, Batch!Call(pc, 0))
    BY DEF QuietStep, Batch!Ran, Batch!FireWhilePaused, Batch!FireNothing, Batch!EmitEnd,
       Batch!NotComplete, Batch!NoDrain, Batch!ListenerReturns, Batch!Running, Batch!batch
<1>2. Len(stack) \in Nat \ {0}
    BY <1>1, TopFacts
<1>3. CASE stack' = Batch!Caller
    <2>1. /\ Kept /\ Len(stack') = Len(stack) - 1
          /\ \A pc : Batch!Running(pc)' => pc \in Batch!Suspended
        BY <1>1, <1>3, CallReturned
    <2> QED
        BY <1>1, <1>2, <2>1 DEF Batch!Running, Batch!Suspended
<1>4. ASSUME NEW pc \in {"tryDrain", "tryEnd", "onEnd"},
             stack' = Append(Batch!Caller, Batch!Call(pc, 0))
      PROVE  /\ Kept /\ Len(stack') = Len(stack)
             /\ stack'[Len(stack)].pc = pc /\ stack'[Len(stack)].op = 0
             /\ ~Batch!Running("fail")' /\ ~Batch!Running("succeed")'
    <2>1. /\ Batch!Call(pc, 0) \in Batch!Frame
          /\ Batch!Call(pc, 0).pc = pc /\ Batch!Call(pc, 0).op = 0
        BY CallFields DEF Batch!Pcs
    <2> QED
        BY <1>1, <1>4, <2>1, CallReplaced
<1>5. CASE stack' # Batch!Caller
    BY <1>1, <1>2, <1>4, <1>5 DEF Batch!Running
<1> QED
    BY <1>3, <1>5

LEMMA QuietActions ==
    ASSUME BatchInv, TypeInv, EmissionInv, FailureInv, QuietStep,
           ~Emitting \/ Batch!Top.pc # "onDrain",
           UNCHANGED <<emitting, emittedAll, assigned, failures, handled>>
    PROVE  EmissionInv' /\ FailureInv'
<1>1. /\ stack # <<>> /\ Kept /\ Len(stack') <= Len(stack)
      /\ UNCHANGED <<status, error, current, completing>>
      /\ Batch!Top.pc \in {"ran", "fire", "tryEnd", "tryDrain", "onDrain", "onEnd"}
      /\ ~Batch!Running("fail") /\ ~Batch!Running("succeed")
      /\ ~Batch!Running("fail")' /\ ~Batch!Running("succeed")'
      /\ \A n \in 1..Len(stack') : n >= Len(stack) =>
            /\ n = Len(stack) /\ stack'[n].op = 0
            /\ stack'[n].pc \in {"tryDrain", "tryEnd", "onEnd"}
    BY QuietFacts
<1>2. Len(stack) \in Nat \ {0} /\ Total' = Total /\ Len(stack') \in Nat
    BY <1>1, TopFacts DEF Total, Kept
<1>3. \A n \in 1..Len(stack') :
          n >= Len(stack) /\ Adding(n)' => n = Len(stack) /\ Adding(n)
    BY <1>1 DEF Adding
<1>4. ASSUME emitting # None, NEW n \in 1..Len(stack'), n > emitting
      PROVE  CalledByEmission(stack[n])'
    <2>1. CASE n < Len(stack)
        <3>1. n \in 1..(Len(stack) - 1)
            BY <1>2, <2>1
        <3> QED
            BY <1>1, <1>2, <1>4, <3>1, CalledKept
    <2>2. CASE n >= Len(stack)
        <3>1. stack'[n].op = 0 /\ stack'[n].pc \in {"tryDrain", "tryEnd", "onEnd"}
            BY <1>1, <2>2
        <3>2. 0 \notin failures'
            BY DEF TypeInv, TypeOK
        <3> QED
            BY <3>1, <3>2 DEF CalledByEmission
    <2> QED
        BY <1>2, <2>1, <2>2
<1>5. EmissionInv'
    BY <1>1, <1>3, <1>4, EmissionKept
<1>6. handled => Batch!InProgress("userCallback")' # {}
    BY <1>1, UsersKept DEF FailureInv
<1>7. FailureInv'
    BY <1>1, <1>2, <1>6 DEF FailureInv, Reads
<1> QED
    BY <1>5, <1>7
(* What the invariant of sequence mode says of the operations.              *)
LEMMA Progress ==
    ASSUME BatchInv
    PROVE  /\ Total \in Nat /\ current \in 1..(Total + 1)
           /\ \A i \in 1..Total : status[i] = "complete" <=> i < current
           /\ Len(operations) = Total + 1 - current
           /\ \A n \in 1..Len(operations) : operations[n] = current + n - 1
           /\ ended => completing /\ current = Total + 1
           /\ \A m, n \in Batch!InProgress("userCallback") : m = n
           /\ Batch!Running("fire") => Batch!InProgress("userCallback") = {}
           /\ Batch!InProgress("userCallback") # {} => status[current] = "callback"
           /\ \A n \in 1..Len(stack) : Batch!CallOK(stack[n], status, current)
<1>1. Batch!StackInv /\ Batch!ProgressInv /\ Batch!CallbackInv
    BY DEF BatchInv, Batch!SequenceInv
<1>2. Total \in Nat /\ Batch!Total = Total
    BY LenProperties DEF BatchInv, Batch!TypeOK, Total, Batch!Total
<1>3. /\ current \in 1..(Total + 1)
      /\ \A i \in 1..Total : status[i] = "complete" <=> i < current
      /\ Len(operations) = Total + 1 - current
      /\ \A n \in 1..Len(operations) : operations[n] = current + n - 1
      /\ ended => completing /\ current = Total + 1
    BY <1>1, <1>2 DEF Batch!ProgressInv
<1>4. \A n \in 1..Len(stack) : Batch!CallOK(stack[n], status, current)
    BY <1>1 DEF Batch!StackInv, Batch!StackOK
<1>5. /\ \A m, n \in Batch!InProgress("userCallback") : m = n
      /\ Batch!Running("fire") => Batch!InProgress("userCallback") = {}
      /\ Batch!InProgress("userCallback") # {} => status[current] = "callback"
    BY <1>1 DEF Batch!CallbackInv, Batch!FiredOneByOne
<1> QED
    BY <1>2, <1>3, <1>4, <1>5

LEMMA StatusChanged ==
    ASSUME BatchInv, NEW op \in 1..Total, NEW v \in Batch!OperationState,
           status' = [status EXCEPT ![op] = v]
    PROVE  /\ Total' = Total
           /\ \A i \in 1..Total : status'[i] = IF i = op THEN v ELSE status[i]
<1>1. status \in Seq(Batch!OperationState)
    BY DEF BatchInv, Batch!TypeOK
<1> QED
    BY <1>1, Overwritten DEF Total

LEMMA RunActions ==
    ASSUME BatchInv, TypeInv, EmissionInv, FailureInv, BatchRuns
    PROVE  EmissionInv' /\ FailureInv'
<1> DEFINE op == Batch!Top.op
<1>1. /\ stack # <<>> /\ Batch!Top.pc = "run" /\ ~Emitting
      /\ UNCHANGED <<emitting, emittedAll, completing, assigned, error, current, handled>>
    BY DEF BatchRuns, RunOperation, Batch!RunAfterError, Batch!RunRequest,
       Batch!RunNoOperation, Batch!Running, Others, emitVars, Batch!batch
<1>2. /\ op \in 1..Total /\ op \in Nat /\ status[op] \in {"queued", "running"}
      /\ Len(stack) \in Nat \ {0} /\ Batch!Top = stack[Len(stack)]
    BY <1>1, TopFacts DEF Batch!CallOK, Total
<1>3. emitting # None /\ op = Total /\ emitting \in Nat /\ Adding(Len(stack))
    <2>1. Adding(Len(stack)) /\ Len(stack) \in 1..Len(stack)
        BY <1>1, <1>2 DEF Adding
    <2>2. emitting # None
        BY <2>1 DEF EmissionInv
    <2>3. CalledByEmission(Batch!Top)
        BY <1>1, <2>2, EmissionBelow
    <2> QED
        BY <1>1, <2>1, <2>2, <2>3 DEF CalledByEmission, TypeInv, TypeOK
<1>4. /\ ~Batch!Running("fail") /\ ~Batch!Running("succeed")
      /\ op \notin failures
      /\ \A i \in failures : status[i] \notin {"queued", "running"} /\ error
      /\ \A i \in 1..Total : status[i] = "running" => Reads(i)
    BY <1>1, <1>2 DEF FailureInv, Batch!Running
<1>5. failures \subseteq 1..Total /\ Total \in Nat
    BY Progress DEF TypeInv, TypeOK
<1>6. /\ ~(op < current)
      /\ handled => current # op
    BY <1>2, Progress DEF FailureInv
<1>7. "ran" \in Batch!Pcs /\ "fail" \in Batch!Pcs /\ "succeed" \in Batch!Pcs
    BY DEF Batch!Pcs
<1>8. /\ Batch!Call("ran", op) \in Batch!Frame
      /\ Batch!Call("ran", op).pc = "ran" /\ Batch!Call("ran", op).op = op
      /\ Batch!Call("fail", op) \in Batch!Frame
      /\ Batch!Call("fail", op).pc = "fail" /\ Batch!Call("fail", op).op = op
      /\ Batch!Call("succeed", op) \in Batch!Frame
      /\ Batch!Call("succeed", op).pc = "succeed" /\ Batch!Call("succeed", op).op = op
    BY <1>2, <1>7, CallFields
<1> HIDE DEF op
(* the frames after the step, and what FailureInv says of them              *)
<1>9. ASSUME Kept, Total' = Total, stack'[Len(stack)] = Batch!Call("ran", op),
             \/ Len(stack') = Len(stack)
             \/ /\ Len(stack') = Len(stack) + 1
                /\ \/ stack'[Len(stack) + 1] = Batch!Call("fail", op)
                   \/ stack'[Len(stack) + 1] = Batch!Call("succeed", op),
             failures' = failures \/ (failures' = failures \cup {op} /\ error)
      PROVE  EmissionInv' /\ (handled => Batch!InProgress("userCallback")' # {})
    <2>1. \A n \in 1..Len(stack') :
              n >= Len(stack) /\ Adding(n)' => n = Len(stack) /\ Adding(n)
        BY <1>2, <1>3, <1>8, <1>9 DEF Adding
    <2>2. ASSUME NEW n \in 1..Len(stack'), n > emitting
          PROVE  CalledByEmission(stack[n])'
        <3>1. CASE n < Len(stack)
            <4>1. /\ n \in 1..(Len(stack) - 1) /\ n \in 1..Len(stack)
                  /\ stack'[n] = stack[n] /\ stack[n].pc \in Batch!Suspended
                BY <1>1, <1>2, <1>9, <3>1, TopFacts DEF Kept
            <4>2. CalledByEmission(stack[n])
                BY <1>3, <2>2, <4>1 DEF EmissionInv
            <4>3. stack[n].op \in failures' =>
                      \E i \in failures' : i < stack[n].op /\ Reads(i)
                <5>1. CASE stack[n].op \in failures
                    BY <1>9, <4>2, <5>1 DEF CalledByEmission
                <5>2. CASE stack[n].op \notin failures /\ stack[n].op \in failures'
                    <6>1. stack[n].op = Total /\ error
                        BY <1>3, <1>9, <5>2
                    <6>2. PICK i \in failures : Reads(i)
                        BY <6>1 DEF FailureInv
                    <6>3. i < Total /\ i \in failures'
                        BY <1>3, <1>4, <1>5, <1>9
                    <6> QED
                        BY <6>1, <6>2, <6>3
                <5> QED
                    BY <5>1, <5>2
            <4> QED
                BY <1>1, <1>9, <4>1, <4>2, <4>3 DEF CalledByEmission, Batch!Suspended, Reads
        <3>2. CASE n >= Len(stack)
            <4>1. /\ stack'[n].op = op
                  /\ stack'[n].pc \in {"ran", "fail", "succeed"}
                BY <1>2, <1>8, <1>9, <3>2
            <4>2. op \in failures' => \E i \in failures' : i < op /\ Reads(i)
                <5> SUFFICES ASSUME op \in failures'
                             PROVE  \E i \in failures' : i < op /\ Reads(i)
                    OBVIOUS
                <5>1. error
                    BY <1>4, <1>9
                <5>2. PICK i \in failures : Reads(i)
                    BY <5>1 DEF FailureInv
                <5>3. i < op /\ i \in failures'
                    BY <1>3, <1>4, <1>5, <1>9
                <5> QED
                    BY <5>2, <5>3
            <4> QED
                BY <1>1, <1>3, <1>9, <4>1, <4>2 DEF CalledByEmission, Reads
        <3> QED
            BY <1>2, <1>9, <3>1, <3>2 DEF Kept
    <2>3. EmissionInv'
        BY <1>1, <1>9, <2>1, <2>2, EmissionKept
    <2>4. handled => Batch!InProgress("userCallback")' # {}
        BY <1>1, <1>9, UsersKept DEF FailureInv
    <2> QED
        BY <2>3, <2>4
<1>10. CASE Batch!RunAfterError /\ failures' = failures \cup {op}
    <2>1. /\ stack' = Append(Append(Batch!Caller, Batch!Call("ran", op)), Batch!Call("fail", op))
          /\ status' = status /\ error
        BY <1>10 DEF Batch!RunAfterError, Batch!batch, op
    <2>2. /\ Kept /\ Len(stack') = Len(stack) + 1
          /\ stack'[Len(stack)] = Batch!Call("ran", op)
          /\ stack'[Len(stack) + 1] = Batch!Call("fail", op)
          /\ Batch!Top' = Batch!Call("fail", op)
          /\ \A pc : Batch!Running(pc)' <=> pc = "fail"
        BY <1>1, <1>8, <2>1, CallsReplaced
    <2>3. Total' = Total
        BY <2>1 DEF Total
    <2>4. EmissionInv' /\ (handled => Batch!InProgress("userCallback")' # {})
        BY <1>9, <1>10, <2>1, <2>2, <2>3
    <2>5. ASSUME NEW i \in failures'
          PROVE  /\ Reads(i) /\ i < current => emittedAll
                 /\ IF status[i] \in {"queued", "running"}
                    THEN Batch!Running("fail")' /\ Batch!Top'.op = i ELSE error
        <3>1. CASE i \in failures
            BY <1>4, <3>1 DEF FailureInv
        <3>2. CASE i = op
            BY <1>2, <1>6, <1>8, <2>2, <3>2
        <3> QED
            BY <1>10, <3>1, <3>2
    <2>6. handled /\ current \in failures' /\ Reads(current) => emittedAll
        BY <1>6, <1>10 DEF FailureInv
    <2>7. \E i \in failures' : Reads(i)
        BY <1>10, <2>1 DEF FailureInv
    <2>8. Batch!Top'.op \in failures'
        BY <1>8, <1>10, <2>2
    <2>9. \A i \in 1..Total : ~(status[i] = "running" /\ ~Reads(i))
        BY <1>4
    <2>10. FailureInv'
        BY <1>1, <2>1, <2>3, <2>4, <2>5, <2>6, <2>7, <2>8, <2>9 DEF FailureInv, Reads
    <2> QED
        BY <2>4, <2>10
<1>11. CASE /\ \/ Batch!RunRequest /\ Reads(op)
               \/ Batch!RunNoOperation /\ ~Reads(op)
            /\ UNCHANGED failures
    <2>1. /\ status' = [status EXCEPT ![op] = "running"]
          /\ \/ stack' = Append(Batch!Caller, Batch!Call("ran", op)) /\ Reads(op)
             \/ stack' = Append(Append(Batch!Caller, Batch!Call("ran", op)), Batch!Call("succeed", op))
        BY <1>11 DEF Batch!RunRequest, Batch!RunNoOperation, op
    <2>2. Total' = Total /\ \A i \in 1..Total : status'[i] = IF i = op THEN "running" ELSE status[i]
        BY <1>2, <2>1, StatusChanged DEF Batch!OperationState
    <2>3. /\ Kept /\ stack'[Len(stack)] = Batch!Call("ran", op)
          /\ \/ Len(stack') = Len(stack) /\ Reads(op)
             \/ /\ Len(stack') = Len(stack) + 1
                /\ stack'[Len(stack) + 1] = Batch!Call("succeed", op)
                /\ Batch!Running("succeed")' /\ Batch!Top'.op = op
          /\ ~Batch!Running("fail")'
        <3>1. CASE stack' = Append(Batch!Caller, Batch!Call("ran", op)) /\ Reads(op)
            BY <1>1, <1>8, <3>1, CallReplaced
        <3>2. CASE stack' = Append(Append(Batch!Caller, Batch!Call("ran", op)), Batch!Call("succeed", op))
            BY <1>1, <1>8, <3>2, CallsReplaced
        <3> QED
            BY <2>1, <3>1, <3>2
    <2>4. EmissionInv' /\ (handled => Batch!InProgress("userCallback")' # {})
        BY <1>9, <1>11, <2>2, <2>3
    <2>5. ASSUME NEW i \in failures'
          PROVE  /\ Reads(i) /\ i < current => emittedAll
                 /\ status'[i] \notin {"queued", "running"} /\ error
        <3>1. i \in failures /\ i # op /\ i \in 1..Total
            BY <1>4, <1>5, <1>11
        <3> QED
            BY <1>4, <2>2, <3>1 DEF FailureInv
    <2>6. ASSUME NEW i \in 1..Total, status'[i] = "running", ~Reads(i)
          PROVE  Batch!Running("succeed")' /\ Batch!Top'.op = i
        <3>1. i = op
            BY <1>4, <2>2, <2>6
        <3> QED
            BY <2>3, <2>6, <3>1
    <2>7. handled /\ current \in failures' /\ Reads(current) => emittedAll
        BY <1>11 DEF FailureInv
    <2>8. error => \E i \in failures' : Reads(i)
        BY <1>11 DEF FailureInv
    <2>9. FailureInv'
        BY <1>1, <2>2, <2>3, <2>4, <2>5, <2>6, <2>7, <2>8 DEF FailureInv, Reads
    <2> QED
        BY <2>4, <2>9
<1>12. \/ Batch!RunAfterError /\ failures' = failures \cup {op}
       \/ /\ \/ Batch!RunRequest /\ Reads(op)
             \/ Batch!RunNoOperation /\ ~Reads(op)
          /\ UNCHANGED failures
    BY DEF BatchRuns, RunOperation, op, Reads
<1> QED
    BY <1>10, <1>11, <1>12, Zenon
LEMMA SettleAction ==
    ASSUME BatchInv, TypeInv, EmissionInv, FailureInv, Batch!BatchOperationCallback, ~Emitting,
           UNCHANGED <<emitting, emittedAll, assigned, failures, handled>>
    PROVE  EmissionInv' /\ FailureInv'
<1> DEFINE op == Batch!Top.op
<1>1. /\ stack # <<>> /\ Batch!Top.pc \in {"succeed", "fail"}
      /\ UNCHANGED <<completing, current>>
      /\ error' = (error \/ Batch!Running("fail"))
      /\ status' = [status EXCEPT ![op] = "callback"]
      /\ \/ stack' = Append(Batch!Caller, Batch!Call("tryDrain", 0))
         \/ stack' = Append(Append(Batch!Caller, Batch!Call("tryDrain", 0)), Batch!Call("fire", op))
    BY DEF Batch!BatchOperationCallback, Batch!SettleWith, Batch!Settling, Batch!Running
<1>2. /\ op \in 1..Total /\ op \in Nat /\ op # 0 /\ status[op] \in {"queued", "running"}
      /\ Len(stack) \in Nat \ {0} /\ Batch!Top = stack[Len(stack)]
    <2>1. Total \in Nat
        BY Progress
    <2>2. op \in 1..Total /\ status[op] \in {"queued", "running"}
        BY <1>1, TopFacts DEF Batch!CallOK, Total
    <2> QED
        BY <1>1, <2>1, <2>2, TopFacts
<1>3. /\ Total' = Total
      /\ \A i \in 1..Total : status'[i] = IF i = op THEN "callback" ELSE status[i]
    BY <1>1, <1>2, StatusChanged DEF Batch!OperationState
<1>4. emitting # None => CalledByEmission(Batch!Top) /\ op = Total
    <2>1. emitting # None => CalledByEmission(Batch!Top)
        BY <1>1, EmissionBelow
    <2> QED
        BY <1>1, <2>1 DEF CalledByEmission
<1>5. failures \subseteq 1..Total /\ 0 \notin failures /\ handled \in BOOLEAN /\ error \in BOOLEAN
    BY DEF TypeInv, TypeOK, BatchInv, Batch!TypeOK
<1>6. /\ Batch!Call("tryDrain", 0) \in Batch!Frame
      /\ Batch!Call("tryDrain", 0).pc = "tryDrain" /\ Batch!Call("tryDrain", 0).op = 0
      /\ Batch!Call("fire", op) \in Batch!Frame
      /\ Batch!Call("fire", op).pc = "fire" /\ Batch!Call("fire", op).op = op
    BY <1>2, CallFields DEF Batch!Pcs
<1>7. \A i \in failures : i = op => Batch!Running("fail")
    BY <1>2 DEF FailureInv
<1>8. \A i \in failures : i # op => status[i] \notin {"queued", "running"} /\ error
    BY DEF FailureInv
<1> HIDE DEF op
<1>9. /\ Kept /\ stack'[Len(stack)] = Batch!Call("tryDrain", 0)
      /\ \/ Len(stack') = Len(stack)
         \/ /\ Len(stack') = Len(stack) + 1
            /\ stack'[Len(stack) + 1] = Batch!Call("fire", op)
      /\ ~Batch!Running("fail")'
    <2>1. CASE stack' = Append(Batch!Caller, Batch!Call("tryDrain", 0))
        BY <1>1, <1>6, <2>1, CallReplaced
    <2>2. CASE stack' = Append(Append(Batch!Caller, Batch!Call("tryDrain", 0)), Batch!Call("fire", op))
        BY <1>1, <1>6, <2>2, CallsReplaced
    <2> QED
        BY <1>1, <2>1, <2>2
<1>10. \A n \in 1..Len(stack') :
           n >= Len(stack) /\ Adding(n)' => n = Len(stack) /\ Adding(n)
    BY <1>2, <1>6, <1>9 DEF Adding
<1>11. ASSUME emitting # None, NEW n \in 1..Len(stack'), n > emitting
       PROVE  CalledByEmission(stack[n])'
    <2>1. CASE n < Len(stack)
        <3>1. n \in 1..(Len(stack) - 1)
            BY <1>2, <2>1
        <3> QED
            BY <1>1, <1>3, <1>9, <1>11, <3>1, CalledKept
    <2>2. CASE n = Len(stack)
        BY <1>5, <1>6, <1>9, <2>2 DEF CalledByEmission
    <2>3. CASE n = Len(stack) + 1
        <3>1. stack'[n].pc = "fire" /\ stack'[n].op = op /\ op = Total
            BY <1>2, <1>4, <1>6, <1>9, <1>11, <2>3
        <3>2. op \in failures => \E i \in failures : i < op /\ Reads(i)
            BY <1>4, <1>11 DEF CalledByEmission, op
        <3> QED
            BY <1>2, <1>3, <3>1, <3>2 DEF CalledByEmission, Reads
    <2> QED
        BY <1>2, <1>9, <2>1, <2>2, <2>3
<1>12. EmissionInv'
    BY <1>1, <1>9, <1>10, <1>11, EmissionKept
<1>13. handled => Batch!InProgress("userCallback")' # {}
    BY <1>1, <1>9, UsersKept DEF FailureInv
<1>14. error' => \E i \in failures : Reads(i)
    BY <1>1 DEF FailureInv
<1>15. ASSUME NEW i \in failures
       PROVE  /\ Reads(i) /\ i < current => emittedAll
              /\ status'[i] \notin {"queued", "running"} /\ error'
    <2>1. error'
        BY <1>1, <1>7, <1>8
    <2>2. status'[i] \notin {"queued", "running"}
        BY <1>3, <1>5, <1>8
    <2> QED
        BY <2>1, <2>2 DEF FailureInv
<1>16. ASSUME NEW i \in 1..Total, status'[i] = "running" PROVE Reads(i)
    <2>1. i # op /\ status[i] = "running"
        BY <1>3, <1>16
    <2> QED
        BY <2>1 DEF FailureInv, op
<1>17. handled /\ current \in failures /\ Reads(current) => emittedAll
    BY DEF FailureInv
<1>18. FailureInv'
    BY <1>1, <1>3, <1>9, <1>13, <1>14, <1>15, <1>16, <1>17 DEF FailureInv, Reads
<1> QED
    BY <1>12, <1>18

LEMMA FireAction ==
    ASSUME BatchInv, TypeInv, EmissionInv, FailureInv, Batch!FireUserCallback, ~Emitting,
           UNCHANGED <<emitting, emittedAll, assigned, failures, handled>>
    PROVE  EmissionInv' /\ FailureInv'
<1> DEFINE index0 == Batch!CallbackOperationIndex
           i == IF Batch!Top.op # 0 \/ index0 = 0 THEN Batch!Top.op ELSE operations[index0]
           f == [pc |-> "userCallback", op |-> i, index |-> index0]
<1>1. /\ stack # <<>> /\ Batch!Top.pc = "fire" /\ Batch!Running("fire") /\ i # 0
      /\ UNCHANGED <<completing, current, status, error, operations>>
      /\ stack' = Append(Batch!Caller, f)
    BY DEF Batch!FireUserCallback, Batch!Running, Batch!batch
<1>2. Batch!Top.op \in Nat /\ Len(stack) \in Nat \ {0} /\ Total' = Total /\ Total \in Nat
    BY <1>1, TopFacts, Progress DEF Total
<1>3. /\ index0 \in 0..Len(operations) /\ i \in Nat /\ Len(operations) \in Nat
      /\ operations \in Seq(Nat)
    <2>1. operations \in Seq(Nat) /\ Len(operations) \in Nat
        BY LenProperties DEF BatchInv, Batch!TypeOK
    <2>2. BP!CallbackOperationIndex \in 0..Len(operations)
        BY <2>1, BatchConstants, BP!CallbackOperationIndexType, Zenon
    <2>3. index0 = BP!CallbackOperationIndex
        BY Zenon DEF Batch!CallbackOperationIndex, BP!CallbackOperationIndex,
           Batch!MayFire, BP!MayFire
    <2>4. index0 \in 0..Len(operations)
        BY <2>2, <2>3
    <2> HIDE DEF index0
    <2>5. index0 # 0 => operations[index0] \in Nat
        BY <2>1, <2>4, ElementOfSeq
    <2> QED
        BY <1>2, <2>1, <2>4, <2>5
<1>4. f \in Batch!Frame /\ f.pc = "userCallback" /\ f.op = i
    <2> HIDE DEF i, index0
    <2>1. index0 \in Nat
        BY <1>3
    <2> QED
        BY <1>3, <2>1 DEF Batch!Frame, Batch!Pcs
<1> HIDE DEF f
<1>5. /\ Kept /\ Len(stack') = Len(stack) /\ stack'[Len(stack)] = f
      /\ \A pc : Batch!Running(pc)' <=> pc = "userCallback"
    BY <1>1, <1>4, CallReplaced
<1>6. emitting # None => i = Batch!Top.op /\ i = Total /\ CalledByEmission(Batch!Top)
    <2> SUFFICES ASSUME emitting # None
                 PROVE  i = Batch!Top.op /\ i = Total /\ CalledByEmission(Batch!Top)
        OBVIOUS
    <2>1. CalledByEmission(Batch!Top)
        BY <1>1, EmissionBelow
    <2>2. CASE Batch!Top.op # 0
        BY <1>1, <2>1, <2>2 DEF CalledByEmission
    <2>3. CASE Batch!Top.op = 0
        <3>1. current = Total + 1
            BY <1>1, <2>1, <2>3 DEF CalledByEmission
        <3>2. Len(operations) = 0
            BY <1>2, <3>1, Progress
        <3>3. index0 = 0
            BY <1>3, <3>2
        <3> QED
            BY <1>1, <2>3, <3>3
    <2> QED
        BY <2>1, <2>2, <2>3
<1>7. ~handled
    BY <1>1, Progress DEF FailureInv
<1> HIDE DEF i
<1>8. \A n \in 1..Len(stack') :
          n >= Len(stack) /\ Adding(n)' => n = Len(stack) /\ Adding(n)
    BY <1>2, <1>4, <1>5 DEF Adding
<1>9. ASSUME emitting # None, NEW n \in 1..Len(stack'), n > emitting
      PROVE  CalledByEmission(stack[n])'
    <2>1. CASE n < Len(stack)
        <3>1. n \in 1..(Len(stack) - 1)
            BY <1>2, <2>1
        <3> QED
            BY <1>1, <1>2, <1>5, <1>9, <3>1, CalledKept
    <2>2. CASE n = Len(stack)
        <3>1. stack'[n].pc = "userCallback" /\ stack'[n].op = i
            BY <1>4, <1>5, <2>2
        <3>2. i = Total /\ (i \in failures => \E j \in failures : j < i /\ Reads(j))
            BY <1>6, <1>9 DEF CalledByEmission
        <3> QED
            BY <1>2, <3>1, <3>2 DEF CalledByEmission, Reads
    <2> QED
        BY <1>2, <1>5, <2>1, <2>2
<1>10. EmissionInv'
    BY <1>1, <1>5, <1>8, <1>9, EmissionKept
<1>11. ~Batch!Running("fail") /\ ~Batch!Running("succeed") /\ ~Batch!Running("fail")'
    BY <1>1, <1>5 DEF Batch!Running
<1>12. FailureInv'
    BY <1>1, <1>2, <1>7, <1>11 DEF FailureInv, Reads
<1> QED
    BY <1>10, <1>12

LEMMA ReturnAction ==
    ASSUME BatchInv, TypeInv, EmissionInv, FailureInv, handled, Batch!UserCallbackReturns,
           ~Emitting, UNCHANGED <<emitting, emittedAll, assigned, failures>>, handled' = FALSE
    PROVE  EmissionInv' /\ FailureInv'
<1>1. /\ stack # <<>> /\ Batch!Top.pc = "userCallback" /\ Batch!Running("userCallback")
      /\ UNCHANGED <<completing, error>> /\ current' = current + 1
      /\ status' = [status EXCEPT ![Batch!Top.op] = "complete"]
      /\ stack' = Append(Batch!Caller, Batch!Call("fire", 0))
    BY DEF Batch!UserCallbackReturns, Batch!RemoveOperation, Batch!Running
<1>2. /\ Len(stack) \in Nat \ {0} /\ Batch!Top = stack[Len(stack)]
      /\ Batch!Top.op = current /\ current <= Total /\ current \in Nat /\ Total \in Nat
      /\ current \in 1..Total
    <2>1. Batch!Top.op = current /\ current <= Len(status)
        BY <1>1, TopFacts DEF Batch!CallOK
    <2> QED
        BY <1>1, <2>1, TopFacts, Progress DEF Total
<1>3. /\ Total' = Total
      /\ \A i \in 1..Total : status'[i] = IF i = current THEN "complete" ELSE status[i]
    BY <1>1, <1>2, StatusChanged DEF Batch!OperationState
<1>4. /\ Batch!Call("fire", 0) \in Batch!Frame
      /\ Batch!Call("fire", 0).pc = "fire" /\ Batch!Call("fire", 0).op = 0
    BY CallFields DEF Batch!Pcs
<1>5. /\ Kept /\ Len(stack') = Len(stack) /\ stack'[Len(stack)] = Batch!Call("fire", 0)
      /\ \A pc : Batch!Running(pc)' <=> pc = "fire"
    BY <1>1, <1>4, CallReplaced
<1>6. failures \subseteq 1..Total /\ 0 \notin failures
    BY DEF TypeInv, TypeOK
<1>7. emitting # None => current = Total
    <2>1. emitting # None => CalledByEmission(Batch!Top)
        BY <1>1, EmissionBelow
    <2> QED
        BY <1>1, <1>2, <2>1 DEF CalledByEmission
<1>8. status[current] = "callback"
    <2>1. Len(stack) \in Batch!InProgress("userCallback")
        BY <1>1, <1>2 DEF Batch!InProgress, Batch!CallsOf
    <2> QED
        BY <2>1, Progress
<1>9. \A n \in 1..Len(stack') :
          n >= Len(stack) /\ Adding(n)' => n = Len(stack) /\ Adding(n)
    BY <1>2, <1>4, <1>5 DEF Adding
<1>10. ASSUME emitting # None, NEW n \in 1..Len(stack'), n > emitting
       PROVE  CalledByEmission(stack[n])'
    <2>1. CASE n < Len(stack)
        <3>1. n \in 1..(Len(stack) - 1)
            BY <1>2, <2>1
        <3> QED
            BY <1>1, <1>3, <1>5, <1>10, <3>1, CalledKept
    <2>2. CASE n = Len(stack)
        <3>1. stack'[n].pc = "fire" /\ stack'[n].op = 0 /\ current' = Total' + 1
            BY <1>1, <1>3, <1>4, <1>5, <1>7, <1>10, <2>2
        <3>2. 0 \notin failures'
            BY <1>6
        <3> QED
            BY <3>1, <3>2 DEF CalledByEmission
    <2> QED
        BY <1>2, <1>5, <2>1, <2>2
<1>11. EmissionInv'
    BY <1>1, <1>5, <1>9, <1>10, EmissionKept
<1>12. ASSUME NEW i \in failures
       PROVE  /\ Reads(i) /\ i < current' => emittedAll
              /\ status'[i] \notin {"queued", "running"} /\ error
    <2>1. CASE i = current
        <3>1. status'[i] = "complete"
            BY <1>2, <1>3, <2>1
        <3>2. Reads(i) => emittedAll
            BY <2>1 DEF FailureInv
        <3>3. error
            BY <1>8, <2>1 DEF FailureInv
        <3> QED
            BY <3>1, <3>2, <3>3
    <2>2. CASE i # current
        <3>1. i \in 1..Total /\ status'[i] = status[i]
            BY <1>3, <1>6, <2>2
        <3>2. ~Batch!Running("fail")
            BY <1>1 DEF Batch!Running
        <3>3. i < current' => i < current
            BY <1>1, <1>2, <2>2, <3>1
        <3> QED
            BY <3>1, <3>2, <3>3 DEF FailureInv
    <2> QED
        BY <2>1, <2>2
<1>13. ASSUME NEW i \in 1..Total, status'[i] = "running" PROVE Reads(i)
    <2>1. status[i] = "running" /\ ~Batch!Running("succeed")
        BY <1>1, <1>3, <1>13 DEF Batch!Running
    <2> QED
        BY <2>1 DEF FailureInv
<1>14. error => \E i \in failures : Reads(i)
    BY DEF FailureInv
<1>15. FailureInv'
    BY <1>1, <1>3, <1>5, <1>12, <1>13, <1>14 DEF FailureInv, Reads
<1> QED
    BY <1>11, <1>15

(* 'drain' makes the range stream emit unless it is emitting or has ended.  *)
LEMMA DrainAction ==
    ASSUME BatchInv, TypeInv, EmissionInv, FailureInv, Drain
    PROVE  EmissionInv' /\ FailureInv'
<1>1. /\ stack # <<>> /\ Batch!Top.pc = "tryDrain"
      /\ UNCHANGED <<status, error, current, completing>>
      /\ UNCHANGED <<emittedAll, assigned, failures, handled>>
      /\ stack' = Append(Batch!Caller, Batch!Call("onDrain", 0))
      /\ emitting' = IF emittedAll \/ emitting # None THEN emitting ELSE Len(stack')
    BY DEF Drain, DrainTo, Batch!EmitDrain, Batch!Running, Batch!batch
<1>2. Len(stack) \in Nat \ {0} /\ Total' = Total
    BY <1>1, TopFacts DEF Total
<1>3. /\ Batch!Call("onDrain", 0) \in Batch!Frame
      /\ Batch!Call("onDrain", 0).pc = "onDrain" /\ Batch!Call("onDrain", 0).op = 0
    BY CallFields DEF Batch!Pcs
<1>4. /\ Kept /\ Len(stack') = Len(stack) /\ stack'[Len(stack)] = Batch!Call("onDrain", 0)
      /\ \A pc : Batch!Running(pc)' <=> pc = "onDrain"
    BY <1>1, <1>3, CallReplaced
<1>5. \A n \in 1..Len(stack') : n >= Len(stack) => ~Adding(n)'
    BY <1>2, <1>3, <1>4 DEF Adding
<1>6. EmissionInv'
    <2>1. CASE emittedAll \/ emitting # None
        <3>1. emitting' = emitting
            BY <1>1, <2>1
        <3>2. ASSUME emitting # None, NEW n \in 1..Len(stack'), n > emitting
              PROVE  CalledByEmission(stack[n])'
            <4>1. CASE n < Len(stack)
                <5>1. n \in 1..(Len(stack) - 1)
                    BY <1>2, <4>1
                <5> QED
                    BY <1>1, <1>2, <1>4, <3>2, <5>1, CalledKept
            <4>2. CASE n = Len(stack)
                <5>1. stack'[n].pc = "onDrain" /\ stack'[n].op = 0
                    BY <1>3, <1>4, <4>2
                <5>2. 0 \notin failures'
                    BY <1>1 DEF TypeInv, TypeOK
                <5> QED
                    BY <5>1, <5>2 DEF CalledByEmission
            <4> QED
                BY <1>2, <1>4, <4>1, <4>2
        <3> QED
            BY <1>1, <1>4, <1>5, <3>1, <3>2, EmissionKept
    <2>2. CASE emitting = None /\ ~emittedAll
        <3>1. emitting' = Len(stack) /\ emitting' # None
            BY <1>1, <1>2, <1>4, <2>2 DEF None
        <3>2. \A n \in 1..Len(stack') : ~Adding(n)'
            <4> SUFFICES ASSUME NEW n \in 1..Len(stack'), Adding(n)' PROVE FALSE
                OBVIOUS
            <4>1. n \in 1..(Len(stack) - 1)
                BY <1>2, <1>4, <1>5
            <4>2. Adding(n) /\ n \in 1..Len(stack)
                BY <1>2, <1>4, <4>1 DEF Adding, Kept
            <4> QED
                BY <2>2, <4>2, NotAdding
        <3>3. stack'[emitting'].pc = "onDrain" /\ emitting' \in 0..Len(stack')
            BY <1>2, <1>3, <1>4, <3>1
        <3>4. \A n \in 1..Len(stack') : ~(n > emitting')
            BY <1>2, <1>4, <3>1
        <3>5. emittedAll' = completing' /\ ~emittedAll'
            BY <1>1, <2>2 DEF EmissionInv
        <3> QED
            BY <3>2, <3>3, <3>4, <3>5 DEF EmissionInv
    <2> QED
        BY <2>1, <2>2
<1>7. handled => Batch!InProgress("userCallback")' # {}
    BY <1>1, <1>4, UsersKept DEF FailureInv
<1>8. ~Batch!Running("fail") /\ ~Batch!Running("succeed") /\ ~Batch!Running("fail")'
    BY <1>1, <1>4 DEF Batch!Running
<1>9. FailureInv'
    BY <1>1, <1>2, <1>7, <1>8 DEF FailureInv, Reads
<1> QED
    BY <1>6, <1>9

(* The steps of the batch.                                                  *)
LEMMA EmissionBatchActions ==
    ASSUME BatchInv, TypeInv, EmissionInv, FailureInv, BatchActions
    PROVE  EmissionInv' /\ FailureInv'
<1>1. CASE BatchRuns
    BY <1>1, RunActions
<1>2. CASE RanPausing
    <2>1. /\ Batch!Ran /\ UNCHANGED <<emitting, emittedAll, assigned, failures, handled>>
          /\ Batch!Top.pc = "ran"
        BY <1>2 DEF RanPausing, RanFor, Batch!Ran, Batch!Running
    <2> QED
        BY <2>1, QuietActions DEF QuietStep
<1>3. CASE Drain
    BY <1>3, DrainAction
<1>4. CASE End
    <2>1. /\ Batch!ListenerReturns /\ Batch!Top.pc = "onEnd"
          /\ UNCHANGED <<emitting, emittedAll, assigned, failures, handled>>
        BY <1>4 DEF End, EndWith, emitVars, Batch!Running
    <2> QED
        BY <2>1, QuietActions DEF QuietStep
<1>5. CASE BatchSteps
    <2>1. /\ ~Emitting /\ UNCHANGED <<emitting, emittedAll, assigned, failures>>
          /\ handled' = (handled /\ ~Batch!Running("userCallback")) /\ handled \in BOOLEAN
        BY <1>5 DEF BatchSteps, Others, emitVars, TypeInv, TypeOK
    <2>2. CASE handled /\ Batch!UserCallbackReturns
        <3>1. Batch!Running("userCallback")
            BY <2>2 DEF Batch!UserCallbackReturns, Batch!RemoveOperation
        <3>2. handled' = FALSE
            BY <2>1, <3>1
        <3> QED
            BY <2>1, <2>2, <3>2, ReturnAction
    <2>3. CASE ~(handled /\ Batch!UserCallbackReturns)
        <3>1. \/ Batch!BatchOperationCallback \/ Batch!FireUserCallback \/ QuietStep
            BY <1>5, <2>3 DEF BatchSteps, QuietStep
        <3>2. ~Batch!Running("userCallback")
            BY <3>1 DEF QuietStep, Batch!BatchOperationCallback, Batch!SettleWith, Batch!Settling,
               Batch!FireUserCallback, Batch!FireWhilePaused, Batch!FireNothing, Batch!EmitEnd,
               Batch!NotComplete, Batch!NoDrain, Batch!ListenerReturns, Batch!Ran, Batch!Running
        <3>3. handled' = handled
            BY <2>1, <3>2
        <3> QED
            BY <2>1, <3>1, <3>3, QuietActions, SettleAction, FireAction
    <2> QED
        BY <2>2, <2>3
<1> QED
    BY <1>1, <1>2, <1>3, <1>4, <1>5 DEF BatchActions

(* The user callbacks in progress stay when a call is pushed or none ends.  *)
LEMMA UsersPushed ==
    ASSUME BatchInv, Batch!InProgress("userCallback") # {},
           \/ stack' = stack
           \/ \E g \in Batch!Frame : stack' = Append(stack, g)
    PROVE  Batch!InProgress("userCallback")' # {}
<1>1. CASE stack' = stack
    BY <1>1 DEF Batch!InProgress, Batch!CallsOf
<1>2. ASSUME NEW g \in Batch!Frame, stack' = Append(stack, g)
      PROVE  Batch!InProgress("userCallback")' # {}
    <2>1. PICK n \in 1..Len(stack) : stack[n].pc = "userCallback"
        BY DEF Batch!InProgress, Batch!CallsOf
    <2>2. /\ Len(stack') = Len(stack) + 1 /\ Len(stack) \in Nat
          /\ \A k \in 1..Len(stack) : stack'[k] = stack[k]
        BY <1>2, CallPushed
    <2>3. n \in 1..Len(stack') /\ stack'[n].pc = "userCallback"
        BY <2>1, <2>2
    <2> QED
        BY <2>3 DEF Batch!InProgress, Batch!CallsOf
<1> QED
    BY <1>1, <1>2

(* The failures, when no operation fails or settles.                        *)
LEMMA FailureKept ==
    ASSUME FailureInv, UNCHANGED <<status, error, current, assigned, failures>>,
           emittedAll => emittedAll',
           ~Batch!Running("fail"), ~Batch!Running("succeed"), ~Batch!Running("fail")',
           handled' => Batch!InProgress("userCallback")' # {},
           handled' /\ current \in failures /\ Reads(current) => emittedAll'
    PROVE  FailureInv'
BY DEF FailureInv, Reads, Total

(* Where the loop of the emission runs.                                     *)
LEMMA EmittingFacts ==
    ASSUME BatchInv, EmissionInv, Emitting
    PROVE  /\ emitting # None /\ ~emittedAll /\ ~completing /\ Len(stack) \in Nat
           /\ \A n \in 1..Len(stack) : ~Adding(n)
           /\ Batch!InProgress("ran") = {} /\ Batch!InProgress("run") = {}
           /\ \A pc : Batch!Running(pc) => pc = "onDrain"
<1>1. Len(stack) \in Nat /\ emitting # None
    BY LenProperties DEF BatchInv, Batch!TypeOK, Emitting, None
<1>2. ASSUME NEW pc, Batch!Running(pc) PROVE pc = "onDrain"
    <2>1. Len(stack) > 0
        BY <1>1, <1>2, EmptySeq DEF Batch!Running, BatchInv, Batch!TypeOK
    <2> QED
        BY <1>1, <1>2, <2>1 DEF EmissionInv, Emitting, Batch!Running, Batch!Top
<1> QED
    BY <1>1, <1>2, NotAdding DEF EmissionInv

(* Without a call in progress, a range stream that is not in its loop does  *)
(* not emit.                                                                *)
LEMMA EventLoopFacts ==
    ASSUME BatchInv, EmissionInv, FailureInv, stack = <<>>
    PROVE  /\ Len(stack) = 0 /\ (~Emitting => emitting = None) /\ ~handled
           /\ \A pc : ~Batch!Running(pc)
<1>1. Len(stack) = 0
    BY EmptySeq
<1>2. emitting # None => emitting = 0
    BY <1>1 DEF EmissionInv
<1>3. Batch!InProgress("userCallback") = {}
    BY <1>1 DEF Batch!InProgress, Batch!CallsOf
<1> QED
    BY <1>1, <1>2, <1>3 DEF Emitting, FailureInv, Batch!Running

(* The operation that addOperation adds is queued; the others stay.         *)
LEMMA OperationAdded ==
    ASSUME BatchInv, TypeInv, EmitRange
    PROVE  /\ Total' = Total + 1 /\ Total \in Nat
           /\ status'[Total + 1] = "queued"
           /\ \A i \in 1..Total : status'[i] = status[i] /\ Reads(i)' = Reads(i)
<1>1. /\ assigned' = Append(assigned, ranges[index + 1])
      /\ status' = Append(status, "queued")
    BY DEF EmitRange, EmitRangeBy, Batch!AddOperation, Batch!AddOperationAs
<1>2. Total' = Total + 1 /\ Total \in Nat
    BY TypeEmitRange, Progress
<1>3. status \in Seq(Batch!OperationState) /\ "queued" \in Batch!OperationState
    BY DEF BatchInv, Batch!TypeOK, Batch!OperationState
<1>4. assigned \in Seq(ByteRange) /\ Len(assigned) = Total
    BY DEF TypeInv, TypeOK, ListTypes
<1>5. ranges[index + 1] \in ByteRange
    <2>1. /\ ranges \in Seq(ByteRange) /\ Len(ranges) \in Nat /\ index \in 0..Len(ranges)
          /\ index < Len(ranges)
        BY LenProperties DEF TypeInv, TypeOK, ListTypes, EmitRange, EmitRangeBy
    <2>2. index + 1 \in 1..Len(ranges)
        BY <2>1
    <2> QED
        BY <2>1, <2>2, ElementOfSeq
<1>6. \A i \in 1..Total : status'[i] = status[i]
    BY <1>1, <1>3, Pushed DEF Total
<1>7. status'[Total + 1] = "queued"
    BY <1>1, <1>3, Pushed DEF Total
<1>8. \A i \in 1..Total : assigned'[i] = assigned[i]
    BY <1>1, <1>4, <1>5, Pushed
<1> QED
    BY <1>2, <1>6, <1>7, <1>8 DEF Reads

LEMMA EmitRangeAction ==
    ASSUME BatchInv, TypeInv, EmissionInv, FailureInv, EmitRange
    PROVE  EmissionInv' /\ FailureInv'
<1>1. /\ Emitting /\ UNCHANGED <<emitting, emittedAll, completing, failures, handled, error, current>>
      /\ assigned' = Append(assigned, ranges[index + 1])
      /\ status' = Append(status, "queued")
      /\ stack' = Append(stack, Batch!Call("run", Total + 1))
    BY DEF EmitRange, EmitRangeBy, Batch!AddOperation, Batch!AddOperationAs, Total, Batch!Total
<1>2. Total' = Total + 1 /\ Total \in Nat
    BY TypeEmitRange, Progress
<1>3. /\ Batch!Call("run", Total + 1) \in Batch!Frame
      /\ Batch!Call("run", Total + 1).pc = "run" /\ Batch!Call("run", Total + 1).op = Total + 1
    BY <1>2, CallFields DEF Batch!Pcs
<1>4. /\ Len(stack') = Len(stack) + 1 /\ Len(stack) \in Nat
      /\ \A n \in 1..Len(stack) : stack'[n] = stack[n]
      /\ stack'[Len(stack) + 1] = Batch!Call("run", Total + 1)
      /\ \A pc : Batch!Running(pc)' <=> pc = "run"
    BY <1>1, <1>3, CallPushed
<1>5. /\ emitting # None /\ emitting = Len(stack)
      /\ \A n \in 1..Len(stack) : ~Adding(n)
      /\ ~Batch!Running("fail") /\ ~Batch!Running("succeed")
    BY <1>1, EmittingFacts DEF Emitting
<1>6. failures \subseteq 1..Total
    BY DEF TypeInv, TypeOK
<1>7. /\ \A i \in 1..Total : status'[i] = status[i] /\ Reads(i)' = Reads(i)
      /\ status'[Total + 1] = "queued"
    BY OperationAdded
<1>8. \A n \in 1..Len(stack') : Adding(n)' => n = Len(stack) + 1
    BY <1>4, <1>5 DEF Adding
<1>9. ASSUME NEW n \in 1..Len(stack'), n > emitting PROVE CalledByEmission(stack[n])'
    <2>1. n = Len(stack) + 1
        BY <1>4, <1>5, <1>9
    <2>2. stack'[n].pc = "run" /\ stack'[n].op = Total' /\ Total' \notin failures'
        BY <1>1, <1>2, <1>3, <1>4, <1>6, <2>1
    <2> QED
        BY <2>2 DEF CalledByEmission
<1>10. /\ emitting' \in 0..Len(stack') /\ ~emittedAll'
       /\ emitting' > 0 => stack'[emitting'].pc = "onDrain"
       /\ emittedAll' = completing'
    BY <1>1, <1>4, <1>5 DEF EmissionInv
<1>11. \A n \in 1..Len(stack') : Adding(n)' => emitting' # None /\ n > emitting'
    BY <1>1, <1>4, <1>5, <1>8
<1>12. EmissionInv'
    BY <1>1, <1>5, <1>8, <1>9, <1>10, <1>11 DEF EmissionInv
<1>13. handled => Batch!InProgress("userCallback")' # {}
    BY <1>1, <1>3, UsersPushed DEF FailureInv
<1>14. ASSUME NEW i \in failures
       PROVE  /\ Reads(i)' /\ i < current => emittedAll
              /\ status'[i] \notin {"queued", "running"} /\ error
    BY <1>5, <1>6, <1>7 DEF FailureInv
<1>15. ASSUME NEW i \in 1..Total', status'[i] = "running" PROVE Reads(i)'
    <2>1. i \in 1..Total
        BY <1>2, <1>7, <1>15
    <2>2. status[i] = "running"
        BY <1>7, <1>15, <2>1
    <2>3. Reads(i)
        BY <1>5, <2>1, <2>2 DEF FailureInv
    <2> QED
        BY <1>7, <2>1, <2>3
<1>16. error => \E i \in failures : Reads(i)'
    BY <1>6, <1>7 DEF FailureInv
<1>17. handled /\ current \in failures /\ Reads(current)' => emittedAll
    <2>1. current \in failures => Reads(current)' = Reads(current)
        BY <1>1, <1>6, <1>7 DEF Reads
    <2>2. handled /\ current \in failures /\ Reads(current) => emittedAll
        BY DEF FailureInv
    <2> QED
        BY <2>1, <2>2, Zenon
<1>18. ~Batch!Running("fail")'
    BY <1>4
<1>19. FailureInv'
    BY <1>1, <1>13, <1>14, <1>15, <1>16, <1>17, <1>18 DEF FailureInv
<1> QED
    BY <1>12, <1>19

(* The emission stops, because it is paused or waits for a page, or because *)
(* it is complete.                                                          *)
LEMMA EmissionOver ==
    ASSUME BatchInv, TypeInv, EmissionInv, FailureInv, EmissionStops \/ EmissionEnds
    PROVE  EmissionInv' /\ FailureInv'
<1>1. /\ Emitting /\ emitting' = None
      /\ UNCHANGED <<status, error, current, assigned, failures, handled>>
      /\ \/ UNCHANGED <<stack, emittedAll, completing>>
         \/ /\ stack' = Append(stack, Batch!Call("tryEnd", 0))
            /\ emittedAll' = TRUE /\ completing' = TRUE
    BY DEF EmissionStops, EmissionEnds, Batch!EnableComplete, batchVars
<1>2. /\ Batch!Call("tryEnd", 0) \in Batch!Frame
      /\ Batch!Call("tryEnd", 0).pc = "tryEnd"
    BY CallFields DEF Batch!Pcs
<1>3. /\ \A n \in 1..Len(stack) : ~Adding(n)
      /\ \A pc : Batch!Running(pc) => pc = "onDrain"
      /\ Len(stack) \in Nat
    BY <1>1, EmittingFacts
<1>4. \/ stack' = stack
      \/ /\ Len(stack') = Len(stack) + 1
         /\ \A n \in 1..Len(stack) : stack'[n] = stack[n]
         /\ stack'[Len(stack) + 1].pc = "tryEnd"
         /\ \A pc : Batch!Running(pc)' <=> pc = "tryEnd"
    BY <1>1, <1>2, CallPushed
<1>5. \A n \in 1..Len(stack') : ~Adding(n)'
    BY <1>3, <1>4 DEF Adding
<1>6. emittedAll' = completing'
    BY <1>1 DEF EmissionInv
<1>7. EmissionInv'
    BY <1>1, <1>5, <1>6 DEF EmissionInv
<1>8. ~Batch!Running("fail") /\ ~Batch!Running("succeed") /\ ~Batch!Running("fail")'
    BY <1>3, <1>4 DEF Batch!Running, Batch!Top
<1>9. handled => Batch!InProgress("userCallback")' # {}
    BY <1>1, <1>2, UsersPushed DEF FailureInv
<1>10. FailureInv'
    BY <1>1, <1>8, <1>9, FailureKept DEF FailureInv
<1> QED
    BY <1>7, <1>10

(* What the user callbacks do.                                              *)
LEMMA UserCallbackActions ==
    ASSUME BatchInv, TypeInv, EmissionInv, FailureInv,
           UserCallbackWrites \/ UserCallbackStops \/ UserCallbackIgnores
    PROVE  EmissionInv' /\ FailureInv'
<1>1. /\ Batch!Running("userCallback") /\ stack # <<>> /\ Batch!Top.pc = "userCallback"
      /\ UNCHANGED <<status, error, current, assigned, failures, emitting>>
      /\ handled' = TRUE
      /\ \/ /\ UNCHANGED <<stack, emittedAll, completing>>
            /\ ~(Batch!Top.op \in failures /\ Reads(Batch!Top.op))
         \/ /\ stack' = Append(stack, Batch!Call("tryEnd", 0)) /\ Batch!Top.op \in failures
            /\ emittedAll' = TRUE /\ completing' = TRUE
    BY DEF UserCallbackWrites, UserCallbackStops, UserCallbackIgnores, Batch!EnableComplete,
       Batch!Pause, batchVars, Others, emitVars, Batch!Running
<1>2. /\ Batch!Call("tryEnd", 0) \in Batch!Frame
      /\ Batch!Call("tryEnd", 0).pc = "tryEnd"
    BY CallFields DEF Batch!Pcs
<1>3. /\ Batch!Top.op = current /\ Len(stack) \in Batch!InProgress("userCallback")
      /\ Len(stack) \in Nat
    BY <1>1, TopFacts DEF Batch!CallOK, Batch!InProgress, Batch!CallsOf
<1>4. ~Batch!Running("fail") /\ ~Batch!Running("succeed")
    BY <1>1 DEF Batch!Running
<1>5. Batch!InProgress("userCallback")' # {}
    BY <1>1, <1>2, <1>3, UsersPushed
<1>6. CASE /\ UNCHANGED <<stack, emittedAll, completing>>
           /\ ~(current \in failures /\ Reads(current))
    <2>1. EmissionInv'
        BY <1>1, <1>6 DEF EmissionInv, Adding, CalledByEmission, Total, Reads
    <2>2. ~Batch!Running("fail")'
        BY <1>4, <1>6 DEF Batch!Running, Batch!Top
    <2>3. FailureInv'
        BY <1>1, <1>4, <1>5, <1>6, <2>2, FailureKept
    <2> QED
        BY <2>1, <2>3
<1>7. CASE /\ stack' = Append(stack, Batch!Call("tryEnd", 0)) /\ Batch!Top.op \in failures
           /\ emittedAll' = TRUE /\ completing' = TRUE
    <2>1. emitting = None /\ \A n \in 1..Len(stack) : ~Adding(n)
        BY <1>1, <1>7, FailedOutsideEmission, NotAdding
    <2>2. /\ Len(stack') = Len(stack) + 1
          /\ \A n \in 1..Len(stack) : stack'[n] = stack[n]
          /\ stack'[Len(stack) + 1].pc = "tryEnd"
          /\ \A pc : Batch!Running(pc)' <=> pc = "tryEnd"
        BY <1>2, <1>7, CallPushed
    <2>3. \A n \in 1..Len(stack') : ~Adding(n)'
        BY <1>3, <2>1, <2>2 DEF Adding
    <2>4. EmissionInv'
        BY <1>1, <1>7, <2>1, <2>3 DEF EmissionInv
    <2>5. FailureInv'
        BY <1>1, <1>4, <1>5, <1>7, <2>2, FailureKept
    <2> QED
        BY <2>4, <2>5
<1> QED
    BY <1>1, <1>3, <1>6, <1>7

(* A request answers.                                                       *)
LEMMA RequestDoneAction ==
    ASSUME BatchInv, TypeInv, EmissionInv, FailureInv,
           NEW i \in 1..Total, NEW failed \in BOOLEAN, RequestDone(i, failed)
    PROVE  EmissionInv' /\ FailureInv'
<1> DEFINE pc == IF failed THEN "fail" ELSE "succeed"
<1>1. /\ ~Emitting /\ stack = <<>> /\ status[i] = "running"
      /\ UNCHANGED <<status, error, current, completing, assigned, emitting, emittedAll, handled>>
      /\ failures' = IF failed THEN failures \cup {i} ELSE failures
      /\ stack' = Append(stack, Batch!Call(pc, i))
    BY DEF RequestDone, Batch!RequestDone, Batch!RequestDoneIn, Batch!Idle, Batch!batch,
       Others, emitVars
<1>2. /\ Len(stack) = 0 /\ emitting = None /\ ~handled
      /\ ~Batch!Running("fail") /\ ~Batch!Running("succeed")
    BY <1>1, EventLoopFacts
<1>3. /\ Batch!Call(pc, i) \in Batch!Frame
      /\ Batch!Call(pc, i).pc = pc /\ Batch!Call(pc, i).op = i
    <2>1. pc \in Batch!Pcs /\ i \in Nat
        BY DEF Batch!Pcs
    <2> HIDE DEF pc
    <2> QED
        BY <2>1, CallFields
<1>4. /\ Len(stack') = 1 /\ stack'[1].pc = pc /\ Batch!Top'.op = i
      /\ \A p : Batch!Running(p)' <=> p = pc
    <2> HIDE DEF pc
    <2> QED
        BY <1>1, <1>2, <1>3, CallPushed
<1>5. EmissionInv'
    BY <1>1, <1>2, <1>4 DEF EmissionInv, Adding
<1>6. Reads(i)
    BY <1>1, <1>2 DEF FailureInv
<1>7. ~(i < current)
    BY <1>1, Progress
<1>8. ASSUME NEW j \in failures'
      PROVE  /\ Reads(j) /\ j < current => emittedAll
             /\ IF status[j] \in {"queued", "running"}
                THEN Batch!Running("fail")' /\ Batch!Top'.op = j ELSE error
    <2>1. CASE j \in failures
        BY <1>2, <2>1 DEF FailureInv
    <2>2. CASE j \notin failures
        <3>1. j = i /\ failed
            BY <1>1, <2>2
        <3>2. Batch!Running("fail")'
            BY <1>4, <3>1
        <3> QED
            BY <1>1, <1>4, <1>7, <3>1, <3>2
    <2> QED
        BY <2>1, <2>2
<1>9. error => \E j \in failures' : Reads(j)
    BY <1>1 DEF FailureInv
<1>10. Batch!Running("fail")' => i \in failures'
    BY <1>1, <1>4
<1>11. ASSUME NEW j \in 1..Total, status[j] = "running" PROVE Reads(j)
    BY <1>2, <1>11 DEF FailureInv
<1>12. FailureInv'
    BY <1>1, <1>2, <1>4, <1>6, <1>8, <1>9, <1>10, <1>11 DEF FailureInv, Reads, Total
<1> QED
    BY <1>5, <1>12

(* The answers of the services and the output stream.                       *)
LEMMA EmissionExternal ==
    ASSUME BatchInv, TypeInv, UnlistedBlocks, EmissionInv, FailureInv,
           \/ ListAnswers \/ BlocksAnswer \/ ListFails \/ OutputDrains \/ OutputEnds
           \/ UNCHANGED vars
    PROVE  EmissionInv' /\ FailureInv'
<1>1. CASE ListAnswers \/ BlocksAnswer
    <2>1. /\ stack = <<>> /\ ~Emitting
          /\ UNCHANGED <<batchVars, emittedAll, assigned, failures, handled>>
          /\ emitting' = None \/ (emitting' = 0 /\ ~emittedAll)
        <3>1. CASE ListAnswers
            BY <3>1 DEF ListAnswers, EventLoop
        <3>2. CASE BlocksAnswer
            BY <3>2 DEF BlocksAnswer, EventLoop, UnlistedBlocks
        <3> QED
            BY <1>1, <3>1, <3>2
    <2>2. /\ Len(stack) = 0 /\ emitting = None /\ ~handled
          /\ ~Batch!Running("fail") /\ ~Batch!Running("succeed")
        BY <2>1, EventLoopFacts
    <2>3. /\ UNCHANGED <<stack, status, error, current, completing>>
          /\ ~Batch!Running("fail")'
        BY <2>1, <2>2 DEF batchVars, Batch!Running, Batch!Top
    <2>4. EmissionInv'
        BY <2>1, <2>2, <2>3 DEF EmissionInv, Adding
    <2>5. FailureInv'
        BY <2>1, <2>2, <2>3, FailureKept
    <2> QED
        BY <2>4, <2>5
<1>2. CASE OutputDrains
    <2>1. /\ stack = <<>> /\ ~Emitting
          /\ UNCHANGED <<status, error, current, completing, emitting, emittedAll, assigned,
                         failures, handled>>
          /\ stack' = Append(stack, Batch!Call("fire", 0))
        BY <1>2 DEF OutputDrains, EventLoop, Batch!Resume, emitVars
    <2>2. /\ Len(stack) = 0 /\ emitting = None /\ ~handled
          /\ ~Batch!Running("fail") /\ ~Batch!Running("succeed")
        BY <2>1, EventLoopFacts
    <2>3. Batch!Call("fire", 0) \in Batch!Frame /\ Batch!Call("fire", 0).pc = "fire"
        BY CallFields DEF Batch!Pcs
    <2>4. /\ Len(stack') = 1 /\ stack'[1].pc = "fire"
          /\ ~Batch!Running("fail")'
        BY <2>1, <2>2, <2>3, CallPushed
    <2>5. EmissionInv'
        BY <2>1, <2>2, <2>4 DEF EmissionInv, Adding
    <2>6. FailureInv'
        BY <2>1, <2>2, <2>4, FailureKept
    <2> QED
        BY <2>5, <2>6
<1>3. CASE ListFails \/ OutputEnds \/ UNCHANGED vars
    <2>1. UNCHANGED <<batchVars, emitVars, assigned, failures, handled>>
        BY <1>3 DEF ListFails, OutputEnds, vars
    <2>2. UNCHANGED <<stack, status, error, current, completing, emitting, emittedAll, assigned,
                      failures, handled>>
        BY <2>1 DEF batchVars, emitVars
    <2>3. EmissionInv'
        BY <2>2 DEF EmissionInv, Adding, CalledByEmission, Total, Reads
    <2>4. FailureInv'
        BY <2>2 DEF FailureInv, Total, Reads, Batch!Running, Batch!Top, Batch!InProgress,
           Batch!CallsOf
    <2> QED
        BY <2>3, <2>4
<1> QED
    BY <1>1, <1>2, <1>3
-----------------------------------------------------------------------------
(* The invariant of a download, and what follows from it.                   *)
Inv == BatchInv /\ TypeInv /\ UnlistedBlocks /\ EmissionInv /\ FailureInv

LEMMA InvInit == Init => Inv
<1> SUFFICES ASSUME Init PROVE Inv
    OBVIOUS
<1>1. BatchInv /\ TypeInv /\ UnlistedBlocks
    BY BatchInit, TypeInit DEF BatchInv
<1>2. /\ stack = <<>> /\ emitting = None /\ emittedAll = FALSE /\ completing = FALSE
      /\ error = FALSE /\ failures = {} /\ handled = FALSE /\ Total = 0
    BY EmptySeq DEF Init, Total
<1>3. Len(stack) = 0 /\ ~Batch!Running("fail")
    BY <1>2, EmptySeq DEF Batch!Running
<1>4. EmissionInv
    <2>1. \A n : n \notin 1..Len(stack)
        BY <1>3
    <2>2. emittedAll = completing
        BY <1>2
    <2> QED
        BY <1>2, <2>1, <2>2 DEF EmissionInv
<1>5. FailureInv
    BY <1>2, <1>3 DEF FailureInv
<1> QED
    BY <1>1, <1>4, <1>5 DEF Inv

LEMMA InvNext == Inv /\ [Next]_vars => Inv' /\ [Batch!Next]_(Batch!vars)
<1> SUFFICES ASSUME Inv, [Next]_vars PROVE Inv' /\ [Batch!Next]_(Batch!vars)
    OBVIOUS
<1> USE DEF Inv
<1>1. [Batch!Next]_(Batch!vars)
    BY StepIsBatchStep
<1>2. BatchInv'
    BY <1>1, BatchNext DEF BatchInv
<1>3. TypeInv' /\ UnlistedBlocks'
    BY TypeNext, UnlistedNext
<1>4. EmissionInv' /\ FailureInv'
    <2>1. CASE BatchActions
        BY <2>1, EmissionBatchActions
    <2>2. CASE EmitRange
        BY <2>2, EmitRangeAction
    <2>3. CASE EmissionStops \/ EmissionEnds
        BY <2>3, EmissionOver
    <2>4. CASE UserCallbackWrites \/ UserCallbackStops \/ UserCallbackIgnores
        BY <2>4, UserCallbackActions
    <2>5. CASE \E i \in 1..Total, failed \in BOOLEAN : RequestDone(i, failed)
        BY <2>5, RequestDoneAction
    <2>6. CASE ListAnswers \/ BlocksAnswer \/ ListFails \/ OutputDrains \/ OutputEnds
               \/ UNCHANGED vars
        BY <2>6, EmissionExternal
    <2> QED
        BY <2>1, <2>2, <2>3, <2>4, <2>5, <2>6
           DEF Next, Internal, External, Stopped, BatchActions
<1> QED
    BY <1>1, <1>2, <1>3, <1>4

LEMMA Invariant == Spec => []Inv
    BY InvInit, InvNext, PTL DEF Spec

(* TypeOK: the state of the range stream, of the listing and of the output  *)
(* stream has its type, and the ranges that were emitted are as many as the *)
(* operations of the batch.                                                 *)
THEOREM DownloadTypeCorrect == Spec => []TypeOK
<1>1. Inv => TypeOK
    BY DEF Inv, TypeInv
<1> QED
    BY <1>1, Invariant, PTL

(* BatchAsModelled: a download uses its batch as BatchOperation supposes:   *)
(* the range stream adds operations only from the event loop and from       *)
(* 'drain', never while addOperation is in progress and never after         *)
(* enableComplete, which a user callback may call only when its read has    *)
(* failed.  Every behaviour of a download is one of a batch.                *)
THEOREM DownloadUsesBatch == Spec => BatchAsModelled
<1>1. Init => Batch!Init
    BY BatchInit
<1> QED
    BY <1>1, Invariant, InvNext, PTL DEF Spec, BatchAsModelled, Batch!Spec

(* What the invariant of the batch says of a download: the user callbacks,  *)
(* which write to the output stream, run in the order of the ranges, each   *)
(* once and one at a time, and 'end' comes after all of them.               *)
THEOREM DownloadWritesInOrder ==
    Spec => [](/\ \A n \in 1..Len(fired) : fired[n] = n
               /\ Batch!FiredOneByOne
               /\ ended => current = Total + 1 /\ Len(fired) = Total)
<1>1. Inv => /\ \A n \in 1..Len(fired) : fired[n] = n
             /\ Batch!FiredOneByOne
             /\ ended => current = Total + 1 /\ Len(fired) = Total
    <2> SUFFICES ASSUME Inv
                 PROVE  /\ \A n \in 1..Len(fired) : fired[n] = n
                        /\ Batch!FiredOneByOne
                        /\ ended => current = Total + 1 /\ Len(fired) = Total
        OBVIOUS
    <2>1. BatchInv /\ Batch!CallbackInv
        BY DEF Inv, BatchInv, Batch!SequenceInv
    <2>2. \A n \in 1..Len(fired) : fired[n] = n
        BY <2>1 DEF Batch!CallbackInv, Batch!FiredInOrder
    <2>3. ASSUME ended PROVE current = Total + 1 /\ Len(fired) = Total
        <3>1. current = Total + 1 /\ Total \in Nat
            BY <2>1, <2>3, Progress
        <3>2. Batch!InProgress("userCallback") = {}
            <4>1. ASSUME NEW n \in Batch!InProgress("userCallback") PROVE FALSE
                <5>1. n \in 1..Len(stack) /\ stack[n].pc = "userCallback"
                    BY <4>1 DEF Batch!InProgress, Batch!CallsOf
                <5>2. Batch!CallOK(stack[n], status, current)
                    BY <2>1, <5>1, Progress
                <5> QED
                    BY <3>1, <5>1, <5>2 DEF Batch!CallOK, Total
            <4> QED
                BY <4>1
        <3> QED
            BY <2>1, <3>1, <3>2 DEF Batch!CallbackInv
    <2> QED
        BY <2>1, <2>2, <2>3 DEF Batch!CallbackInv
<1> QED
    BY <1>1, Invariant, PTL
-----------------------------------------------------------------------------
(* The end of a download.  Nothing of the batch is left to do once it has   *)
(* ended; the output stream drains no more; and the caller was called back, *)
(* or will be by the end of the output stream, or by the listener of 'end'. *)
Succeeded == \E n \in 1..Len(answers) : answers[n] = "success"

EndInv ==
    /\ full = paused
    /\ ended => /\ ~Batch!Running("fire") /\ ~Batch!Running("tryEnd")
                /\ Batch!Running("onEnd") \/ closed \/ ~full
                /\ error => ~full
    /\ Batch!Running("onEnd") => ended
    /\ Batch!Running("tryEnd") /\ error /\ full => current # Total + 1
    /\ closing > 0 \/ Succeeded => ended /\ ~error
    /\ answers \in Seq({"success", "error"})
    /\ ~blob.listFails =>
          Len(answers) + closing + (IF Batch!Running("onEnd") THEN 1 ELSE 0)
             <= (IF ended THEN 1 ELSE 0)

LEMMA EndFacts ==
    ASSUME Inv, ended
    PROVE  /\ completing /\ current = Total + 1 /\ Total \in Nat /\ emitting = None /\ ~Emitting
           /\ ~Batch!Running("userCallback") /\ ~Batch!Running("succeed")
           /\ ~Batch!Running("fail") /\ ~Batch!Running("run")
<1>1. completing /\ current = Total + 1 /\ Total \in Nat
    BY Progress DEF Inv
<1>2. emitting = None /\ ~Emitting
    <2>1. emitting = None
        BY <1>1 DEF Inv, EmissionInv
    <2> QED
        BY <2>1, LenProperties DEF Emitting, None, Inv, BatchInv, Batch!TypeOK
<1>3. ASSUME NEW pc \in {"userCallback", "succeed", "fail", "run"}, Batch!Running(pc)
      PROVE  FALSE
    <2>1. /\ stack # <<>> /\ Batch!Top.pc = pc
          /\ Batch!CallOK(Batch!Top, status, current)
          /\ Len(stack) \in 1..Len(stack) /\ Batch!Top = stack[Len(stack)]
        BY <1>3, TopFacts DEF Batch!Running, Inv
    <2>2. CASE pc = "userCallback"
        BY <1>1, <2>1, <2>2 DEF Batch!CallOK, Total
    <2>3. CASE pc \in {"succeed", "fail"}
        <3>1. Batch!Top.op \in 1..Total /\ status[Batch!Top.op] # "complete"
            BY <2>1, <2>3 DEF Batch!CallOK, Total
        <3> QED
            BY <1>1, <3>1, Progress DEF Inv
    <2>4. CASE pc = "run"
        BY <1>2, <2>1, <2>4, NotAdding DEF Adding, Inv
    <2> QED
        BY <2>2, <2>3, <2>4
<1> QED
    BY <1>1, <1>2, <1>3

(* The innermost call after a step.                                         *)
LEMMA RunningAppended ==
    ASSUME NEW s \in Seq(Batch!Frame), NEW f, stack' = Append(s, f)
    PROVE  \A pc : Batch!Running(pc)' <=> pc = f.pc
<1> DEFINE S == Batch!Frame \cup {f}
<1>1. s \in Seq(S)
    <2>1. Batch!Frame \subseteq S
        OBVIOUS
    <2>2. s \in [1..Len(s) -> Batch!Frame] /\ Len(s) \in Nat
        BY LenProperties
    <2> HIDE DEF S
    <2> QED
        BY <2>1, <2>2
<1>2. f \in S
    OBVIOUS
<1> HIDE DEF S
<1>3. Len(stack') = Len(s) + 1 /\ stack' # <<>> /\ stack'[Len(s) + 1] = f
    BY <1>1, <1>2, Pushed
<1> QED
    BY <1>3 DEF Batch!Running, Batch!Top

LEMMA BatchTops ==
    ASSUME BatchInv, BatchActions, ~Batch!EmitEnd, ~End, ~Batch!FireNothing
    PROVE  /\ \A pc : Batch!Running(pc)' =>
                 \/ pc \in {"ran", "fail", "succeed", "tryDrain", "userCallback", "onDrain"}
                 \/ /\ pc = "fire"
                    /\ \/ Batch!Running("succeed") \/ Batch!Running("fail")
                       \/ Batch!Running("userCallback")
           /\ ~Batch!Running("onEnd")
<1>1. /\ stack # <<>> /\ ~Batch!Running("onEnd")
      /\ \/ stack' = Batch!Caller
         \/ \E f : /\ stack' = Append(Batch!Caller, f)
                   /\ \/ f.pc \in {"ran", "tryDrain", "userCallback", "onDrain"}
                      \/ f.pc = "fire" /\ Batch!Running("userCallback")
         \/ \E op \in Nat : \E f :
                /\ stack' = Append(Append(Batch!Caller, Batch!Call("ran", op)), f)
                /\ f.pc \in {"fail", "succeed"}
         \/ \E f : /\ stack' = Append(Append(Batch!Caller, Batch!Call("tryDrain", 0)), f)
                   /\ f.pc = "fire" /\ (Batch!Running("succeed") \/ Batch!Running("fail"))
    <2>1. \A pc, op : Batch!Call(pc, op).pc = pc
        BY DEF Batch!Call
    <2>2. CASE BatchRuns
        <3>1. stack # <<>> /\ Batch!Top.pc = "run"
            BY <2>2 DEF BatchRuns, RunOperation, Batch!RunAfterError, Batch!RunRequest,
               Batch!RunNoOperation, Batch!Running
        <3>2. Batch!Top.op \in Nat
            BY <3>1, TopFacts
        <3>3. \/ stack' = Append(Batch!Caller, Batch!Call("ran", Batch!Top.op))
              \/ stack' = Append(Append(Batch!Caller, Batch!Call("ran", Batch!Top.op)),
                                 Batch!Call("fail", Batch!Top.op))
              \/ stack' = Append(Append(Batch!Caller, Batch!Call("ran", Batch!Top.op)),
                                 Batch!Call("succeed", Batch!Top.op))
            BY <2>2 DEF BatchRuns, RunOperation, Batch!RunAfterError, Batch!RunRequest,
               Batch!RunNoOperation
        <3>4. ~Batch!Running("onEnd")
            BY <3>1 DEF Batch!Running
        <3>5. CASE stack' = Append(Batch!Caller, Batch!Call("ran", Batch!Top.op))
            BY <2>1, <3>1, <3>4, <3>5
        <3>6. ASSUME NEW pc \in {"fail", "succeed"},
                     stack' = Append(Append(Batch!Caller, Batch!Call("ran", Batch!Top.op)),
                                     Batch!Call(pc, Batch!Top.op))
              PROVE  \E op \in Nat : \E f :
                        /\ stack' = Append(Append(Batch!Caller, Batch!Call("ran", op)), f)
                        /\ f.pc \in {"fail", "succeed"}
            <4> WITNESS Batch!Top.op \in Nat
            <4> WITNESS Batch!Call(pc, Batch!Top.op)
            <4> QED
                BY <2>1, <3>6
        <3>7. CASE stack' # Append(Batch!Caller, Batch!Call("ran", Batch!Top.op))
            <4>1. \E op \in Nat : \E f :
                      /\ stack' = Append(Append(Batch!Caller, Batch!Call("ran", op)), f)
                      /\ f.pc \in {"fail", "succeed"}
                BY <3>3, <3>6, <3>7, Zenon
            <4> QED
                BY <3>1, <3>4, <4>1, Zenon
        <3> QED
            BY <3>5, <3>7
    <2>3. CASE RanPausing
        BY <2>3 DEF RanPausing, RanFor, Batch!Ran, Batch!Running
    <2>4. CASE Drain
        BY <2>1, <2>4 DEF Drain, DrainTo, Batch!EmitDrain, Batch!Running
    <2>5. CASE BatchSteps
        <3>1. CASE Batch!BatchOperationCallback
            <4>1. /\ stack # <<>> /\ ~Batch!Running("onEnd")
                  /\ Batch!Running("succeed") \/ Batch!Running("fail")
                BY <3>1 DEF Batch!BatchOperationCallback, Batch!SettleWith, Batch!Settling,
                   Batch!Running
            <4>2. \/ stack' = Append(Batch!Caller, Batch!Call("tryDrain", 0))
                  \/ stack' = Append(Append(Batch!Caller, Batch!Call("tryDrain", 0)),
                                     Batch!Call("fire", Batch!Top.op))
                BY <3>1 DEF Batch!BatchOperationCallback, Batch!SettleWith
            <4>3. CASE stack' = Append(Batch!Caller, Batch!Call("tryDrain", 0))
                BY <2>1, <4>1, <4>3
            <4>4. CASE stack' = Append(Append(Batch!Caller, Batch!Call("tryDrain", 0)),
                                       Batch!Call("fire", Batch!Top.op))
                BY <2>1, <4>1, <4>4
            <4> QED
                BY <4>2, <4>3, <4>4
        <3>2. CASE Batch!FireUserCallback
            <4>1. \E i, k : stack' = Append(Batch!Caller,
                                         [pc |-> "userCallback", op |-> i, index |-> k])
                BY <3>2 DEF Batch!FireUserCallback
            <4>2. stack # <<>> /\ ~Batch!Running("onEnd")
                BY <3>2 DEF Batch!FireUserCallback, Batch!Running
            <4> QED
                BY <4>1, <4>2
        <3>3. CASE Batch!FireWhilePaused \/ Batch!NotComplete \/ Batch!NoDrain
                   \/ Batch!UserCallbackReturns \/ (Batch!Running("onDrain") /\ Batch!ListenerReturns)
            BY <2>1, <3>3 DEF Batch!FireWhilePaused, Batch!NotComplete, Batch!NoDrain,
               Batch!UserCallbackReturns, Batch!RemoveOperation, Batch!ListenerReturns, Batch!Running
        <3> QED
            BY <2>5, <3>1, <3>2, <3>3 DEF BatchSteps
    <2> QED
        BY <2>2, <2>3, <2>4, <2>5 DEF BatchActions
<1>2. Batch!Caller \in Seq(Batch!Frame)
    BY <1>1, TopFacts
<1>3. CASE stack' = Batch!Caller
    BY <1>1, <1>3, CallReturned DEF Batch!Suspended
<1>4. ASSUME NEW f, stack' = Append(Batch!Caller, f)
      PROVE  \A pc : Batch!Running(pc)' <=> pc = f.pc
    BY <1>2, <1>4, RunningAppended
<1>5. ASSUME NEW pc0 \in Batch!Pcs, NEW op \in Nat, NEW f,
             stack' = Append(Append(Batch!Caller, Batch!Call(pc0, op)), f)
      PROVE  \A pc : Batch!Running(pc)' <=> pc = f.pc
    <2>1. Batch!Call(pc0, op) \in Batch!Frame
        BY CallFields
    <2>2. Append(Batch!Caller, Batch!Call(pc0, op)) \in Seq(Batch!Frame)
        BY <1>2, <2>1, Pushed
    <2> QED
        BY <1>5, <2>2, RunningAppended
<1>6. "ran" \in Batch!Pcs /\ "tryDrain" \in Batch!Pcs /\ 0 \in Nat
    BY DEF Batch!Pcs
<1>7. CASE \E f : /\ stack' = Append(Batch!Caller, f)
                  /\ \/ f.pc \in {"ran", "tryDrain", "userCallback", "onDrain"}
                     \/ f.pc = "fire" /\ Batch!Running("userCallback")
    BY <1>1, <1>4, <1>7
<1>8. CASE \E op \in Nat : \E f :
               /\ stack' = Append(Append(Batch!Caller, Batch!Call("ran", op)), f)
               /\ f.pc \in {"fail", "succeed"}
    BY <1>1, <1>5, <1>6, <1>8
<1>9. CASE \E f : /\ stack' = Append(Append(Batch!Caller, Batch!Call("tryDrain", 0)), f)
                  /\ f.pc = "fire" /\ (Batch!Running("succeed") \/ Batch!Running("fail"))
    BY <1>1, <1>5, <1>6, <1>9
<1> QED
    BY <1>1, <1>3, <1>7, <1>8, <1>9

LEMMA EndKept ==
    ASSUME EndInv, UNCHANGED <<blob, ended, closed, closing, answers>>,
           full' = paused', ended => UNCHANGED <<full, error>>,
           ~Batch!Running("onEnd"), ~Batch!Running("onEnd")',
           ended => ~Batch!Running("fire")' /\ ~Batch!Running("tryEnd")',
           Batch!Running("tryEnd")' /\ error' /\ full' => current' # Total' + 1
    PROVE  EndInv'
BY DEF EndInv, Succeeded

(* The steps of the batch: it ends, its listener answers, or another one.   *)
LEMMA EmitEndStep ==
    ASSUME Inv, EndInv, BatchSteps, Batch!EmitEnd
    PROVE  EndInv'
<1>1. /\ Batch!Running("tryEnd") /\ stack # <<>> /\ operations = <<>> /\ ended' = TRUE
      /\ UNCHANGED <<paused, error, full, closed, closing, answers, blob>>
      /\ stack' = Append(Batch!Caller, Batch!Call("onEnd", 0))
    BY DEF BatchSteps, Batch!EmitEnd, Batch!Complete, Others, outputVars, Batch!Running
<1>2. ~ended
    BY <1>1 DEF EndInv
<1>3. Batch!Call("onEnd", 0) \in Batch!Frame /\ Batch!Call("onEnd", 0).pc = "onEnd"
    BY CallFields DEF Batch!Pcs
<1>4. \A pc : Batch!Running(pc)' <=> pc = "onEnd"
    BY <1>1, <1>3, CallReplaced DEF Inv
<1>5. current = Total + 1
    <2>1. Len(operations) = 0
        BY <1>1, EmptySeq
    <2> QED
        BY <2>1, Progress DEF Inv
<1>6. error => ~full
    BY <1>1, <1>5 DEF EndInv
<1>7. /\ closing = 0 /\ ~Succeeded /\ (~blob.listFails => Len(answers) = 0)
    <2>1. closing \in Nat /\ Len(answers) \in Nat
        BY LenProperties DEF Inv, TypeInv, TypeOK, EndInv
    <2>2. ~(closing > 0 \/ Succeeded)
        BY <1>2 DEF EndInv
    <2>3. ~Batch!Running("onEnd")
        BY <1>2 DEF EndInv
    <2>4. ~blob.listFails => Len(answers) + closing + 0 <= 0
        BY <1>2, <2>3 DEF EndInv
    <2> QED
        BY <2>1, <2>2, <2>4
<1>8. EndInv'
    <2>1. ~(closing > 0)' /\ ~Succeeded' /\ closing' = 0
        BY <1>1, <1>7 DEF Succeeded
    <2>2. (~blob.listFails => Len(answers) + closing + 1 <= 1)'
        BY <1>1, <1>7
    <2> QED
        BY <1>1, <1>4, <1>6, <2>1, <2>2 DEF EndInv
<1> QED
    BY <1>8

LEMMA EndStep ==
    ASSUME Inv, EndInv, End
    PROVE  EndInv'
<1>1. /\ Batch!Running("onEnd") /\ stack # <<>> /\ stack' = Batch!Caller
      /\ UNCHANGED <<paused, error, full, blob, ended, current, status>>
      /\ closed' = (closed \/ ~error) /\ closing' = closing + IF ~error THEN 1 ELSE 0
      /\ answers' = IF error THEN Append(answers, "error") ELSE answers
    BY DEF End, EndWith, Batch!ListenerReturns, Batch!Running, Batch!batch, Answer
<1>2. ended /\ (error => ~full)
    BY <1>1 DEF EndInv
<1>3. \A pc : Batch!Running(pc)' => pc \in {"ran", "tryDrain", "userCallback", "onDrain"}
    BY <1>1, CallReturned DEF Inv, Batch!Suspended
<1>4. /\ ~Batch!Running("onEnd")' /\ ~Batch!Running("fire")' /\ ~Batch!Running("tryEnd")'
    BY <1>3
<1>5. /\ closing \in Nat /\ error \in BOOLEAN /\ answers \in Seq({"success", "error"})
      /\ Len(answers) \in Nat
    BY LenProperties DEF Inv, TypeInv, TypeOK, EndInv, BatchInv, Batch!TypeOK
<1>6. ~blob.listFails => Len(answers) + closing + 1 <= 1
    BY <1>1, <1>2 DEF EndInv
<1>7. CASE error
    <2>1. /\ answers' \in Seq({"success", "error"}) /\ Len(answers') = Len(answers) + 1
          /\ \A n \in 1..Len(answers) : answers'[n] = answers[n]
          /\ answers'[Len(answers) + 1] = "error"
        BY <1>1, <1>5, <1>7, Pushed
    <2>2. ~(closing > 0) /\ ~Succeeded
        BY <1>7 DEF EndInv
    <2>3. closing' = closing /\ ~Succeeded'
        <3>1. closing' = closing
            BY <1>1, <1>5, <1>7
        <3>2. \A n \in 1..Len(answers') : answers'[n] # "success"
            BY <1>5, <2>1, <2>2 DEF Succeeded
        <3> QED
            BY <3>1, <3>2 DEF Succeeded
    <2>4. (~blob.listFails => Len(answers) + closing + 0 <= 1)'
        <3>1. ~blob.listFails => Len(answers') + closing' + 0 <= 1
            BY <1>5, <1>6, <2>1, <2>3
        <3> QED
            BY <1>1, <3>1
    <2>5. ~(closing > 0)'
        BY <2>2, <2>3
    <2> QED
        BY <1>1, <1>2, <1>4, <1>7, <2>1, <2>3, <2>4, <2>5 DEF EndInv
<1>8. CASE ~error
    <2>1. answers' = answers /\ closed' = TRUE /\ closing' = closing + 1
        BY <1>1, <1>8
    <2>2. (~blob.listFails => Len(answers) + closing + 0 <= 1)'
        <3>1. ~blob.listFails => Len(answers') + closing' + 0 <= 1
            BY <1>5, <1>6, <2>1
        <3> QED
            BY <1>1, <3>1
    <2> QED
        BY <1>1, <1>2, <1>4, <1>5, <1>8, <2>1, <2>2 DEF EndInv
<1> QED
    BY <1>7, <1>8

LEMMA EndBatchActions ==
    ASSUME Inv, EndInv, BatchActions
    PROVE  EndInv'
<1>1. CASE End
    BY <1>1, EndStep
<1>2. CASE ~End /\ Batch!EmitEnd
    <2>1. Batch!Running("tryEnd")
        BY <1>2 DEF Batch!EmitEnd
    <2>2. ~Batch!Running("run") /\ ~Batch!Running("ran") /\ ~Batch!Running("tryDrain")
        BY <2>1 DEF Batch!Running
    <2>3. BatchSteps
        BY <1>2, <2>2 DEF BatchActions, BatchRuns, RunOperation, Batch!RunAfterError,
           Batch!RunRequest, Batch!RunNoOperation, RanPausing, RanFor, Batch!Ran,
           Drain, DrainTo, Batch!EmitDrain
    <2> QED
        BY <1>2, <2>3, EmitEndStep
<1>3. CASE ~End /\ ~Batch!EmitEnd
    <2>1. UNCHANGED <<blob, ended, closed, closing, answers, paused, full>>
        BY <1>3 DEF BatchActions, BatchRuns, RunOperation, Batch!RunAfterError,
           Batch!RunRequest, Batch!RunNoOperation, RanPausing, RanFor, Batch!Ran,
           Drain, DrainTo, Batch!EmitDrain, BatchSteps, Batch!BatchOperationCallback,
           Batch!SettleWith, Batch!FireUserCallback, Batch!FireWhilePaused, Batch!FireNothing,
           Batch!NotComplete, Batch!NoDrain, Batch!UserCallbackReturns, Batch!RemoveOperation,
           Batch!ListenerReturns, Batch!batch, Others, outputVars
    <2>2. ended => error' = error
        <3>1. ended => ~Batch!Running("fail") /\ ~Batch!Running("succeed")
            BY EndFacts
        <3>2. error' = error \/ Batch!Settling
            BY <1>3 DEF BatchActions, BatchRuns, RunOperation, Batch!RunAfterError,
               Batch!RunRequest, Batch!RunNoOperation, RanPausing, RanFor, Batch!Ran,
               Drain, DrainTo, Batch!EmitDrain, BatchSteps, Batch!BatchOperationCallback,
               Batch!SettleWith, Batch!FireUserCallback, Batch!FireWhilePaused, Batch!FireNothing,
               Batch!NotComplete, Batch!NoDrain, Batch!UserCallbackReturns, Batch!RemoveOperation,
               Batch!ListenerReturns, Batch!batch
        <3> QED
            BY <3>1, <3>2 DEF Batch!Settling
    <2>3. CASE Batch!FireNothing
        <3>1. /\ Batch!Running("fire") /\ ~paused /\ stack # <<>>
              /\ stack' = Append(Batch!Caller, Batch!Call("tryEnd", 0))
            BY <2>3 DEF Batch!FireNothing, Batch!Running
        <3>2. Batch!Call("tryEnd", 0) \in Batch!Frame /\ Batch!Call("tryEnd", 0).pc = "tryEnd"
            BY CallFields DEF Batch!Pcs
        <3>3. \A pc : Batch!Running(pc)' <=> pc = "tryEnd"
            BY <3>1, <3>2, CallReplaced DEF Inv
        <3>4. ~ended /\ ~full'
            BY <2>1, <3>1 DEF EndInv
        <3>5. ~Batch!Running("onEnd") /\ ~Batch!Running("onEnd")'
            BY <3>1, <3>3 DEF Batch!Running
        <3> QED
            BY <2>1, <3>4, <3>5, EndKept DEF EndInv
    <2>4. CASE ~Batch!FireNothing
        <3>1. /\ \A pc : Batch!Running(pc)' =>
                    \/ pc \in {"ran", "fail", "succeed", "tryDrain", "userCallback", "onDrain"}
                    \/ /\ pc = "fire"
                       /\ \/ Batch!Running("succeed") \/ Batch!Running("fail")
                          \/ Batch!Running("userCallback")
              /\ ~Batch!Running("onEnd")
            BY <1>3, <2>4, BatchTops DEF Inv
        <3>2. ~Batch!Running("onEnd")' /\ ~Batch!Running("tryEnd")'
            BY <3>1
        <3>3. ended => ~Batch!Running("fire")'
            BY <3>1, EndFacts
        <3> QED
            BY <2>1, <2>2, <3>1, <3>2, <3>3, EndKept DEF EndInv
    <2> QED
        BY <2>3, <2>4
<1> QED
    BY <1>1, <1>2, <1>3

LEMMA RunningPushed ==
    ASSUME BatchInv, NEW p \in Batch!Pcs, NEW op \in Nat,
           stack' = Append(stack, Batch!Call(p, op))
    PROVE  \A pc : Batch!Running(pc)' <=> pc = p
<1>1. stack \in Seq(Batch!Frame)
    BY DEF BatchInv, Batch!TypeOK
<1>2. \A pc : Batch!Running(pc)' <=> pc = Batch!Call(p, op).pc
    BY <1>1, RunningAppended
<1>3. Batch!Call(p, op).pc = p
    BY DEF Batch!Call
<1> QED
    BY <1>2, <1>3

(* The other steps.                                                         *)
LEMMA EndOthers ==
    ASSUME Inv, EndInv,
           \/ EmitRange \/ EmissionStops \/ EmissionEnds
           \/ UserCallbackWrites \/ UserCallbackStops \/ UserCallbackIgnores
           \/ OutputDrains \/ ListAnswers \/ BlocksAnswer
           \/ \E i \in 1..Total, failed \in BOOLEAN : RequestDone(i, failed)
    PROVE  EndInv'
<1>1. BatchInv
    BY DEF Inv
<1>2. full = paused
    BY DEF EndInv
<1>3. CASE EmitRange \/ EmissionStops \/ EmissionEnds
    <2>1. /\ Emitting /\ UNCHANGED <<blob, ended, closed, closing, answers, paused, full, error>>
          /\ \/ UNCHANGED stack
             \/ stack' = Append(stack, Batch!Call("run", Total + 1))
             \/ /\ stack' = Append(stack, Batch!Call("tryEnd", 0))
                /\ UNCHANGED <<current, status>>
        BY <1>3 DEF EmitRange, EmitRangeBy, Batch!AddOperation, Batch!AddOperationAs,
           EmissionStops, EmissionEnds, Batch!EnableComplete, batchVars, outputVars,
           Total, Batch!Total
    <2>2. /\ ~ended /\ ~emittedAll
          /\ \A pc : Batch!Running(pc) => pc = "onDrain"
        <3>1. /\ ~completing /\ ~emittedAll /\ \A pc : Batch!Running(pc) => pc = "onDrain"
            BY <2>1, EmittingFacts DEF Inv
        <3> QED
            BY <3>1, EndFacts
    <2>3. Total \in Nat /\ Total + 1 \in Nat /\ {"run", "tryEnd"} \subseteq Batch!Pcs
        BY Progress DEF Inv, Batch!Pcs
    <2>4. \/ UNCHANGED stack
          \/ \A pc : Batch!Running(pc)' <=> pc = "run"
          \/ /\ UNCHANGED <<current, status>>
             /\ \A pc : Batch!Running(pc)' <=> pc = "tryEnd"
        <3>1. CASE stack' = Append(stack, Batch!Call("run", Total + 1))
            <4>1. \A pc : Batch!Running(pc)' <=> pc = "run"
                BY <1>1, <2>3, <3>1, RunningPushed
            <4> QED
                BY <4>1
        <3>2. CASE stack' = Append(stack, Batch!Call("tryEnd", 0)) /\ UNCHANGED <<current, status>>
            <4>1. \A pc : Batch!Running(pc)' <=> pc = "tryEnd"
                BY <1>1, <2>3, <3>2, RunningPushed
            <4> QED
                BY <3>2, <4>1
        <3> QED
            BY <2>1, <3>1, <3>2
    <2>5. error /\ full => current # Total + 1
        <3> SUFFICES ASSUME error, current = Total + 1 PROVE FALSE
            OBVIOUS
        <3>1. PICK i \in failures : Reads(i)
            BY DEF Inv, FailureInv
        <3>2. i \in 1..Total
            BY DEF Inv, TypeInv, TypeOK
        <3>3. i < current
            BY <2>3, <3>2
        <3> QED
            BY <2>2, <3>1, <3>3 DEF Inv, FailureInv
    <2>6. CASE UNCHANGED stack
        <3>1. \A pc : Batch!Running(pc)' <=> Batch!Running(pc)
            BY <2>6 DEF Batch!Running, Batch!Top
        <3>2. /\ ~Batch!Running("onEnd")' /\ ~Batch!Running("tryEnd")' /\ ~Batch!Running("onEnd")
            BY <2>2, <3>1
        <3> QED
            BY <1>2, <2>1, <2>2, <3>2, EndKept
    <2>7. CASE \A pc : Batch!Running(pc)' <=> pc = "run"
        <3>1. /\ ~Batch!Running("onEnd")' /\ ~Batch!Running("tryEnd")' /\ ~Batch!Running("onEnd")
            BY <2>2, <2>7
        <3> QED
            BY <1>2, <2>1, <2>2, <3>1, EndKept
    <2>8. CASE /\ UNCHANGED <<current, status>>
               /\ \A pc : Batch!Running(pc)' <=> pc = "tryEnd"
        <3>1. /\ ~Batch!Running("onEnd")' /\ ~Batch!Running("onEnd")
              /\ Total' = Total
            BY <2>2, <2>8 DEF Total
        <3> QED
            BY <1>2, <2>1, <2>2, <2>5, <2>8, <3>1, EndKept
    <2> QED
        BY <2>4, <2>6, <2>7, <2>8
<1>4. CASE UserCallbackWrites \/ UserCallbackStops \/ UserCallbackIgnores
    <2>1. /\ Batch!Running("userCallback")
          /\ UNCHANGED <<blob, ended, closed, closing, answers, error, current, status>>
          /\ UNCHANGED <<paused, full>> \/ (paused' = TRUE /\ full' = TRUE)
          /\ \/ UNCHANGED stack
             \/ stack' = Append(stack, Batch!Call("tryEnd", 0))
        BY <1>4 DEF UserCallbackWrites, UserCallbackStops, UserCallbackIgnores,
           Batch!EnableComplete, Batch!Pause, batchVars, Others, outputVars
    <2>2. ~ended
        BY <2>1, EndFacts
    <2>3. /\ stack # <<>> /\ Batch!Top.pc = "userCallback"
          /\ \A pc : Batch!Running(pc) => pc = "userCallback"
        BY <2>1 DEF Batch!Running
    <2>4. current # Total + 1
        <3>1. Batch!CallOK(Batch!Top, status, current) /\ current \in 1..(Total + 1) /\ Total \in Nat
            BY <2>3, TopFacts, Progress DEF Inv
        <3> QED
            BY <2>3, <3>1 DEF Batch!CallOK, Total
    <2>5. ~Batch!Running("onEnd")'
        <3>1. CASE UNCHANGED stack
            BY <2>3, <3>1 DEF Batch!Running, Batch!Top
        <3>2. CASE stack' = Append(stack, Batch!Call("tryEnd", 0))
            <4>1. "tryEnd" \in Batch!Pcs /\ 0 \in Nat
                BY DEF Batch!Pcs
            <4>2. \A pc : Batch!Running(pc)' <=> pc = "tryEnd"
                BY <1>1, <3>2, <4>1, RunningPushed
            <4> QED
                BY <4>2
        <3> QED
            BY <2>1, <3>1, <3>2
    <2>6. full' = paused' /\ Total' = Total
        BY <1>2, <2>1 DEF Total
    <2> QED
        BY <2>1, <2>2, <2>3, <2>4, <2>5, <2>6, EndKept
<1>5. CASE OutputDrains
    <2>1. /\ stack = <<>> /\ ~Emitting /\ full /\ ~closed
          /\ UNCHANGED <<blob, ended, closed, closing, answers, error>>
          /\ paused' = FALSE /\ full' = FALSE
          /\ stack' = Append(stack, Batch!Call("fire", 0))
        BY <1>5 DEF OutputDrains, EventLoop, Batch!Resume
    <2>2. ~Batch!Running("onEnd") /\ ~ended
        BY <2>1 DEF EndInv, Batch!Running
    <2>3. "fire" \in Batch!Pcs /\ 0 \in Nat
        BY DEF Batch!Pcs
    <2>4. \A pc : Batch!Running(pc)' <=> pc = "fire"
        BY <1>1, <2>1, <2>3, RunningPushed
    <2> QED
        BY <2>1, <2>2, <2>4, EndKept
<1>6. CASE ListAnswers \/ BlocksAnswer
    <2>1. /\ stack = <<>> /\ UNCHANGED <<batchVars, blob, closed, closing, answers, full>>
        BY <1>6 DEF ListAnswers, BlocksAnswer, EventLoop, outputVars
    <2>2. /\ UNCHANGED <<blob, ended, closed, closing, answers, full, error, paused>>
          /\ \A pc : ~Batch!Running(pc) /\ ~Batch!Running(pc)'
        BY <2>1 DEF batchVars, Batch!Running
    <2> QED
        BY <1>2, <2>2, EndKept
<1>7. ASSUME NEW i \in 1..Total, NEW failed \in BOOLEAN, RequestDone(i, failed)
      PROVE  EndInv'
    <2> DEFINE p == IF failed THEN "fail" ELSE "succeed"
    <2>1. /\ stack = <<>> /\ stack' = Append(stack, Batch!Call(p, i))
          /\ UNCHANGED <<blob, ended, closed, closing, answers, full, error, paused>>
        BY <1>7 DEF RequestDone, Batch!RequestDone, Batch!RequestDoneIn, Batch!Idle, Batch!batch,
           Others, outputVars
    <2>2. p \in Batch!Pcs /\ i \in Nat /\ p \in {"fail", "succeed"}
        BY DEF Batch!Pcs
    <2>3. \A pc : Batch!Running(pc)' <=> pc = p
        <3> HIDE DEF p
        <3> QED
            BY <1>1, <2>1, <2>2, RunningPushed
    <2>4. /\ ~Batch!Running("onEnd") /\ ~Batch!Running("onEnd")'
          /\ ~Batch!Running("fire")' /\ ~Batch!Running("tryEnd")'
        BY <2>1, <2>3 DEF Batch!Running
    <2> QED
        BY <1>2, <2>1, <2>4, EndKept
<1> QED
    BY <1>3, <1>4, <1>5, <1>6, <1>7

(* The steps that answer the caller from the event loop.                    *)
LEMMA EndAnswers ==
    ASSUME Inv, EndInv, ListFails \/ OutputEnds
    PROVE  EndInv'
<1>1. /\ stack = <<>>
      /\ UNCHANGED <<batchVars, blob, full, closed>>
      /\ \/ blob.listFails /\ closing' = closing /\ (answers' = answers \/ answers' = Append(answers, "error"))
         \/ /\ closing > 0 /\ closing' = closing - 1
            /\ answers' = Append(answers, "success")
    BY DEF ListFails, OutputEnds, EventLoop, Answer
<1>2. /\ UNCHANGED <<blob, ended, closed, full, error, paused, current>> /\ Total' = Total
      /\ \A pc : ~Batch!Running(pc) /\ ~Batch!Running(pc)'
    BY <1>1 DEF batchVars, Batch!Running, Total
<1>3. /\ closing \in Nat /\ Len(answers) \in Nat /\ answers \in Seq({"success", "error"})
    BY LenProperties DEF Inv, TypeInv, TypeOK, EndInv
<1>4. ASSUME NEW x \in {"success", "error"}, answers' = Append(answers, x)
      PROVE  /\ answers' \in Seq({"success", "error"}) /\ Len(answers') = Len(answers) + 1
             /\ \A n \in 1..Len(answers) : answers'[n] = answers[n]
             /\ answers'[Len(answers) + 1] = x
    BY <1>3, <1>4, Pushed
<1>5. answers' \in Seq({"success", "error"})
    BY <1>1, <1>3, <1>4
<1>6. (closing > 0 \/ Succeeded)' => closing > 0 \/ Succeeded
    <2>1. CASE closing > 0
        BY <2>1
    <2>2. CASE ~(closing > 0)
        <3>1. closing' = closing /\ (answers' = answers \/ answers' = Append(answers, "error"))
            BY <1>1, <2>2
        <3>2. CASE answers' = Append(answers, "error")
            <4>1. \A n \in 1..Len(answers') : answers'[n] = "success" => n \in 1..Len(answers)
                                                  /\ answers[n] = "success"
                BY <1>3, <1>4, <3>2
            <4> QED
                BY <3>1, <4>1 DEF Succeeded
        <3> QED
            BY <3>1, <3>2 DEF Succeeded
    <2> QED
        BY <2>1, <2>2
<1>7. ~blob.listFails =>
          Len(answers') + closing' + 0 <= (IF ended THEN 1 ELSE 0)
    <2>1. ~blob.listFails => Len(answers) + closing + 0 <= (IF ended THEN 1 ELSE 0)
        BY <1>2 DEF EndInv
    <2> QED
        BY <1>1, <1>3, <1>4, <2>1
<1> QED
    BY <1>2, <1>5, <1>6, <1>7 DEF EndInv

LEMMA EndInit == Init => EndInv
<1> SUFFICES ASSUME Init PROVE EndInv
    OBVIOUS
<1>1. /\ stack = <<>> /\ answers = <<>> /\ closing = 0 /\ ended = FALSE /\ full = FALSE /\ paused = FALSE
      /\ Len(answers) = 0 /\ answers \in Seq({"success", "error"})
    BY EmptySeq DEF Init
<1>2. \A pc : ~Batch!Running(pc)
    BY <1>1 DEF Batch!Running
<1>3. ~Succeeded /\ ~(closing > 0)
    BY <1>1 DEF Succeeded
<1>4. Len(answers) + closing + (IF Batch!Running("onEnd") THEN 1 ELSE 0)
          <= (IF ended THEN 1 ELSE 0)
    <2>1. Len(answers) + closing + 0 <= 0
        BY <1>1
    <2> QED
        BY <1>1, <1>2, <2>1
<1>5. full = paused /\ ended = FALSE /\ answers \in Seq({"success", "error"})
    BY <1>1
<1> QED
    BY <1>2, <1>3, <1>4, <1>5 DEF EndInv

LEMMA EndNext == Inv /\ EndInv /\ [Next]_vars => EndInv'
<1> SUFFICES ASSUME Inv, EndInv, [Next]_vars PROVE EndInv'
    OBVIOUS
<1>1. CASE BatchActions
    BY <1>1, EndBatchActions
<1>2. CASE \/ EmitRange \/ EmissionStops \/ EmissionEnds
           \/ UserCallbackWrites \/ UserCallbackStops \/ UserCallbackIgnores
           \/ OutputDrains \/ ListAnswers \/ BlocksAnswer
           \/ \E i \in 1..Total, failed \in BOOLEAN : RequestDone(i, failed)
    BY <1>2, EndOthers
<1>3. CASE ListFails \/ OutputEnds
    BY <1>3, EndAnswers
<1>4. CASE UNCHANGED vars
    <2>1. UNCHANGED <<stack, blob, ended, closed, full, error, paused, current, status, closing,
                      answers>>
        BY <1>4 DEF vars, batchVars, outputVars
    <2>2. \A pc : Batch!Running(pc)' <=> Batch!Running(pc)
        BY <2>1 DEF Batch!Running, Batch!Top
    <2> QED
        BY <2>1, <2>2 DEF EndInv, Succeeded, Total
<1> QED
    BY <1>1, <1>2, <1>3, <1>4 DEF Next, Internal, External, Stopped, BatchActions

LEMMA EndInvariant == Spec => []EndInv
    BY EndInit, EndNext, Invariant, PTL DEF Spec

(* CalledBackOnce: unless a listing fails, the caller of a download is      *)
(* called back at most once, by the listener of 'end' or by the callback of *)
(* end of the output stream, however often the range stream is stopped,     *)
(* resumed by 'drain' and the batch paused and resumed by the output.       *)
THEOREM DownloadCallsBackOnce == Spec => []CalledBackOnce
<1>1. Inv /\ EndInv => CalledBackOnce
    <2> SUFFICES ASSUME Inv, EndInv, ~blob.listFails PROVE Len(answers) <= 1
        BY DEF CalledBackOnce
    <2>1. closing \in Nat /\ Len(answers) \in Nat
        BY LenProperties DEF Inv, TypeInv, TypeOK, EndInv
    <2> QED
        BY <2>1 DEF EndInv
<1> QED
    BY <1>1, Invariant, EndInvariant, PTL
-----------------------------------------------------------------------------
(* What is listed: the pages that were answered are a partition of what was *)
(* asked for up to the next page, the zeros of which hold no data; the page *)
(* that is asked for begins a number of pages after the first byte.         *)
ListInv ==
    /\ listing = "asked" /\ blob.kind # "block" =>
          /\ Saved(ranges, blob.from, startOffset - 1, blob.bytes)
          /\ \E k \in 0..(startOffset - blob.from) : startOffset = blob.from + k * ListSize
          /\ blob.kind = "append" => startOffset = blob.from
    /\ listedAll =>
          /\ Partition(ranges, blob.from, LastOffset)
          /\ \A n \in 1..Len(ranges) :
                ranges[n].data \/ NoneIn(blob.bytes, ranges[n].start, ranges[n].end)

(* What is written: the operations are the ranges in order, completion is   *)
(* enabled after the last one or an error, and without an error the output  *)
(* has the ranges of the operations whose user callback was over, or has    *)
(* done its work.                                                           *)
OutputInv ==
    /\ index = Total
    /\ \A i \in 1..Total : assigned[i] = ranges[i]
    /\ completing => error \/ (listedAll /\ index = Len(ranges))
    /\ output \in Seq(ByteRange)
    /\ ~error => /\ Len(output) = current - 1 + (IF handled THEN 1 ELSE 0)
                 /\ \A n \in 1..Len(output) : output[n] = assigned[n]

LEMMA ListInit == Init => ListInv /\ OutputInv
<1> SUFFICES ASSUME Init PROVE ListInv /\ OutputInv
    OBVIOUS
<1>1. /\ blob \in Blobs /\ startOffset = blob.from /\ ranges = <<>> /\ listedAll = FALSE
      /\ index = 0 /\ status = <<>> /\ completing = FALSE /\ output = <<>> /\ current = 1
      /\ handled = FALSE
    BY DEF Init
<1>2. /\ blob.from \in Nat /\ ListSize \in Nat
      /\ Len(<<>>) = 0 /\ Total = 0 /\ output \in Seq(ByteRange) /\ Len(output) = 0
    BY <1>1, BlobFacts, EmptySeq, DownloadAssumption DEF Total, DownloadAssumption
<1>3. Saved(ranges, blob.from, startOffset - 1, blob.bytes)
    BY <1>1, <1>2, SavedNothing
<1>4. \E k \in 0..(startOffset - blob.from) : startOffset = blob.from + k * ListSize
    <2>1. 0 \in 0..(startOffset - blob.from) /\ startOffset = blob.from + 0 * ListSize
        BY <1>1, <1>2
    <2> QED
        BY <2>1
<1>5. ListInv
    BY <1>1, <1>3, <1>4 DEF ListInv
<1>6. OutputInv
    BY <1>1, <1>2 DEF OutputInv
<1> QED
    BY <1>5, <1>6

(* A page is saved up to its end, if no page ends with a single byte.       *)
LEMMA PageIsWhole ==
    ASSUME Inv, ListInv, WholePages(blob), listing = "asked", blob.kind # "block",
           NEW last \in Nat, last = Smaller(ListEnd, LastOffset),
           startOffset <= last, last <= LastOffset
    PROVE  ~(IF blob.kind = "append" THEN startOffset = last ELSE SingleByte(startOffset, last))
<1>1. /\ blob \in Blobs /\ startOffset \in Nat
    BY DEF Inv, TypeInv, TypeOK
<1>2. /\ blob.from \in Nat /\ blob.size \in Nat /\ LastOffset \in Nat
      /\ LastOffset <= blob.size - 1 /\ ListSize \in Nat \ {0}
      /\ blob.kind \in {"page", "file", "append", "block"}
      /\ LastOffset = Smaller(blob.size - 1, blob.to)
    BY <1>1, BlobFacts, DownloadAssumption DEF DownloadAssumption, LastOffset
<1>3. startOffset <= LastOffset
    BY <1>1, <1>2
<1>4. /\ blob.kind = "append" => last = LastOffset
      /\ blob.kind # "append" => last = Smaller(startOffset + ListSize - 1, LastOffset)
    BY <1>1, <1>3, ListPage
<1>5. CASE blob.kind = "append"
    <2>1. startOffset = blob.from /\ blob.from < LastOffset
        BY <1>2, <1>5 DEF ListInv, WholePages
    <2> QED
        BY <1>2, <1>4, <1>5, <2>1
<1>6. CASE blob.kind # "append"
    <2>1. PICK k \in 0..(startOffset - blob.from) : startOffset = blob.from + k * ListSize
        BY DEF ListInv
    <2>2. k \in 0..blob.size /\ blob.from + k * ListSize <= LastOffset
        BY <1>1, <1>2, <1>3, <2>1
    <2>3. blob.kind \in {"page", "file"}
        BY <1>2, <1>6
    <2>4. \A j \in 0..blob.size : blob.from + j * ListSize <= LastOffset =>
              LET first == blob.from + j * ListSize
                  end == Smaller(first + ListSize - 1, LastOffset)
              IN  first < end /\ (end \in blob.bytes <=> end - 1 \in blob.bytes)
        BY <1>2, <2>3, Zenon DEF WholePages
    <2>5. startOffset < last /\ (last \in blob.bytes <=> last - 1 \in blob.bytes)
        <3> HIDE DEF ListInv
        <3>1. LET end == Smaller(startOffset + ListSize - 1, LastOffset)
              IN  startOffset < end /\ (end \in blob.bytes <=> end - 1 \in blob.bytes)
            BY <2>1, <2>2, <2>4, Zenon
        <3> QED
            BY <1>4, <1>6, <3>1
    <2> QED
        BY <1>1, <1>6, <2>5 DEF SingleByte
<1> QED
    BY <1>5, <1>6

LEMMA ListNext ==
    Inv /\ ListInv /\ WholePages(blob) /\ [Next]_vars => ListInv'
<1> SUFFICES ASSUME Inv, ListInv, WholePages(blob), [Next]_vars PROVE ListInv'
    OBVIOUS
<1>0. BatchInv /\ TypeInv
    BY DEF Inv
<1>1. /\ blob \in Blobs /\ startOffset \in Nat /\ ranges \in Seq(ByteRange)
    BY DEF Inv, TypeInv, TypeOK, ListTypes
<1>2. /\ blob.from \in Nat /\ LastOffset \in Nat /\ ListSize \in Nat \ {0}
    BY <1>1, BlobFacts, DownloadAssumption DEF DownloadAssumption
<1>3. CASE ListAnswers
    <2>1. listing = "asked" /\ blob.kind # "block" /\ blob' = blob /\ startOffset' = startOffset + ListSize
        BY <1>3 DEF ListAnswers
    <2>2. PICK new \in Seq(ByteRange), last \in Nat :
              /\ ranges' = ranges \o new
              /\ last = Smaller(ListEnd, LastOffset)
              /\ startOffset <= last /\ last <= LastOffset
              /\ \/ Saved(new, startOffset, last, blob.bytes)
                 \/ /\ Saved(new, startOffset, last - 1, blob.bytes)
                    /\ IF blob.kind = "append" THEN startOffset = last
                       ELSE SingleByte(startOffset, last)
              /\ listing' = IF listedAll' THEN "done" ELSE "asked"
              /\ listedAll' => last = LastOffset
              /\ ~listedAll' => last < LastOffset /\ startOffset' = last + 1
        BY <1>0, <1>3, ListAnswersFacts
    <2>3. ~(IF blob.kind = "append" THEN startOffset = last ELSE SingleByte(startOffset, last))
        BY <2>1, <2>2, PageIsWhole
    <2>4. Saved(new, startOffset, last, blob.bytes)
        BY <2>2, <2>3, Zenon
    <2>5. Saved(ranges', blob.from, last, blob.bytes)
        <3> DEFINE x == blob.from
                   y == startOffset - 1
        <3>1. x \in Int /\ y \in Int /\ y + 1 = startOffset /\ last \in Int
            BY <1>1, <1>2
        <3>2. Saved(ranges, x, y, blob.bytes)
            BY <2>1 DEF ListInv
        <3> HIDE DEF x, y
        <3>3. Saved(new, y + 1, last, blob.bytes)
            BY <2>4, <3>1
        <3>4. Saved(ranges \o new, x, last, blob.bytes)
            BY <3>1, <3>2, <3>3, SavedConcat, Zenon
        <3> QED
            BY <2>2, <3>4 DEF x
    <2>6. LastOffset' = LastOffset
        BY <2>1 DEF LastOffset, Smaller
    <2>7. CASE listedAll'
        <3>1. listing' = "done" /\ last = LastOffset
            BY <2>2, <2>7
        <3> QED
            BY <2>1, <2>5, <2>6, <3>1 DEF ListInv, Saved
    <2>8. CASE ~listedAll'
        <3>1. last < LastOffset /\ startOffset' = last + 1
            BY <2>2, <2>8
        <3>2. Saved(ranges', blob.from, startOffset' - 1, blob.bytes)
            <4>1. startOffset' - 1 = last
                BY <3>1
            <4> QED
                BY <2>5, <4>1
        <3>3. PICK k \in 0..(startOffset - blob.from) : startOffset = blob.from + k * ListSize
            BY <2>1 DEF ListInv
        <3>4. k + 1 \in 0..(startOffset' - blob.from)
            <4>1. startOffset' - blob.from = (startOffset - blob.from) + ListSize
                BY <1>1, <1>2, <2>1
            <4> QED
                BY <1>1, <1>2, <4>1
        <3>5. startOffset' = blob.from + (k + 1) * ListSize
            <4>1. (k + 1) * ListSize = k * ListSize + ListSize /\ k * ListSize \in Int
                BY <1>2, <3>3
            <4> QED
                BY <1>1, <1>2, <2>1, <3>3, <4>1
        <3>6. blob.kind # "append"
            <4>1. blob.kind = "append" => last = LastOffset
                BY <1>1, <1>2, <2>2, ListPage
            <4> QED
                BY <1>2, <3>1, <4>1
        <3>7. \E j \in 0..(startOffset' - blob.from) : startOffset' = blob.from + j * ListSize
            BY <3>4, <3>5, Zenon
        <3> QED
            BY <2>1, <2>8, <3>2, <3>6, <3>7 DEF ListInv
    <2> QED
        BY <2>7, <2>8
<1>4. CASE BlocksAnswer
    <2>1. UNCHANGED blob /\ ranges' = Clipped /\ listing' = "done"
        BY <1>4 DEF BlocksAnswer, Clipped
    <2>2. LastOffset' = LastOffset
        BY <2>1 DEF LastOffset, Smaller
    <2>3. /\ Partition(Clipped, blob.from, LastOffset)
          /\ \A n \in 1..Len(Clipped) : Clipped[n].data
        BY <1>1, BlocksSaved
    <2> QED
        BY <2>1, <2>2, <2>3 DEF ListInv
<1>5. CASE ~ListAnswers /\ ~BlocksAnswer
    <2>1. /\ UNCHANGED <<blob, ranges, startOffset, listedAll>>
          /\ listing' = listing \/ listing' \in {"failed", "thrown"}
        BY <1>5 DEF Next, Internal, External, Stopped, vars, EmitRange, EmitRangeBy, EmissionStops,
           EmissionEnds, BatchRuns, RanPausing, RanFor, BatchSteps, Drain, DrainTo,
           UserCallbackWrites, UserCallbackStops, UserCallbackIgnores, End, EndWith, Others,
           ListFails, OutputDrains, OutputEnds, RequestDone, listVars
    <2>2. LastOffset' = LastOffset
        BY <2>1 DEF LastOffset, Smaller
    <2> QED
        BY <2>1, <2>2 DEF ListInv
<1> QED
    BY <1>3, <1>4, <1>5

LEMMA OutputKept ==
    ASSUME OutputInv, UNCHANGED <<index, assigned, ranges, listedAll, output, current, handled>>,
           Total' = Total, error => error',
           completing' => completing \/ error' \/ (listedAll /\ index = Len(ranges))
    PROVE  OutputInv'
BY DEF OutputInv

(* While a user callback has done its work, its operation is the current    *)
(* one.                                                                     *)
LEMMA HandledFacts ==
    ASSUME Inv, handled \/ Batch!Running("userCallback")
    PROVE  current \in 1..Total /\ status[current] = "callback"
<1>1. Batch!InProgress("userCallback") # {}
    <2>1. CASE handled
        BY <2>1 DEF Inv, FailureInv
    <2>2. CASE Batch!Running("userCallback")
        <3>1. /\ stack # <<>> /\ Batch!Top.pc = "userCallback" /\ Batch!Top = stack[Len(stack)]
              /\ Len(stack) \in 1..Len(stack)
            BY <2>2, TopFacts DEF Inv, Batch!Running
        <3>2. Len(stack) \in Batch!InProgress("userCallback")
            BY <3>1 DEF Batch!InProgress, Batch!CallsOf
        <3> QED
            BY <3>2
    <2> QED
        BY <2>1, <2>2
<1>2. PICK n \in 1..Len(stack) : stack[n].pc = "userCallback"
    BY <1>1 DEF Batch!InProgress, Batch!CallsOf
<1>3. Batch!CallOK(stack[n], status, current) /\ current \in 1..(Total + 1) /\ Total \in Nat
    BY <1>2, Progress DEF Inv
<1> QED
    BY <1>1, <1>2, <1>3, Progress DEF Inv, Batch!CallOK, Total

LEMMA OutputNext == Inv /\ ListInv /\ OutputInv /\ [Next]_vars => OutputInv'
<1> SUFFICES ASSUME Inv, ListInv, OutputInv, [Next]_vars PROVE OutputInv'
    OBVIOUS
<1>0. BatchInv /\ TypeInv
    BY DEF Inv
<1>1. /\ ranges \in Seq(ByteRange) /\ assigned \in Seq(ByteRange) /\ Len(assigned) = Total
      /\ Len(ranges) \in Nat /\ Total \in Nat /\ index \in 0..Len(ranges)
      /\ current \in 1..(Total + 1) /\ handled \in BOOLEAN /\ error \in BOOLEAN
      /\ output \in Seq(ByteRange) /\ Len(output) \in Nat
    BY <1>0, Progress, LenProperties DEF TypeInv, TypeOK, ListTypes, BatchInv, Batch!TypeOK, OutputInv
<1>2. CASE BatchActions
    <2>1. /\ UNCHANGED <<index, assigned, ranges, listedAll, output, completing>>
          /\ Total' = Total /\ (error => error')
        <3>1. UNCHANGED <<index, assigned, ranges, listedAll, output>>
            BY <1>2 DEF BatchActions, BatchRuns, RanPausing, RanFor, BatchSteps, Drain, DrainTo,
               End, EndWith, Others, listVars, emitVars, outputVars
        <3>2. Batch!Step
            BY <1>2, BatchActionsAreSteps
        <3>3. completing' = completing /\ (error' = error \/ error' = (error \/ Batch!Running("fail")))
            BY <3>2 DEF Batch!Step, Batch!RunAfterError, Batch!RunRequest, Batch!RunNoOperation,
               Batch!Ran, Batch!BatchOperationCallback, Batch!SettleWith, Batch!FireUserCallback,
               Batch!FireWhilePaused, Batch!FireNothing, Batch!UserCallbackReturns,
               Batch!RemoveOperation, Batch!EmitEnd, Batch!NotComplete, Batch!EmitDrain,
               Batch!NoDrain, Batch!ListenerReturns, Batch!batch
        <3>5. error => error'
            BY <3>3, Zenon
        <3>4. Total' = Total
            BY <1>0, <3>2, StepKeepsTotal DEF BatchInv
        <3> QED
            BY <3>1, <3>3, <3>4, <3>5
    <2>2. CASE BatchSteps /\ handled /\ Batch!UserCallbackReturns
        <3>1. current' = current + 1 /\ handled' = FALSE /\ error' = error
            BY <2>2 DEF BatchSteps, Batch!UserCallbackReturns, Batch!RemoveOperation
        <3>2. ~error => Len(output) = current' - 1 + 0
            BY <1>1, <2>2, <3>1 DEF OutputInv
        <3> QED
            BY <2>1, <3>1, <3>2 DEF OutputInv
    <2>3. CASE ~(BatchSteps /\ handled /\ Batch!UserCallbackReturns)
        <3>1. current' = current
            BY <1>2, <2>3 DEF BatchActions, BatchRuns, RunOperation, Batch!RunAfterError,
               Batch!RunRequest, Batch!RunNoOperation, RanPausing, RanFor, Batch!Ran,
               Drain, DrainTo, Batch!EmitDrain, BatchSteps, Batch!BatchOperationCallback,
               Batch!SettleWith, Batch!FireUserCallback, Batch!FireWhilePaused, Batch!FireNothing,
               Batch!NotComplete, Batch!NoDrain, Batch!EmitEnd, End, EndWith,
               Batch!ListenerReturns, Batch!batch
        <3>2. CASE BatchSteps
            <4>1. \/ Batch!BatchOperationCallback \/ Batch!FireUserCallback \/ QuietStep
                BY <2>3, <3>2 DEF BatchSteps, QuietStep
            <4>2. ~Batch!Running("userCallback")
                BY <4>1 DEF QuietStep, Batch!BatchOperationCallback, Batch!SettleWith,
                   Batch!Settling, Batch!FireUserCallback, Batch!FireWhilePaused,
                   Batch!FireNothing, Batch!EmitEnd, Batch!NotComplete, Batch!NoDrain,
                   Batch!ListenerReturns, Batch!Ran, Batch!Running
            <4>3. handled' = handled
                BY <1>1, <3>2, <4>2 DEF BatchSteps
            <4> QED
                BY <2>1, <3>1, <4>3, OutputKept
        <3>3. CASE ~BatchSteps
            <4>1. handled' = handled
                BY <1>2, <3>3 DEF BatchActions, BatchRuns, RanPausing, RanFor, Drain, DrainTo,
                   End, EndWith
            <4> QED
                BY <2>1, <3>1, <4>1, OutputKept
        <3> QED
            BY <3>2, <3>3
    <2> QED
        BY <2>2, <2>3
<1>3. CASE EmitRange
    <2>1. /\ Emitting /\ index < Len(ranges) /\ index' = index + 1
          /\ UNCHANGED <<ranges, output, completing, error, current, handled>>
        BY <1>3 DEF EmitRange, EmitRangeBy, Batch!AddOperation, Batch!AddOperationAs, listVars,
           outputVars
    <2>2. Total' = Total + 1 /\ assigned' = Append(assigned, ranges[index + 1])
        BY <1>0, <1>3, TypeEmitRange
    <2>3. ~completing
        BY <1>0, <2>1, EmittingFacts DEF Inv
    <2>4. index = Total
        BY DEF OutputInv
    <2>5. ranges[index + 1] \in ByteRange
        <3>1. index + 1 \in 1..Len(ranges)
            BY <1>1, <2>1
        <3> QED
            BY <1>1, <3>1, ElementOfSeq
    <2>6. /\ \A i \in 1..Total : assigned'[i] = assigned[i]
          /\ assigned'[Total + 1] = ranges[Total + 1]
        BY <1>1, <2>2, <2>4, <2>5, Pushed
    <2>7. \A i \in 1..Total' : assigned'[i] = ranges'[i]
        <3>1. ASSUME NEW i \in 1..Total' PROVE assigned'[i] = ranges[i]
            <4>1. i \in 1..Total \/ i = Total + 1
                BY <1>1, <2>2
            <4> QED
                BY <2>6, <4>1 DEF OutputInv
        <3> QED
            BY <2>1, <3>1
    <2>8. ~error => Len(output) <= Total
        <3>1. CASE handled
            BY <1>1, <3>1, HandledFacts DEF OutputInv
        <3>2. CASE ~handled
            BY <1>1, <3>2 DEF OutputInv
        <3> QED
            BY <3>1, <3>2
    <2>9. ~error => \A n \in 1..Len(output) : output[n] = assigned'[n]
        <3>1. ASSUME ~error, NEW n \in 1..Len(output) PROVE output[n] = assigned'[n]
            <4>1. n \in 1..Total
                BY <1>1, <2>8, <3>1
            <4>2. output[n] = assigned[n]
                BY <3>1 DEF OutputInv
            <4> QED
                BY <2>6, <4>1, <4>2
        <3> QED
            BY <3>1
    <2>10. ~error => Len(output) = current - 1 + (IF handled THEN 1 ELSE 0)
        BY DEF OutputInv
    <2> QED
        BY <1>1, <2>1, <2>2, <2>3, <2>4, <2>7, <2>9, <2>10 DEF OutputInv
<1>4. CASE EmissionStops \/ EmissionEnds
    <2>1. /\ UNCHANGED <<index, assigned, ranges, listedAll, output, current, handled, status, error>>
          /\ completing' => completing \/ (listedAll /\ index = Len(ranges))
        BY <1>4 DEF EmissionStops, EmissionEnds, Batch!EnableComplete, batchVars, listVars, outputVars
    <2> QED
        BY <2>1, OutputKept DEF Total
<1>5. CASE UserCallbackWrites
    <2>1. /\ UNCHANGED <<index, assigned, ranges, listedAll, current, status, error, completing>>
          /\ handled' = TRUE /\ ~handled /\ output' = Append(output, assigned[Batch!Top.op])
          /\ Batch!Running("userCallback")
        BY <1>5 DEF UserCallbackWrites, Batch!Pause, batchVars, listVars, emitVars
    <2>2. Batch!Top.op = current /\ current \in 1..Total
        <3>1. stack # <<>> /\ Batch!Top.pc = "userCallback"
            BY <2>1 DEF Batch!Running
        <3> QED
            BY <1>0, <2>1, <3>1, TopFacts, HandledFacts DEF Batch!CallOK
    <2>3. assigned[current] \in ByteRange
        BY <1>1, <2>2, ElementOfSeq
    <2>4. /\ output' \in Seq(ByteRange) /\ Len(output') = Len(output) + 1
          /\ \A n \in 1..Len(output) : output'[n] = output[n]
          /\ output'[Len(output) + 1] = assigned[current]
        BY <1>1, <2>1, <2>2, <2>3, Pushed
    <2>5. ~error => Len(output) + 1 = current
        BY <1>1, <2>1 DEF OutputInv
    <2>6. ~error => \A n \in 1..Len(output') : output'[n] = assigned[n]
        <3>1. ASSUME ~error, NEW n \in 1..Len(output') PROVE output'[n] = assigned[n]
            <4>1. n \in 1..Len(output) \/ n = Len(output) + 1
                BY <1>1, <2>4, <3>1
            <4> QED
                BY <2>4, <2>5, <3>1, <4>1 DEF OutputInv
        <3> QED
            BY <3>1
    <2>7. ~error => Len(output') = current - 1 + 1
        BY <1>1, <2>4, <2>5
    <2> QED
        BY <2>1, <2>4, <2>6, <2>7 DEF OutputInv, Total
<1>6. CASE UserCallbackStops \/ UserCallbackIgnores
    <2>1. /\ UNCHANGED <<index, assigned, ranges, listedAll, output, current, status, error>>
          /\ Batch!Running("userCallback") /\ Batch!Top.op \in failures
        BY <1>6 DEF UserCallbackStops, UserCallbackIgnores, Batch!EnableComplete, batchVars,
           Others, listVars, emitVars, outputVars
    <2>2. Batch!Top.op = current
        <3>1. stack # <<>> /\ Batch!Top.pc = "userCallback"
            BY <2>1 DEF Batch!Running
        <3> QED
            BY <1>0, <3>1, TopFacts DEF Batch!CallOK
    <2>3. error
        BY <2>1, <2>2, HandledFacts DEF Inv, FailureInv
    <2> QED
        BY <2>1, <2>3 DEF OutputInv, Total
<1>7. CASE ListAnswers
    <2>1. /\ UNCHANGED <<index, assigned, status, output, current, handled, error, completing>>
          /\ listing = "asked"
        BY <1>7 DEF ListAnswers, batchVars, outputVars
    <2>2. PICK new \in Seq(ByteRange) : ranges' = ranges \o new
        BY <1>0, <1>7, ListAnswersFacts
    <2>3. \A n \in 1..Len(ranges) : ranges'[n] = ranges[n]
        BY <1>1, <2>2, ConcatProperties
    <2>4. \A i \in 1..Total : assigned[i] = ranges'[i]
        BY <1>1, <2>3 DEF OutputInv
    <2>5. completing => error
        BY <1>0, <2>1 DEF TypeInv, ListTypes, OutputInv
    <2> QED
        BY <2>1, <2>4, <2>5 DEF OutputInv, Total
<1>8. CASE BlocksAnswer
    <2>1. /\ UNCHANGED <<index, assigned, status, output, current, handled, error, completing>>
          /\ listing = "asked" /\ blob.kind = "block"
        BY <1>8 DEF BlocksAnswer, batchVars, outputVars
    <2>2. Total = 0 /\ ~completing
        BY <2>1 DEF Inv, UnlistedBlocks, EmissionInv
    <2> QED
        BY <2>1, <2>2 DEF OutputInv, Total
<1>9. CASE \/ ListFails \/ OutputDrains \/ OutputEnds \/ UNCHANGED vars
           \/ \E i \in 1..Total, failed \in BOOLEAN : RequestDone(i, failed)
    <2>1. UNCHANGED <<index, assigned, ranges, listedAll, output, current, handled, status, error,
                      completing>>
        BY <1>9 DEF ListFails, OutputDrains, OutputEnds, vars, RequestDone, Batch!RequestDone,
           Batch!RequestDoneIn, Batch!Resume, Batch!batch, batchVars, Others, listVars, emitVars,
           outputVars
    <2> QED
        BY <2>1, OutputKept DEF Total
<1> QED
    BY <1>2, <1>3, <1>4, <1>5, <1>6, <1>7, <1>8, <1>9
       DEF Next, Internal, External, Stopped, BatchActions

(* What is written when a download has succeeded.                           *)
LEMMA WholeAtEnd ==
    ASSUME Inv, EndInv, ListInv, OutputInv
    PROVE  SuccessIsWhole
<1> SUFFICES ASSUME Succeeded
             PROVE  /\ Partition(output, blob.from, LastOffset)
                    /\ \A n \in 1..Len(output) :
                          output[n].data \/ (output[n].start..output[n].end) \cap blob.bytes = {}
    BY DEF SuccessIsWhole, Succeeded
<1>1. ended /\ ~error
    BY DEF EndInv
<1>2. completing /\ current = Total + 1 /\ Total \in Nat
    BY <1>1, EndFacts
<1>3. ~handled
    BY <1>2, HandledFacts
<1>4. listedAll /\ Total = Len(ranges)
    BY <1>1, <1>2 DEF OutputInv
<1>5. Len(output) = Total
    BY <1>1, <1>2, <1>3 DEF OutputInv
<1>6. \A n \in 1..Len(output) : output[n] = ranges[n]
    BY <1>1, <1>5 DEF OutputInv
<1>7. /\ Partition(ranges, blob.from, LastOffset)
      /\ \A n \in 1..Len(ranges) :
            ranges[n].data \/ NoneIn(blob.bytes, ranges[n].start, ranges[n].end)
    BY <1>4 DEF ListInv
<1>8. ranges \in Seq(ByteRange) /\ output \in Seq(ByteRange) /\ Len(output) = Len(ranges)
    BY <1>4, <1>5 DEF Inv, TypeInv, ListTypes, OutputInv
<1>9. output = ranges
    <2>1. output \in [1..Len(output) -> ByteRange] /\ ranges \in [1..Len(ranges) -> ByteRange]
        BY <1>8, LenProperties
    <2> QED
        BY <1>6, <1>8, <2>1
<1> QED
    BY <1>7, <1>9 DEF NoneIn

(* SuccessIsWhole: a download that reports success has written every byte   *)
(* that was asked for, in order and once, and zeros only where the blob     *)
(* holds no data, whatever the order of the answers, the sizes of the       *)
(* ranges, the pages and the pauses.  It is proved for every blob of which  *)
(* no page of the listing ends with a range of one byte; the run about      *)
(* LastRangeKept shows how such a range is lost.                            *)
THEOREM DownloadSuccessIsWhole ==
    ASSUME \A b \in Blobs : WholePages(b)
    PROVE  Spec => []SuccessIsWhole
<1>1. Inv => WholePages(blob)
    BY DEF Inv, TypeInv, TypeOK
<1>2. Spec => []ListInv
    BY <1>1, ListInit, ListNext, Invariant, PTL DEF Spec
<1>3. Spec => []OutputInv
    BY <1>2, ListInit, OutputNext, Invariant, PTL DEF Spec
<1> QED
    BY <1>2, <1>3, WholeAtEnd, Invariant, EndInvariant, PTL
-----------------------------------------------------------------------------
(* The requests in flight.  active counts the operations whose user         *)
(* callback is not over, but for the one that is being added.  As many      *)
(* requests as are allowed are in flight only while the range stream is     *)
(* paused, or will be when addOperation returns; while something else runs  *)
(* inside addOperation there are less.                                      *)
Reading == {i \in 1..Total : status[i] = "running" /\ Reads(i)}
Most == SharedRequest * Concurrency
Someone == \E n \in 1..Len(stack) : Adding(n)
Busy == \E n \in 1..Len(stack) : Adding(n) /\ (n < Len(stack) \/ stack[n].pc = "run")

BoundInv ==
    /\ active = Total + 1 - current - (IF Someone THEN 1 ELSE 0)
    /\ Cardinality(Reading) <= Most
    /\ Cardinality(Reading) = Most =>
          Pausing \/ (Batch!Running("ran") /\ Reads(Batch!Top.op))
    /\ Busy => Cardinality(Reading) < Most

LEMMA ReadingFacts ==
    ASSUME Inv
    PROVE  /\ IsFiniteSet(Reading) /\ Cardinality(Reading) \in Nat
           /\ Cardinality(Reading) <= Total + 1 - current
<1>1. /\ Total \in Nat /\ current \in 1..(Total + 1)
      /\ \A i \in 1..Total : status[i] = "complete" <=> i < current
    BY Progress DEF Inv
<1>2. Reading \subseteq current..Total
    BY <1>1 DEF Reading
<1>3. IsFiniteSet(current..Total) /\ Cardinality(current..Total) = Total + 1 - current
    <2>1. /\ IsFiniteSet(current..Total)
          /\ Cardinality(current..Total) = IF current > Total THEN 0 ELSE Total - current + 1
        BY <1>1, FS_Interval
    <2> QED
        BY <1>1, <2>1
<1> QED
    BY <1>2, <1>3, FS_Subset, FS_CardinalityType

LEMMA LessReading ==
    ASSUME Inv, Reading' \subseteq Reading
    PROVE  Cardinality(Reading') <= Cardinality(Reading) /\ Cardinality(Reading') \in Nat
BY ReadingFacts, FS_Subset, FS_CardinalityType

LEMMA MostFacts == Most \in Nat /\ Concurrency <= Most /\ Concurrency \in Nat
<1>1. Concurrency \in Nat \ {0} /\ SharedRequest \in {1, 2}
    BY DownloadAssumption DEF DownloadAssumption
<1>2. CASE SharedRequest = 1
    BY <1>1, <1>2 DEF Most
<1>3. CASE SharedRequest = 2
    BY <1>1, <1>3 DEF Most
<1> QED
    BY <1>1, <1>2, <1>3

(* Less requests than are allowed are no concern.                           *)
LEMMA BoundBelow ==
    ASSUME Cardinality(Reading') \in Nat, Cardinality(Reading') < Most,
           (active = Total + 1 - current - (IF Someone THEN 1 ELSE 0))'
    PROVE  BoundInv'
<1>1. Most' = Most
    BY DEF Most
<1> QED
    BY <1>1, MostFacts DEF BoundInv

LEMMA BoundKept ==
    ASSUME Inv, BoundInv, Reading' \subseteq Reading, ~Batch!Running("ran"),
           Pausing => Pausing', Busy' => Busy,
           (active = Total + 1 - current - (IF Someone THEN 1 ELSE 0))'
    PROVE  BoundInv'
<1>1. /\ Cardinality(Reading') <= Cardinality(Reading)
      /\ Cardinality(Reading') \in Nat /\ Cardinality(Reading) \in Nat
    BY LessReading, ReadingFacts
<1>2. Most' = Most /\ Most \in Nat
    BY MostFacts DEF Most
<1>3. Cardinality(Reading') <= Most
    BY <1>1, <1>2 DEF BoundInv
<1>4. Cardinality(Reading') = Most => Pausing'
    BY <1>1, <1>2 DEF BoundInv
<1>5. Busy' => Cardinality(Reading') < Most
    BY <1>1, <1>2 DEF BoundInv
<1> QED
    BY <1>2, <1>3, <1>4, <1>5 DEF BoundInv

(* A step that replaces or ends a call which is not that of addOperation.   *)
LEMMA AddingKept ==
    ASSUME Inv, stack # <<>>, Kept, Batch!Top.pc \notin {"run", "ran"},
           \A n \in 1..Len(stack') : n >= Len(stack) => ~Adding(n)'
    PROVE  (Someone' <=> Someone) /\ (Busy' => Busy) /\ (Someone => Busy)
<1>1. Len(stack) \in Nat \ {0} /\ Batch!Top = stack[Len(stack)]
    BY TopFacts DEF Inv
<1>2. ~Adding(Len(stack))
    BY <1>1 DEF Adding
<1>3. Len(stack') \in Nat /\ Len(stack') >= Len(stack) - 1
    BY DEF Kept
<1>4. ASSUME NEW n \in 1..(Len(stack) - 1)
      PROVE  n \in 1..Len(stack) /\ n \in 1..Len(stack') /\ (Adding(n)' <=> Adding(n))
    BY <1>1, <1>3 DEF Kept, Adding
<1>5. Someone => Busy
    <2> SUFFICES ASSUME NEW n \in 1..Len(stack), Adding(n) PROVE Busy
        BY DEF Someone
    <2>1. n < Len(stack)
        BY <1>1, <1>2
    <2> QED
        BY <2>1 DEF Busy
<1>6. Someone' => Someone
    <2> SUFFICES ASSUME NEW n \in 1..Len(stack'), Adding(n)' PROVE Someone
        BY DEF Someone
    <2>1. n \in 1..(Len(stack) - 1)
        BY <1>1, <1>3
    <2> QED
        BY <1>4, <2>1 DEF Someone
<1>7. Someone => Someone'
    <2> SUFFICES ASSUME NEW n \in 1..Len(stack), Adding(n) PROVE Someone'
        BY DEF Someone
    <2>1. n \in 1..(Len(stack) - 1)
        BY <1>1, <1>2
    <2>2. n \in 1..Len(stack') /\ Adding(n)'
        BY <1>4, <2>1
    <2> QED
        BY <2>2 DEF Someone
<1>8. Busy' => Someone'
    BY DEF Busy, Someone
<1> QED
    BY <1>5, <1>6, <1>7, <1>8

(* A call of another kind than those of addOperation is pushed.             *)
LEMMA AddingPushed ==
    ASSUME Inv, NEW p \in Batch!Pcs, p \notin {"run", "ran"}, NEW op \in Nat,
           stack' = Append(stack, Batch!Call(p, op)), ~Batch!Running("run"), ~Batch!Running("ran")
    PROVE  (Someone' <=> Someone) /\ (Busy' => Busy)
<1>1. Batch!Call(p, op) \in Batch!Frame /\ Batch!Call(p, op).pc = p
    BY CallFields
<1>2. /\ Len(stack') = Len(stack) + 1 /\ Len(stack) \in Nat
      /\ \A n \in 1..Len(stack) : stack'[n] = stack[n]
      /\ stack'[Len(stack) + 1] = Batch!Call(p, op)
    BY <1>1, CallPushed DEF Inv
<1>3. \A n \in 1..Len(stack) : Adding(n)' <=> Adding(n)
    BY <1>2 DEF Adding
<1>4. \A n : n = Len(stack) + 1 => ~Adding(n)'
    <2>1. stack'[Len(stack) + 1].pc \notin {"run", "ran"}
        BY <1>1, <1>2
    <2> QED
        BY <2>1 DEF Adding
<1>5. Someone' <=> Someone
    <2>1. ASSUME NEW n \in 1..Len(stack'), Adding(n)' PROVE n \in 1..Len(stack) /\ Adding(n)
        <3>1. n \in 1..Len(stack)
            BY <1>2, <1>4, <2>1
        <3> QED
            BY <1>3, <2>1, <3>1
    <2>2. ASSUME NEW n \in 1..Len(stack), Adding(n) PROVE n \in 1..Len(stack') /\ Adding(n)'
        BY <1>2, <1>3, <2>2
    <2> QED
        BY <2>1, <2>2 DEF Someone
<1>6. Someone => Busy
    <2> SUFFICES ASSUME NEW n \in 1..Len(stack), Adding(n) PROVE Busy
        BY DEF Someone
    <2>1. n # Len(stack)
        <3>1. stack # <<>>
            BY <1>2, EmptySeq
        <3> QED
            BY <3>1 DEF Adding, Batch!Running, Batch!Top
    <2>2. n < Len(stack)
        BY <1>2, <2>1
    <2> QED
        BY <2>2 DEF Busy
<1>7. Busy' => Someone'
    BY DEF Busy, Someone
<1> QED
    BY <1>5, <1>6, <1>7

LEMMA BoundSame ==
    ASSUME BoundInv, UNCHANGED <<stack, status, assigned, active, current>>, Pausing => Pausing'
    PROVE  BoundInv'
<1>1. /\ Reading' = Reading /\ Most' = Most /\ Total' = Total
      /\ (Someone' <=> Someone) /\ (Busy' <=> Busy)
    BY DEF Reading, Most, Total, Reads, Someone, Busy, Adding
<1>2. (Batch!Running("ran") <=> Batch!Running("ran")') /\ Reads(Batch!Top.op)' = Reads(Batch!Top.op)
    BY DEF Batch!Running, Batch!Top, Reads
<1> QED
    BY <1>1, <1>2 DEF BoundInv

(* The batch counts as many active operations as before.                    *)
LEMMA ActiveKept ==
    ASSUME BoundInv, UNCHANGED <<active, current>>, Total' = Total, Someone' <=> Someone
    PROVE  (active = Total + 1 - current - (IF Someone THEN 1 ELSE 0))'
<1>1. (IF Someone THEN 1 ELSE 0)' = (IF Someone THEN 1 ELSE 0)
    BY Zenon
<1> QED
    BY <1>1 DEF BoundInv

LEMMA ReadingKept ==
    ASSUME Total' = Total, UNCHANGED assigned,
           \A i \in 1..Total : status'[i] = "running" => status[i] = "running" \/ ~Reads(i)
    PROVE  Reading' \subseteq Reading
BY DEF Reading, Reads

(* A step that replaces or ends a call which is not that of addOperation.   *)
LEMMA BoundReplaced ==
    ASSUME Inv, BoundInv, stack # <<>>, Kept, Batch!Top.pc \notin {"run", "ran"},
           \A n \in 1..Len(stack') : n >= Len(stack) => ~Adding(n)',
           UNCHANGED <<active, current>>, Total' = Total,
           Reading' \subseteq Reading, Pausing => Pausing'
    PROVE  BoundInv'
<1>1. (Someone' <=> Someone) /\ (Busy' => Busy)
    BY AddingKept
<1>2. (active = Total + 1 - current - (IF Someone THEN 1 ELSE 0))'
    BY <1>1, ActiveKept
<1>3. ~Batch!Running("ran")
    BY DEF Batch!Running
<1> QED
    BY <1>1, <1>2, <1>3, BoundKept

(* A call of another kind than those of addOperation is made.               *)
LEMMA BoundPushed ==
    ASSUME Inv, BoundInv, NEW p \in Batch!Pcs, p \notin {"run", "ran"}, NEW op \in Nat,
           stack' = Append(stack, Batch!Call(p, op)), ~Batch!Running("run"), ~Batch!Running("ran"),
           UNCHANGED <<status, assigned, active, current>>, Pausing => Pausing'
    PROVE  BoundInv'
<1>1. (Someone' <=> Someone) /\ (Busy' => Busy)
    BY AddingPushed
<1>2. Total' = Total /\ Reading' \subseteq Reading
    BY DEF Total, Reading, Reads
<1>3. (active = Total + 1 - current - (IF Someone THEN 1 ELSE 0))'
    BY <1>1, <1>2, ActiveKept
<1> QED
    BY <1>1, <1>2, <1>3, BoundKept

(* addOperation runs its operation: one more request, at most.              *)
LEMMA BoundRuns ==
    ASSUME Inv, BoundInv, BatchRuns
    PROVE  BoundInv'
<1> DEFINE op == Batch!Top.op
<1>1. /\ stack # <<>> /\ Batch!Top.pc = "run" /\ Batch!Top = stack[Len(stack)]
      /\ UNCHANGED <<assigned, active, current>>
      /\ \/ status' = status
         \/ status' = [status EXCEPT ![op] = "running"]
    BY DEF BatchRuns, RunOperation, Batch!RunAfterError, Batch!RunRequest,
       Batch!RunNoOperation, Batch!Running, Others, Batch!batch, Batch!Top
<1>2. /\ op \in 1..Total /\ op \in Nat /\ Len(stack) \in Nat \ {0} /\ Len(stack) \in 1..Len(stack)
    BY <1>1, TopFacts DEF Inv, Batch!CallOK, Total
<1>3. Adding(Len(stack)) /\ \A n \in 1..Len(stack) : Adding(n) => n = Len(stack)
    <2>1. Adding(Len(stack))
        BY <1>1 DEF Adding
    <2> QED
        BY <1>2, <2>1 DEF Inv, EmissionInv
<1>4. Someone /\ Busy
    BY <1>1, <1>2, <1>3 DEF Someone, Busy
<1>5. Total' = Total /\ \A i \in 1..Total : status'[i] = "running" => status[i] = "running" \/ i = op
    <2>1. CASE status' = status
        BY <2>1 DEF Total
    <2>2. CASE status' = [status EXCEPT ![op] = "running"]
        <3> HIDE DEF op
        <3>1. "running" \in Batch!OperationState
            BY DEF Batch!OperationState
        <3>2. /\ Total' = Total
              /\ \A i \in 1..Total : status'[i] = IF i = op THEN "running" ELSE status[i]
            BY <1>2, <2>2, <3>1, StatusChanged DEF Inv
        <3> QED
            BY <3>2
    <2> QED
        BY <1>1, <2>1, <2>2
<1>6. /\ "ran" \in Batch!Pcs /\ "fail" \in Batch!Pcs /\ "succeed" \in Batch!Pcs
      /\ Batch!Call("ran", op) \in Batch!Frame
      /\ Batch!Call("ran", op).pc = "ran" /\ Batch!Call("ran", op).op = op
    BY <1>2, CallFields DEF Batch!Pcs
<1>7. \A p \in {"fail", "succeed"} :
          Batch!Call(p, op) \in Batch!Frame /\ Batch!Call(p, op).pc = p
    BY <1>2, <1>6, CallFields
<1>8. /\ Kept /\ stack'[Len(stack)] = Batch!Call("ran", op)
      /\ \/ /\ Len(stack') = Len(stack) /\ Batch!Top' = Batch!Call("ran", op) /\ stack' # <<>>
            /\ Reads(op)
         \/ /\ Len(stack') = Len(stack) + 1
            /\ stack'[Len(stack) + 1].pc \in {"fail", "succeed"}
            /\ status' = status \/ ~Reads(op)
    <2>1. CASE Batch!RunRequest /\ Reads(op)
        <3>1. stack' = Append(Batch!Caller, Batch!Call("ran", op))
            BY <2>1 DEF Batch!RunRequest
        <3> HIDE DEF op
        <3> QED
            BY <1>1, <1>6, <2>1, <3>1, CallReplaced DEF Inv
    <2>2. ASSUME NEW p \in {"fail", "succeed"},
                 stack' = Append(Append(Batch!Caller, Batch!Call("ran", op)), Batch!Call(p, op))
          PROVE  /\ Kept /\ stack'[Len(stack)] = Batch!Call("ran", op)
                 /\ Len(stack') = Len(stack) + 1
                 /\ stack'[Len(stack) + 1].pc \in {"fail", "succeed"}
        <3> HIDE DEF op
        <3> QED
            BY <1>1, <1>6, <1>7, <2>2, CallsReplaced DEF Inv
    <2>3. CASE Batch!RunNoOperation /\ ~Reads(op)
        <3>1. stack' = Append(Append(Batch!Caller, Batch!Call("ran", op)), Batch!Call("succeed", op))
            BY <2>3 DEF Batch!RunNoOperation
        <3> QED
            BY <2>2, <2>3, <3>1
    <2>4. CASE Batch!RunAfterError
        <3>1. /\ stack' = Append(Append(Batch!Caller, Batch!Call("ran", op)), Batch!Call("fail", op))
              /\ status' = status
            BY <2>4 DEF Batch!RunAfterError, Batch!batch
        <3> QED
            BY <2>2, <3>1
    <2> QED
        BY <2>1, <2>3, <2>4 DEF BatchRuns, RunOperation
<1> HIDE DEF op
<1>9. /\ Len(stack') \in Nat
      /\ \A n \in 1..Len(stack') : Adding(n)' <=> n = Len(stack)
    <2>1. \A n \in 1..(Len(stack) - 1) : ~Adding(n)
        BY <1>2, <1>3
    <2>2. \A n \in 1..(Len(stack) - 1) : ~Adding(n)'
        BY <1>8, <2>1 DEF Adding, Kept
    <2>3. \A n : n = Len(stack) => Adding(n)'
        BY <1>6, <1>8 DEF Adding
    <2>4. \A n : n = Len(stack) + 1 /\ n <= Len(stack') => ~Adding(n)'
        BY <1>2, <1>8 DEF Adding
    <2> QED
        BY <1>2, <1>8, <2>2, <2>3, <2>4 DEF Kept
<1>10. Someone'
    <2>1. Len(stack) \in 1..Len(stack')
        BY <1>2, <1>8
    <2>2. \E n \in 1..Len(stack') : Adding(n)'
        BY <1>9, <2>1
    <2> QED
        BY <2>2 DEF Someone
<1>11. (active = Total + 1 - current - (IF Someone THEN 1 ELSE 0))'
    BY <1>1, <1>4, <1>5, <1>10, ActiveKept
<1>12. Cardinality(Reading) < Most /\ Cardinality(Reading) \in Nat /\ IsFiniteSet(Reading)
    BY <1>4, ReadingFacts DEF BoundInv
<1>13. CASE Len(stack') = Len(stack) /\ Reads(op)
    <2>1. Reading' \subseteq Reading \cup {op}
        BY <1>1, <1>5 DEF Reading, Reads
    <2>2. /\ IsFiniteSet(Reading \cup {op})
          /\ Cardinality(Reading \cup {op}) <= Cardinality(Reading) + 1
          /\ Cardinality(Reading \cup {op}) \in Nat
        <3>1. /\ IsFiniteSet(Reading \cup {op})
              /\ Cardinality(Reading \cup {op}) = IF op \in Reading THEN Cardinality(Reading)
                                                  ELSE Cardinality(Reading) + 1
            BY <1>12, FS_AddElement
        <3> QED
            BY <1>12, <3>1
    <2>3. Cardinality(Reading') <= Cardinality(Reading \cup {op}) /\ Cardinality(Reading') \in Nat
        BY <2>1, <2>2, FS_Subset, FS_CardinalityType
    <2>4. Cardinality(Reading') <= Most
        BY <1>12, <2>2, <2>3, MostFacts
    <2>5. Batch!Running("ran")' /\ Reads(Batch!Top.op)'
        <3>1. Batch!Top' = Batch!Call("ran", op) /\ stack' # <<>>
            BY <1>2, <1>8, <1>13
        <3> QED
            BY <1>1, <1>6, <1>13, <3>1 DEF Batch!Running, Reads
    <2>6. ~Busy'
        <3>1. \A n \in 1..Len(stack') : Adding(n)' => ~(n < Len(stack')) /\ stack'[n].pc # "run"
            BY <1>6, <1>8, <1>9, <1>13
        <3> QED
            BY <3>1 DEF Busy
    <2>7. Most' = Most
        BY DEF Most
    <2> QED
        BY <1>11, <2>4, <2>5, <2>6, <2>7 DEF BoundInv
<1>14. CASE status' = status \/ ~Reads(op)
    <2>1. Reading' \subseteq Reading
        BY <1>1, <1>5, <1>14, ReadingKept
    <2>2. Cardinality(Reading') <= Cardinality(Reading) /\ Cardinality(Reading') \in Nat
        BY <2>1, LessReading
    <2>3. Cardinality(Reading') < Most
        BY <1>12, <2>2, MostFacts
    <2> QED
        BY <1>11, <2>2, <2>3, BoundBelow
<1> QED
    BY <1>8, <1>13, <1>14

(* addOperation returns, and the range stream is paused for the operation   *)
(* that was the last one allowed.                                           *)
LEMMA BoundRan ==
    ASSUME Inv, BoundInv, RanPausing
    PROVE  BoundInv'
<1>1. /\ stack # <<>> /\ Batch!Running("ran") /\ Batch!Top.pc = "ran" /\ stack' = Batch!Caller
      /\ active' = active + 1 /\ UNCHANGED <<status, assigned, current>>
    BY DEF RanPausing, RanFor, Batch!Ran, Batch!Running
<1>2. /\ Batch!Top.op \in 1..Total /\ Len(stack) \in Nat \ {0} /\ Len(stack) \in 1..Len(stack)
      /\ Batch!Top = stack[Len(stack)]
    BY <1>1, TopFacts DEF Inv, Batch!CallOK, Total
<1>3. Adding(Len(stack)) /\ \A n \in 1..Len(stack) : Adding(n) => n = Len(stack)
    <2>1. Adding(Len(stack))
        BY <1>1, <1>2 DEF Adding
    <2> QED
        BY <1>2, <2>1 DEF Inv, EmissionInv
<1>4. Someone
    BY <1>2, <1>3 DEF Someone
<1>5. Kept /\ Len(stack') = Len(stack) - 1
    BY <1>1, CallReturned DEF Inv
<1>6. ~Someone' /\ ~Busy'
    <2>1. \A n \in 1..Len(stack') : ~Adding(n)'
        BY <1>2, <1>3, <1>5 DEF Adding, Kept
    <2> QED
        BY <2>1 DEF Someone, Busy
<1>7. /\ Total \in Nat /\ current \in Int /\ Total' = Total /\ Most' = Most /\ Reading' = Reading
      /\ Most \in Nat
    BY <1>1, Progress, MostFacts DEF Inv, Total, Most, Reading, Reads
<1>8. active \in Int /\ active = Total + 1 - current - 1
    <2>1. active = Total + 1 - current - (IF Someone THEN 1 ELSE 0)
        BY DEF BoundInv
    <2> QED
        BY <1>4, <1>7, <2>1
<1>9. active + 1 >= Cardinality(Reading) /\ Cardinality(Reading) \in Nat
    BY <1>7, <1>8, ReadingFacts
<1>10. (active = Total + 1 - current - (IF Someone THEN 1 ELSE 0))'
    <2>1. active' = Total' + 1 - current' - 0
        BY <1>1, <1>7, <1>8
    <2> QED
        BY <1>6, <2>1
<1>11. ASSUME Cardinality(Reading) = Most PROVE Pausing'
    <2>1. PICK lowMemory \in BOOLEAN :
              LET heavy == /\ Batch!Top.op \in {i \in 1..Total : Reads(i)}
                           /\ Batch!IsWorkloadHeavy(active + 1, lowMemory)
                  over == status[Batch!Top.op] = "complete"
              IN  /\ waiting' = (waiting \/ (heavy /\ ~over))
                  /\ halted' = (halted \/ (heavy /\ over))
        BY DEF RanPausing, RanFor
    <2>2. CASE Pausing
        BY <2>1, <2>2, Zenon DEF Pausing
    <2>3. CASE ~Pausing
        <3>1. Reads(Batch!Top.op)
            BY <1>11, <2>3 DEF BoundInv
        <3>2. Batch!IsWorkloadHeavy(active + 1, lowMemory)
            <4>1. active + 1 >= SharedRequest * Concurrency
                BY <1>9, <1>11 DEF Most
            <4> QED
                BY <4>1 DEF Batch!IsWorkloadHeavy
        <3>3. Batch!Top.op \in {i \in 1..Total : Reads(i)}
            BY <1>2, <3>1
        <3> QED
            BY <2>1, <3>2, <3>3, Zenon DEF Pausing
    <2> QED
        BY <2>2, <2>3
<1>12. Cardinality(Reading) <= Most
    BY DEF BoundInv
<1> QED
    BY <1>6, <1>7, <1>10, <1>11, <1>12 DEF BoundInv

(* 'drain' resumes the range stream: less requests than allowed.            *)
LEMMA BoundDrain ==
    ASSUME Inv, BoundInv, Drain
    PROVE  BoundInv'
<1>1. /\ stack # <<>> /\ Batch!Top.pc = "tryDrain"
      /\ UNCHANGED <<status, assigned, active, current>>
      /\ stack' = Append(Batch!Caller, Batch!Call("onDrain", 0))
    BY DEF Drain, DrainTo, Batch!EmitDrain, Batch!Running, Batch!batch
<1>2. Len(stack) \in Nat \ {0} /\ Total' = Total /\ Reading' = Reading
    BY <1>1, TopFacts DEF Inv, Total, Reading, Reads
<1>3. Batch!Call("onDrain", 0) \in Batch!Frame /\ Batch!Call("onDrain", 0).pc = "onDrain"
    BY CallFields DEF Batch!Pcs
<1>4. Kept /\ Len(stack') = Len(stack) /\ stack'[Len(stack)] = Batch!Call("onDrain", 0)
    BY <1>1, <1>3, CallReplaced DEF Inv
<1>5. \A n \in 1..Len(stack') : n >= Len(stack) => ~Adding(n)'
    BY <1>2, <1>3, <1>4 DEF Adding
<1>6. (Someone' <=> Someone) /\ (Someone => Busy)
    BY <1>1, <1>4, <1>5, AddingKept
<1>7. (active = Total + 1 - current - (IF Someone THEN 1 ELSE 0))'
    BY <1>1, <1>2, <1>6, ActiveKept
<1>8. active < Most /\ active \in Int
    <2>1. active \in Int
        BY DEF Inv, BatchInv, Batch!TypeOK
    <2>2. PICK lowMemory \in BOOLEAN : Batch!ShouldDrain(lowMemory)
        BY DEF Drain, DrainTo, Batch!EmitDrain
    <2>3. ~(active >= Most) \/ active < Concurrency
        BY <2>2 DEF Batch!ShouldDrain, Batch!IsWorkloadHeavy, Most
    <2> QED
        BY <2>1, <2>3, MostFacts
<1>9. Cardinality(Reading) < Most /\ Cardinality(Reading) \in Nat
    <2>1. CASE Someone
        BY <1>6, <2>1, ReadingFacts DEF BoundInv
    <2>2. CASE ~Someone
        <3>1. active = Total + 1 - current - 0
            BY <2>2 DEF BoundInv
        <3>2. Total \in Nat /\ current \in Int
            BY Progress DEF Inv
        <3> QED
            BY <1>8, <3>1, <3>2, ReadingFacts, MostFacts
    <2> QED
        BY <2>1, <2>2
<1> QED
    BY <1>2, <1>7, <1>9, BoundBelow

(* The steps of the batch that are neither.                                 *)
LEMMA BoundQuiet ==
    ASSUME Inv, BoundInv, QuietStep, Batch!Top.pc # "ran",
           UNCHANGED <<assigned, active, waiting, halted>>
    PROVE  BoundInv'
<1>1. /\ stack # <<>> /\ Kept /\ UNCHANGED <<status, current>>
      /\ Batch!Top.pc \in {"fire", "tryEnd", "tryDrain", "onDrain", "onEnd"}
      /\ \A n \in 1..Len(stack') : n >= Len(stack) =>
            stack'[n].pc \in {"tryDrain", "tryEnd", "onEnd"}
    BY QuietFacts DEF Inv
<1>2. \A n \in 1..Len(stack') : n >= Len(stack) => ~Adding(n)'
    BY <1>1 DEF Adding
<1>3. Total' = Total /\ Reading' \subseteq Reading /\ (Pausing => Pausing')
    BY <1>1 DEF Total, Reading, Reads, Pausing
<1> QED
    BY <1>1, <1>2, <1>3, BoundReplaced

LEMMA BoundSettles ==
    ASSUME Inv, BoundInv, Batch!BatchOperationCallback, UNCHANGED <<assigned, halted>>
    PROVE  BoundInv'
<1> DEFINE op == Batch!Top.op
<1>1. /\ stack # <<>> /\ Batch!Top.pc \in {"succeed", "fail"}
      /\ UNCHANGED <<active, current, waiting>>
      /\ status' = [status EXCEPT ![op] = "callback"]
      /\ \/ stack' = Append(Batch!Caller, Batch!Call("tryDrain", 0))
         \/ stack' = Append(Append(Batch!Caller, Batch!Call("tryDrain", 0)), Batch!Call("fire", op))
    BY DEF Batch!BatchOperationCallback, Batch!SettleWith, Batch!Settling, Batch!Running
<1>2. /\ op \in 1..Total /\ op \in Nat /\ Len(stack) \in Nat \ {0}
    BY <1>1, TopFacts DEF Inv, Batch!CallOK, Total
<1>3. /\ Batch!Call("tryDrain", 0) \in Batch!Frame /\ Batch!Call("fire", op) \in Batch!Frame
      /\ Batch!Call("tryDrain", 0).pc = "tryDrain" /\ Batch!Call("fire", op).pc = "fire"
    BY <1>2, CallFields DEF Batch!Pcs
<1> HIDE DEF op
<1>4. Total' = Total /\ \A i \in 1..Total : status'[i] = IF i = op THEN "callback" ELSE status[i]
    BY <1>1, <1>2, StatusChanged DEF Inv, Batch!OperationState
<1>5. /\ Kept /\ stack'[Len(stack)] = Batch!Call("tryDrain", 0)
      /\ \/ Len(stack') = Len(stack)
         \/ Len(stack') = Len(stack) + 1 /\ stack'[Len(stack) + 1] = Batch!Call("fire", op)
    BY <1>1, <1>3, CallReplaced, CallsReplaced DEF Inv
<1>6. \A n \in 1..Len(stack') : n >= Len(stack) => ~Adding(n)'
    BY <1>2, <1>3, <1>5 DEF Adding
<1>7. Reading' \subseteq Reading
    BY <1>1, <1>4, ReadingKept
<1>8. Pausing => Pausing'
    BY <1>1 DEF Pausing
<1> QED
    BY <1>1, <1>4, <1>5, <1>6, <1>7, <1>8, BoundReplaced

LEMMA BoundFires ==
    ASSUME Inv, BoundInv, Batch!FireUserCallback, UNCHANGED <<assigned, halted>>
    PROVE  BoundInv'
<1>1. /\ stack # <<>> /\ Batch!Top.pc = "fire"
      /\ UNCHANGED <<status, active, current, waiting>>
      /\ \E i, k : stack' = Append(Batch!Caller, [pc |-> "userCallback", op |-> i, index |-> k])
    BY DEF Batch!FireUserCallback, Batch!Running, Batch!batch
<1>2. /\ Batch!Caller \in Seq(Batch!Frame) /\ Len(Batch!Caller) = Len(stack) - 1
      /\ Len(stack) \in Nat \ {0}
      /\ \A n \in 1..(Len(stack) - 1) : Batch!Caller[n] = stack[n]
    BY <1>1, TopFacts DEF Inv
<1>3. PICK f : stack' = Append(Batch!Caller, f) /\ f.pc = "userCallback"
    BY <1>1
<1>4. /\ Len(stack') = Len(stack) /\ stack'[Len(stack)] = f
      /\ \A n \in 1..(Len(stack) - 1) : stack'[n] = stack[n]
    <2> DEFINE S == Batch!Frame \cup {f}
    <2>1. Batch!Caller \in Seq(S) /\ f \in S
        <3>1. Batch!Frame \subseteq S /\ f \in S
            OBVIOUS
        <3>2. Batch!Caller \in [1..Len(Batch!Caller) -> Batch!Frame] /\ Len(Batch!Caller) \in Nat
            BY <1>2, LenProperties
        <3> HIDE DEF S
        <3> QED
            BY <3>1, <3>2
    <2> HIDE DEF S
    <2>2. /\ Len(stack') = Len(Batch!Caller) + 1
          /\ \A n \in 1..Len(Batch!Caller) : stack'[n] = Batch!Caller[n]
          /\ stack'[Len(Batch!Caller) + 1] = f
        BY <1>3, <2>1, Pushed
    <2> QED
        BY <1>2, <2>2
<1>5. Kept
    BY <1>2, <1>4 DEF Kept
<1>6. \A n \in 1..Len(stack') : n >= Len(stack) => ~Adding(n)'
    BY <1>2, <1>3, <1>4 DEF Adding
<1>7. Total' = Total /\ Reading' \subseteq Reading /\ (Pausing => Pausing')
    BY <1>1 DEF Total, Reading, Reads, Pausing
<1> QED
    BY <1>1, <1>5, <1>6, <1>7, BoundReplaced

(* A user callback returns: one operation less, which is complete.          *)
LEMMA BoundReturns ==
    ASSUME Inv, BoundInv, Batch!UserCallbackReturns, UNCHANGED <<assigned, halted>>
    PROVE  BoundInv'
<1>1. /\ stack # <<>> /\ Batch!Top.pc = "userCallback"
      /\ active' = active - 1 /\ current' = current + 1 /\ waiting' = waiting
      /\ status' = [status EXCEPT ![Batch!Top.op] = "complete"]
      /\ stack' = Append(Batch!Caller, Batch!Call("fire", 0))
    BY DEF Batch!UserCallbackReturns, Batch!RemoveOperation, Batch!Running
<1>2. /\ Batch!Top.op \in 1..Total /\ Len(stack) \in Nat \ {0}
      /\ current \in Nat /\ Total \in Nat
    <2>1. Batch!Top.op = current /\ current <= Len(status)
        BY <1>1, TopFacts DEF Inv, Batch!CallOK
    <2> QED
        BY <1>1, <2>1, TopFacts, Progress DEF Inv, Total
<1>3. /\ Total' = Total
      /\ \A i \in 1..Total : status'[i] = IF i = Batch!Top.op THEN "complete" ELSE status[i]
    BY <1>1, <1>2, StatusChanged DEF Inv, Batch!OperationState
<1>4. Batch!Call("fire", 0) \in Batch!Frame /\ Batch!Call("fire", 0).pc = "fire"
    BY CallFields DEF Batch!Pcs
<1>5. Kept /\ Len(stack') = Len(stack) /\ stack'[Len(stack)] = Batch!Call("fire", 0)
    BY <1>1, <1>4, CallReplaced DEF Inv
<1>6. \A n \in 1..Len(stack') : n >= Len(stack) => ~Adding(n)'
    BY <1>2, <1>4, <1>5 DEF Adding
<1>7. (Someone' <=> Someone) /\ (Busy' => Busy)
    BY <1>1, <1>5, <1>6, AddingKept
<1>8. (active = Total + 1 - current - (IF Someone THEN 1 ELSE 0))'
    <2> DEFINE k == IF Someone THEN 1 ELSE 0
    <2>1. active = Total + 1 - current - k /\ k \in Int
        BY DEF BoundInv
    <2>2. k' = k
        BY <1>7, Zenon
    <2> HIDE DEF k
    <2>3. active' = Total' + 1 - current' - k
        BY <1>1, <1>2, <1>3, <2>1
    <2> QED
        BY <2>2, <2>3 DEF k
<1>9. Reading' \subseteq Reading
    BY <1>1, <1>3, ReadingKept
<1>10. (Pausing => Pausing') /\ ~Batch!Running("ran")
    BY <1>1 DEF Pausing, Batch!Running
<1> QED
    BY <1>7, <1>8, <1>9, <1>10, BoundKept

LEMMA BoundBatchActions ==
    ASSUME Inv, BoundInv, BatchActions
    PROVE  BoundInv'
<1>1. CASE BatchRuns
    BY <1>1, BoundRuns
<1>2. CASE RanPausing
    BY <1>2, BoundRan
<1>3. CASE Drain
    BY <1>3, BoundDrain
<1>4. CASE End
    <2>1. /\ QuietStep /\ Batch!Top.pc # "ran"
          /\ UNCHANGED <<assigned, active, waiting, halted>>
        BY <1>4 DEF End, EndWith, QuietStep, Batch!ListenerReturns, Batch!Running, emitVars,
           Batch!batch
    <2> QED
        BY <2>1, BoundQuiet
<1>5. CASE BatchSteps
    <2>1. UNCHANGED <<assigned, halted>>
        BY <1>5 DEF BatchSteps, Others, emitVars
    <2>2. CASE \/ Batch!FireWhilePaused \/ Batch!FireNothing
               \/ Batch!EmitEnd \/ Batch!NotComplete \/ Batch!NoDrain
               \/ Batch!Running("onDrain") /\ Batch!ListenerReturns
        <3>1. QuietStep
            BY <2>2 DEF QuietStep
        <3>2. Batch!Top.pc # "ran" /\ UNCHANGED <<active, waiting>>
            BY <2>2 DEF Batch!FireWhilePaused, Batch!FireNothing, Batch!EmitEnd,
               Batch!NotComplete, Batch!NoDrain, Batch!ListenerReturns, Batch!Running, Batch!batch
        <3> QED
            BY <2>1, <3>1, <3>2, BoundQuiet
    <2>3. CASE Batch!BatchOperationCallback
        BY <2>1, <2>3, BoundSettles
    <2>4. CASE Batch!FireUserCallback
        BY <2>1, <2>4, BoundFires
    <2>5. CASE Batch!UserCallbackReturns
        BY <2>1, <2>5, BoundReturns
    <2> QED
        BY <1>5, <2>2, <2>3, <2>4, <2>5 DEF BatchSteps
<1> QED
    BY <1>1, <1>2, <1>3, <1>4, <1>5 DEF BatchActions

(* The range stream adds an operation, unless it is paused.                 *)
LEMMA BoundEmits ==
    ASSUME Inv, BoundInv, EmitRange
    PROVE  BoundInv'
<1>1. /\ Emitting /\ ~Pausing /\ UNCHANGED <<active, current>>
      /\ stack' = Append(stack, Batch!Call("run", Total + 1))
    BY DEF EmitRange, EmitRangeBy, Batch!AddOperation, Batch!AddOperationAs, Total, Batch!Total
<1>2. /\ Total' = Total + 1 /\ Total \in Nat /\ current \in Nat
      /\ status'[Total + 1] = "queued"
      /\ \A i \in 1..Total : status'[i] = status[i] /\ Reads(i)' = Reads(i)
    BY OperationAdded, Progress DEF Inv
<1>3. Batch!Call("run", Total + 1) \in Batch!Frame /\ Batch!Call("run", Total + 1).pc = "run"
    BY <1>2, CallFields DEF Batch!Pcs
<1>4. /\ Len(stack') = Len(stack) + 1 /\ Len(stack) \in Nat
      /\ stack'[Len(stack) + 1] = Batch!Call("run", Total + 1)
    BY <1>1, <1>3, CallPushed DEF Inv
<1>5. ~Someone /\ ~Batch!Running("ran")
    BY <1>1, EmittingFacts DEF Inv, Someone
<1>6. Someone'
    <2>1. Len(stack) + 1 \in 1..Len(stack')
        BY <1>4
    <2>2. \E n \in 1..Len(stack') : stack'[n].pc \in {"run", "ran"}
        BY <1>3, <1>4, <2>1
    <2> QED
        BY <2>2 DEF Someone, Adding
<1>7. (active = Total + 1 - current - (IF Someone THEN 1 ELSE 0))'
    <2>1. active = Total + 1 - current - 0
        BY <1>5 DEF BoundInv
    <2>2. active' = Total' + 1 - current' - 1
        BY <1>1, <1>2, <2>1
    <2> QED
        BY <1>6, <2>2
<1>8. Reading' \subseteq Reading
    <2> SUFFICES ASSUME NEW i \in 1..(Total + 1), status'[i] = "running", Reads(i)'
                 PROVE  i \in Reading
        BY <1>2 DEF Reading
    <2>1. i \in 1..Total
        BY <1>2
    <2> QED
        BY <1>2, <2>1 DEF Reading
<1>9. Cardinality(Reading') < Most /\ Cardinality(Reading') \in Nat
    <2>1. Cardinality(Reading) < Most
        BY <1>1, <1>5, ReadingFacts, MostFacts DEF BoundInv
    <2> QED
        BY <1>8, <2>1, LessReading, ReadingFacts, MostFacts
<1> QED
    BY <1>7, <1>9, BoundBelow

LEMMA BoundOthers ==
    ASSUME Inv, BoundInv,
           \/ EmissionStops \/ EmissionEnds
           \/ UserCallbackWrites \/ UserCallbackStops \/ UserCallbackIgnores
           \/ External \/ UNCHANGED vars
    PROVE  BoundInv'
<1>1. CASE UNCHANGED <<stack, status, assigned, active, current>> /\ (Pausing => Pausing')
    BY <1>1, BoundSame
<1>2. CASE EmissionStops \/ UserCallbackWrites \/ UserCallbackIgnores
           \/ ListAnswers \/ BlocksAnswer \/ ListFails \/ OutputEnds \/ UNCHANGED vars
    <2>1. UNCHANGED <<stack, status, assigned, active, current, waiting, halted>>
        BY <1>2 DEF EmissionStops, UserCallbackWrites, UserCallbackIgnores, ListAnswers,
           BlocksAnswer, ListFails, OutputEnds, Batch!Pause, vars, batchVars, emitVars, Others
    <2> QED
        BY <1>1, <2>1 DEF Pausing
<1>3. CASE EmissionEnds \/ UserCallbackStops
    <2>1. /\ stack' = Append(stack, Batch!Call("tryEnd", 0))
          /\ UNCHANGED <<status, assigned, active, current>> /\ (Pausing => Pausing')
        BY <1>3 DEF EmissionEnds, UserCallbackStops, Batch!EnableComplete, Pausing
    <2>2. ~Batch!Running("run") /\ ~Batch!Running("ran")
        <3>1. CASE EmissionEnds
            BY <3>1, EmittingFacts DEF EmissionEnds, Inv
        <3>2. CASE UserCallbackStops
            BY <3>2 DEF UserCallbackStops, Batch!Running
        <3> QED
            BY <1>3, <3>1, <3>2
    <2>3. "tryEnd" \in Batch!Pcs /\ 0 \in Nat
        BY DEF Batch!Pcs
    <2> QED
        BY <2>1, <2>2, <2>3, BoundPushed
<1>4. CASE OutputDrains
    <2>1. /\ stack = <<>> /\ stack' = Append(stack, Batch!Call("fire", 0))
          /\ UNCHANGED <<status, assigned, active, current>> /\ (Pausing => Pausing')
        BY <1>4 DEF OutputDrains, EventLoop, Batch!Resume, Pausing, emitVars
    <2>2. ~Batch!Running("run") /\ ~Batch!Running("ran")
        BY <2>1 DEF Batch!Running
    <2>3. "fire" \in Batch!Pcs /\ 0 \in Nat
        BY DEF Batch!Pcs
    <2> QED
        BY <2>1, <2>2, <2>3, BoundPushed
<1>5. ASSUME NEW i \in 1..Total, NEW failed \in BOOLEAN, RequestDone(i, failed)
      PROVE  BoundInv'
    <2> DEFINE p == IF failed THEN "fail" ELSE "succeed"
    <2>1. /\ stack = <<>> /\ stack' = Append(stack, Batch!Call(p, i))
          /\ UNCHANGED <<status, assigned, active, current>> /\ (Pausing => Pausing')
        BY <1>5 DEF RequestDone, Batch!RequestDone, Batch!RequestDoneIn, Batch!Idle, Batch!batch,
           Others, emitVars, Pausing
    <2>2. ~Batch!Running("run") /\ ~Batch!Running("ran")
        BY <2>1 DEF Batch!Running
    <2>3. p \in Batch!Pcs /\ p \notin {"run", "ran"} /\ i \in Nat
        BY DEF Batch!Pcs
    <2> HIDE DEF p
    <2> QED
        BY <2>1, <2>2, <2>3, BoundPushed
<1> QED
    BY <1>2, <1>3, <1>4, <1>5 DEF External

LEMMA BoundInit == Init => BoundInv
<1> SUFFICES ASSUME Init PROVE BoundInv
    OBVIOUS
<1>1. /\ Total = 0 /\ Len(stack) = 0 /\ active = 0 /\ current = 1
    BY EmptySeq DEF Init, Total
<1>2. ~Someone /\ ~Busy /\ Reading = {}
    BY <1>1 DEF Someone, Busy, Reading
<1>3. Cardinality(Reading) = 0 /\ Most > 0
    <2>1. Concurrency \in Nat \ {0} /\ Concurrency <= Most /\ Most \in Nat
        BY MostFacts, DownloadAssumption DEF DownloadAssumption
    <2> QED
        BY <1>2, <2>1, FS_EmptySet
<1>4. active = Total + 1 - current - (IF Someone THEN 1 ELSE 0)
    <2>1. active = Total + 1 - current - 0
        BY <1>1
    <2> QED
        BY <1>2, <2>1
<1>5. Cardinality(Reading) <= Most /\ Cardinality(Reading) # Most
    BY <1>3, MostFacts
<1> QED
    BY <1>2, <1>4, <1>5 DEF BoundInv

LEMMA BoundNext == Inv /\ BoundInv /\ [Next]_vars => BoundInv'
<1> SUFFICES ASSUME Inv, BoundInv, [Next]_vars PROVE BoundInv'
    OBVIOUS
<1> QED
    BY BoundBatchActions, BoundEmits, BoundOthers
    DEF Next, Internal, Stopped, BatchActions

(* RequestsBounded: never more reads are in flight than the batch allows,   *)
(* although an operation is counted only when addOperation returns, empty   *)
(* ranges ignore its answer, and 'drain' resumes the range stream in the    *)
(* middle of an emission.                                                   *)
THEOREM DownloadBoundsRequests == Spec => []RequestsBounded
<1>1. BoundInv => RequestsBounded
    BY DEF BoundInv, RequestsBounded, Reading, Most
<1>2. Spec => []BoundInv
    BY BoundInit, BoundNext, Invariant, PTL DEF Spec
<1> QED
    BY <1>1, <1>2, PTL
=============================================================================
