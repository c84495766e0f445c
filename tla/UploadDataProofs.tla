-------------------------- MODULE UploadDataProofs --------------------------
(***************************************************************************)
(* Proofs about the data of an upload, on top of those about its batch in  *)
(* module UploadProofs: where each unit of the source is at any time, from *)
(* its read or write over the internal buffer to a chunk; that an append   *)
(* blob gets one block after the other; and who has a buffer, from its     *)
(* allocator over the chunk to its release.                                *)
(***************************************************************************)
EXTENDS UploadProofs

(***************************************************************************)
(* Data.  What the source has given is what was emitted, what is about to  *)
(* be emitted, what the buffer holds and what is left of the data of the   *)
(* outermost call, one after the other.                                    *)
(***************************************************************************)
TopOut == IF calls = <<>> THEN Nothing ELSE Top.out.run
FirstLeft == IF calls = <<>> THEN Nothing ELSE calls[1].left.run
Given == IF calls # <<>> /\ calls[1].then = "read" THEN calls[1].left.run.last ELSE position
Sent == Given - Size(TopOut) - Size(buffer.run) - Size(FirstLeft)

Chain(e, out, buf, left, given) ==
    /\ Size(out) >= 0 /\ Size(buf) >= 0 /\ Size(left) >= 0
    /\ Size(out) > 0 => out.first = e + 1
    /\ Size(buf) > 0 => buf.first = e + Size(out) + 1
    /\ Size(left) > 0 => left.first = e + Size(out) + Size(buf) + 1
    /\ e + Size(out) + Size(buf) + Size(left) = given
Flow(e) == Chain(e, TopOut, buffer.run, FirstLeft, Given)

(* A chunk is about to be emitted by the innermost call only, before the    *)
(* batch does anything; only the outermost call has data to look at.        *)
CallsInv ==
    \A n \in 1..Len(calls) :
        /\ \/ calls[n].out = NoData
           \/ Size(calls[n].out.run) > 0 /\ n = Len(calls) /\ calls[n].height = Len(stack)
        /\ n > 1 => calls[n].then = "end"
        /\ calls[n].then = "end" => calls[n].left = NoData
        /\ IsFile /\ Local => Size(calls[n].left.run) = 0
BufferInv ==
    /\ buffer = NoData \/ Size(buffer.run) > 0
    /\ IsFile /\ Local => buffer = NoData
    /\ calls # <<>> /\ Top.out # NoData => buffer = NoData
ShapeInv == CallsInv /\ BufferInv
FlowInv == Flow(Sent) /\ offset \in 0..Sent
DataInv == WholeInv /\ ControlInv /\ ShapeInv /\ FlowInv

LEMMA EmptyRuns ==
    /\ Size(Nothing) = 0 /\ NoData.run = Nothing /\ NoData.id = 0
    /\ Size(NoData.run) = 0 /\ Nothing.last = 0
    BY DEF Size, Nothing, NoData, Run

LEMMA FlowTypes ==
    ASSUME TypesInv
    PROVE  /\ Size(TopOut) \in Int /\ Size(buffer.run) \in Int /\ Size(FirstLeft) \in Int
           /\ Given \in Int /\ Sent \in Int /\ Given <= upload.size /\ position \in Int
           /\ upload.size \in Nat /\ upload.chunk \in Nat \ {0} /\ upload.piece \in Nat \ {0}
           /\ upload.limit \in Nat
           /\ buffer \in Data /\ offset \in Int /\ Len(calls) \in Nat
           /\ calls # <<>> => /\ 1 \in 1..Len(calls) /\ Top = calls[Len(calls)]
                              /\ Top \in CallSet /\ calls[1] \in CallSet
                              /\ LeftOK(Top.left) /\ LeftOK(calls[1].left)
                              /\ Top.out \in Data /\ calls[1].left \in Data
                              /\ Top.left \in Data
<1>1. /\ buffer \in Data /\ offset \in Int /\ calls \in Seq(CallSet)
      /\ \A n \in 1..Len(calls) : LeftOK(calls[n].left)
    BY DEF TypesInv, ChunkTypes, CallsOK
<1>2. /\ upload.size \in Nat /\ position \in 0..upload.size /\ upload.chunk \in Nat \ {0}
      /\ upload.piece \in Nat \ {0} /\ upload.limit \in Nat
    BY UploadFacts DEF TypesInv, SourceTypes
<1>3. Len(calls) \in Nat /\ (calls # <<>> => Len(calls) # 0)
    BY <1>1, EmptySeq
<1>4. calls # <<>> => 1 \in 1..Len(calls) /\ Len(calls) \in 1..Len(calls)
    BY <1>3
<1>5. \A n \in 1..Len(calls) : /\ calls[n] \in CallSet /\ calls[n].left \in Data
                               /\ calls[n].out \in Data
    <2>1. \A n \in 1..Len(calls) : calls[n] \in CallSet
        BY <1>1
    <2>2. \A c \in CallSet : c.left \in Data /\ c.out \in Data
        BY DEF CallSet
    <2> QED
        BY <2>1, <2>2
<1>6. \A d \in Data : Size(d.run) \in Int /\ d.run.last \in Int
    BY DataFacts
<1>7. Top = calls[Len(calls)]
    BY DEF Top, Last
<1>8. \A d : LeftOK(d) => d.run.last \in Int /\ d.run.last <= upload.size
    BY <1>2 DEF LeftOK
<1>9. Size(TopOut) \in Int /\ Size(FirstLeft) \in Int /\ Size(buffer.run) \in Int
    BY <1>1, <1>4, <1>5, <1>6, <1>7, EmptyRuns DEF TopOut, FirstLeft
<1>10. Given \in Int /\ Given <= upload.size
    BY <1>1, <1>2, <1>4, <1>8 DEF Given
<1>11. Sent \in Int
    BY <1>9, <1>10 DEF Sent
<1> QED
    BY <1>1, <1>2, <1>3, <1>4, <1>5, <1>7, <1>9, <1>10, <1>11

LEMMA FlowPrimed ==
    ASSUME TypesInv', NEW e \in Int, Flow(e)'
    PROVE  Sent' = e
<1>1. (TypesInv => /\ Size(TopOut) \in Int /\ Size(buffer.run) \in Int
                   /\ Size(FirstLeft) \in Int /\ Given \in Int)'
    BY FlowTypes, PTL
<1> QED
    BY <1>1 DEF Flow, Chain, Sent

LEMMA FlowClosed ==
    ASSUME TypesInv', NEW e \in Int, Flow(e)', offset' \in 0..e
    PROVE  FlowInv' /\ Sent' = e
<1>1. Sent' = e
    BY FlowPrimed
<1> QED
    BY <1>1 DEF FlowInv, Flow

(* While a call waits for the batch no chunk is about to be emitted.        *)
LEMMA WaitingCalls ==
    ASSUME TypesInv, CallsInv, ~Calling
    PROVE  TopOut = Nothing /\ \A n \in 1..Len(calls) : calls[n].out = NoData
<1>1. /\ Len(calls) \in Nat
      /\ calls # <<>> => 1 \in 1..Len(calls) /\ Top = calls[Len(calls)]
    BY FlowTypes
<1>2. \A n \in 1..Len(calls) : calls[n].out = NoData
    BY <1>1, EmptySeq DEF CallsInv, Calling, Top
<1> QED
    BY <1>1, <1>2, EmptyRuns DEF TopOut

(* A call that has data, or reads or writes, is alone.                      *)
LEMMA AloneCall ==
    ASSUME TypesInv, CallsInv, calls # <<>>,
           Size(Top.left.run) # 0 \/ Top.then # "end"
    PROVE  Len(calls) = 1 /\ Top = calls[1] /\ Top.then # "end"
<1>1. Len(calls) \in Nat /\ 1 \in 1..Len(calls) /\ Top = calls[Len(calls)]
    BY FlowTypes
<1>2. Top.then # "end"
    BY <1>1, EmptyRuns DEF CallsInv
<1> QED
    BY <1>1, <1>2 DEF CallsInv

(* The data flow is not touched.                                            *)
LEMMA FlowKept ==
    ASSUME UNCHANGED <<calls, buffer, position>>
    PROVE  UNCHANGED <<TopOut, FirstLeft, Given, Sent>> /\ \A e : Flow(e)' <=> Flow(e)
    BY DEF TopOut, FirstLeft, Given, Sent, Flow, Top

LEMMA ShapeKept ==
    ASSUME ShapeInv, TypesInv, UNCHANGED <<upload, calls, buffer>>,
           stack' = stack \/ ~Calling
    PROVE  ShapeInv'
<1>1. CallsInv'
    <2>1. CASE stack' = stack
        BY <2>1 DEF ShapeInv, CallsInv, IsFile, Local
    <2>2. CASE ~Calling
        BY <2>2, WaitingCalls DEF ShapeInv, CallsInv, IsFile, Local
    <2> QED
        BY <2>1, <2>2
<1>2. BufferInv'
    BY DEF ShapeInv, BufferInv, IsFile, Local, Top
<1> QED
    BY <1>1, <1>2 DEF ShapeInv

(* What a call of the chunk stream looks like after the innermost, which is *)
(* alone, has moved data.                                                   *)
LEMMA MovedCall ==
    ASSUME TypesInv, ShapeInv, calls # <<>>, Len(calls) = 1, Top = calls[1], Top.then # "end",
           Calling, NEW left, NEW out, LeftOK(left), out \in Data,
           out = NoData \/ Size(out.run) > 0, IsFile /\ Local => Size(left.run) = 0,
           calls' = TopWith(left, out), UNCHANGED <<upload, stack, position>>,
           buffer' = NoData \/ (Size(buffer'.run) > 0 /\ out = NoData),
           IsFile /\ Local => buffer' = NoData
    PROVE  /\ ShapeInv' /\ TopOut' = out.run /\ FirstLeft' = left.run
           /\ Given' = IF Top.then = "read" THEN left.run.last ELSE position
           /\ Top'.then = Top.then /\ Top'.left = left /\ Top'.out = out
           /\ Top'.height = Top.height /\ calls' # <<>> /\ Len(calls') = 1
<1>1. /\ Len(calls') = 1 /\ calls' # <<>>
      /\ calls'[1] = [height |-> Top.height, left |-> left, out |-> out, then |-> Top.then]
      /\ Top.height = Len(stack)
    <2>1. /\ CallsOK(TopWith(left, out)) /\ Len(TopWith(left, out)) = Len(calls)
          /\ TopWith(left, out)[Len(calls)] =
                [height |-> Top.height, left |-> left, out |-> out, then |-> Top.then]
          /\ TopWith(left, out) # <<>>
        BY TopWithOK
    <2> QED
        BY <2>1 DEF Calling, Top
<1>2. Top' = calls'[1]
    BY <1>1 DEF Top, Last
<1>4. /\ Top'.then = Top.then /\ Top'.left = left /\ Top'.out = out
      /\ Top'.height = Top.height
    BY <1>1, <1>2
<1>5. CallsInv'
    BY <1>1 DEF CallsInv, IsFile, Local
<1>6. BufferInv'
    BY <1>1, <1>2, EmptyRuns DEF BufferInv, IsFile, Local
<1>7. TopOut' = out.run /\ FirstLeft' = left.run
      /\ Given' = IF Top.then = "read" THEN left.run.last ELSE position
    BY <1>1, <1>2 DEF TopOut, FirstLeft, Given
<1> QED
    BY <1>1, <1>2, <1>4, <1>5, <1>6, <1>7 DEF ShapeInv

LEMMA BuildFlows ==
    ASSUME WholeInv, ShapeInv, FlowInv, BuildChunk
    PROVE  /\ ShapeInv' /\ FlowInv' /\ Sent' = Sent
           /\ Len(calls) = 1 /\ calls # <<>> /\ calls' # <<>>
           /\ Top.then # "end" /\ Top'.then = Top.then /\ Given' = Given /\ offset' = offset
           /\ TopOut = Nothing
           /\ Size(TopOut') + Size(buffer'.run) + Size(FirstLeft')
                = Size(buffer.run) + Size(FirstLeft)
           /\ \/ buffer = NoData /\ Top.then = "write" /\ Size(FirstLeft) = upload.chunk
                 /\ Size(TopOut') = upload.chunk
              \/ Size(TopOut') = upload.chunk /\ Size(buffer'.run) = 0
              \/ Size(TopOut') = 0 /\ Size(FirstLeft') = 0
<1>1. /\ TypesInv /\ Calling /\ calls # <<>> /\ Top.out = NoData /\ Size(Top.left.run) > 0
      /\ UNCHANGED <<upload, stack, position, offset>>
    BY WholeParts, HeightFacts DEF BuildChunk, Others, batchVars, sourceVars
<1>2. Len(calls) = 1 /\ Top = calls[1] /\ Top.then # "end"
    BY <1>1, AloneCall DEF ShapeInv
<1>3. /\ Top.left \in Data /\ LeftOK(Top.left) /\ buffer \in Data /\ Sent \in Int /\ Given \in Int
      /\ upload.chunk \in Nat \ {0} /\ Size(buffer.run) \in Int
      /\ Size(buffer.run) < upload.chunk /\ position \in Int /\ Top \in CallSet
    BY <1>1, FlowTypes DEF TypesInv, ChunkTypes
<1> DEFINE L == Top.left.run
           b == buffer.run
<1>4. /\ TopOut = Nothing /\ FirstLeft = L
      /\ Given = IF Top.then = "read" THEN L.last ELSE position
    BY <1>1, <1>2, EmptyRuns DEF TopOut, FirstLeft, Given
<1>5. /\ L.first \in Nat /\ L.last \in Int /\ b.first \in Nat /\ b.last \in Int
      /\ Size(L) = L.last - L.first + 1 /\ Size(b) = b.last - b.first + 1
    BY <1>3, DataFacts
<1>6. /\ Size(b) >= 0 /\ Size(L) > 0
      /\ Size(b) > 0 => b.first = Sent + 1
      /\ L.first = Sent + Size(b) + 1
      /\ Sent + Size(b) + Size(L) = Given
      /\ offset \in 0..Sent
    <2>1. Flow(Sent) /\ offset \in 0..Sent
        BY DEF FlowInv
    <2> QED
        BY <1>1, <1>3, <1>4, <1>5, <2>1, EmptyRuns DEF Flow, Chain
<1>7. /\ buffer = NoData => Size(b) = 0
      /\ buffer # NoData => Size(b) > 0
      /\ ~(IsFile /\ Local)
    <2>1. IsFile /\ Local => Size(calls[1].left.run) = 0
        BY <1>2 DEF ShapeInv, CallsInv
    <2> QED
        BY <1>1, <1>2, <2>1, EmptyRuns DEF ShapeInv, BufferInv
<1> DEFINE room == upload.chunk - (IF buffer = NoData THEN 0 ELSE Size(b))
           passes == buffer = NoData /\ Top.then = "write" /\ Size(L) = upload.chunk
           n == Smaller(room, Size(L))
<1>8. IF passes THEN calls' = TopWith(NoData, Top.left) /\ buffer' = buffer
      ELSE CopyUpTo(n)
    BY DEF BuildChunk
<1>9. TypesInv'
    BY <1>1, BuildTypes
<1>10. PICK e : e = Sent
    OBVIOUS
<1>12. CASE passes
    <2>1. /\ calls' = TopWith(NoData, Top.left) /\ buffer' = NoData /\ buffer = NoData
          /\ Top.then = "write" /\ Size(L) = upload.chunk
        BY <1>8, <1>12
    <2>2. LeftOK(NoData)
        BY <1>1, NoDataOK DEF TypesInv
    <2>3. /\ ShapeInv' /\ TopOut' = L /\ FirstLeft' = Nothing /\ Given' = position
          /\ Top'.then = Top.then /\ calls' # <<>>
        BY <1>1, <1>2, <1>3, <1>7, <2>1, <2>2, MovedCall, EmptyRuns
    <2>4. Flow(e)'
        <3>1. Chain(e, L, Nothing, Nothing, position)
            BY <1>3, <1>4, <1>5, <1>6, <1>7, <1>10, <2>1, EmptyRuns DEF Chain
        <3>2. buffer'.run = Nothing
            BY <2>1, EmptyRuns
        <3> QED
            BY <2>3, <3>1, <3>2 DEF Flow
    <2>5. FlowInv' /\ Sent' = e
        BY <1>1, <1>3, <1>6, <1>9, <1>10, <2>4, FlowClosed
    <2>6. /\ Size(TopOut') = upload.chunk /\ Size(buffer'.run) = 0 /\ Size(FirstLeft') = 0
          /\ Given' = Given
        BY <1>4, <2>1, <2>3, EmptyRuns
    <2> QED
        BY <1>1, <1>2, <1>3, <1>4, <1>7, <1>10, <2>1, <2>3, <2>5, <2>6
<1>13. CASE ~passes
    <2> DEFINE run == Run(IF buffer = NoData THEN L.first ELSE b.first, L.first + n - 1)
               rest == [Top.left EXCEPT !.run.first = @ + n]
    <2>1. PICK id \in Nat :
                    IF Size(run) < upload.chunk
                    THEN buffer' = [run |-> run, id |-> id] /\ calls' = TopWith(rest, NoData)
                    ELSE buffer' = NoData /\ calls' = TopWith(rest, [run |-> run, id |-> id])
        <3> DEFINE id == IF buffer = NoData THEN Obtain(Level).buffer ELSE buffer.id
        <3>1. id \in Nat
            <4>1. Level \in {"source", "chunk"}
                BY DEF Level
            <4> QED
                BY <1>1, <1>3, <4>1, ObtainFacts, DataFacts
        <3>2. CopyUpTo(n)
            BY <1>8, <1>13
        <3> HIDE DEF n
        <3>3. IF Size(run) < upload.chunk
                    THEN buffer' = [run |-> run, id |-> id] /\ calls' = TopWith(rest, NoData)
                    ELSE buffer' = NoData /\ calls' = TopWith(rest, [run |-> run, id |-> id])
            BY <3>2 DEF CopyUpTo, CopyAndPop
        <3> HIDE DEF id
        <3> QED
            BY <3>1, <3>3
    <2>2. n \in Nat \ {0} /\ n <= Size(L) /\ n <= room /\ (n = room \/ n = Size(L))
        BY <1>3, <1>5, <1>6, <1>7 DEF Smaller
    <2>3. /\ rest \in Data /\ rest.run.last = L.last /\ rest.run.first = L.first + n
          /\ Size(rest.run) = Size(L) - n
        <3> HIDE DEF n
        <3>1. /\ rest \in Data /\ rest.run.last = L.last /\ rest.run.first = L.first + n
            BY <1>3, <2>2, DataFacts
        <3> HIDE DEF rest
        <3> QED
            BY <1>5, <2>2, <3>1 DEF Size
    <2>4. LeftOK(rest)
        BY <1>3, <2>3 DEF LeftOK
    <2> HIDE DEF rest, n
    <2>5. /\ run.first = Sent + 1 /\ Size(run) = Size(b) + n /\ Size(run) > 0
          /\ Size(run) <= upload.chunk /\ (Size(run) = upload.chunk \/ n = Size(L))
        <3>1. run.first = Sent + 1 /\ run.last = L.first + n - 1
            BY <1>3, <1>5, <1>6, <1>7 DEF Run
        <3>2. Size(run) = Size(b) + n
            BY <1>3, <1>5, <1>6, <2>2, <3>1 DEF Size
        <3> QED
            BY <1>3, <1>5, <1>6, <1>7, <2>2, <3>1, <3>2
    <2> HIDE DEF run
    <2>7. CASE Size(run) < upload.chunk
        <3>1. buffer' = [run |-> run, id |-> id] /\ calls' = TopWith(rest, NoData) /\ n = Size(L)
            BY <2>1, <2>5, <2>7, <1>3
        <3>2. NoData \in Data /\ buffer'.run = run
            BY <1>1, <3>1, NoDataOK DEF TypesInv
        <3>3. /\ ShapeInv' /\ TopOut' = NoData.run /\ FirstLeft' = rest.run
              /\ Given' = IF Top.then = "read" THEN rest.run.last ELSE position
              /\ Top'.then = Top.then /\ calls' # <<>>
            BY <1>1, <1>2, <1>7, <2>4, <2>5, <3>1, <3>2, MovedCall
        <3>4. Chain(e, Nothing, run, rest.run, Given)
            BY <1>3, <1>5, <1>6, <1>10, <2>2, <2>3, <2>5, <3>1, EmptyRuns DEF Chain
        <3>5. Given' = Given /\ TopOut' = Nothing
            BY <1>4, <2>3, <3>3, EmptyRuns
        <3>6. Flow(e)'
            BY <3>2, <3>3, <3>4, <3>5 DEF Flow
        <3>7. FlowInv' /\ Sent' = e
            BY <1>1, <1>3, <1>6, <1>9, <1>10, <3>6, FlowClosed
        <3>9. Size(TopOut') = 0 /\ Size(FirstLeft') = 0 /\ Size(buffer'.run) = Size(b) + Size(L)
            BY <1>5, <2>3, <2>5, <3>1, <3>2, <3>3, <3>5, EmptyRuns
        <3> QED
            BY SMTT(30), <1>1, <1>2, <1>3, <1>4, <1>5, <1>10, <3>3, <3>5, <3>7, <3>9
    <2>8. CASE ~(Size(run) < upload.chunk)
        <3>1. /\ buffer' = NoData /\ calls' = TopWith(rest, [run |-> run, id |-> id])
              /\ Size(run) = upload.chunk
            BY <1>3, <1>5, <2>1, <2>2, <2>5, <2>8
        <3> DEFINE out == [run |-> run, id |-> id]
        <3>2. out \in Data
            <4>1. run.first \in Nat /\ run.last \in Int /\ run = Run(run.first, run.last)
                BY <1>3, <1>5, <2>2 DEF run, Run
            <4> QED
                BY <2>1, <4>1 DEF Data, Run
        <3>3. out.run = run /\ out # NoData
            BY <1>3, <3>1, EmptyRuns
        <3> HIDE DEF out
        <3>4. /\ ShapeInv' /\ TopOut' = out.run /\ FirstLeft' = rest.run
              /\ Given' = IF Top.then = "read" THEN rest.run.last ELSE position
              /\ Top'.then = Top.then /\ calls' # <<>>
            <4>1. calls' = TopWith(rest, out)
                BY <3>1 DEF out
            <4> QED
                BY <1>1, <1>2, <1>7, <2>4, <2>5, <3>1, <3>2, <3>3, <4>1, MovedCall
        <3>5. Chain(e, run, Nothing, rest.run, Given)
            BY <1>3, <1>5, <1>6, <1>10, <2>2, <2>3, <2>5, <3>1, EmptyRuns DEF Chain
        <3>6. Given' = Given /\ buffer'.run = Nothing
            BY <1>4, <2>3, <3>1, <3>4, EmptyRuns
        <3>7. Flow(e)'
            BY <3>3, <3>4, <3>5, <3>6 DEF Flow
        <3>8. FlowInv' /\ Sent' = e
            BY <1>1, <1>3, <1>6, <1>9, <1>10, <3>7, FlowClosed
        <3>10. /\ Size(TopOut') = upload.chunk /\ Size(buffer'.run) = 0
               /\ Size(FirstLeft') = Size(L) - n /\ upload.chunk = Size(b) + n
            BY <2>3, <2>5, <3>1, <3>3, <3>4, <3>6, EmptyRuns
        <3>11. Size(TopOut') + Size(buffer'.run) + Size(FirstLeft')
                 = Size(buffer.run) + Size(FirstLeft)
            <4>1. Size(L) \in Int /\ n \in Int /\ FirstLeft = L /\ Size(b) \in Int
                BY <1>3, <1>4, <1>5, <2>2
            <4> HIDE DEF L, b
            <4>2. Size(TopOut') = Size(b) + n /\ Size(buffer'.run) = 0
                  /\ Size(FirstLeft') = Size(L) - n
                BY <3>10
            <4>3. Size(TopOut') + Size(buffer'.run) + Size(FirstLeft') = Size(b) + Size(L)
                BY <4>1, <4>2
            <4> QED
                BY <4>1, <4>3 DEF b
        <3> QED
            BY <1>1, <1>2, <1>4, <1>10, <3>4, <3>6, <3>8, <3>10, <3>11
    <2> QED
        BY <2>7, <2>8
<1> QED
    BY <1>12, <1>13

(* What the emission of a chunk leaves of the calls.                        *)
LEMMA EmittedCalls ==
    ASSUME WholeInv, ShapeInv, Emission
    PROVE  /\ Emitting /\ calls # <<>> /\ Top = calls[Len(calls)] /\ Len(calls) \in Nat
           /\ Size(Top.out.run) > 0 /\ buffer = NoData /\ buffer' = NoData
           /\ Len(calls') \in {Len(calls), Len(calls) + 1}
           /\ \A n \in 1..Len(calls') : calls'[n].out = NoData
           /\ \A n \in 1..Len(calls) : /\ calls'[n].left = calls[n].left
                                       /\ calls'[n].then = calls[n].then
           /\ Len(calls') = Len(calls) + 1 =>
                 calls'[Len(calls')].then = "end" /\ calls'[Len(calls')].left = NoData
           /\ UNCHANGED <<upload, ready, position>>
<1>1. /\ TypesInv /\ UploadInv /\ Emitting
      /\ calls # <<>> /\ Top.out # NoData /\ Top = calls[Len(calls)] /\ Len(calls) \in Nat
    <2>1. Emitting
        BY DEF Emission, EmitLost, EmitBeyond, EmitZeros, EmitChunk
    <2> QED
        BY <2>1, WholeParts, FlowTypes, HeightFacts DEF Emitting
<1>2. Size(Top.out.run) > 0 /\ buffer = NoData
    <2>1. Len(calls) \in 1..Len(calls)
        BY <1>1, EmptySeq
    <2>2. Size(calls[Len(calls)].out.run) > 0
        BY <1>1, <2>1 DEF ShapeInv, CallsInv
    <2> QED
        BY <1>1, <2>2 DEF ShapeInv, BufferInv
<1>3. \A n \in 1..(Len(calls) - 1) : calls[n].out = NoData
    BY <1>1 DEF ShapeInv, CallsInv
<1>4. CASE EmitBeyond
    <2>1. /\ Len(calls') = Len(calls) + 1
          /\ \A n \in 1..Len(calls) : /\ calls'[n].then = calls[n].then
                                      /\ calls'[n].left = calls[n].left
                                      /\ n < Len(calls) => calls'[n] = calls[n]
                                      /\ n = Len(calls) => calls'[n].out = NoData
          /\ calls'[Len(calls) + 1] = Call(NoData, IF Local /\ ~IsFile THEN buffer ELSE NoData, "end")
          /\ buffer' = IF Local /\ ~IsFile THEN NoData ELSE buffer
          /\ UNCHANGED <<upload, ready, position>>
        BY <1>1, <1>4, StoppedCalls
    <2>2. Call(NoData, NoData, "end").out = NoData /\ Call(NoData, NoData, "end").left = NoData
          /\ Call(NoData, NoData, "end").then = "end"
        BY DEF Call
    <2>3. calls'[Len(calls) + 1] = Call(NoData, NoData, "end") /\ buffer' = NoData
        BY <1>2, <2>1
    <2>4. \A n \in 1..Len(calls') : n = Len(calls) + 1 \/ n = Len(calls) \/ n \in 1..(Len(calls) - 1)
        BY <1>1, <2>1
    <2>5. \A n \in 1..Len(calls') : calls'[n].out = NoData
        BY <1>1, <1>3, <2>1, <2>2, <2>3, <2>4
    <2> QED
        BY <1>1, <1>2, <2>1, <2>2, <2>3, <2>5
<1>5. CASE EmitLost \/ EmitZeros \/ EmitChunk
    <2>1. calls' = TopWith(Top.left, NoData) /\ buffer' = buffer /\ UNCHANGED <<upload, ready, position>>
        BY <1>5 DEF EmitLost, EmitZeros, EmitChunk, Emitted, Others, sourceVars
    <2>2. /\ Len(calls') = Len(calls)
          /\ \A n \in 1..(Len(calls) - 1) : calls'[n] = calls[n]
          /\ calls'[Len(calls)] = [height |-> Top.height, left |-> Top.left,
                                   out |-> NoData, then |-> Top.then]
        <3>1. LeftOK(Top.left) /\ NoData \in Data
            BY <1>1, FlowTypes, NoDataOK DEF TypesInv
        <3> QED
            BY <1>1, <2>1, <3>1, TopWithOK
    <2>3. \A n \in 1..Len(calls) : n = Len(calls) \/ n \in 1..(Len(calls) - 1)
        BY <1>1
    <2>4. \A n \in 1..Len(calls) : /\ calls'[n].out = NoData
                                   /\ calls'[n].left = calls[n].left
                                   /\ calls'[n].then = calls[n].then
        BY <1>1, <1>3, <2>2, <2>3
    <2> QED
        BY <1>1, <1>2, <2>1, <2>2, <2>4
<1> QED
    BY <1>4, <1>5 DEF Emission

LEMMA EmitFlows ==
    ASSUME WholeInv, WholeInv', ShapeInv, FlowInv, Emission
    PROVE  /\ ShapeInv' /\ FlowInv' /\ Sent' = Sent + Size(Top.out.run)
           /\ Given' = Given /\ TopOut = Top.out.run /\ TopOut' = Nothing
           /\ FirstLeft' = FirstLeft
<1>1. TypesInv /\ TypesInv'
    <2>1. (WholeInv => TypesInv)'
        BY WholeParts, PTL
    <2> QED
        BY <2>1, WholeParts
<1>2. /\ calls # <<>> /\ Top = calls[Len(calls)] /\ Len(calls) \in Nat
      /\ Size(Top.out.run) > 0 /\ buffer = NoData /\ buffer' = NoData
      /\ Len(calls') \in {Len(calls), Len(calls) + 1}
      /\ \A n \in 1..Len(calls') : calls'[n].out = NoData
      /\ \A n \in 1..Len(calls) : /\ calls'[n].left = calls[n].left
                                  /\ calls'[n].then = calls[n].then
      /\ Len(calls') = Len(calls) + 1 =>
            calls'[Len(calls')].then = "end" /\ calls'[Len(calls')].left = NoData
      /\ UNCHANGED <<upload, ready, position>>
    BY EmittedCalls
<1>3. /\ 1 \in 1..Len(calls) /\ 1 \in 1..Len(calls') /\ Len(calls') \in 1..Len(calls')
      /\ calls' # <<>>
    BY <1>2, EmptySeq
<1>4. Top' = calls'[Len(calls')]
    BY DEF Top, Last
<1>5. /\ TopOut = Top.out.run /\ TopOut' = Nothing /\ FirstLeft' = FirstLeft /\ Given' = Given
      /\ Top'.out = NoData
    BY <1>2, <1>3, <1>4, EmptyRuns DEF TopOut, FirstLeft, Given
<1>6. ShapeInv'
    <2>1. CallsInv'
        <3> SUFFICES ASSUME NEW n \in 1..Len(calls')
                     PROVE  /\ n > 1 => calls'[n].then = "end"
                            /\ calls'[n].then = "end" => calls'[n].left = NoData
                            /\ IsFile' /\ Local' => Size(calls'[n].left.run) = 0
            BY <1>2 DEF CallsInv
        <3>1. CASE n \in 1..Len(calls)
            <4>1. /\ n > 1 => calls[n].then = "end"
                  /\ calls[n].then = "end" => calls[n].left = NoData
                  /\ IsFile /\ Local => Size(calls[n].left.run) = 0
                BY <3>1 DEF ShapeInv, CallsInv
            <4> QED
                BY <1>2, <3>1, <4>1 DEF IsFile, Local
        <3>2. CASE n \notin 1..Len(calls)
            <4>1. n = Len(calls') /\ Len(calls') = Len(calls) + 1
                BY <1>2, <3>2
            <4> QED
                BY <1>2, <4>1, EmptyRuns
        <3> QED
            BY <3>1, <3>2
    <2>2. BufferInv'
        BY <1>2, <1>5 DEF BufferInv
    <2> QED
        BY <2>1, <2>2 DEF ShapeInv
<1>7. PICK e : e = Sent + Size(Top.out.run)
    OBVIOUS
<1>8. Sent \in Int /\ offset \in Int /\ Size(Top.out.run) \in Int /\ Given \in Int
      /\ Size(FirstLeft) \in Int
    BY <1>1, <1>5, FlowTypes
<1>9. Chain(Sent, Top.out.run, Nothing, FirstLeft, Given) /\ offset \in 0..Sent
    BY <1>2, <1>5, EmptyRuns DEF FlowInv, Flow
<1>10. Chain(e, Nothing, Nothing, FirstLeft, Given)
    BY <1>7, <1>8, <1>9, EmptyRuns DEF Chain
<1>11. Flow(e)'
    BY <1>2, <1>5, <1>10, EmptyRuns DEF Flow
<1>12. offset' = offset \/ offset' = offset + Size(Top.out.run)
    BY DEF Emission, EmitLost, EmitBeyond, EmitZeros, EmitChunk
<1>13. FlowInv' /\ Sent' = e
    <2>1. offset' \in 0..e /\ e \in Int
        BY <1>2, <1>7, <1>8, <1>9, <1>12
    <2> QED
        BY <1>1, <1>11, <2>1, FlowClosed
<1> QED
    BY <1>5, <1>6, <1>7, <1>13

LEMMA BothTypes ==
    ASSUME WholeInv, WholeInv'
    PROVE  TypesInv /\ TypesInv'
<1>1. (WholeInv => TypesInv)'
    BY WholeParts, PTL
<1> QED
    BY <1>1, WholeParts

(* A call returns when it has neither data nor a chunk left.                *)
LEMMA ReturnFlows ==
    ASSUME WholeInv, WholeInv', ShapeInv, FlowInv, ReadReturns \/ WriteReturns \/ EndReturns
    PROVE  /\ ShapeInv' /\ FlowInv' /\ Sent' = Sent /\ Given' = Given
           /\ TopOut = Nothing /\ TopOut' = Nothing
           /\ Size(FirstLeft') = Size(FirstLeft) /\ UNCHANGED <<upload, ready, buffer, offset>>
<1>1. TypesInv /\ TypesInv'
    BY BothTypes
<1>2. /\ Calling /\ calls # <<>> /\ Top = calls[Len(calls)] /\ Top.out = NoData
      /\ Size(Top.left.run) = 0 /\ Len(calls) \in Nat \ {0} /\ Len(calls') = Len(calls) - 1
      /\ \A n \in 1..(Len(calls) - 1) : calls'[n] = calls[n]
    <2>1. PICK then : Returning(then)
        BY DEF ReadReturns, WriteReturns, EndReturns
    <2> QED
        BY <2>1, WholeParts, ReturnedCalls DEF Returning
<1>3. /\ UNCHANGED <<upload, ready, buffer, offset>>
      /\ position' = IF Top.then = "read" THEN Top.left.run.last ELSE position
    BY DEF ReadReturns, WriteReturns, EndReturns, Returning, Others, sourceVars
<1>4. calls' = <<>> <=> Len(calls) = 1
    <2>1. Len(calls') \in Nat /\ (calls' = <<>> => Len(calls') = 0)
        BY <1>2
    <2>2. calls' \in Seq(CallSet)
        BY <1>1 DEF TypesInv, ChunkTypes, CallsOK
    <2> QED
        BY <1>2, <2>1, <2>2, EmptySeq
<1>5. Len(calls) # 1 => Top.then # "read" /\ 1 \in 1..(Len(calls) - 1)
                          /\ Len(calls) - 1 \in 1..(Len(calls) - 1)
    <2>1. Len(calls) # 1 => Len(calls) > 1 /\ Len(calls) \in 1..Len(calls)
        BY <1>2
    <2>2. Len(calls) # 1 => calls[Len(calls)].then = "end"
        BY <2>1 DEF ShapeInv, CallsInv
    <2> QED
        BY <1>2, <2>1, <2>2
<1>6. \A n \in 1..(Len(calls) - 1) : calls[n].out = NoData
    BY <1>2 DEF ShapeInv, CallsInv
<1>7. ShapeInv'
    <2>1. CallsInv'
        <3>1. \A n \in 1..Len(calls') : n \in 1..(Len(calls) - 1) /\ n \in 1..Len(calls)
            BY <1>2
        <3> QED
            BY <1>2, <1>3, <1>6, <3>1 DEF ShapeInv, CallsInv, IsFile, Local
    <2>2. calls' # <<>> => Top'.out = NoData
        <3>1. Top' = calls'[Len(calls')]
            BY DEF Top, Last
        <3> QED
            BY <1>2, <1>4, <1>5, <1>6, <3>1
    <2>3. BufferInv'
        BY <1>3, <2>2 DEF ShapeInv, BufferInv, IsFile, Local
    <2> QED
        BY <2>1, <2>3 DEF ShapeInv
<1>8. TopOut = Nothing /\ TopOut' = Nothing
    <2>1. calls' # <<>> => Top'.out = NoData
        <3>1. Top' = calls'[Len(calls')]
            BY DEF Top, Last
        <3> QED
            BY <1>2, <1>4, <1>5, <1>6, <3>1
    <2> QED
        BY <1>2, <2>1, EmptyRuns DEF TopOut
<1>9. Size(FirstLeft') = Size(FirstLeft) /\ (Size(FirstLeft') = 0 \/ FirstLeft' = FirstLeft)
    <2>1. CASE Len(calls) = 1
        <3>1. FirstLeft = Top.left.run /\ FirstLeft' = Nothing
            BY <1>2, <1>4, <2>1 DEF FirstLeft
        <3> QED
            BY <1>2, <3>1, EmptyRuns
    <2>2. CASE Len(calls) # 1
        <3>1. FirstLeft' = FirstLeft
            BY <1>2, <1>4, <1>5, <2>2 DEF FirstLeft
        <3> QED
            BY <3>1
    <2> QED
        BY <2>1, <2>2
<1>10. Given' = Given
    <2>1. CASE Len(calls) = 1
        BY <1>2, <1>3, <1>4, <2>1 DEF Given
    <2>2. CASE Len(calls) # 1
        BY <1>2, <1>3, <1>4, <1>5, <2>2 DEF Given
    <2> QED
        BY <2>1, <2>2
<1>11. PICK e : e = Sent
    OBVIOUS
<1>12. Flow(e)'
    <2>1. Chain(e, TopOut, buffer.run, FirstLeft, Given)
        BY <1>11 DEF FlowInv, Flow
    <2>2. Chain(e, TopOut', buffer'.run, FirstLeft', Given')
        <3>1. Chain(e, TopOut, buffer.run, FirstLeft', Given)
            BY <1>9, <2>1 DEF Chain
        <3> QED
            BY <1>3, <1>8, <1>10, <3>1
    <2> QED
        BY <2>2 DEF Flow
<1>13. FlowInv' /\ Sent' = e
    <2>1. e \in Int /\ offset' \in 0..e
        BY <1>1, <1>3, <1>11, FlowTypes DEF FlowInv
    <2> QED
        BY <1>1, <1>12, <2>1, FlowClosed
<1> QED
    BY <1>3, <1>7, <1>8, <1>9, <1>10, <1>11, <1>13

(* A call is the first one.                                                 *)
LEMMA FirstCall ==
    ASSUME ShapeInv, calls = <<>>, NEW c, calls' = <<c>>, c.height = Len(stack'),
           c.out = NoData \/ (Size(c.out.run) > 0 /\ buffer' = NoData),
           c.then = "end" => c.left = NoData, IsFile /\ Local => Size(c.left.run) = 0,
           buffer' \in {buffer, NoData}, upload' = upload
    PROVE  /\ ShapeInv' /\ TopOut' = c.out.run /\ FirstLeft' = c.left.run
           /\ Given' = IF c.then = "read" THEN c.left.run.last ELSE position'
           /\ TopOut = Nothing /\ FirstLeft = Nothing /\ Given = position
<1>1. Len(calls') = 1 /\ calls'[1] = c /\ calls' # <<>> /\ Top' = c
    BY DEF Top, Last
<1>2. CallsInv'
    BY <1>1 DEF CallsInv, IsFile, Local
<1>3. BufferInv'
    BY <1>1 DEF ShapeInv, BufferInv, IsFile, Local
<1>4. /\ TopOut' = c.out.run /\ FirstLeft' = c.left.run
      /\ Given' = IF c.then = "read" THEN c.left.run.last ELSE position'
    BY <1>1 DEF TopOut, FirstLeft, Given
<1>5. TopOut = Nothing /\ FirstLeft = Nothing /\ Given = position
    BY DEF TopOut, FirstLeft, Given
<1> QED
    BY <1>2, <1>3, <1>4, <1>5 DEF ShapeInv

LEMMA ReadFlows ==
    ASSUME WholeInv, WholeInv', ShapeInv, FlowInv, ReadEmits
    PROVE  /\ ShapeInv' /\ FlowInv' /\ Sent' = Sent /\ calls = <<>>
           /\ UNCHANGED <<upload, ready, buffer, offset>>
           /\ Size(TopOut') + Size(FirstLeft') <= upload.piece
           /\ TopOut = Nothing /\ FirstLeft = Nothing
<1>1. TypesInv /\ TypesInv' /\ SourceShape
    BY BothTypes, WholeParts
<1>2. PICK n \in 1..upload.piece :
        LET r == Head(reads)
            data == [run |-> Run(r.at + 1, r.at + n), id |-> r.id]
        IN  /\ ReadGets(n)
            /\ calls' = <<IF IsFile THEN Call([data EXCEPT !.run.first = @ + n], data, "read")
                          ELSE Call(data, NoData, "read")>>
            /\ UNCHANGED <<batchVars, Others, position, buffer, offset>>
    BY DEF ReadEmits
<1>3. /\ stack = <<>> /\ calls = <<>> /\ reads # <<>>
      /\ UNCHANGED <<upload, ready, buffer, offset, position, stack>>
    BY <1>2 DEF ReadGets, EventLoop, batchVars, Others
<1>4. Head(reads).at = position /\ Local
    <2>1. Len(reads) \in {0, 1} /\ (reads = <<>> <=> Len(reads) = 0)
        BY <1>1, ReadsFacts DEF SourceShape
    <2>2. Head(reads) = reads[1] /\ 1 \in 1..Len(reads)
        BY <1>3, <2>1
    <2> QED
        BY <1>1, <1>3, <2>2 DEF SourceShape, OneRead, OriginInv
<1>5. PICK id : id = Head(reads).id
    OBVIOUS
<1> DEFINE data == [run |-> Run(position + 1, position + n), id |-> id]
           none == [data EXCEPT !.run.first = @ + n]
           c == IF IsFile THEN Call(none, data, "read") ELSE Call(data, NoData, "read")
<1>6. calls' = <<c>>
    BY <1>2, <1>4, <1>5
<1>7. position \in Int /\ Given \in Int /\ n \in Nat /\ n > 0 /\ n <= upload.piece
      /\ upload.piece \in Nat
    BY <1>1, <1>2, FlowTypes
<1>8. /\ data.run.first = position + 1 /\ data.run.last = position + n /\ Size(data.run) = n
    BY <1>7 DEF Run, Size
<1>9. /\ none.run.first = position + n + 1 /\ none.run.last = position + n
      /\ Size(none.run) = 0
    BY <1>7 DEF Run, Size
<1>10. /\ c.height = Len(stack) /\ c.then = "read"
       /\ c.left = IF IsFile THEN none ELSE data
       /\ c.out = IF IsFile THEN data ELSE NoData
    BY DEF Call
<1> HIDE DEF c, none, data
<1>11. /\ c.out = NoData \/ (Size(c.out.run) > 0 /\ buffer' = NoData)
       /\ IsFile /\ Local => Size(c.left.run) = 0
    <2>1. IsFile => buffer = NoData
        BY <1>4 DEF ShapeInv, BufferInv
    <2> QED
        BY <1>3, <1>7, <1>8, <1>9, <1>10, <2>1
<1>12. /\ ShapeInv' /\ TopOut' = c.out.run /\ FirstLeft' = c.left.run
       /\ Given' = c.left.run.last /\ TopOut = Nothing /\ FirstLeft = Nothing /\ Given = position
    <2>1. c.then # "end" /\ c.height = Len(stack') /\ buffer' \in {buffer, NoData}
        BY <1>3, <1>10
    <2> QED
        BY <1>3, <1>6, <1>10, <1>11, <2>1, FirstCall
<1>13. PICK e : e = Sent
    OBVIOUS
<1>14. Chain(e, Nothing, buffer.run, Nothing, position) /\ e \in Int /\ offset \in 0..e
       /\ Size(buffer.run) \in Int
    BY <1>1, <1>12, <1>13, FlowTypes DEF FlowInv, Flow
<1>15. Chain(e, c.out.run, buffer.run, c.left.run, c.left.run.last)
    <2>1. CASE IsFile
        <3>1. buffer = NoData
            BY <1>4, <2>1 DEF ShapeInv, BufferInv
        <3>2. c.out = data /\ c.left = none
            BY <1>10, <2>1
        <3> QED
            BY <1>7, <1>8, <1>9, <1>14, <3>1, <3>2, EmptyRuns DEF Chain
    <2>2. CASE ~IsFile
        <3>2. c.out = NoData /\ c.left = data
            BY <1>10, <2>2
        <3> QED
            BY <1>7, <1>8, <1>14, <3>2, EmptyRuns DEF Chain
    <2> QED
        BY <2>1, <2>2
<1>16. Flow(e)'
    BY <1>3, <1>12, <1>15 DEF Flow
<1>17. FlowInv' /\ Sent' = e
    BY <1>1, <1>3, <1>14, <1>16, FlowClosed
<1>18. Size(TopOut') + Size(FirstLeft') <= upload.piece
    BY <1>7, <1>8, <1>9, <1>10, <1>12, EmptyRuns
<1> QED
    BY <1>3, <1>12, <1>13, <1>17, <1>18

(* The end of the source: what the buffer holds is about to be emitted.     *)
LEMMA EndFlows ==
    ASSUME WholeInv, WholeInv', ControlInv, ShapeInv, FlowInv,
           (ReadEnds /\ ~sourceEnded) \/ PipeEnds
    PROVE  /\ ShapeInv' /\ FlowInv' /\ Sent' = Sent /\ calls = <<>> /\ buffer' = NoData
           /\ UNCHANGED <<upload, ready, offset, position, stack>>
           /\ TopOut' = buffer.run /\ Size(FirstLeft') = 0 /\ Given' = position
           /\ Given = position /\ TopOut = Nothing /\ FirstLeft = Nothing
           /\ calls' # <<>> /\ calls'[1].then = "end" /\ Len(calls') = 1
<1>1. TypesInv /\ TypesInv'
    BY BothTypes
<1>2. PICK id \in Nat :
        /\ calls' = <<Call(NoData, IF buffer = NoData THEN NoData ELSE [run |-> buffer.run, id |-> id], "end")>>
        /\ calls = <<>> /\ buffer' = NoData
        /\ UNCHANGED <<upload, ready, offset, position, stack>>
    <2>1. buffer = [run |-> buffer.run, id |-> buffer.id] /\ buffer.id \in Nat /\ buffer \in Data
        <3>1. buffer \in Data
            BY <1>1, FlowTypes
        <3> QED
            BY <3>1 DEF Data
    <2>2. CASE ReadEnds /\ ~sourceEnded
        <3>1. /\ calls' = <<Call(NoData, buffer, "end")>> /\ buffer' = NoData /\ calls = <<>>
              /\ UNCHANGED <<upload, ready, offset, position, stack>>
            BY <2>2 DEF ReadEnds, ReadGets, EventLoop, Others, batchVars
        <3>2. buffer = IF buffer = NoData THEN NoData ELSE [run |-> buffer.run, id |-> buffer.id]
            BY <2>1
        <3> QED
            BY <2>1, <3>1, <3>2
    <2>3. CASE PipeEnds
        <3>1. /\ calls' = <<Call(NoData, IF ~IsFile /\ ready = "yes" /\ buffer # NoData
                                         THEN [buffer EXCEPT !.id = Obtain("chunk").buffer]
                                         ELSE buffer, "end")>>
              /\ buffer' = NoData /\ calls = <<>>
              /\ UNCHANGED <<upload, ready, offset, position, stack>>
            BY <2>3 DEF PipeEnds, EventLoop, Others, batchVars
        <3>2. Obtain("chunk").buffer \in Nat
            BY <1>1, ObtainFacts
        <3>3. PICK id : id = Obtain("chunk").buffer
            OBVIOUS
        <3>4. [buffer EXCEPT !.id = id] = [run |-> buffer.run, id |-> id]
            BY <2>1
        <3>5. CASE ~IsFile /\ ready = "yes" /\ buffer # NoData
            BY <3>1, <3>2, <3>3, <3>4, <3>5
        <3>6. CASE ~(~IsFile /\ ready = "yes" /\ buffer # NoData)
            <4>1. buffer = IF buffer = NoData THEN NoData ELSE [run |-> buffer.run, id |-> buffer.id]
                BY <2>1
            <4>2. calls' = <<Call(NoData, buffer, "end")>>
                BY <3>1, <3>6
            <4> QED
                BY <2>1, <3>1, <4>1, <4>2
        <3> QED
            BY <3>5, <3>6
    <2> QED
        BY <2>2, <2>3
<1> DEFINE out == IF buffer = NoData THEN NoData ELSE [run |-> buffer.run, id |-> id]
           c == Call(NoData, out, "end")
<1>3. /\ out.run = buffer.run /\ (out = NoData \/ Size(out.run) > 0)
    BY DEF ShapeInv, BufferInv
<1> HIDE DEF out
<1>4. /\ c.height = Len(stack) /\ c.then = "end" /\ c.left = NoData /\ c.out = out
    BY DEF Call
<1> HIDE DEF c
<1>5. calls' = <<c>>
    BY <1>2 DEF c, out
<1>6. /\ ShapeInv' /\ TopOut' = out.run /\ FirstLeft' = Nothing
      /\ Given' = position /\ TopOut = Nothing /\ FirstLeft = Nothing /\ Given = position
    <2>1. /\ c.height = Len(stack') /\ buffer' \in {buffer, NoData} /\ NoData.run = Nothing
          /\ c.out = NoData \/ (Size(c.out.run) > 0 /\ buffer' = NoData)
          /\ IsFile /\ Local => Size(c.left.run) = 0
        BY <1>2, <1>3, <1>4, EmptyRuns
    <2> QED
        BY <1>2, <1>4, <1>5, <2>1, FirstCall
<1>7. PICK e : e = Sent
    OBVIOUS
<1>8. Chain(e, Nothing, buffer.run, Nothing, position) /\ e \in Int /\ offset \in 0..e
      /\ Size(buffer.run) \in Int
    BY <1>1, <1>6, <1>7, FlowTypes DEF FlowInv, Flow
<1>9. Chain(e, buffer.run, Nothing, Nothing, position)
    BY <1>8, EmptyRuns DEF Chain
<1>10. Flow(e)'
    BY <1>2, <1>3, <1>6, <1>9, EmptyRuns DEF Flow
<1>11. FlowInv' /\ Sent' = e
    BY <1>1, <1>2, <1>8, <1>10, FlowClosed
<1>12. calls'[1] = c /\ Len(calls') = 1 /\ calls' # <<>>
    BY <1>5
<1> QED
    BY <1>2, <1>3, <1>4, <1>6, <1>7, <1>11, <1>12, EmptyRuns

LEMMA WriteFlows ==
    ASSUME WholeInv, WholeInv', ControlInv, ShapeInv, FlowInv, PipeWrites
    PROVE  /\ ShapeInv' /\ FlowInv' /\ Sent' = Sent /\ calls = <<>>
           /\ UNCHANGED <<upload, ready, buffer, offset>>
           /\ Size(TopOut') + Size(FirstLeft') <= upload.piece
           /\ TopOut = Nothing /\ FirstLeft = Nothing
           /\ TopOut' = Nothing /\ Given' = position' /\ position' > position
           /\ FirstLeft' = Run(position + 1, position')
<1>1. TypesInv /\ TypesInv' /\ calls = <<>> /\ ~Local
    BY BothTypes, WritesAlone DEF ControlInv, PipeWrites
<1>2. PICK n, id : /\ n = Smaller(upload.piece, upload.size - position) /\ n > 0
                   /\ position' = position + n
                   /\ calls' = Append(calls, [Call(NoData, NoData, "write") EXCEPT !.left =
                                     [run |-> Run(position + 1, position + n), id |-> id]])
                   /\ UNCHANGED <<upload, ready, buffer, offset, stack>>
    BY DEF PipeWrites, Others, batchVars
<1> DEFINE left == [run |-> Run(position + 1, position + n), id |-> id]
           c == [Call(NoData, NoData, "write") EXCEPT !.left = left]
<1>3. calls' = <<c>>
    BY <1>1, <1>2
<1>4. /\ n \in Nat /\ n > 0 /\ n <= upload.piece /\ position \in Int
      /\ upload.piece \in Nat
    BY SMTT(30), <1>1, <1>2, FlowTypes DEF Smaller
<1>5. /\ left.run = Run(position + 1, position') /\ left.run.first = position + 1
      /\ left.run.last = position' /\ Size(left.run) = n
    BY <1>2, <1>4 DEF Run, Size
<1> HIDE DEF left
<1>6. c.height = Len(stack) /\ c.then = "write" /\ c.left = left /\ c.out = NoData
    BY DEF Call
<1> HIDE DEF c
<1>7. /\ ShapeInv' /\ TopOut' = Nothing /\ FirstLeft' = left.run
      /\ Given' = position' /\ TopOut = Nothing /\ FirstLeft = Nothing /\ Given = position
    <2>1. c.height = Len(stack') /\ buffer' \in {buffer, NoData} /\ NoData.run = Nothing
        BY <1>2, <1>6, EmptyRuns
    <2> QED
        BY <1>1, <1>2, <1>3, <1>6, <2>1, FirstCall
<1>8. PICK e : e = Sent
    OBVIOUS
<1>9. Chain(e, Nothing, buffer.run, Nothing, position) /\ e \in Int /\ offset \in 0..e
      /\ Size(buffer.run) \in Int
    BY <1>1, <1>7, <1>8, FlowTypes DEF FlowInv, Flow
<1>10. Chain(e, Nothing, buffer.run, left.run, position')
    BY <1>2, <1>4, <1>5, <1>9, EmptyRuns DEF Chain
<1>11. Flow(e)'
    BY <1>2, <1>7, <1>10 DEF Flow
<1>12. FlowInv' /\ Sent' = e
    BY <1>1, <1>2, <1>9, <1>11, FlowClosed
<1>13. Size(TopOut') + Size(FirstLeft') <= upload.piece /\ position' > position
    BY <1>2, <1>4, <1>5, <1>7, EmptyRuns
<1> QED
    BY <1>1, <1>2, <1>5, <1>7, <1>8, <1>12, <1>13

(* A stream that is stopped while a user callback runs flushes its buffer.  *)
LEMMA StopFlows ==
    ASSUME WholeInv, WholeInv', ShapeInv, FlowInv, UserCallbackStops
    PROVE  /\ ShapeInv' /\ FlowInv' /\ Sent' = Sent /\ offset' = offset /\ Given' = Given
           /\ FirstLeft' = FirstLeft
           /\ Size(TopOut') + Size(buffer'.run) = Size(TopOut) + Size(buffer.run)
<1>1. TypesInv /\ TypesInv' /\ UploadInv /\ ~Calling /\ offset' = offset
    BY BothTypes, WholeParts DEF UserCallbackStops
<1>2. TopOut = Nothing /\ \A n \in 1..Len(calls) : calls[n].out = NoData
    BY <1>1, WaitingCalls DEF ShapeInv
<1> DEFINE flushed == IF Local /\ ~IsFile THEN buffer ELSE NoData
<1>3. /\ Len(calls') = Len(calls) + 1 /\ Len(calls) \in Nat
      /\ \A n \in 1..Len(calls) : calls'[n] = calls[n]
      /\ calls'[Len(calls) + 1] = Call(NoData, flushed, "end")
      /\ buffer' = IF Local /\ ~IsFile THEN NoData ELSE buffer
      /\ UNCHANGED <<upload, ready, position, stack>>
    BY <1>1, StoppedCalls DEF batchVars
<1>4. /\ flushed = NoData \/ (Size(flushed.run) > 0 /\ buffer' = NoData)
      /\ flushed = NoData \/ flushed = buffer
      /\ \/ flushed.run = Nothing /\ buffer' = buffer
         \/ flushed.run = buffer.run /\ buffer' = NoData
    BY <1>3, EmptyRuns DEF ShapeInv, BufferInv
<1> HIDE DEF flushed
<1>5. LET c == Call(NoData, flushed, "end") IN
      c.left = NoData /\ c.out = flushed /\ c.then = "end" /\ c.height = Len(stack)
    BY DEF Call
<1>6. PICK c : /\ calls'[Len(calls) + 1] = c /\ c.left = NoData /\ c.out = flushed
               /\ c.then = "end" /\ c.height = Len(stack)
    BY <1>3, <1>5
<1>7. calls' # <<>> /\ Top' = c /\ calls' \in Seq(CallSet)
    <2>1. calls' \in Seq(CallSet)
        BY <1>1 DEF TypesInv, ChunkTypes, CallsOK
    <2>2. Top' = calls'[Len(calls')]
        BY DEF Top, Last
    <2> QED
        BY <1>3, <1>6, <2>1, <2>2, EmptySeq
<1>8. CallsInv'
    <2> SUFFICES ASSUME NEW n \in 1..Len(calls')
                 PROVE  /\ \/ calls'[n].out = NoData
                           \/ /\ Size(calls'[n].out.run) > 0 /\ n = Len(calls')
                              /\ calls'[n].height = Len(stack')
                        /\ n > 1 => calls'[n].then = "end"
                        /\ calls'[n].then = "end" => calls'[n].left = NoData
                        /\ IsFile' /\ Local' => Size(calls'[n].left.run) = 0
        BY DEF CallsInv
    <2>1. CASE n \in 1..Len(calls)
        BY <1>2, <1>3, <2>1 DEF ShapeInv, CallsInv, IsFile, Local
    <2>2. CASE n = Len(calls) + 1
        BY <1>3, <1>4, <1>6, <2>2, EmptyRuns
    <2> QED
        BY <1>3, <2>1, <2>2
<1>9. BufferInv'
    <2>1. calls' # <<>> /\ Top'.out # NoData => buffer' = NoData
        BY <1>4, <1>6, <1>7
    <2>2. buffer' = buffer \/ buffer' = NoData
        BY <1>3
    <2> QED
        BY <1>3, <2>1, <2>2 DEF ShapeInv, BufferInv, IsFile, Local
<1>10. TopOut' = flushed.run
    BY <1>6, <1>7 DEF TopOut
<1>11. FirstLeft' = FirstLeft /\ Given' = Given
    <2>1. CASE calls = <<>>
        <3>1. calls'[1] = c
            BY <1>3, <1>6, <2>1
        <3> QED
            BY <1>3, <1>6, <1>7, <2>1, <3>1, EmptyRuns DEF FirstLeft, Given
    <2>2. CASE calls # <<>>
        <3>1. calls'[1] = calls[1]
            BY <1>1, <1>3, <2>2, FlowTypes
        <3> QED
            BY <1>3, <1>7, <2>2, <3>1 DEF FirstLeft, Given
    <2> QED
        BY <2>1, <2>2
<1>12. PICK e : e = Sent
    OBVIOUS
<1>13. Chain(e, Nothing, buffer.run, FirstLeft, Given) /\ e \in Int /\ offset \in 0..e
       /\ Size(buffer.run) \in Int
    BY <1>1, <1>2, <1>12, FlowTypes DEF FlowInv, Flow
<1>14. Chain(e, flushed.run, buffer'.run, FirstLeft, Given)
       /\ Size(flushed.run) + Size(buffer'.run) = Size(buffer.run)
    BY <1>4, <1>13, EmptyRuns DEF Chain
<1>15. Flow(e)'
    BY <1>10, <1>11, <1>14 DEF Flow
<1>16. FlowInv' /\ Sent' = e
    BY <1>1, <1>13, <1>15, FlowClosed
<1>17. Size(TopOut') + Size(buffer'.run) = Size(TopOut) + Size(buffer.run)
    BY <1>2, <1>10, <1>13, <1>14, EmptyRuns
<1> QED
    BY <1>1, <1>8, <1>9, <1>11, <1>12, <1>16, <1>17 DEF ShapeInv

(* Every other step leaves the data where it is.                            *)
LEMMA OtherFlows ==
    ASSUME WholeInv, ShapeInv, FlowInv,
           \/ FileOpens \/ FileOpenFails \/ ReadFails \/ (ReadEnds /\ sourceEnded)
           \/ DestinationReady \/ CommitDone
           \/ BatchRuns \/ Ran \/ BatchSteps \/ Drain \/ UserCallbackReturns \/ End
           \/ \E i \in 1..Total, failed \in BOOLEAN : RequestDone(i, failed)
           \/ UNCHANGED vars
    PROVE  /\ UNCHANGED <<upload, calls, buffer, position, offset>>
           /\ ShapeInv' /\ FlowInv' /\ Sent' = Sent
           /\ UNCHANGED <<TopOut, FirstLeft, Given>>
<1>1. TypesInv
    BY WholeParts
<1>2. /\ UNCHANGED <<upload, calls, buffer, position, offset>>
      /\ stack' = stack \/ ~Calling
    <2>1. CASE FileOpens \/ FileOpenFails \/ ReadFails \/ (ReadEnds /\ sourceEnded)
               \/ DestinationReady \/ CommitDone
               \/ UNCHANGED vars
        BY <2>1 DEF FileOpens, FileOpenFails, ReadFails, ReadEnds, DestinationReady,
           CommitDone, vars, batchVars, Others,
                    chunkVars, sourceVars
    <2>2. CASE \E i \in 1..Total, failed \in BOOLEAN : RequestDone(i, failed)
        <3>1. UNCHANGED <<upload, sourceVars, chunkVars>> /\ EventLoop
            BY <2>2 DEF RequestDone
        <3> QED
            BY <3>1 DEF sourceVars, chunkVars, EventLoop, Calling
    <2>3. CASE BatchRuns \/ Ran \/ BatchSteps \/ Drain \/ UserCallbackReturns \/ End
        BY <2>3 DEF BatchRuns, Ran, RanThen, BatchSteps, Drain, DrainThen, UserCallbackReturns,
                    End, quietVars, sourceVars, chunkVars
    <2> QED
        BY <2>1, <2>2, <2>3
<1>3. UNCHANGED <<TopOut, FirstLeft, Given, Sent>> /\ \A e : Flow(e)' <=> Flow(e)
    BY <1>2, FlowKept
<1>4. ShapeInv'
    BY <1>1, <1>2, ShapeKept
<1>5. PICK e : e = Sent
    OBVIOUS
<1>6. Flow(e) /\ offset \in 0..e /\ Sent' = e
    BY <1>3, <1>5 DEF FlowInv
<1>7. Flow(e)' /\ offset' \in 0..e
    BY <1>2, <1>3, <1>6, Zenon
<1> QED
    BY <1>2, <1>3, <1>4, <1>6, <1>7 DEF FlowInv, Flow

LEMMA DataStep ==
    ASSUME WholeInv, ControlInv, WholeInv', ShapeInv, FlowInv, [Next]_vars
    PROVE  ShapeInv' /\ FlowInv'
<1>1. CASE BuildChunk
    BY <1>1, BuildFlows
<1>2. CASE Emission
    BY <1>2, EmitFlows
<1>3. CASE ReadReturns \/ WriteReturns \/ EndReturns
    BY <1>3, ReturnFlows
<1>4. CASE ReadEmits
    BY <1>4, ReadFlows
<1>5. CASE (ReadEnds /\ ~sourceEnded) \/ PipeEnds
    BY <1>5, EndFlows
<1>6. CASE PipeWrites
    BY <1>6, WriteFlows
<1>7. CASE UserCallbackStops
    BY <1>7, StopFlows
<1>8. CASE \/ FileOpens \/ FileOpenFails \/ ReadFails \/ (ReadEnds /\ sourceEnded)
           \/ DestinationReady \/ CommitDone
           \/ BatchRuns \/ Ran \/ BatchSteps \/ Drain \/ UserCallbackReturns \/ End
           \/ \E i \in 1..Total, failed \in BOOLEAN : RequestDone(i, failed)
           \/ UNCHANGED vars
    BY <1>8, OtherFlows
<1> QED
    BY <1>1, <1>2, <1>3, <1>4, <1>5, <1>6, <1>7, <1>8 DEF Next, Internal, External, Stopped

LEMMA DataInit ==
    ASSUME Init
    PROVE  ShapeInv /\ FlowInv
<1>1. /\ calls = <<>> /\ buffer = NoData /\ position = 0 /\ offset = 0
    BY DEF Init
<1>2. TypesInv
    BY InitTypes
<1>3. TopOut = Nothing /\ FirstLeft = Nothing /\ Given = 0 /\ Sent = 0
    BY <1>1, EmptyRuns DEF TopOut, FirstLeft, Given, Sent
<1>4. FlowInv
    BY <1>1, <1>3, EmptyRuns DEF FlowInv, Flow, Chain
<1>5. ShapeInv
    BY <1>1, EmptyRuns DEF ShapeInv, CallsInv, BufferInv
<1> QED
    BY <1>4, <1>5

LEMMA DataInvariant == Spec => []DataInv
<1>1. Init => DataInv
    BY ReadInit, ControlInit, DataInit DEF DataInv
<1>2. DataInv /\ [Next]_vars => DataInv'
    <2> SUFFICES ASSUME DataInv, [Next]_vars
                 PROVE  DataInv'
        OBVIOUS
    <2>1. WholeInv /\ ControlInv /\ ShapeInv /\ FlowInv
        BY DEF DataInv
    <2>2. WholeInv'
        BY <2>1, ReadStep
    <2>3. ControlInv'
        BY <2>1, <2>2, ControlStepped
    <2>4. ShapeInv' /\ FlowInv'
        BY <2>1, <2>2, DataStep
    <2> QED
        BY <2>2, <2>3, <2>4 DEF DataInv
<1> QED
    BY <1>1, <1>2, PTL DEF Spec

LEMMA DataTypes ==
    ASSUME DataInv
    PROVE  TypeOK
<1>1. /\ TypesInv /\ BatchTypes /\ SourceTypes /\ ChunkTypes /\ ResultTypes
    BY WholeParts DEF DataInv
<1>2. offset \in 0..upload.size /\ position \in 0..upload.size
    <2>1. Chain(Sent, TopOut, buffer.run, FirstLeft, Given) /\ offset \in 0..Sent
        BY DEF DataInv, FlowInv, Flow
    <2>2. /\ Sent \in Int /\ Given \in Int /\ Given <= upload.size /\ upload.size \in Nat
          /\ Size(TopOut) \in Int /\ Size(buffer.run) \in Int /\ Size(FirstLeft) \in Int
        BY <1>1, FlowTypes
    <2>3. Sent <= Given
        BY <2>1, <2>2 DEF Chain
    <2> QED
        BY <1>1, <2>1, <2>2, <2>3 DEF SourceTypes
<1>3. Size(buffer.run) < upload.chunk /\ Len(assigned) = Total
    BY <1>1 DEF ChunkTypes
<1>4. \A a \in {"source", "chunk"} : Len(allocators[a].pool) <= allocators[a].max
    BY <1>1 DEF ChunkTypes, PoolsOK, PoolOK
<1>5. \A n \in 1..Len(calls) : calls[n].then \in {"read", "write", "end"}
    BY <1>1, CallKinds
<1>6. failures \cup handled \cup stored \subseteq 1..Total /\ committing \in Nat
    BY <1>1 DEF BatchTypes, ResultTypes
<1>7. ToSet(answers) \subseteq {"success", "error"}
    BY <1>1 DEF ResultTypes, ToSet
<1> QED
    BY <1>1, <1>2, <1>3, <1>4, <1>5, <1>6, <1>7 DEF TypeOK, SourceTypes

(* Every state of an upload is one the program can be in: in particular no  *)
(* more is emitted than was read or written, and no more than there is,     *)
(* however the data is cut, buffered, passed on and flushed.                *)
THEOREM UploadTypeCorrect == Spec => []TypeOK
<1>1. DataInv => TypeOK
    BY DataTypes
<1> QED
    BY <1>1, DataInvariant, PTL

(***************************************************************************)
(* Completeness.  Before the destination is ready a program writes at most  *)
(* once.  What it writes is lost when it is as large as a chunk, so that    *)
(* only an upload that starts with less, or a file that starts with zeros,  *)
(* counts in offset all that its stream has emitted.                        *)
(***************************************************************************)
EarlyInv ==
    ready # "yes" =>
        /\ ~Local /\ held /\ stack = <<>> /\ status = <<>>
        /\ position <= upload.piece
        /\ position > 0 => awaiting \/ WriteCall

SmallInv ==
    ready # "yes" /\ Smaller(upload.piece, upload.size) < upload.chunk => Size(TopOut) = 0
KeptInv == StartsSmall(upload) => offset = Sent

LEMMA EarlyStep ==
    ASSUME WholeInv, ControlInv, EarlyInv, [Next]_vars
    PROVE  EarlyInv'
<1>1. /\ UploadInv /\ TypesInv /\ SourceShape /\ Total \in Nat /\ Total = Len(status)
      /\ Len(calls) \in Nat /\ calls \in Seq(CallSet)
    BY WholeParts, CallKinds, TotalFacts
<1>2. ASSUME ready # "yes", UNCHANGED <<upload, ready, held, stack, status, position>>,
             awaiting \/ WriteCall => awaiting' \/ WriteCall'
      PROVE  EarlyInv'
    BY <1>2 DEF EarlyInv, Local
<1>3. ready # "yes" => /\ ~Local /\ held /\ stack = <<>> /\ status = <<>> /\ Total = 0
                       /\ reads = <<>> /\ fd = "closed"
    <2>1. Len(<<>>) = 0
        OBVIOUS
    <2> QED
        BY <1>1, <2>1 DEF EarlyInv, SourceShape, OriginInv
<1>4. CASE BuildChunk \/ EmitLost
    <2>1. /\ calls' # <<>> /\ Len(calls') = Len(calls) /\ calls # <<>>
          /\ \A n \in 1..Len(calls) : calls'[n].then = calls[n].then
          /\ UNCHANGED <<upload, ready, held, stack, status, position, awaiting>>
        BY <1>1, <1>4, TouchedCalls DEF BuildChunk, EmitLost, batchVars, sourceVars
    <2>2. 1 \in 1..Len(calls)
        BY <1>1, <2>1, CallKinds
    <2>3. WriteCall => WriteCall'
        BY <2>1, <2>2 DEF WriteCall
    <2>4. CASE ready = "yes"
        BY <2>1, <2>4 DEF EarlyInv
    <2> QED
        BY <1>2, <2>1, <2>3, <2>4
<1>5. CASE ready = "yes"
    <2>1. CASE DestinationReady
        BY <1>5, <2>1 DEF DestinationReady
    <2>2. CASE ~DestinationReady
        <3>1. ready' = ready
            BY <2>2 DEF Next, Internal, External, Stopped, vars, BuildChunk, Emission, EmitLost,
                EmitBeyond, EmitZeros, EmitChunk, ReadReturns, WriteReturns, EndReturns, BatchRuns,
                Ran, RanThen, BatchSteps, Drain, DrainThen, UserCallbackStops, UserCallbackReturns,
                End, FileOpens, FileOpenFails, ReadEmits, ReadEnds, ReadFails, PipeWrites,
                PipeEnds, CommitDone, RequestDone,
                Others, quietVars
        <3> QED
            BY <1>5, <3>1 DEF EarlyInv
    <2> QED
        BY <2>1, <2>2
<1>6. CASE ready # "yes"
    <2>1. ~EmitBeyond /\ ~EmitZeros /\ ~EmitChunk
        BY <1>6 DEF EmitBeyond, EmitZeros, EmitChunk
    <2>2. /\ ~BatchRuns /\ ~Ran /\ ~BatchSteps /\ ~Drain /\ ~UserCallbackStops
          /\ ~UserCallbackReturns /\ ~End
        <3>1. stack = <<>>
            BY <1>3, <1>6
        <3>2. ~BatchSteps
            BY <1>1, <3>1, StepStacks, WholeParts
        <3>3. ~UserCallbackReturns
            BY <3>1 DEF UserCallbackReturns, Random!Running
        <3>4. ~Drain
            BY <3>1, DrainInMode DEF Drain, DrainThen, Random!Running
        <3> QED
            BY <3>1, <3>2, <3>3, <3>4 DEF BatchRuns, Ran, RanThen, UserCallbackStops, End, Random!Running,
               Random!RunRequest, Random!RunAfterError, Random!Ran
    <2>3. ~(\E i \in 1..Total, failed \in BOOLEAN : RequestDone(i, failed))
        BY <1>3, <1>6
    <2>4. ~FileOpens /\ ~FileOpenFails /\ ~ReadEmits /\ ~ReadEnds /\ ~ReadFails
        BY <1>3, <1>6 DEF FileOpens, FileOpenFails, ReadEmits, ReadEnds, ReadFails, ReadGets
    <2>5. CASE ReadReturns
        <3>1. calls # <<>> /\ Top = calls[Len(calls)] /\ Top.then = "read" /\ Len(calls) \in Nat \ {0}
            BY <1>1, <2>5, ReturnedCalls DEF ReadReturns
        <3>2. Local
            BY <1>1, <3>1 DEF SourceShape, KindsInv
        <3> QED
            BY <1>3, <1>6, <3>2
    <2>6. CASE WriteReturns
        <3>1. awaiting' = held /\ UNCHANGED <<upload, ready, held, stack, status, position>>
            BY <2>6 DEF WriteReturns, Others, batchVars
        <3> QED
            BY <1>2, <1>3, <1>6, <3>1
    <2>7. CASE EndReturns
        <3>1. /\ UNCHANGED <<upload, ready, held, stack, status, position, awaiting>>
            BY <1>6, <2>7 DEF EndReturns, Others, batchVars, sourceVars
        <3>2. /\ calls # <<>> /\ Top = calls[Len(calls)] /\ Top.then = "end"
              /\ Len(calls) \in Nat \ {0} /\ Len(calls') = Len(calls) - 1
              /\ \A n \in 1..(Len(calls) - 1) : calls'[n] = calls[n]
            BY <1>1, <2>7, ReturnedCalls DEF EndReturns
        <3>3. WriteCall => WriteCall'
            <4>1. WriteCall => Len(calls) # 1
                BY <3>2 DEF WriteCall
            <4>2. Len(calls) # 1 => 1 \in 1..(Len(calls) - 1) /\ Len(calls') # 0
                BY <3>2
            <4> QED
                BY <3>2, <4>1, <4>2 DEF WriteCall
        <3> QED
            BY <1>2, <1>6, <3>1, <3>3
    <2>8. CASE PipeWrites
        <3>1. calls = <<>> /\ ~awaiting
            BY <2>8, WritesAlone DEF ControlInv, PipeWrites
        <3>2. PICK n, c : /\ n = Smaller(upload.piece, upload.size - position) /\ n > 0
                          /\ position' = position + n
                          /\ calls' = Append(calls, c) /\ c.then = "write"
                          /\ UNCHANGED <<upload, ready, held, stack, status, awaiting>>
            <4>1. \A left : [Call(NoData, NoData, "write") EXCEPT !.left = left].then = "write"
                BY DEF Call
            <4> QED
                BY <2>8, <4>1 DEF PipeWrites, Others, batchVars
        <3>3. ~(position > 0) /\ position \in Nat /\ upload.piece \in Nat
            <4>1. ~WriteCall
                BY <3>1 DEF WriteCall
            <4> QED
                BY <1>1, <1>6, <3>1, <4>1, UploadFacts DEF EarlyInv, TypesInv, SourceTypes
        <3>4. position' <= upload.piece
            BY <1>1, <3>2, <3>3, FlowTypes DEF Smaller
        <3>5. WriteCall'
            BY <3>1, <3>2 DEF WriteCall
        <3> QED
            BY <1>3, <1>6, <3>2, <3>4, <3>5 DEF EarlyInv, Local
    <2>9. CASE PipeEnds
        <3>1. /\ UNCHANGED <<upload, ready, held, stack, status, position, awaiting>>
              /\ calls = <<>>
            BY <2>9 DEF PipeEnds, Others, batchVars, EventLoop
        <3> QED
            BY <1>2, <1>6, <3>1 DEF WriteCall
    <2>10. CASE DestinationReady
        <3>1. CASE ready' = "yes"
            BY <3>1 DEF EarlyInv
        <3>2. CASE ready' # "yes"
            <4>1. UNCHANGED <<upload, held, stack, status, position, awaiting, calls>>
                BY <2>10, <3>2 DEF DestinationReady, batchVars, chunkVars
            <4> QED
                BY <1>6, <4>1 DEF EarlyInv, Local, WriteCall
        <3> QED
            BY <3>1, <3>2
    <2>11. CASE CommitDone \/ UNCHANGED vars
        <3>1. UNCHANGED <<upload, ready, held, stack, status, position, awaiting, calls>>
            BY <2>11 DEF CommitDone, vars, batchVars, sourceVars, chunkVars
        <3> QED
            BY <3>1 DEF EarlyInv, Local, WriteCall
    <2> QED
        BY <1>4, <2>1, <2>2, <2>3, <2>4, <2>5, <2>6, <2>7, <2>8, <2>9, <2>10, <2>11
           DEF Next, Internal, External, Stopped, Emission
<1> QED
    BY <1>5, <1>6

LEMMA FlowSizes ==
    ASSUME FlowInv
    PROVE  Size(TopOut) >= 0 /\ Size(buffer.run) >= 0 /\ Size(FirstLeft) >= 0
    BY DEF FlowInv, Flow, Chain

LEMMA SmallStep ==
    ASSUME WholeInv, WholeInv', ControlInv, ShapeInv, FlowInv, EarlyInv, SmallInv, [Next]_vars
    PROVE  SmallInv'
<1>1. TypesInv /\ TypesInv' /\ SourceShape
    BY BothTypes, WholeParts
<1>2. /\ Sent \in Int /\ Given \in Int /\ Given <= upload.size /\ upload.size \in Nat
      /\ Size(TopOut) \in Int /\ Size(buffer.run) \in Int /\ Size(FirstLeft) \in Int
      /\ upload.chunk \in Nat \ {0} /\ upload.piece \in Nat \ {0} /\ position \in Int
      /\ position <= upload.size
    BY <1>1, FlowTypes DEF TypesInv, SourceTypes
<1>3. /\ Sent >= 0 /\ Size(buffer.run) >= 0 /\ Size(FirstLeft) >= 0
      /\ Sent + Size(TopOut) + Size(buffer.run) + Size(FirstLeft) = Given
    BY <1>2 DEF FlowInv, Flow, Chain
<1> SUFFICES ASSUME ready' # "yes", Smaller(upload'.piece, upload'.size) < upload'.chunk
             PROVE  Size(TopOut') = 0
    BY DEF SmallInv
<1>4. ASSUME ready' = ready, upload' = upload, TopOut' = TopOut \/ TopOut' = Nothing
      PROVE  Size(TopOut') = 0
    BY <1>4, EmptyRuns DEF SmallInv
<1>5. ASSUME ready' = ready
      PROVE  /\ position <= Smaller(upload.piece, upload.size) /\ stack = <<>> /\ ~Local
             /\ Given = position
    <2>1. /\ position <= upload.piece /\ stack = <<>> /\ ~Local
        BY <1>5 DEF EarlyInv
    <2>2. calls # <<>> => calls[1].then # "read"
        BY <1>1, <2>1, CallKinds DEF SourceShape, KindsInv
    <2> QED
        BY <1>2, <2>1, <2>2 DEF Smaller, Given
<1>6. CASE BuildChunk
    <2>1. /\ UNCHANGED <<upload, ready>>
          /\ Size(TopOut') + Size(buffer'.run) + Size(FirstLeft') = Size(buffer.run) + Size(FirstLeft)
          /\ Size(TopOut') = upload.chunk \/ Size(TopOut') = 0
          /\ TopOut = Nothing
        BY <1>6, BuildFlows DEF BuildChunk, Others
    <2>2. /\ Size(TopOut') \in Int /\ Size(buffer'.run) \in Int /\ Size(FirstLeft') \in Int
          /\ Size(buffer'.run) >= 0 /\ Size(FirstLeft') >= 0
        <3>1. (TypesInv => /\ Size(TopOut) \in Int /\ Size(buffer.run) \in Int
                           /\ Size(FirstLeft) \in Int)'
            BY FlowTypes, PTL
        <3>2. FlowInv'
            BY <1>6, BuildFlows
        <3>3. (FlowInv => Size(buffer.run) >= 0 /\ Size(FirstLeft) >= 0)'
            BY FlowSizes, PTL
        <3> QED
            BY <1>1, <3>1, <3>2, <3>3
    <2>3. Smaller(upload.piece, upload.size) \in Int
        BY <1>2 DEF Smaller
    <2>4. Size(TopOut') <= Given
        BY <1>2, <1>3, <2>1, <2>2, EmptyRuns
    <2>5. Size(TopOut') < upload.chunk
        BY <1>2, <1>5, <2>1, <2>2, <2>3, <2>4
    <2> QED
        BY <1>2, <2>1, <2>5
<1>7. CASE Emission
    <2>1. upload' = upload /\ ready' = ready /\ TopOut' = Nothing
        BY <1>7, EmitFlows, EmittedCalls
    <2> QED
        BY <2>1, <1>4
<1>8. CASE ReadReturns \/ WriteReturns \/ EndReturns
    <2>1. upload' = upload /\ ready' = ready /\ TopOut' = Nothing
        BY <1>8, ReturnFlows
    <2> QED
        BY <2>1, <1>4
<1>9. CASE ReadEmits
    <2>1. ready' = ready /\ reads # <<>>
        BY <1>9 DEF ReadEmits, ReadGets, Others
    <2> QED
        BY <1>1, <1>5, <2>1 DEF SourceShape, OriginInv
<1>10. CASE (ReadEnds /\ ~sourceEnded) \/ PipeEnds
    <2>1. /\ upload' = upload /\ ready' = ready /\ TopOut' = buffer.run /\ Given = position
          /\ calls = <<>> /\ TopOut = Nothing /\ FirstLeft = Nothing
        BY <1>10, EndFlows
    <2>2. ~awaiting
        <3>1. ~ReadEnds
            BY <1>1, <1>5, <2>1 DEF SourceShape, OriginInv, ReadEnds, ReadGets
        <3> QED
            BY <1>10, <3>1 DEF PipeEnds
    <2>3. ~(position > 0)
        BY <2>1, <2>2 DEF EarlyInv, WriteCall
    <2> QED
        BY <1>2, <1>3, <2>1, <2>3, EmptyRuns
<1>11. CASE PipeWrites
    <2>1. upload' = upload /\ ready' = ready /\ TopOut' = Nothing
        BY <1>11, WriteFlows
    <2> QED
        BY <2>1, <1>4
<1>12. CASE UserCallbackStops
    <2>1. upload' = upload /\ ready' = ready /\ stack # <<>>
        BY <1>12 DEF UserCallbackStops, Random!Running
    <2> QED
        BY <1>5, <2>1
<1>13. CASE \/ FileOpens \/ FileOpenFails \/ ReadFails \/ (ReadEnds /\ sourceEnded)
            \/ CommitDone
            \/ BatchRuns \/ Ran \/ BatchSteps \/ Drain \/ UserCallbackReturns \/ End
            \/ \E i \in 1..Total, failed \in BOOLEAN : RequestDone(i, failed)
            \/ UNCHANGED vars
    <2>1. upload' = upload /\ TopOut' = TopOut
        BY <1>13, OtherFlows
    <2>2. ready' = ready
        BY <1>13 DEF FileOpens, FileOpenFails, ReadFails, ReadEnds, CommitDone, BatchRuns,
           Ran, RanThen, BatchSteps, Drain, DrainThen,
           UserCallbackReturns, End, RequestDone, Others, quietVars, vars
    <2> QED
        BY <1>4, <2>1, <2>2
<1>14. CASE DestinationReady
    <2>1. upload' = upload /\ TopOut' = TopOut
        BY <1>14, OtherFlows
    <2>2. ready # "yes"
        BY <1>14 DEF DestinationReady
    <2> QED
        BY <2>1, <2>2 DEF SmallInv
<1> QED
    BY <1>6, <1>7, <1>8, <1>9, <1>10, <1>11, <1>12, <1>13, <1>14
       DEF Next, Internal, External, Stopped

(* Nothing but an emission moves the offset, or what was sent.              *)
LEMMA SentMoves ==
    ASSUME WholeInv, WholeInv', ControlInv, ShapeInv, FlowInv, [Next]_vars
    PROVE  /\ upload' = upload
           /\ \/ Emission /\ Sent' = Sent + Size(Top.out.run)
              \/ Sent' = Sent /\ offset' = offset /\ assigned' = assigned
<1>1. CASE Emission
    BY <1>1, EmitFlows, EmittedCalls
<1>2. ASSUME ~Emission
      PROVE  UNCHANGED <<upload, offset, assigned>>
    BY <1>2 DEF Next, Internal, External, Stopped, vars, BuildChunk, ReadReturns, WriteReturns,
       EndReturns, BatchRuns, Ran, RanThen, BatchSteps, Drain, DrainThen, UserCallbackStops,
       UserCallbackReturns, End, FileOpens, FileOpenFails, ReadEmits, ReadEnds, ReadFails,
       PipeWrites, PipeEnds,
       DestinationReady, CommitDone, RequestDone, Others, quietVars, chunkVars
<1>3. ASSUME ~Emission
      PROVE  Sent' = Sent
    <2>1. CASE BuildChunk
        BY <2>1, BuildFlows
    <2>2. CASE ReadReturns \/ WriteReturns \/ EndReturns
        BY <2>2, ReturnFlows
    <2>3. CASE ReadEmits
        BY <2>3, ReadFlows
    <2>4. CASE (ReadEnds /\ ~sourceEnded) \/ PipeEnds
        BY <2>4, EndFlows
    <2>5. CASE PipeWrites
        BY <2>5, WriteFlows
    <2>6. CASE UserCallbackStops
        BY <2>6, StopFlows
    <2>7. CASE \/ FileOpens \/ FileOpenFails \/ ReadFails \/ (ReadEnds /\ sourceEnded)
               \/ DestinationReady \/ CommitDone
               \/ BatchRuns \/ Ran \/ BatchSteps \/ Drain \/ UserCallbackReturns \/ End
               \/ \E i \in 1..Total, failed \in BOOLEAN : RequestDone(i, failed)
               \/ UNCHANGED vars
        BY <2>7, OtherFlows
    <2> QED
        BY <1>3, <2>1, <2>2, <2>3, <2>4, <2>5, <2>6, <2>7 DEF Next, Internal, External, Stopped
<1> QED
    BY <1>1, <1>2, <1>3

LEMMA KeptStep ==
    ASSUME WholeInv, WholeInv', ControlInv, ShapeInv, FlowInv, EarlyInv, SmallInv, KeptInv,
           [Next]_vars
    PROVE  KeptInv'
<1>1. upload' = upload
    BY SentMoves
<1> SUFFICES ASSUME StartsSmall(upload)
             PROVE  offset' = Sent'
    BY <1>1 DEF KeptInv
<1>2. offset = Sent
    BY DEF KeptInv
<1>3. CASE Emission
    <2>1. Size(Top.out.run) > 0 /\ TopOut = Top.out.run /\ Sent' = Sent + Size(Top.out.run)
        BY <1>3, EmitFlows, EmittedCalls
    <2>2. CASE EmitLost /\ ~IsFile
        <3>1. ready # "yes"
            BY <2>2 DEF EmitLost
        <3>2. ~Local
            BY <3>1 DEF EarlyInv
        <3>3. Smaller(upload.piece, upload.size) < upload.chunk
            BY <2>2, <3>2 DEF StartsSmall, Local, IsFile
        <3> QED
            BY <2>1, <3>1, <3>3 DEF SmallInv
    <2>3. CASE ~(EmitLost /\ ~IsFile)
        <3>1. offset' = offset + Size(Top.out.run)
            BY <1>3, <2>3 DEF Emission, EmitLost, EmitBeyond, EmitZeros, EmitChunk
        <3> QED
            BY <1>2, <2>1, <3>1
    <2> QED
        BY <2>2, <2>3
<1>4. CASE ~Emission
    BY <1>2, <1>4, SentMoves
<1> QED
    BY <1>3, <1>4

(* The chunks lie one behind the other, each at its place, within what was  *)
(* emitted and within the length of the upload, and only zeros lie between. *)
Skips == IF upload.kind \in {"page", "file"} THEN upload.zeros ELSE {}
Within == IF upload.limit > 0 THEN Smaller(offset, upload.limit) ELSE offset
LedgerInv ==
    StartsSmall(upload) =>
        /\ \A i \in 1..Total : /\ assigned[i].run.first = assigned[i].start + 1
                               /\ Size(assigned[i].run) > 0
                               /\ assigned[i].run.last <= Within
        /\ \A i \in 1..(Total - 1) : assigned[i].run.last < assigned[i + 1].run.first
        /\ \A u \in 1..Within : u \in Skips \/ \E i \in 1..Total : u \in Units(assigned[i].run)

LEMMA TypesCount ==
    ASSUME TypesInv
    PROVE  Total = Len(assigned) /\ Total \in Nat
    BY TotalFacts DEF TypesInv, ChunkTypes

LEMMA ChunkLasts ==
    ASSUME NEW s \in Seq(ChunkSet)
    PROVE  \A i \in 1..Len(s) : s[i].run.last \in Int /\ s[i].id \in Nat
<1>1. \A i \in 1..Len(s) : s[i] \in ChunkSet
    OBVIOUS
<1> QED
    BY <1>1 DEF ChunkSet

LEMMA LedgerStep ==
    ASSUME WholeInv, WholeInv', ControlInv, ShapeInv, FlowInv, EarlyInv, SmallInv, KeptInv, KeptInv',
           LedgerInv, [Next]_vars
    PROVE  LedgerInv'
<1>1. TypesInv /\ TypesInv' /\ SourceShape
    BY BothTypes, WholeParts
<1>2. /\ Total = Len(assigned) /\ Total' = Len(assigned') /\ Total \in Nat
      /\ assigned \in Seq(ChunkSet)
    <2>1. (TypesInv => Total = Len(assigned))'
        BY TypesCount, PTL
    <2> QED
        BY <1>1, <2>1, TypesCount DEF TypesInv, ChunkTypes
<1>3. upload' = upload
    BY SentMoves
<1> SUFFICES ASSUME StartsSmall(upload)
             PROVE  /\ \A i \in 1..Total' : /\ assigned'[i].run.first = assigned'[i].start + 1
                                            /\ Size(assigned'[i].run) > 0
                                            /\ assigned'[i].run.last <= Within'
                    /\ \A i \in 1..(Total' - 1) : assigned'[i].run.last < assigned'[i + 1].run.first
                    /\ \A u \in 1..Within' : \/ u \in Skips
                                             \/ \E i \in 1..Total' : u \in Units(assigned'[i].run)
    BY <1>3 DEF LedgerInv, Skips
<1>4. /\ \A i \in 1..Total : /\ assigned[i].run.first = assigned[i].start + 1
                             /\ Size(assigned[i].run) > 0
                             /\ assigned[i].run.last <= Within
      /\ \A i \in 1..(Total - 1) : assigned[i].run.last < assigned[i + 1].run.first
      /\ \A u \in 1..Within : u \in Skips \/ \E i \in 1..Total : u \in Units(assigned[i].run)
    BY DEF LedgerInv
<1>5. CASE ~Emission
    <2>1. offset' = offset /\ assigned' = assigned
        BY <1>5, SentMoves
    <2>2. Within' = Within /\ Total' = Total
        BY <1>2, <1>3, <2>1 DEF Within
    <2> QED
        BY <1>4, <2>1, <2>2
<1>6. CASE Emission
    <2> DEFINE out == Top.out.run
               k == Size(out)
    <2>1. /\ k > 0 /\ TopOut = out /\ offset = Sent /\ Emitting
          /\ offset' = Sent' /\ Sent' = Sent + k /\ calls # <<>>
        <3>1. k > 0 /\ TopOut = out /\ Sent' = Sent + k /\ Emitting /\ calls # <<>>
            BY <1>6, EmitFlows, EmittedCalls
        <3> QED
            BY <1>3, <3>1 DEF KeptInv
    <2>2. /\ offset \in Nat /\ k \in Int /\ out.first \in Nat /\ out.last \in Int
          /\ k = out.last - out.first + 1 /\ upload.limit \in Nat /\ Given \in Int
        <3>1. Top.out \in Data /\ Given \in Int /\ Sent \in Int /\ upload.limit \in Nat
            BY <1>1, <2>1, FlowTypes
        <3>2. out.first \in Nat /\ out.last \in Int /\ k = out.last - out.first + 1 /\ k \in Int
            BY <3>1, DataFacts
        <3>3. offset \in Nat
            BY <3>1 DEF FlowInv
        <3> QED
            BY <3>1, <3>2, <3>3
    <2>3. out.first = offset + 1 /\ out.last = offset + k /\ offset + k <= Given
        <3>1. Chain(Sent, out, buffer.run, FirstLeft, Given)
            BY <2>1 DEF FlowInv, Flow
        <3>2. /\ out.first = Sent + 1 /\ Size(buffer.run) >= 0 /\ Size(FirstLeft) >= 0
              /\ Sent + k + Size(buffer.run) + Size(FirstLeft) = Given
            BY <2>1, <3>1 DEF Chain
        <3>3. Size(buffer.run) \in Int /\ Size(FirstLeft) \in Int
            BY <1>1, FlowTypes
        <3> HIDE DEF out, k
        <3>4. offset + k <= Given
            BY <2>1, <2>2, <3>2, <3>3
        <3>5. out.first = offset + 1
            BY <2>1, <3>2
        <3>6. out.last = offset + k
            BY <2>2, <3>5
        <3> QED
            BY <3>4, <3>5, <3>6
    <2> HIDE DEF out, k
    <2>4. /\ Within \in Nat /\ Within' \in Nat /\ Within <= Within' /\ Within <= offset
          /\ Within' <= offset + k
          /\ Within' > Within => Within = offset
          /\ Beyond => Within' = Within
          /\ upload.limit > 0 => Within' <= upload.limit
          /\ ~Beyond => Within = offset /\ Within' > Within
                /\ Within' = IF upload.limit > 0 /\ offset + k > upload.limit THEN upload.limit
                             ELSE offset + k
        BY <1>3, <2>1, <2>2 DEF Within, Smaller, Beyond
    <2>5. CASE EmitLost \/ EmitBeyond \/ EmitZeros
        <3>1. assigned' = assigned /\ Total' = Total
            BY <1>2, <2>5 DEF EmitLost, EmitBeyond, EmitZeros, Others
        <3>2. ASSUME NEW u \in 1..Within', u \notin 1..Within
              PROVE  u \in Skips
            <4>1. u \in Units(out) /\ Within = offset /\ ~Beyond
                BY <2>2, <2>3, <2>4, <3>2 DEF Units
            <4>2. CASE EmitZeros
                BY <4>1, <4>2 DEF EmitZeros, Skipped, Skips, out
            <4>3. CASE EmitLost
                <5>1. ready # "yes" /\ ~Local
                    BY <4>3 DEF EmitLost, EarlyInv
                <5>2. ~(Smaller(upload.piece, upload.size) < upload.chunk)
                    BY <2>1, <5>1 DEF SmallInv, k
                <5>3. upload.kind = "file" /\ 1..Smaller(upload.piece, upload.size) \subseteq upload.zeros
                    BY <5>1, <5>2 DEF StartsSmall, Local
                <5>4. Given = position /\ position <= upload.piece /\ position <= upload.size
                      /\ position \in Int
                    <6>1. calls[1].then # "read"
                        BY <1>1, <2>1, <5>1, CallKinds DEF SourceShape, KindsInv
                    <6> QED
                        BY <1>1, <5>1, <6>1, FlowTypes DEF Given, EarlyInv, TypesInv, SourceTypes
                <5>5. u \in 1..Smaller(upload.piece, upload.size)
                    <6>1. u <= position /\ upload.piece \in Nat /\ upload.size \in Nat
                        BY SMTT(30), <1>1, <2>2, <2>3, <2>4, <5>4, FlowTypes
                    <6> QED
                        BY <5>4, <6>1, <2>4 DEF Smaller
                <5> QED
                    BY <5>3, <5>5 DEF Skips
            <4>4. CASE EmitBeyond
                BY <4>1, <4>4 DEF EmitBeyond
            <4> QED
                BY <2>5, <4>2, <4>3, <4>4
        <3>3. \A i \in 1..Total : assigned[i].run.last \in Int
            BY <1>2, ChunkLasts
        <3> QED
            BY <1>4, <2>4, <3>1, <3>2, <3>3
    <2>6. CASE EmitChunk
        <3> DEFINE c == [run |-> Clipped(out), start |-> offset, id |-> Rewrapped.id]
        <3>1. assigned' = Append(assigned, c) /\ ~Beyond
            BY <2>6 DEF EmitChunk, out
        <3>2. /\ Clipped(out).first = offset + 1 /\ Clipped(out).last = Within'
              /\ Size(Clipped(out)) = Within' - offset
            <4>1. CASE upload.limit > 0 /\ offset + k > upload.limit
                <5>1. Clipped(out) = [first |-> out.first, last |-> out.first + upload.limit - offset - 1]
                    BY <4>1 DEF Clipped, Run, k
                <5>2. Within' = upload.limit
                    BY <2>4, <3>1, <4>1
                <5>3. out.first + upload.limit - offset - 1 = upload.limit
                    BY <2>2, <2>3
                <5>4. Clipped(out).first = offset + 1 /\ Clipped(out).last = Within'
                    BY <2>3, <5>1, <5>2, <5>3
                <5> QED
                    BY <2>2, <2>4, <5>4 DEF Size
            <4>2. CASE ~(upload.limit > 0 /\ offset + k > upload.limit)
                <5>1. Clipped(out) = out
                    BY <4>2 DEF Clipped, k
                <5>2. Within' = offset + k
                    BY <2>4, <3>1, <4>2
                <5>4. Clipped(out).first = offset + 1 /\ Clipped(out).last = Within'
                    BY <2>3, <5>1, <5>2
                <5> QED
                    BY <2>2, <2>4, <5>4 DEF Size
            <4> QED
                BY <4>1, <4>2
        <3>3. c.run = Clipped(out) /\ c.start = offset
            OBVIOUS
        <3> HIDE DEF c
        <3>4. /\ Total' = Total + 1 /\ assigned'[Total + 1] = c
              /\ \A i \in 1..Total : assigned'[i] = assigned[i]
            BY <1>2, <3>1
        <3>5. \A i \in 1..Total : assigned[i].run.last \in Int
            BY <1>2, ChunkLasts
        <3>6. \A i \in 1..Total' : /\ assigned'[i].run.first = assigned'[i].start + 1
                                   /\ Size(assigned'[i].run) > 0
                                   /\ assigned'[i].run.last <= Within'
            <4>1. ASSUME NEW i \in 1..Total
                  PROVE  /\ assigned'[i].run.first = assigned'[i].start + 1
                         /\ Size(assigned'[i].run) > 0
                         /\ assigned'[i].run.last <= Within'
                BY <1>4, <2>4, <3>4, <3>5
            <4>2. /\ c.run.first = c.start + 1 /\ Size(c.run) > 0 /\ c.run.last <= Within'
                BY <2>2, <2>4, <3>1, <3>2, <3>3
            <4> QED
                BY <1>2, <3>4, <4>1, <4>2
        <3>7. \A i \in 1..(Total' - 1) : assigned'[i].run.last < assigned'[i + 1].run.first
            <4>1. ASSUME NEW i \in 1..(Total - 1)
                  PROVE  assigned'[i].run.last < assigned'[i + 1].run.first
                BY <1>2, <1>4, <3>4
            <4>2. ASSUME Total > 0
                  PROVE  assigned'[Total].run.last < assigned'[Total + 1].run.first
                <5>1. Total \in 1..Total /\ assigned'[Total] = assigned[Total]
                    BY <1>2, <3>4, <4>2
                <5>2. assigned[Total].run.last <= Within /\ assigned[Total].run.last \in Int
                    BY <1>4, <3>5, <5>1
                <5>3. assigned'[Total + 1].run.first = offset + 1
                    BY <3>2, <3>3, <3>4
                <5>4. Within <= offset /\ Within \in Int /\ offset \in Int
                    BY <1>2, <2>2, <2>4
                <5> QED
                    BY <5>1, <5>2, <5>3, <5>4
            <4> QED
                BY <1>2, <3>4, <4>1, <4>2
        <3>8. ASSUME NEW u \in 1..Within'
              PROVE  \/ u \in Skips
                     \/ \E i \in 1..Total' : u \in Units(assigned'[i].run)
            <4>1. CASE u \in 1..Within
                BY <1>2, <1>4, <3>4, <4>1
            <4>2. CASE u \notin 1..Within
                <5>1. u \in Units(c.run)
                    BY <2>2, <2>4, <3>1, <3>2, <3>3, <4>2 DEF Units
                <5>2. Total + 1 \in 1..Total'
                    BY <1>2, <3>4
                <5> QED
                    BY <3>4, <5>1, <5>2
            <4> QED
                BY <4>1, <4>2
        <3> QED
            BY <3>6, <3>7, <3>8
    <2> QED
        BY <1>6, <2>5, <2>6 DEF Emission
<1> QED
    BY <1>5, <1>6

(* What a step does to the states of the operations.                        *)
Settles(n) ==
    /\ Random!Running("succeed") \/ (Random!Running("fail") /\ error')
    /\ n = Random!Top.op /\ status[n] \in {"queued", "running"}
    /\ status'[n] \in {"callback", "error"}
Moves(n) ==
    \/ status'[n] = status[n]
    \/ status[n] = "queued" /\ status'[n] = "running"
    \/ Settles(n)
    \/ status[n] \in {"callback", "error"} /\ status'[n] = "complete"

LEMMA StatusMoves ==
    ASSUME WholeInv, [Next]_vars
    PROVE  /\ \A n \in 1..Total : Moves(n)
           /\ error => error'
           /\ ~error /\ error' => Random!Running("fail") /\ Random!Top.op \in 1..Total
                                    /\ status[Random!Top.op] \in {"queued", "running"}
           /\ \/ Total' = Total
              \/ EmitChunk /\ Total' = Total + 1 /\ status'[Total + 1] = "queued"
<1>1. /\ UploadInv /\ BatchTypes /\ StackInv /\ Total \in Nat
      /\ status \in Seq(Random!OperationState) /\ Total = Len(status)
    BY WholeParts, TotalFacts DEF BatchTypes
<1>2. CASE UNCHANGED <<status, error>>
    BY <1>2 DEF Moves, Total
<1>3. ASSUME NEW i \in 1..Total, NEW state \in Random!OperationState,
             status' = [status EXCEPT ![i] = state]
      PROVE  /\ Len(status') = Len(status)
             /\ \A n \in 1..Total : status'[n] = IF n = i THEN state ELSE status[n]
    BY <1>1, <1>3, OverwriteSeq
<1>4. CASE EmitChunk
    <2>1. status' = Append(status, "queued") /\ error' = error
        BY <1>4 DEF EmitChunk, Random!AddOperation, Random!AddOperationAs
    <2>2. "queued" \in Random!OperationState
        BY DEF Random!OperationState
    <2>3. /\ Len(status') = Len(status) + 1 /\ status'[Len(status) + 1] = "queued"
          /\ \A n \in 1..Len(status) : status'[n] = status[n]
        BY <1>1, <2>1, <2>2, PushCall
    <2> QED
        BY <1>1, <1>4, <2>1, <2>3 DEF Moves, Total
<1>5. CASE BatchRuns
    <2>1. Random!Top.op \in 1..Total /\ status[Random!Top.op] = "queued" /\ error' = error
        BY <1>5, RunStacks
    <2>2. \/ status' = [status EXCEPT ![Random!Top.op] = "running"] \/ status' = status
        BY <1>5, RunStacks
    <2>3. "running" \in Random!OperationState
        BY DEF Random!OperationState
    <2>4. CASE status' = status
        BY <1>2, <2>1, <2>4
    <2>5. CASE status' = [status EXCEPT ![Random!Top.op] = "running"]
        <3>1. /\ Len(status') = Len(status)
              /\ \A n \in 1..Total : status'[n] = IF n = Random!Top.op THEN "running" ELSE status[n]
            BY <1>3, <2>1, <2>3, <2>5
        <3> QED
            BY <1>1, <2>1, <3>1 DEF Moves, Total
    <2> QED
        BY <2>2, <2>4, <2>5
<1>6. CASE BatchSteps
    <2>1. CASE Mode(Random!BatchOperationCallback, Ordered!BatchOperationCallback)
        <3>1. /\ stack # <<>> /\ Random!Top.pc \in {"succeed", "fail"}
              /\ Random!Top.op \in 1..Total /\ status[Random!Top.op] \in {"queued", "running"}
              /\ error' = (error \/ Random!Top.pc = "fail")
              /\ \A n \in 1..Total : status'[n] = IF n = Random!Top.op
                    THEN IF ~InOrder /\ Random!Top.pc = "fail" THEN "error" ELSE "callback"
                    ELSE status[n]
              /\ Len(status') = Total
            BY <1>1, <2>1, SettleStacks
        <3>2. Random!Running("succeed") \/ (Random!Running("fail") /\ error')
            BY <3>1 DEF Random!Running
        <3>3. \A n \in 1..Total : Moves(n)
            BY <3>1, <3>2 DEF Moves, Settles
        <3> QED
            BY <1>1, <3>1, <3>3 DEF Total, Random!Running
    <2>2. CASE ~Mode(Random!BatchOperationCallback, Ordered!BatchOperationCallback)
        <3>1. UNCHANGED <<status, error>>
            BY <1>1, <1>6, <2>2, StepStacks, FiresInMode DEF Random!batch
        <3> QED
            BY <1>2, <3>1
    <2> QED
        BY <2>1, <2>2
<1>7. CASE UserCallbackReturns
    <2>1. /\ Random!Top.op \in 1..Total /\ status[Random!Top.op] \in {"callback", "error"}
          /\ status' = [status EXCEPT ![Random!Top.op] = "complete"] /\ error' = error
        BY <1>7, ReturnStacks
    <2>2. "complete" \in Random!OperationState
        BY DEF Random!OperationState
    <2>3. /\ Len(status') = Len(status)
          /\ \A n \in 1..Total : status'[n] = IF n = Random!Top.op THEN "complete" ELSE status[n]
        BY <1>3, <2>1, <2>2
    <2> QED
        BY <1>1, <2>1, <2>3 DEF Moves, Total
<1>8. CASE Ran \/ Drain \/ End
    BY <1>2, <1>8, RanStacks, DrainStacks, EndStacks DEF Random!batch
<1>9. CASE EndReturns
    BY <1>2, <1>9 DEF EndReturns, Random!EnableComplete, batchVars
<1>10. ASSUME NEW i \in 1..Total, NEW failed \in BOOLEAN, RequestDone(i, failed)
       PROVE  UNCHANGED <<status, error>>
    BY <1>10 DEF RequestDone, Random!RequestDone, Random!RequestDoneIn, Random!batch
<1>11. CASE UNCHANGED batchVars
    BY <1>2, <1>11 DEF batchVars
<1>12. CASE Internal
    BY <1>4, <1>5, <1>6, <1>7, <1>8, <1>9, <1>11, <1>12
       DEF Internal, BuildChunk, Emission, EmitLost, EmitBeyond, EmitZeros, ReadReturns,
           WriteReturns, UserCallbackStops
<1>13. CASE External
    BY <1>2, <1>10, <1>11, <1>13
       DEF External, FileOpens, FileOpenFails, ReadEmits, ReadEnds, ReadFails, PipeWrites,
          PipeEnds, DestinationReady,
           CommitDone
<1> QED
    BY <1>11, <1>12, <1>13 DEF Next, Stopped, vars

(* Calls of the batch that settle an operation with success, or that end    *)
(* it, begin as the source says.                                            *)
Plain(f) == f.pc \notin {"succeed", "onEnd"}
Begins(f) ==
    \/ Plain(f)
    \/ f.pc = "succeed" /\ f.op \in 1..Total /\ RequestDone(f.op, FALSE)
    \/ f.pc = "onEnd" /\ Random!Complete /\ BatchSteps /\ UNCHANGED <<status, error, completing>>

LEMMA FrameMoves ==
    ASSUME WholeInv, [Next]_vars
    PROVE  \A n \in 1..Len(stack') : (n \in 1..Len(stack) /\ stack'[n] = stack[n]) \/ Begins(stack'[n])
<1>1. /\ UploadInv /\ BatchTypes /\ StackInv /\ stack \in Seq(Random!Frame) /\ Len(stack) \in Nat
    BY WholeParts, TotalFacts DEF BatchTypes
<1>2. CASE stack' = stack
    BY <1>2
<1>3. ASSUME stack # <<>>, Len(stack') <= Len(stack) + 1, Len(stack') \in Nat,
             \A n \in 1..(Len(stack) - 1) : stack'[n] = stack[n],
             Len(stack') >= Len(stack) => Begins(stack'[Len(stack)]),
             Len(stack') = Len(stack) + 1 => Begins(stack'[Len(stack) + 1])
      PROVE  \A n \in 1..Len(stack') : (n \in 1..Len(stack) /\ stack'[n] = stack[n]) \/ Begins(stack'[n])
    <2>1. \A n \in 1..Len(stack') : n \in 1..(Len(stack) - 1) \/ n = Len(stack) \/ n = Len(stack) + 1
        BY <1>1, <1>3
    <2> QED
        BY <1>1, <1>3, <2>1
<1>4. ASSUME NEW f \in Random!Frame, stack' = Append(stack, f), Begins(f)
      PROVE  \A n \in 1..Len(stack') : (n \in 1..Len(stack) /\ stack'[n] = stack[n]) \/ Begins(stack'[n])
    <2>1. /\ Len(stack') = Len(stack) + 1 /\ stack'[Len(stack) + 1] = f
          /\ \A n \in 1..Len(stack) : stack'[n] = stack[n]
        BY <1>1, <1>4, PushCall
    <2> QED
        BY <1>1, <1>4, <2>1
<1>5. ASSUME NEW f, Plain(f)
      PROVE  Begins(f)
    BY <1>5 DEF Begins
<1>6. /\ \A op : Plain(Random!Call("run", op)) /\ Plain(Random!Call("ran", op))
      /\ \A op : Plain(Random!Call("fail", op)) /\ Plain(Random!Call("fire", op))
      /\ Plain(Random!Call("tryEnd", 0)) /\ Plain(Random!Call("tryDrain", 0))
      /\ \A f : f.pc \in {"ran", "fail", "userCallback", "fire", "onDrain"} => Plain(f)
    BY DEF Plain, Random!Call
<1>7. CASE EmitChunk
    <2>1. /\ stack' = Append(stack, Random!Call("run", Random!Total + 1))
        BY <1>7 DEF EmitChunk, Random!AddOperation, Random!AddOperationAs
    <2>2. Random!Call("run", Random!Total + 1) \in Random!Frame
        BY <1>1, TotalFacts, Pcs
    <2> QED
        BY <1>4, <1>5, <1>6, <2>1, <2>2
<1>8. CASE EndReturns
    <2>1. \/ stack' = stack
          \/ stack' = Append(stack, Random!Call("tryEnd", 0))
        BY <1>8 DEF EndReturns, batchVars, Random!EnableComplete
    <2>2. Random!Call("tryEnd", 0) \in Random!Frame
        BY Pcs
    <2> QED
        BY <1>2, <1>4, <1>5, <1>6, <2>1, <2>2
<1>9. ASSUME NEW i \in 1..Total, NEW failed \in BOOLEAN, RequestDone(i, failed)
      PROVE  \A n \in 1..Len(stack') : (n \in 1..Len(stack) /\ stack'[n] = stack[n]) \/ Begins(stack'[n])
    <2> DEFINE f == Random!Call(IF failed THEN "fail" ELSE "succeed", i)
    <2>1. stack' = Append(stack, f)
        BY <1>9 DEF RequestDone, Random!RequestDone, Random!RequestDoneIn
    <2>2. f \in Random!Frame
        BY <1>1, TotalFacts, Pcs
    <2>3. f.pc = IF failed THEN "fail" ELSE "succeed"
        BY DEF Random!Call
    <2>4. f.op = i
        BY DEF Random!Call
    <2>5. Begins(f)
        <3> HIDE DEF f
        <3>1. CASE failed
            BY <1>5, <1>6, <2>3, <3>1
        <3>2. CASE ~failed
            <4>1. failed = FALSE
                BY <3>2
            <4> QED
                BY <1>9, <2>3, <2>4, <4>1 DEF Begins
        <3> QED
            BY <3>1, <3>2
    <2> HIDE DEF f
    <2> QED
        BY <1>4, <2>1, <2>2, <2>5
<1>10. CASE BatchRuns
    <2>1. /\ stack # <<>> /\ stack' # <<>>
          /\ \A n \in 1..(Len(stack) - 1) : stack'[n] = stack[n]
          /\ stack'[Len(stack)].pc = "ran"
          /\ Len(stack') = Len(stack)
                \/ (Len(stack') = Len(stack) + 1 /\ stack'[Len(stack) + 1].pc = "fail")
        BY <1>10, RunStacks
    <2>2. Begins(stack'[Len(stack)]) /\ (Len(stack') = Len(stack) + 1 => Begins(stack'[Len(stack) + 1]))
        BY <1>1, <1>5, <1>6, <2>1
    <2> QED
        BY <1>1, <1>3, <2>1, <2>2
<1>11. CASE Ran \/ End
    <2>1. /\ stack # <<>> /\ Len(stack') = Len(stack) - 1
          /\ \A n \in 1..(Len(stack) - 1) : stack'[n] = stack[n]
        BY <1>11, RanStacks, EndStacks
    <2>2. Len(stack) # 0
        BY <1>1, <2>1, EmptySeq
    <2> QED
        BY <1>1, <1>3, <2>1, <2>2
<1>12. CASE Drain
    <2>1. /\ stack # <<>> /\ Len(stack') = Len(stack) /\ stack'[Len(stack)].pc = "onDrain"
          /\ \A n \in 1..(Len(stack) - 1) : stack'[n] = stack[n]
        BY <1>12, DrainStacks
    <2>2. Begins(stack'[Len(stack)])
        BY <1>5, <1>6, <2>1
    <2> QED
        BY <1>1, <1>3, <2>1, <2>2
<1>13. CASE UserCallbackReturns
    <2>1. /\ stack # <<>> /\ Len(stack') = Len(stack) /\ stack'[Len(stack)].pc = "fire"
          /\ \A n \in 1..(Len(stack) - 1) : stack'[n] = stack[n]
        BY <1>13, ReturnStacks
    <2>2. Begins(stack'[Len(stack)])
        BY <1>5, <1>6, <2>1
    <2> QED
        BY <1>1, <1>3, <2>1, <2>2
<1>14. CASE BatchSteps
    <2>1. CASE Mode(Random!BatchOperationCallback, Ordered!BatchOperationCallback)
        <3>1. /\ stack # <<>>
              /\ \A n \in 1..(Len(stack) - 1) : stack'[n] = stack[n]
              /\ stack'[Len(stack)] = Random!Call("tryDrain", 0)
              /\ \/ Len(stack') = Len(stack)
                 \/ /\ Len(stack') = Len(stack) + 1
                    /\ stack'[Len(stack) + 1] = Random!Call("fire", Random!Top.op)
            BY <1>1, <2>1, SettleStacks
        <3>2. Begins(stack'[Len(stack)]) /\ (Len(stack') = Len(stack) + 1 => Begins(stack'[Len(stack) + 1]))
            BY <1>1, <1>5, <1>6, <3>1
        <3> QED
            BY <1>1, <1>3, <3>1, <3>2
    <2>2. CASE Mode(Random!FireUserCallback, Ordered!FireUserCallback)
        <3>1. /\ stack # <<>> /\ Len(stack') = Len(stack)
              /\ \A n \in 1..(Len(stack) - 1) : stack'[n] = stack[n]
              /\ stack'[Len(stack)].pc = "userCallback"
            BY <1>1, <2>2, FireStacks
        <3>2. Begins(stack'[Len(stack)])
            BY <1>5, <1>6, <3>1
        <3> QED
            BY <1>1, <1>3, <3>1, <3>2
    <2>3. ASSUME NEW f \in Random!Frame, stack' = Append(Random!Caller, f), Begins(f), stack # <<>>
          PROVE  \A n \in 1..Len(stack') : (n \in 1..Len(stack) /\ stack'[n] = stack[n]) \/ Begins(stack'[n])
        <3>1. /\ Len(stack') = Len(stack) /\ stack'[Len(stack)] = f
              /\ \A n \in 1..(Len(stack) - 1) : stack'[n] = stack[n]
            BY <1>1, <2>3, ReplacedTop
        <3> QED
            BY <1>1, <1>3, <2>3, <3>1
    <2>4. CASE stack' = Random!Caller /\ stack # <<>>
        <3>1. /\ Len(stack') = Len(stack) - 1 /\ Len(stack) \in Nat \ {0}
              /\ \A n \in 1..(Len(stack) - 1) : stack'[n] = stack[n]
            BY <1>1, <2>4, ReplacedTop
        <3> QED
            BY <1>1, <1>3, <2>4, <3>1
    <2>5. CASE /\ Random!Complete /\ stack' = Append(Random!Caller, Random!Call("onEnd", 0))
               /\ UNCHANGED <<status, error, completing>> /\ stack # <<>>
        <3>1. Random!Call("onEnd", 0).pc = "onEnd" /\ Random!Call("onEnd", 0) \in Random!Frame
            BY Pcs
        <3>2. Begins(Random!Call("onEnd", 0))
            BY <1>14, <2>5, <3>1 DEF Begins
        <3> QED
            BY <2>3, <2>5, <3>1, <3>2
    <2>6. CASE \E pc \in {"tryEnd", "tryDrain"} : /\ stack' = Append(Random!Caller, Random!Call(pc, 0))
                                                  /\ stack # <<>>
        <3>1. PICK pc \in {"tryEnd", "tryDrain"} : stack' = Append(Random!Caller, Random!Call(pc, 0))
            BY <2>6
        <3>2. Random!Call(pc, 0) \in Random!Frame /\ Begins(Random!Call(pc, 0))
            BY <1>5, <1>6, <3>1, Pcs
        <3> QED
            BY <2>3, <2>6, <3>1, <3>2
    <2> QED
        BY <1>1, <1>14, <2>1, <2>2, <2>4, <2>5, <2>6, StepStacks
<1>15. CASE UNCHANGED batchVars
    BY <1>2, <1>15 DEF batchVars
<1>16. CASE Internal
    BY <1>7, <1>8, <1>10, <1>11, <1>12, <1>13, <1>14, <1>15, <1>16
       DEF Internal, BuildChunk, Emission, EmitLost, EmitBeyond, EmitZeros, ReadReturns,
           WriteReturns, UserCallbackStops
<1>17. CASE External
    BY <1>9, <1>15, <1>17
       DEF External, FileOpens, FileOpenFails, ReadEmits, ReadEnds, ReadFails, PipeWrites,
          PipeEnds, DestinationReady,
           CommitDone
<1> QED
    BY <1>15, <1>16, <1>17 DEF Next, Stopped, vars

(* An operation was stored or failed, or its request is still to answer;    *)
(* what failed and was settled is known to the batch; the source has ended, *)
(* or stopped at the length of the upload, or an operation failed, before a *)
(* call of end and before completion is enabled; what is committed is whole.*)
StoredInv ==
    /\ \A i \in 1..Total : i \in stored \/ i \in failures \/ status[i] \in {"queued", "running"}
    /\ \A n \in 1..Len(stack) : stack[n].pc = "succeed" => stack[n].op \in stored
ErrorInv == \A i \in failures : status[i] \in {"queued", "running"} \/ error
Delivered == Beyond \/ Sent = upload.size
EndInv ==
    (\E n \in 1..Len(calls) : calls[n].then = "end") =>
        error \/ Beyond \/ Sent + Size(TopOut) = upload.size
DoneInv == completing => error \/ Delivered
Fulfilled ==
    ready = "yes" /\ ~error /\ Delivered /\ \A i \in 1..Total : status[i] = "complete"
SuccessInv ==
    /\ committing > 0 \/ "success" \in ToSet(answers) => Fulfilled
    /\ \A n \in 1..Len(stack) : stack[n].pc = "onEnd" => error \/ Fulfilled

LEMMA ResultMoves ==
    ASSUME WholeInv, [Next]_vars
    PROVE  /\ stored \subseteq stored' /\ failures \subseteq failures'
           /\ \A i \in failures' \ failures : i \in 1..Total /\ status'[i] \in {"queued", "running"}
           /\ failures \subseteq 1..Total
<1>1. failures \subseteq 1..Total
    BY WholeParts DEF BatchTypes
<1>2. CASE UNCHANGED <<stored, failures>>
    BY <1>1, <1>2
<1>3. CASE BatchRuns
    <2>1. stored' = stored
        BY <1>3 DEF BatchRuns, quietVars, resultVars
    <2>2. /\ Random!Top.op \in 1..Total /\ status[Random!Top.op] = "queued"
          /\ failures' = failures
                \/ (failures' = failures \cup {Random!Top.op} /\ status' = status)
        BY <1>3, RunStacks
    <2> QED
        BY <1>1, <2>1, <2>2
<1>4. ASSUME NEW i \in 1..Total, NEW failed \in BOOLEAN, RequestDone(i, failed)
      PROVE  /\ stored \subseteq stored' /\ failures \subseteq failures'
             /\ \A j \in failures' \ failures : j \in 1..Total /\ status'[j] \in {"queued", "running"}
    <2>1. status[i] = "running" /\ status' = status
        BY <1>4 DEF RequestDone, Random!RequestDone, Random!RequestDoneIn, Random!batch
    <2>2. \/ failures' = failures \cup {i} /\ stored' = stored
          \/ stored' = stored \cup {i} /\ failures' = failures
        BY <1>4 DEF RequestDone
    <2> QED
        BY <1>1, <2>1, <2>2
<1>5. CASE ~BatchRuns /\ ~\E i \in 1..Total, failed \in BOOLEAN : RequestDone(i, failed)
    <2>1. UNCHANGED <<stored, failures>>
        BY <1>5 DEF Next, Internal, External, Stopped, vars, BuildChunk, Emission, EmitLost,
            EmitBeyond, EmitZeros, EmitChunk, ReadReturns, WriteReturns, EndReturns,
            Ran, RanThen, BatchSteps, Drain, DrainThen, UserCallbackStops, UserCallbackReturns,
            End, FileOpens, FileOpenFails, ReadEmits, ReadEnds, ReadFails, PipeWrites,
            PipeEnds, CommitDone, DestinationReady,
            Others, quietVars, resultVars
    <2> QED
        BY <1>2, <2>1
<1> QED
    BY <1>1, <1>3, <1>4, <1>5

LEMMA ReadyMoves ==
    ASSUME [Next]_vars, ready = "yes"
    PROVE  ready' = "yes"
<1>1. ~DestinationReady
    BY DEF DestinationReady
<1> QED
    BY <1>1 DEF Next, Internal, External, Stopped, vars, BuildChunk, Emission, EmitLost,
       EmitBeyond, EmitZeros, EmitChunk, ReadReturns, WriteReturns, EndReturns, BatchRuns,
       Ran, RanThen, BatchSteps, Drain, DrainThen, UserCallbackStops, UserCallbackReturns,
       End, FileOpens, FileOpenFails, ReadEmits, ReadEnds, ReadFails, PipeWrites, PipeEnds,
       CommitDone, RequestDone,
       Others, quietVars

LEMMA StoredStep ==
    ASSUME WholeInv, StoredInv, [Next]_vars
    PROVE  StoredInv'
<1>1. /\ FailInv /\ Total \in Nat /\ Len(stack) \in Nat
    BY WholeParts, TotalFacts
<1>2. /\ \A n \in 1..Total : Moves(n)
      /\ \/ Total' = Total
         \/ EmitChunk /\ Total' = Total + 1 /\ status'[Total + 1] = "queued"
      /\ stored \subseteq stored' /\ failures \subseteq failures'
    BY StatusMoves, ResultMoves
<1>3. ASSUME NEW i \in 1..Total
      PROVE  i \in stored' \/ i \in failures' \/ status'[i] \in {"queued", "running"}
    <2>1. CASE i \in stored \/ i \in failures
        BY <1>2, <2>1
    <2>2. CASE Settles(i)
        <3>1. CASE Random!Running("succeed")
            <4>1. Len(stack) \in 1..Len(stack) /\ stack[Len(stack)] = Random!Top
                BY <1>1, <3>1, EmptySeq, WholeParts DEF Random!Running, Random!Top, BatchTypes
            <4> QED
                BY <1>2, <2>2, <3>1, <4>1 DEF StoredInv, Settles, Random!Running
        <3>2. CASE Random!Running("fail")
            BY <1>1, <1>2, <2>2, <3>2 DEF FailInv, Settles
        <3> QED
            BY <2>2, <3>1, <3>2 DEF Settles
    <2>3. CASE i \notin stored /\ i \notin failures /\ ~Settles(i)
        <3>1. status[i] \in {"queued", "running"}
            BY <2>3 DEF StoredInv
        <3> QED
            BY <1>2, <2>3, <3>1 DEF Moves
    <2> QED
        BY <2>1, <2>2, <2>3
<1>4. \A i \in 1..Total' : i \in stored' \/ i \in failures' \/ status'[i] \in {"queued", "running"}
    BY <1>1, <1>2, <1>3
<1>5. ASSUME NEW n \in 1..Len(stack'), stack'[n].pc = "succeed"
      PROVE  stack'[n].op \in stored'
    <2>1. CASE n \in 1..Len(stack) /\ stack'[n] = stack[n]
        BY <1>2, <1>5, <2>1 DEF StoredInv
    <2>2. CASE Begins(stack'[n])
        <3>1. RequestDone(stack'[n].op, FALSE)
            BY <1>5, <2>2 DEF Begins, Plain
        <3> QED
            BY <3>1 DEF RequestDone
    <2> QED
        BY <2>1, <2>2, FrameMoves
<1> QED
    BY <1>4, <1>5 DEF StoredInv

LEMMA ErrorStep ==
    ASSUME WholeInv, ErrorInv, [Next]_vars
    PROVE  ErrorInv'
<1>1. FailInv
    BY WholeParts
<1>2. /\ \A n \in 1..Total : Moves(n)
      /\ error => error'
      /\ \A i \in failures' \ failures : status'[i] \in {"queued", "running"}
      /\ failures \subseteq 1..Total
    BY StatusMoves, ResultMoves
<1>3. ASSUME NEW i \in failures, ~error
      PROVE  status'[i] \in {"queued", "running"} \/ error'
    <2>1. status[i] \in {"queued", "running"} /\ Moves(i)
        BY <1>2, <1>3 DEF ErrorInv
    <2>2. Settles(i) => error'
        BY <1>1, <1>3 DEF Settles, FailInv
    <2> QED
        BY <2>1, <2>2 DEF Moves
<1> QED
    BY <1>2, <1>3 DEF ErrorInv

(* What is beyond the length of the upload, or all there is, stays so.      *)
LEMMA DeliveredStays ==
    ASSUME WholeInv, WholeInv', ControlInv, ShapeInv, FlowInv, [Next]_vars
    PROVE  /\ Beyond => Beyond'
           /\ Delivered => Delivered'
           /\ Sent = upload.size => ~Emission
<1>1. /\ TypesInv /\ upload' = upload /\ offset \in Int /\ upload.limit \in Nat
      /\ Sent \in Int /\ Size(TopOut) \in Int /\ Given <= upload.size /\ upload.size \in Nat
      /\ Size(buffer.run) \in Int /\ Size(FirstLeft) \in Int /\ Given \in Int
    BY SentMoves, WholeParts, FlowTypes
<1>2. Emission => /\ Size(Top.out.run) > 0 /\ TopOut = Top.out.run
                  /\ offset' = offset \/ offset' = offset + Size(Top.out.run)
    BY EmitFlows, EmittedCalls DEF Emission, EmitLost, EmitBeyond, EmitZeros, EmitChunk
<1>3. Sent = upload.size => ~Emission
    <2>1. Chain(Sent, TopOut, buffer.run, FirstLeft, Given)
        BY DEF FlowInv, Flow
    <2> QED
        BY <1>1, <1>2, <2>1 DEF Chain
<1>4. Beyond => Beyond'
    <2>1. offset' = offset \/ (Emission /\ Size(TopOut) > 0 /\ offset' = offset + Size(TopOut))
        BY <1>2, SentMoves
    <2>2. offset' \in Int /\ offset' >= offset
        BY <1>1, <2>1
    <2> QED
        BY <1>1, <2>2 DEF Beyond
<1>5. Sent = upload.size => Sent' = upload'.size
    BY <1>1, <1>3, SentMoves
<1> QED
    BY <1>3, <1>4, <1>5 DEF Delivered

LEMMA EndStep ==
    ASSUME WholeInv, WholeInv', ControlInv, ShapeInv, FlowInv, ErrorInv, EndInv, [Next]_vars
    PROVE  EndInv'
<1>1. /\ TypesInv /\ UploadInv /\ SourceShape /\ BatchTypes /\ StackInv /\ upload' = upload
      /\ Len(calls) \in Nat
    BY WholeParts, SentMoves, FlowTypes
<1>2. (error => error') /\ (Beyond => Beyond')
    BY StatusMoves, DeliveredStays
<1> SUFFICES ASSUME NEW n \in 1..Len(calls'), calls'[n].then = "end"
             PROVE  error' \/ Beyond' \/ Sent' + Size(TopOut') = upload.size
    BY <1>1 DEF EndInv
<1>3. ASSUME n \in 1..Len(calls), calls[n].then = "end", Sent' + Size(TopOut') = Sent + Size(TopOut)
      PROVE  error' \/ Beyond' \/ Sent' + Size(TopOut') = upload.size
    BY <1>2, <1>3 DEF EndInv
<1>4. CASE BuildChunk
    <2>1. Len(calls) = 1 /\ calls # <<>> /\ Top.then # "end"
        BY <1>4, BuildFlows
    <2>2. Len(calls') = Len(calls) /\ calls'[1].then = calls[1].then
        BY <1>1, <1>4, <2>1, TouchedCalls
    <2>3. Top = calls[1] /\ n = 1
        BY <1>1, <2>1, <2>2, FlowTypes
    <2> QED
        BY <2>1, <2>2, <2>3
<1>5. CASE EmitBeyond
    BY <1>2, <1>5 DEF EmitBeyond
<1>6. CASE EmitLost \/ EmitZeros \/ EmitChunk
    <2>1. Len(calls') = Len(calls) /\ \A m \in 1..Len(calls) : calls'[m].then = calls[m].then
        BY <1>1, <1>6, TouchedCalls
    <2>2. Sent' = Sent + Size(TopOut) /\ TopOut' = Nothing
        BY <1>6, EmitFlows DEF Emission
    <2>3. Sent' + Size(TopOut') = Sent + Size(TopOut)
        BY <1>1, <2>2, FlowTypes, EmptyRuns
    <2> QED
        BY <1>3, <2>1, <2>3
<1>7. CASE ReadReturns \/ WriteReturns \/ EndReturns
    <2>1. Sent' = Sent /\ TopOut = Nothing /\ TopOut' = Nothing
        BY <1>7, ReturnFlows
    <2>2. /\ Len(calls') = Len(calls) - 1 /\ Len(calls) \in Nat \ {0}
          /\ \A m \in 1..(Len(calls) - 1) : calls'[m] = calls[m]
        BY <1>1, <1>7, ReturnedCalls DEF ReadReturns, WriteReturns, EndReturns
    <2> QED
        BY <1>3, <2>1, <2>2
<1>8. CASE ReadEmits \/ PipeWrites
    <2>1. CASE ReadEmits
        <3>1. PICK left, out : calls' = <<Call(left, out, "read")>>
            BY <2>1 DEF ReadEmits
        <3> QED
            BY <3>1 DEF Call
    <2>2. CASE PipeWrites
        <3>1. calls = <<>>
            BY <2>2, WriteFlows
        <3>2. PICK c : calls' = Append(calls, c) /\ c.then = "write"
            <4>1. \A left : [Call(NoData, NoData, "write") EXCEPT !.left = left].then = "write"
                BY DEF Call
            <4> QED
                BY <2>2, <4>1 DEF PipeWrites
        <3>3. calls' = <<c>>
            BY <3>1, <3>2
        <3>4. calls'[n] = c
            BY <3>3
        <3> QED
            BY <3>2, <3>4
    <2> QED
        BY <1>8, <2>1, <2>2
<1>9. CASE (ReadEnds /\ ~sourceEnded) \/ PipeEnds
    <2>1. /\ Sent' = Sent /\ TopOut' = buffer.run /\ Given = position /\ TopOut = Nothing
          /\ FirstLeft = Nothing
        BY <1>9, EndFlows
    <2>2. position = upload.size
        <3>1. CASE PipeEnds
            BY <3>1 DEF PipeEnds
        <3>2. CASE ReadEnds
            <4>1. 0 = Smaller(upload.piece, upload.size - Head(reads).at) /\ reads # <<>>
                BY <3>2 DEF ReadEnds, ReadGets
            <4>2. Head(reads).at = position
                <5>1. Len(reads) \in {0, 1} /\ (reads = <<>> <=> Len(reads) = 0)
                    BY <1>1, ReadsFacts DEF SourceShape
                <5>2. Head(reads) = reads[1] /\ 1 \in 1..Len(reads)
                    BY <4>1, <5>1
                <5> QED
                    BY <1>1, <5>2 DEF SourceShape, OneRead
            <4>3. upload.piece \in Nat \ {0} /\ position \in 0..upload.size /\ upload.size \in Nat
                BY <1>1, UploadFacts DEF TypesInv, SourceTypes
            <4> QED
                BY <4>1, <4>2, <4>3 DEF Smaller
        <3> QED
            BY <1>9, <3>1, <3>2
    <2>3. Sent + Size(buffer.run) = Given
        <3>1. Chain(Sent, Nothing, buffer.run, Nothing, Given)
            BY <2>1 DEF FlowInv, Flow
        <3>2. Sent \in Int /\ Size(buffer.run) \in Int
            BY <1>1, FlowTypes
        <3> QED
            BY <3>1, <3>2, EmptyRuns DEF Chain
    <2> QED
        BY <2>1, <2>2, <2>3
<1>10. CASE UserCallbackStops
    <2>1. /\ stack # <<>> /\ Random!Top.pc = "userCallback" /\ Random!Top.op \in failures
          /\ error' = error
        BY <1>10 DEF UserCallbackStops, Random!Running, batchVars
    <2>2. status[Random!Top.op] \in {"callback", "error"}
        BY <1>1, <2>1, TopFacts DEF FrameOK
    <2> QED
        BY <2>1, <2>2 DEF ErrorInv
<1>11. CASE \/ FileOpens \/ FileOpenFails \/ ReadFails \/ (ReadEnds /\ sourceEnded)
            \/ DestinationReady \/ CommitDone
            \/ BatchRuns \/ Ran \/ BatchSteps \/ Drain \/ UserCallbackReturns \/ End
            \/ \E i \in 1..Total, failed \in BOOLEAN : RequestDone(i, failed)
            \/ UNCHANGED vars
    <2>1. calls' = calls /\ Sent' = Sent /\ TopOut' = TopOut
        BY <1>11, OtherFlows
    <2> QED
        BY <1>3, <2>1
<1> QED
    BY <1>4, <1>5, <1>6, <1>7, <1>8, <1>9, <1>10, <1>11
       DEF Next, Internal, External, Stopped, Emission

LEMMA DoneStep ==
    ASSUME WholeInv, WholeInv', ControlInv, ShapeInv, FlowInv, EndInv, DoneInv, [Next]_vars
    PROVE  DoneInv'
<1>1. UploadInv /\ TypesInv /\ upload' = upload
    BY WholeParts, SentMoves
<1>2. (error => error') /\ (Delivered => Delivered')
    BY StatusMoves, DeliveredStays
<1>3. CASE completing
    BY <1>2, <1>3 DEF DoneInv
<1>4. CASE EndReturns
    <2>1. /\ calls # <<>> /\ Top = calls[Len(calls)] /\ Top.then = "end" /\ Len(calls) \in Nat \ {0}
        BY <1>1, <1>4, ReturnedCalls DEF EndReturns
    <2>2. error \/ Beyond \/ Sent + Size(TopOut) = upload.size
        BY <2>1 DEF EndInv
    <2>3. TopOut = Nothing /\ Sent \in Int
        BY <1>1, <1>4, ReturnFlows, FlowTypes
    <2>4. error \/ Delivered
        BY <2>2, <2>3, EmptyRuns DEF Delivered
    <2> QED
        BY <1>2, <2>4 DEF DoneInv
<1>5. CASE ~completing /\ ~EndReturns
    <2>1. UploadInv /\ BatchTypes /\ StackInv
        BY WholeParts
    <2>2. CASE UNCHANGED batchVars
        BY <1>5, <2>2 DEF batchVars, DoneInv
    <2>3. CASE BatchSteps
        <3>1. completing' = completing
            BY <2>1, <2>3, StepStacks, SettleStacks, FireStacks DEF Random!batch
        <3> QED
            BY <1>5, <3>1 DEF DoneInv
    <2>4. CASE BatchRuns \/ UserCallbackReturns \/ Drain \/ End
        BY <1>5, <2>4, RunStacks, ReturnStacks, DrainStacks, EndStacks DEF DoneInv, Random!batch
    <2>5. CASE Ran
        BY <1>5, <2>5 DEF Ran, RanThen, Random!Ran, DoneInv
    <2>6. CASE EmitChunk
        BY <1>5, <2>6 DEF EmitChunk, Random!AddOperation, Random!AddOperationAs, DoneInv
    <2>7. CASE \E i \in 1..Total, failed \in BOOLEAN : RequestDone(i, failed)
        BY <1>5, <2>7 DEF RequestDone, Random!RequestDone, Random!RequestDoneIn, Random!batch, DoneInv
    <2>8. CASE Internal
        BY <1>5, <2>2, <2>3, <2>4, <2>5, <2>6, <2>8
           DEF Internal, BuildChunk, Emission, EmitLost, EmitBeyond, EmitZeros, ReadReturns,
               WriteReturns, UserCallbackStops
    <2>9. CASE External
        BY <2>2, <2>7, <2>9
           DEF External, FileOpens, FileOpenFails, ReadEmits, ReadEnds, ReadFails,
              PipeWrites, PipeEnds, DestinationReady,
               CommitDone
    <2> QED
        BY <2>2, <2>8, <2>9 DEF Next, Stopped, vars
<1> QED
    BY <1>3, <1>4, <1>5

LEMMA ErrorType ==
    ASSUME WholeInv
    PROVE  error \in BOOLEAN
    BY WholeParts DEF BatchTypes

LEMMA FulfilledStays ==
    ASSUME WholeInv, WholeInv', ControlInv, ShapeInv, FlowInv, Fulfilled, [Next]_vars
    PROVE  Fulfilled'
<1>1. ready' = "yes" /\ Delivered' /\ Total \in Nat
    BY ReadyMoves, DeliveredStays, WholeParts, TotalFacts DEF Fulfilled
<1>2. /\ \A n \in 1..Total : Moves(n) /\ status[n] = "complete"
      /\ ~error /\ error' => Random!Top.op \in 1..Total /\ status[Random!Top.op] \in {"queued", "running"}
      /\ ~error
      /\ \/ Total' = Total
         \/ EmitChunk
    BY StatusMoves DEF Fulfilled
<1>3. ~error' /\ error' \in BOOLEAN
    <2>1. (WholeInv => error \in BOOLEAN)'
        BY ErrorType, PTL
    <2> QED
        BY <1>2, <2>1
<1>4. ~EmitChunk
    BY DeliveredStays DEF Fulfilled, Delivered, EmitChunk, Emission
<1>5. \A n \in 1..Total' : status'[n] = "complete"
    BY <1>2, <1>4 DEF Moves, Settles
<1> QED
    BY <1>1, <1>3, <1>5 DEF Fulfilled

LEMMA SuccessStep ==
    ASSUME WholeInv, WholeInv', ControlInv, ShapeInv, FlowInv, EarlyInv, DoneInv, SuccessInv,
           [Next]_vars
    PROVE  SuccessInv'
<1>1. /\ BatchTypes /\ StackInv /\ CountsInv /\ TypesInv /\ committing \in Nat
      /\ answers \in Seq({"success", "error"}) /\ Len(stack) \in Nat
    BY WholeParts, TotalFacts DEF ResultTypes
<1>2. /\ error => error'
      /\ Fulfilled => Fulfilled'
    BY StatusMoves, FulfilledStays
<1>3. ASSUME NEW outcome, Answer(outcome), "success" \in ToSet(answers')
      PROVE  outcome = "success" \/ "success" \in ToSet(answers)
    <2>1. answers' = Append(answers, outcome)
        BY <1>3 DEF Answer
    <2>2. PICK m \in 1..Len(answers') : answers'[m] = "success"
        BY <1>3 DEF ToSet
    <2>3. CASE m = Len(answers) + 1
        BY <1>1, <2>1, <2>2, <2>3
    <2>4. CASE m # Len(answers) + 1
        <3>1. m \in 1..Len(answers) /\ answers[m] = "success"
            BY <1>1, <2>1, <2>2, <2>4
        <3> QED
            BY <3>1 DEF ToSet
    <2> QED
        BY <2>3, <2>4
<1>4. ASSUME committing' > 0 \/ "success" \in ToSet(answers')
      PROVE  Fulfilled
    <2>1. committing > 0 \/ "success" \in ToSet(answers) => Fulfilled
        BY DEF SuccessInv
    <2>2. CASE DestinationReady
        <3>1. committing' = committing /\ (answers' = answers \/ Answer("error"))
            BY <2>2 DEF DestinationReady
        <3>2. CASE Answer("error")
            BY <1>3, <1>4, <2>1, <3>1, <3>2
        <3> QED
            BY <1>4, <2>1, <3>1, <3>2
    <2>3. CASE CommitDone
        BY <2>1, <2>3 DEF CommitDone
    <2>4. CASE End
        <3>1. stack # <<>> /\ Random!Top.pc = "onEnd"
            BY <2>4, EndStacks
        <3>2. Len(stack) \in 1..Len(stack) /\ stack[Len(stack)].pc = "onEnd"
            BY <1>1, <3>1, EmptySeq DEF Random!Top, BatchTypes
        <3>3. error \/ Fulfilled
            BY <3>2 DEF SuccessInv
        <3>4. CASE error
            <4>1. committing' = committing /\ Answer("error")
                BY <2>4, <3>4 DEF End
            <4> QED
                BY <1>3, <1>4, <2>1, <4>1
        <3> QED
            BY <3>3, <3>4
    <2>5. CASE ~DestinationReady /\ ~CommitDone /\ ~End
        <3>1. UNCHANGED <<committing, answers>>
            BY <2>5 DEF Next, Internal, External, Stopped, vars, BuildChunk, Emission, EmitLost,
               EmitBeyond, EmitZeros, EmitChunk, ReadReturns, WriteReturns, EndReturns, BatchRuns,
               Ran, RanThen, BatchSteps, Drain, DrainThen, UserCallbackStops, UserCallbackReturns,
               FileOpens, FileOpenFails, ReadEmits, ReadEnds, ReadFails, PipeWrites,
               PipeEnds, RequestDone,
               Others, quietVars, resultVars
        <3> QED
            BY <1>4, <2>1, <3>1
    <2> QED
        BY <2>2, <2>3, <2>4, <2>5
<1>5. ASSUME NEW n \in 1..Len(stack'), stack'[n].pc = "onEnd"
      PROVE  error' \/ Fulfilled'
    <2>1. CASE n \in 1..Len(stack) /\ stack'[n] = stack[n]
        BY <1>2, <1>5, <2>1 DEF SuccessInv
    <2>2. CASE Begins(stack'[n])
        <3>1. Random!Complete /\ BatchSteps
            BY <1>5, <2>2 DEF Begins, Plain
        <3>2. stack # <<>>
            BY <1>1, <3>1, StepStacks
        <3>3. ready = "yes"
            BY <3>2 DEF EarlyInv
        <3>4. \A i \in 1..Total : status[i] = "complete"
            <4>1. Len(operations) = 0
                BY <3>1 DEF Random!Complete
            <4>2. IsFiniteSet(Unfinished) /\ Cardinality(Unfinished) = 0
                BY <1>1, <4>1, CountedFinite DEF CountsInv
            <4>3. Unfinished = {}
                BY <4>2, FS_EmptySet
            <4> QED
                BY <4>3 DEF Unfinished
        <3>5. error \/ Delivered
            BY <3>1 DEF Random!Complete, DoneInv
        <3> QED
            BY <1>2, <3>3, <3>4, <3>5 DEF Fulfilled
    <2> QED
        BY <2>1, <2>2, FrameMoves
<1> QED
    BY <1>2, <1>4, <1>5 DEF SuccessInv

WholeDataInv ==
    /\ EarlyInv /\ SmallInv /\ KeptInv /\ LedgerInv
    /\ StoredInv /\ ErrorInv /\ EndInv /\ DoneInv /\ SuccessInv

LEMMA WholeDataInit ==
    ASSUME Init
    PROVE  WholeDataInv
<1>1. /\ status = <<>> /\ stack = <<>> /\ failures = {} /\ calls = <<>> /\ buffer = NoData
      /\ position = 0 /\ offset = 0 /\ completing = FALSE /\ committing = 0 /\ answers = <<>>
      /\ Local => ready = "yes"
      /\ ~Local => held
    BY DEF Init
<1>2. TypesInv
    BY InitTypes
<1>3. TopOut = Nothing /\ FirstLeft = Nothing /\ Given = 0 /\ Sent = 0
    BY <1>1, EmptyRuns DEF TopOut, FirstLeft, Given, Sent
<1>4. upload.limit \in Nat /\ upload.piece \in Nat \ {0}
    BY <1>2, FlowTypes
<1>5. Total = 0 /\ Len(stack) = 0 /\ Len(calls) = 0 /\ ToSet(answers) = {}
    <2>1. Len(<<>>) = 0
        OBVIOUS
    <2>2. Total = Len(status)
        BY DEF Total
    <2>3. ToSet(answers) = {answers[n] : n \in DOMAIN answers}
        BY DEF ToSet
    <2>4. DOMAIN <<>> = {}
        OBVIOUS
    <2>5. ToSet(answers) = {}
        BY <1>1, <2>3, <2>4
    <2> QED
        BY <1>1, <2>1, <2>2, <2>5
<1>6. EarlyInv /\ SmallInv /\ KeptInv
    BY <1>1, <1>3, <1>4, EmptyRuns DEF EarlyInv, SmallInv, KeptInv
<1>7. LedgerInv
    <2>1. Within = 0
        BY <1>1, <1>4 DEF Within, Smaller
    <2> QED
        BY <1>5, <2>1 DEF LedgerInv
<1>8. StoredInv /\ ErrorInv /\ EndInv /\ DoneInv /\ SuccessInv
    BY <1>1, <1>5 DEF StoredInv, ErrorInv, EndInv, DoneInv, SuccessInv
<1> QED
    BY <1>6, <1>7, <1>8 DEF WholeDataInv

LEMMA WholeDataInvariant == Spec => [](DataInv /\ WholeDataInv)
<1>1. Init => WholeDataInv
    BY WholeDataInit
<1>2. DataInv /\ WholeInv' /\ WholeDataInv /\ [Next]_vars => WholeDataInv'
    <2> SUFFICES ASSUME DataInv, WholeInv', WholeDataInv, [Next]_vars
                 PROVE  WholeDataInv'
        OBVIOUS
    <2>1. WholeInv /\ ControlInv /\ ShapeInv /\ FlowInv
        BY DEF DataInv
    <2>2. /\ EarlyInv /\ SmallInv /\ KeptInv /\ LedgerInv
          /\ StoredInv /\ ErrorInv /\ EndInv /\ DoneInv /\ SuccessInv
        BY DEF WholeDataInv
    <2>3. EarlyInv'
        BY <2>1, <2>2, EarlyStep
    <2>4. SmallInv'
        BY <2>1, <2>2, SmallStep
    <2>5. KeptInv'
        BY <2>1, <2>2, KeptStep
    <2>6. LedgerInv'
        BY <2>1, <2>2, <2>5, LedgerStep
    <2>7. StoredInv' /\ ErrorInv'
        BY <2>1, <2>2, StoredStep, ErrorStep
    <2>8. EndInv' /\ DoneInv'
        BY <2>1, <2>2, EndStep, DoneStep
    <2>9. SuccessInv'
        BY <2>1, <2>2, SuccessStep
    <2> QED
        BY <2>3, <2>4, <2>5, <2>6, <2>7, <2>8, <2>9 DEF WholeDataInv
<1>3. DataInv => WholeInv
    BY DEF DataInv
<1> QED
    BY <1>1, <1>2, <1>3, DataInvariant, PTL DEF Spec

LEMMA WholeWhenSuccessful ==
    ASSUME DataInv, WholeDataInv, StartsSmall(upload)
    PROVE  SuccessIsWhole
<1> SUFFICES ASSUME "success" \in ToSet(answers)
             PROVE  /\ \A i \in 1..Total : InPlace(i)
                    /\ \A i \in 1..(Total - 1) : assigned[i].run.last < assigned[i + 1].run.first
                    /\ 1..Expected \ UNION {Units(assigned[i].run) : i \in 1..Total}
                          \subseteq (IF upload.kind \in {"page", "file"} THEN upload.zeros ELSE {})
                    /\ Total > 0 => assigned[Total].run.last <= Expected
    BY DEF SuccessIsWhole
<1>1. Fulfilled
    BY DEF WholeDataInv, SuccessInv
<1>2. /\ \A i \in 1..Total : /\ assigned[i].run.first = assigned[i].start + 1
                             /\ Size(assigned[i].run) > 0
                             /\ assigned[i].run.last <= Within
      /\ \A i \in 1..(Total - 1) : assigned[i].run.last < assigned[i + 1].run.first
      /\ \A u \in 1..Within : u \in Skips \/ \E i \in 1..Total : u \in Units(assigned[i].run)
    BY DEF WholeDataInv, LedgerInv
<1>3. \A i \in 1..Total : i \in stored
    BY <1>1 DEF Fulfilled, WholeDataInv, StoredInv, ErrorInv
<1>4. Within = Expected
    <2>1. TypesInv /\ Sent \in Int /\ Given \in Int /\ Given <= upload.size /\ upload.limit \in Nat
          /\ upload.size \in Nat /\ offset = Sent
          /\ Size(TopOut) \in Int /\ Size(buffer.run) \in Int /\ Size(FirstLeft) \in Int
        BY WholeParts, FlowTypes DEF DataInv, WholeDataInv, KeptInv
    <2>2. Sent <= Given /\ Sent >= 0
        BY <2>1 DEF DataInv, FlowInv, Flow, Chain
    <2>3. Beyond \/ Sent = upload.size
        BY <1>1 DEF Fulfilled, Delivered
    <2> QED
        BY <2>1, <2>2, <2>3 DEF Within, Expected, Beyond, Smaller
<1>5. \A u \in 1..Expected : \/ u \in (IF upload.kind \in {"page", "file"} THEN upload.zeros ELSE {})
                             \/ u \in UNION {Units(assigned[i].run) : i \in 1..Total}
    BY <1>2, <1>4 DEF Skips
<1>6. Total > 0 => assigned[Total].run.last <= Expected
    <2>1. Total \in Nat
        BY WholeParts, TotalFacts DEF DataInv
    <2> QED
        BY <1>2, <1>4, <2>1
<1> QED
    BY <1>2, <1>3, <1>5, <1>6 DEF InPlace

(* Every upload that starts with less than a chunk, or from a local file,   *)
(* or with zeros in a file, and that reports success has stored each unit of *)
(* its source at its place.                                                 *)
THEOREM UploadSuccessIsWhole ==
    ASSUME \A u \in Uploads : StartsSmall(u)
    PROVE  Spec => []SuccessIsWhole
<1>1. DataInv /\ WholeDataInv => SuccessIsWhole
    <2>1. DataInv => StartsSmall(upload)
        BY WholeParts DEF DataInv, SourceTypes
    <2> QED
        BY <2>1, WholeWhenSuccessful
<1> QED
    BY <1>1, WholeDataInvariant, PTL

(* Every upload commits only what was stored whole: when the list of blocks *)
(* or the MD5 is sent each chunk was stored, none of them failed, and none  *)
(* is waiting for its request or its user callback.                         *)
THEOREM UploadCommitsWhole == Spec => []CommitIsWhole
<1>1. DataInv /\ WholeDataInv => CommitIsWhole
    <2> SUFFICES ASSUME DataInv, WholeDataInv, committing > 0
                 PROVE  failures = {} /\ stored = 1..Total /\ InFlight = {}
        BY DEF CommitIsWhole
    <2>1. ~error /\ \A i \in 1..Total : status[i] = "complete"
        BY DEF WholeDataInv, SuccessInv, Fulfilled
    <2>2. failures \subseteq 1..Total /\ stored \subseteq 1..Total
        BY WholeParts DEF DataInv, TypesInv, ResultTypes, BatchTypes
    <2>3. failures = {}
        BY <2>1, <2>2 DEF WholeDataInv, ErrorInv
    <2>4. \A i \in 1..Total : i \in stored
        BY <2>1, <2>3 DEF WholeDataInv, StoredInv
    <2> QED
        BY <2>1, <2>2, <2>3, <2>4 DEF InFlight
<1> QED
    BY <1>1, WholeDataInvariant, PTL

NoneRunning == \A i \in 1..Total : status[i] # "running"
Cutting == calls # <<>> /\ ready = "yes" /\ ~Beyond
Full == Size(TopOut) > 0 \/ Size(buffer.run) + Size(FirstLeft) >= upload.chunk
Orderly == InOrder /\ upload.piece <= upload.chunk /\ ~error
MayGive == IF Local THEN reads # <<>> \/ fd = "opening" ELSE ~awaiting /\ ~sourceEnded /\ ~unpiped

HeavyInv == InOrder /\ active > 0 => held
SleepInv == InOrder /\ ~error /\ Local /\ reads # <<>> => calls = <<>>
LoneInv == ~error /\ ~Beyond => Len(calls) <= 1
GiveInv == Orderly /\ calls = <<>> /\ MayGive => NoneRunning
CutInv ==
    Orderly /\ Cutting =>
        /\ Full => NoneRunning
        /\ Size(TopOut) + Size(buffer.run) + Size(FirstLeft) < 2 * upload.chunk
        /\ Size(TopOut) > 0 /\ calls[1].then # "end" => Size(TopOut) >= upload.chunk
RunInv == Orderly /\ Random!Running("run") => NoneRunning /\ (Cutting => ~Full)
SingleInv ==
    InOrder /\ upload.piece <= upload.chunk =>
        \A i, j \in 1..Total : status[i] = "running" /\ status[j] = "running" => i = j

(* A request is started by _runOperation only, and _runOperation is called  *)
(* by addOperation only.                                                    *)
LEMMA RunMoves ==
    ASSUME WholeInv, [Next]_vars, ~BatchRuns, ~EmitChunk
    PROVE  /\ \A n \in 1..Total' : status'[n] = "running" =>
                 n \in 1..Total /\ status[n] = "running"
           /\ Random!Running("run")' => Random!Running("run") /\ UNCHANGED batchVars
<1>1. /\ UploadInv /\ BatchTypes /\ StackInv /\ Total \in Nat /\ Total = Len(status)
      /\ stack \in Seq(Random!Frame) /\ Len(stack) \in Nat
    BY WholeParts, TotalFacts DEF BatchTypes
<1>2. CASE UNCHANGED batchVars
    BY <1>1, <1>2 DEF batchVars, Total, Random!Running, Random!Top
<1>3. "run" \notin Random!Suspended
    BY DEF Random!Suspended
<1>4. ASSUME stack' # <<>>, Random!Top'.pc # "run"
      PROVE  ~Random!Running("run")'
    BY <1>4 DEF Random!Running
<1>5. ASSUME stack # <<>>, stack' = Random!Caller
      PROVE  ~Random!Running("run")'
    <2>1. Random!Caller \in Seq(Random!Frame) /\ AllSuspended(Random!Caller)
        BY <1>1, <1>5, TopFacts
    <2>2. ~(stack' # <<>> /\ stack'[Len(stack')].pc = "run")
        BY <1>3, <1>5, <2>1, NotRunning
    <2> QED
        BY <2>2 DEF Random!Running, Random!Top
<1>6. ASSUME stack # <<>>, NEW pc \in {"tryEnd", "onEnd", "tryDrain"},
             stack' = Append(Random!Caller, Random!Call(pc, 0))
      PROVE  ~Random!Running("run")'
    <2>1. Random!Call(pc, 0) \in Random!Frame /\ Random!Call(pc, 0).pc = pc
        BY Pcs
    <2>2. stack' # <<>> /\ Random!Top' = Random!Call(pc, 0)
        BY <1>1, <1>6, <2>1, ReplacedTop
    <2> QED
        BY <1>4, <2>1, <2>2
<1>7. CASE BatchSteps
    <2>1. CASE Mode(Random!BatchOperationCallback, Ordered!BatchOperationCallback)
        <3>1. /\ stack # <<>> /\ stack' # <<>> /\ Len(status') = Total
              /\ \A n \in 1..Total : status'[n] = IF n = Random!Top.op
                    THEN IF ~InOrder /\ Random!Top.pc = "fail" THEN "error" ELSE "callback"
                    ELSE status[n]
              /\ Random!Top' = Random!Call("tryDrain", 0)
                   \/ Random!Top' = Random!Call("fire", Random!Top.op)
            BY <1>1, <2>1, SettleStacks
        <3>2. Random!Top.op \in Nat
            BY <1>1, <3>1, TopFacts
        <3>3. Random!Top'.pc # "run"
            BY <3>1, <3>2, Pcs
        <3> QED
            BY <1>1, <1>4, <3>1, <3>3 DEF Total
    <2>2. CASE Mode(Random!FireUserCallback, Ordered!FireUserCallback)
        <3>1. stack' # <<>> /\ Random!Top'.pc = "userCallback" /\ status' = status
            BY <1>1, <2>2, FireStacks DEF Random!batch
        <3> QED
            BY <1>1, <1>4, <3>1 DEF Total
    <2>3. CASE ~Mode(Random!BatchOperationCallback, Ordered!BatchOperationCallback)
                 /\ ~Mode(Random!FireUserCallback, Ordered!FireUserCallback)
        <3>1. /\ stack # <<>> /\ status' = status
              /\ \/ stack' = Random!Caller
                 \/ \E pc \in {"tryEnd", "onEnd", "tryDrain"} :
                       stack' = Append(Random!Caller, Random!Call(pc, 0))
            BY <1>1, <1>7, <2>3, StepStacks DEF Random!batch
        <3> QED
            BY <1>1, <1>5, <1>6, <3>1 DEF Total
    <2> QED
        BY <2>1, <2>2, <2>3
<1>8. CASE UserCallbackReturns
    <2>1. /\ Random!Top.op \in 1..Total /\ status' = [status EXCEPT ![Random!Top.op] = "complete"]
          /\ stack' # <<>> /\ Random!Top' = Random!Call("fire", 0)
        BY <1>8, ReturnStacks
    <2>2. "complete" \in Random!OperationState /\ status \in Seq(Random!OperationState)
        BY <1>1 DEF Random!OperationState, BatchTypes
    <2>3. /\ Len(status') = Len(status)
          /\ \A n \in 1..Len(status) : status'[n] = IF n = Random!Top.op THEN "complete" ELSE status[n]
        BY <2>1, <2>2, OverwriteSeq
    <2>4. Random!Top'.pc = "fire"
        BY <2>1, Pcs
    <2> QED
        BY <1>1, <1>4, <2>1, <2>3, <2>4 DEF Total
<1>9. CASE Ran \/ End
    <2>1. stack # <<>> /\ stack' = Random!Caller /\ status' = status
        BY <1>9, RanStacks, EndStacks DEF End, Random!ListenerReturns, Random!batch
    <2> QED
        BY <1>1, <1>5, <2>1 DEF Total
<1>10. CASE Drain
    <2>1. stack' # <<>> /\ Random!Top'.pc = "onDrain" /\ status' = status
        BY <1>10, DrainStacks DEF Random!batch
    <2> QED
        BY <1>1, <1>4, <2>1 DEF Total
<1>11. CASE EndReturns
    <2>1. CASE UNCHANGED batchVars
        BY <1>2, <2>1
    <2>2. CASE Random!EnableComplete(stack)
        <3>1. stack' = Append(stack, Random!Call("tryEnd", 0)) /\ status' = status
            BY <2>2 DEF Random!EnableComplete
        <3>2. Random!Call("tryEnd", 0) \in Random!Frame /\ Random!Call("tryEnd", 0).pc = "tryEnd"
            BY Pcs
        <3>3. stack' # <<>> /\ stack'[Len(stack')] = Random!Call("tryEnd", 0)
            BY <1>1, <3>1, <3>2, PushCall
        <3> QED
            BY <1>1, <1>4, <3>1, <3>2, <3>3 DEF Total, Random!Top
    <2> QED
        BY <1>11, <2>1, <2>2 DEF EndReturns
<1>12. ASSUME NEW i \in 1..Total, NEW failed \in BOOLEAN, RequestDone(i, failed)
       PROVE  status' = status /\ ~Random!Running("run")'
    <2> DEFINE f == Random!Call(IF failed THEN "fail" ELSE "succeed", i)
    <2>1. status' = status /\ stack' = Append(stack, f)
        BY <1>12 DEF RequestDone, EventLoop, Random!RequestDone, Random!RequestDoneIn, Random!batch
    <2>2. f \in Random!Frame /\ f.pc # "run"
        BY <1>1, TotalFacts, Pcs
    <2> HIDE DEF f
    <2>3. stack' # <<>> /\ stack'[Len(stack')] = f
        BY <1>1, <2>1, <2>2, PushCall
    <2> QED
        BY <1>4, <2>1, <2>2, <2>3 DEF Random!Top
<1>13. CASE Internal
    BY <1>2, <1>7, <1>8, <1>9, <1>10, <1>11, <1>13
       DEF Internal, BuildChunk, Emission, EmitLost, EmitBeyond, EmitZeros, ReadReturns,
           WriteReturns, UserCallbackStops
<1>14. CASE External
    BY <1>1, <1>2, <1>12, <1>14
       DEF External, FileOpens, FileOpenFails, ReadEmits, ReadEnds, ReadFails, PipeWrites,
          PipeEnds, DestinationReady,
           CommitDone, Total
<1>15. CASE UNCHANGED vars
    BY <1>2, <1>15 DEF vars
<1> QED
    BY <1>13, <1>14, <1>15 DEF Next, Stopped

(* No request is in progress when no chunk is counted and no addOperation   *)
(* is in progress.                                                          *)
LEMMA NothingRuns ==
    ASSUME WholeInv, StartInv, active <= 0,
           calls = <<>> \/ (Len(calls) = 1 /\ Calling)
    PROVE  NoneRunning
<1>1. /\ BatchTypes /\ CountsInv /\ TypesInv /\ HeightInv /\ Len(stack) \in Nat
      /\ Len(calls) \in Nat
    BY WholeParts, TotalFacts, CallKinds
<1>2. Starting(stack) = {}
    <2> SUFFICES ASSUME NEW n \in 1..Len(stack), Starts(stack[n].pc)
                 PROVE  FALSE
        BY DEF Starting
    <2>1. PICK m \in 1..Len(calls) : calls[m].height = n - 1
        BY DEF StartInv
    <2>2. calls # <<>>
        BY <2>1
    <2>3. Len(calls) = 1 /\ Calling
        BY <2>2
    <2>4. Top.height = Len(stack) /\ Top = calls[Len(calls)]
        BY <1>1, <2>2, <2>3, HeightFacts, TopCallFacts
    <2> QED
        BY <1>1, <2>1, <2>3, <2>4
<1>3. Cardinality(Starting(stack)) = 0
    BY <1>2, FS_EmptySet
<1>4. IsFiniteSet(Unfinished) /\ Cardinality(Unfinished) \in Nat
    BY <1>1, CountedFinite
<1>5. Cardinality(Unfinished) = 0
    BY <1>1, <1>3, <1>4 DEF CountsInv
<1>6. Unfinished = {}
    BY <1>4, <1>5, FS_EmptySet
<1> QED
    BY <1>6 DEF Unfinished, NoneRunning

LEMMA HeavyStep ==
    ASSUME WholeInv, EarlyInv, HeavyInv, [Next]_vars
    PROVE  HeavyInv'
<1>1. /\ BatchTypes /\ CountsInv /\ TypesInv /\ active \in Int /\ held \in BOOLEAN
      /\ ParallelOperationThreadCount \in Nat \ {0} /\ SharedRequest \in {1, 2}
    BY WholeParts, BatchConstants DEF BatchTypes, SourceTypes, TypesInv
<1>2. ASSUME upload' = upload, active' \in Int, active' <= active, held => held'
      PROVE  HeavyInv'
    BY <1>1, <1>2 DEF HeavyInv, InOrder
<1>3. ASSUME upload' = upload, active' \in Int, InOrder => active' <= 0
      PROVE  HeavyInv'
    BY <1>3 DEF HeavyInv, InOrder
<1>4. CASE Ran
    <2>1. /\ upload' = upload /\ active' = active + 1
          /\ \E lowMemory \in BOOLEAN :
                held' = (held \/ Mode(Random!IsWorkloadHeavy(active + 1, lowMemory),
                                      Ordered!IsWorkloadHeavy(active + 1, lowMemory)))
        BY <1>4, RanStacks DEF Ran, RanThen, quietVars
    <2>2. CASE InOrder /\ active + 1 > 0
        <3>1. \A lowMemory \in BOOLEAN : Ordered!IsWorkloadHeavy(active + 1, lowMemory)
            BY <1>1, <2>2 DEF Ordered!IsWorkloadHeavy
        <3>2. held'
            BY <2>1, <2>2, <3>1 DEF Mode
        <3> QED
            BY <3>2 DEF HeavyInv
    <2>3. CASE ~(InOrder /\ active + 1 > 0)
        BY <1>1, <1>3, <2>1, <2>3
    <2> QED
        BY <2>2, <2>3
<1>5. CASE Drain
    <2>1. upload' = upload /\ active' = active
        BY <1>5, DrainStacks DEF Drain, DrainThen, quietVars, Random!batch
    <2>2. ASSUME InOrder
          PROVE  active <= 0
        <3>1. \E lowMemory \in BOOLEAN : Ordered!ShouldDrain(lowMemory)
            BY <1>5, <2>2 DEF Drain, DrainThen, Mode, Ordered!EmitDrain
        <3> QED
            BY <1>1, <3>1 DEF Ordered!ShouldDrain, Ordered!IsWorkloadHeavy
    <2> QED
        BY <1>1, <1>3, <2>1, <2>2
<1>6. CASE DestinationReady
    <2>1. status = <<>> /\ stack = <<>> /\ ready = "no"
        BY <1>6 DEF DestinationReady, EarlyInv
    <2>2. Total = 0 /\ Len(stack) = 0
        BY <2>1, EmptySeq DEF Total
    <2>3. Unfinished = {} /\ Starting(stack) = {}
        BY <2>2 DEF Unfinished, Starting
    <2>4. active = 0
        BY <2>3, FS_EmptySet DEF CountsInv, WholeInv
    <2>5. upload' = upload /\ active' = active
        BY <1>6 DEF DestinationReady, batchVars
    <2> QED
        BY <1>1, <1>3, <2>4, <2>5
<1>7. CASE UserCallbackReturns
    <2>1. active' = active - 1 /\ upload' = upload /\ held' = held
        BY <1>7, ReturnStacks DEF quietVars, sourceVars
    <2> QED
        BY <1>1, <1>2, <2>1
<1>8. CASE BatchSteps
    <2>1. upload' = upload /\ held' = held
        BY <1>8 DEF BatchSteps, quietVars, sourceVars
    <2>2. active' = active
        BY <1>1, <1>8, WholeParts, StepStacks, SettleStacks, FireStacks DEF Random!batch
    <2> QED
        BY <1>1, <1>2, <2>1, <2>2
<1>9. CASE End
    <2>1. upload' = upload /\ held' = held /\ active' = active
        BY <1>9, EndStacks DEF End, sourceVars, Random!batch
    <2> QED
        BY <1>1, <1>2, <2>1
<1>10. CASE BatchRuns
    <2>1. upload' = upload /\ held' = held /\ active' = active
        BY <1>10, RunStacks DEF BatchRuns, quietVars, sourceVars
    <2> QED
        BY <1>1, <1>2, <2>1
<1>11. CASE UNCHANGED <<upload, held, active>>
    BY <1>1, <1>2, <1>11
<1>12. CASE BuildChunk \/ Emission \/ WriteReturns \/ EndReturns \/ UserCallbackStops \/ ReadReturns
    BY <1>11, <1>12 DEF BuildChunk, Emission, EmitLost, EmitBeyond, EmitZeros, EmitChunk,
       ReadReturns, WriteReturns, EndReturns, UserCallbackStops, Others, sourceVars, batchVars, Stop,
       Random!AddOperation, Random!AddOperationAs, Random!EnableComplete
<1>13. CASE External
    BY <1>6, <1>11, <1>13 DEF External, FileOpens, FileOpenFails, ReadEmits, ReadEnds,
       ReadFails, PipeWrites, PipeEnds,
       CommitDone, RequestDone, Others, sourceVars, batchVars, Random!RequestDone,
       Random!RequestDoneIn, Random!batch
<1>14. CASE UNCHANGED vars
    BY <1>11, <1>14 DEF vars, sourceVars, batchVars
<1> QED
    BY <1>4, <1>5, <1>7, <1>8, <1>9, <1>10, <1>12, <1>13, <1>14 DEF Next, Internal, Stopped

LEMMA LoneStep ==
    ASSUME WholeInv, WholeInv', ControlInv, ShapeInv, FlowInv, ErrorInv, LoneInv, [Next]_vars
    PROVE  LoneInv'
<1>1. /\ UploadInv /\ BatchTypes /\ StackInv /\ TypesInv /\ Len(calls) \in Nat
    BY WholeParts, CallKinds
<1>2. /\ error => error'
      /\ Beyond => Beyond'
    BY StatusMoves, DeliveredStays
<1>3. ASSUME Len(calls') \in Nat, Len(calls') <= Len(calls)
      PROVE  LoneInv'
    BY <1>1, <1>2, <1>3 DEF LoneInv
<1>4. ASSUME Len(calls') = 1
      PROVE  LoneInv'
    BY <1>4 DEF LoneInv
<1>5. CASE UserCallbackStops
    <2>1. Random!Top.op \in failures /\ Random!Running("userCallback") /\ stack # <<>>
        BY <1>5 DEF UserCallbackStops, Random!Running
    <2>2. status[Random!Top.op] \in {"callback", "error"}
        BY <1>1, <2>1, TopFacts DEF FrameOK, Random!Running, Random!Top
    <2>3. error
        BY <2>1, <2>2 DEF ErrorInv
    <2> QED
        BY <1>2, <2>3 DEF LoneInv
<1>6. CASE EmitBeyond
    <2>1. Beyond
        BY <1>6 DEF EmitBeyond
    <2> QED
        BY <1>2, <2>1 DEF LoneInv
<1>7. CASE BuildChunk \/ EmitLost \/ EmitZeros \/ EmitChunk
    BY <1>1, <1>3, <1>7, TouchedCalls
<1>8. CASE ReadReturns \/ WriteReturns \/ EndReturns
    BY <1>1, <1>3, <1>8, ReturnedCalls DEF ReadReturns, WriteReturns, EndReturns
<1>9. CASE ReadEmits
    BY <1>4, <1>9 DEF ReadEmits
<1>10. CASE (ReadEnds /\ ~sourceEnded) \/ PipeEnds
    BY <1>4, <1>10, EndFlows
<1>11. CASE PipeWrites
    <2>1. calls = <<>>
        BY <1>11, WritesAlone DEF ControlInv
    <2>2. \E c : calls' = Append(calls, c)
        BY <1>11 DEF PipeWrites
    <2>3. Len(calls') = 1
        BY <2>1, <2>2
    <2> QED
        BY <1>4, <2>3
<1>12. CASE calls' = calls
    BY <1>1, <1>3, <1>12
<1>13. CASE \/ FileOpens \/ FileOpenFails \/ ReadFails \/ (ReadEnds /\ sourceEnded)
            \/ DestinationReady \/ CommitDone
            \/ BatchRuns \/ Ran \/ BatchSteps \/ Drain \/ UserCallbackReturns \/ End
            \/ \E i \in 1..Total, failed \in BOOLEAN : RequestDone(i, failed)
            \/ UNCHANGED vars
    BY <1>12, <1>13, OtherFlows
<1> QED
    BY <1>5, <1>6, <1>7, <1>8, <1>9, <1>10, <1>11, <1>13
       DEF Next, Internal, External, Stopped, Emission

(* The user callback stops the stream only when the error has been noted.   *)
LEMMA StopsAfterError ==
    ASSUME WholeInv, ErrorInv, UserCallbackStops
    PROVE  error
<1>1. BatchTypes /\ StackInv
    BY WholeParts
<1>2. Random!Top.op \in failures /\ Random!Running("userCallback") /\ stack # <<>>
    BY DEF UserCallbackStops, Random!Running
<1>3. status[Random!Top.op] \in {"callback", "error"}
    BY <1>1, <1>2, TopFacts DEF FrameOK, Random!Running, Random!Top
<1> QED
    BY <1>2, <1>3 DEF ErrorInv

(* A read of the file of an append blob is started when no call of the      *)
(* stream is left: a block in progress holds the stream back.               *)
LEMMA SleepStep ==
    ASSUME WholeInv, ShapeInv, FlowInv, ErrorInv, SleepInv, [Next]_vars
    PROVE  SleepInv'
<1>1. /\ UploadInv /\ BatchTypes /\ StackInv /\ TypesInv /\ SourceShape /\ BatchShape
      /\ Len(calls) \in Nat /\ Len(reads) \in Nat /\ reads \in Seq(ReadSet)
    BY WholeParts, CallKinds DEF TypesInv, SourceTypes
<1>2. Len(reads) <= 1
    BY <1>1 DEF SourceShape, OneRead
<1>3. error => error'
    BY StatusMoves
<1>4. ASSUME calls' = calls, reads' = reads, upload' = upload
      PROVE  SleepInv'
    BY <1>3, <1>4 DEF SleepInv, InOrder, Local
<1>5. ASSUME calls # <<>>, reads' = reads, upload' = upload
      PROVE  SleepInv'
    BY <1>3, <1>5 DEF SleepInv, InOrder, Local
<1>6. CASE ReadEmits \/ ReadEnds
    <2>1. reads # <<>> /\ reads' = Tail(reads)
        BY <1>6 DEF ReadEmits, ReadEnds, ReadGets
    <2>2. reads' = <<>>
        BY <1>1, <1>2, <2>1
    <2> QED
        BY <2>2 DEF SleepInv
<1>7. CASE ReadReturns
    <2>1. calls # <<>> /\ Top = calls[Len(calls)] /\ Top.then = "read" /\ Len(calls) \in 1..Len(calls)
          /\ Len(calls') = Len(calls) - 1 /\ calls' = Front(calls)
        BY <1>1, <1>7, ReturnedCalls DEF ReadReturns, Returning
    <2>2. Len(calls) = 1
        BY <1>1, <2>1 DEF SourceShape, KindsInv
    <2>3. calls' \in Seq(CallSet)
        BY <1>1, <2>1, TopCallFacts
    <2>4. calls' = <<>>
        BY <2>1, <2>2, <2>3
    <2> QED
        BY <2>4 DEF SleepInv
<1>8. CASE Drain
    <2>1. /\ upload' = upload /\ calls' = calls /\ fd' = fd /\ stack # <<>> /\ sourceEnded' = sourceEnded
          /\ Random!Top.pc = "tryDrain"
          /\ EmitData(position) \/ reads' = reads
        BY <1>8, DrainStacks DEF Drain, DrainThen, quietVars
    <2>2. CASE reads' = reads
        BY <1>4, <2>1, <2>2
    <2>3. CASE calls # <<>> /\ InOrder /\ reads' # reads
        <3>1. fd = "open" /\ ~sourceEnded
            BY <2>1, <2>3 DEF EmitData
        <3>2. ReadCall
            BY <1>1, <2>3, <3>1, ReadingCalls DEF Reading
        <3>3. CallShape
            BY <1>1, <3>2 DEF BatchShape, CallInv
        <3> QED
            BY <2>1, <2>3, <3>3 DEF CallShape
    <2>4. CASE calls = <<>> \/ ~InOrder
        BY <2>1, <2>4 DEF SleepInv, InOrder
    <2> QED
        BY <2>2, <2>3, <2>4
<1>9. CASE FileOpens \/ FileOpenFails \/ ReadFails
    <2>1. calls' = <<>>
        BY <1>9 DEF FileOpens, FileOpenFails, ReadFails, EventLoop, chunkVars
    <2> QED
        BY <2>1 DEF SleepInv
<1>10. CASE PipeWrites \/ PipeEnds
    <2>1. ~Local /\ upload' = upload
        BY <1>10 DEF PipeWrites, PipeEnds, Others
    <2> QED
        BY <2>1 DEF SleepInv, Local
<1>11. CASE UserCallbackStops
    BY <1>3, <1>11, StopsAfterError DEF SleepInv
<1>12. CASE BuildChunk \/ Emission \/ WriteReturns \/ EndReturns
    <2>1. calls # <<>>
        BY <1>1, <1>12, TouchedCalls, StoppedCalls, ReturnedCalls, EmittedCalls
           DEF WriteReturns, EndReturns
    <2>2. reads' = reads /\ upload' = upload
        BY <1>12 DEF BuildChunk, Emission, EmitLost, EmitBeyond, EmitZeros, EmitChunk,
       WriteReturns, EndReturns, Others, sourceVars, Stop
    <2> QED
        BY <1>5, <2>1, <2>2
<1>13. CASE \/ DestinationReady \/ CommitDone \/ BatchRuns \/ Ran \/ BatchSteps
            \/ UserCallbackReturns \/ End
            \/ \E i \in 1..Total, failed \in BOOLEAN : RequestDone(i, failed)
            \/ UNCHANGED vars
    <2>1. reads' = reads /\ upload' = upload /\ calls' = calls
        BY <1>13 DEF DestinationReady, CommitDone, BatchRuns, Ran, RanThen, BatchSteps,
           UserCallbackReturns, End, RequestDone, quietVars, sourceVars, chunkVars, vars
    <2> QED
        BY <1>4, <2>1
<1> QED
    BY <1>6, <1>7, <1>8, <1>9, <1>10, <1>11, <1>12, <1>13 DEF Next, Internal, External, Stopped

LEMMA SingleStep ==
    ASSUME WholeInv, RunInv, SingleInv, [Next]_vars
    PROVE  SingleInv'
<1>1. upload' = upload
    BY DEF Next, Internal, External, Stopped, vars, Others, quietVars, BuildChunk, Emission, EmitLost,
       EmitBeyond, EmitZeros, EmitChunk, ReadReturns, WriteReturns, EndReturns, BatchRuns, Ran,
       RanThen, BatchSteps, Drain, DrainThen, UserCallbackStops, UserCallbackReturns, End,
       FileOpens, FileOpenFails,
       ReadEmits, ReadEnds, ReadFails, PipeWrites, PipeEnds, DestinationReady, CommitDone,
       RequestDone
<1> SUFFICES ASSUME InOrder, upload.piece <= upload.chunk,
                    NEW i \in 1..Total', NEW j \in 1..Total',
                    status'[i] = "running", status'[j] = "running"
             PROVE  i = j
    BY <1>1 DEF SingleInv, InOrder
<1>2. /\ Total \in Nat /\ Total = Len(status) /\ status \in Seq(Random!OperationState)
    BY WholeParts, TotalFacts DEF BatchTypes
<1>3. CASE BatchRuns
    <2>1. /\ Random!Top.op \in 1..Total /\ Random!Top.pc = "run" /\ stack # <<>>
          /\ \/ ~error /\ status' = [status EXCEPT ![Random!Top.op] = "running"]
             \/ status' = status
        BY <1>3, RunStacks
    <2>2. CASE status' = status
        BY <1>2, <2>2 DEF SingleInv, Total
    <2>3. CASE ~error /\ status' = [status EXCEPT ![Random!Top.op] = "running"]
        <3>1. NoneRunning
            BY <2>1, <2>3 DEF RunInv, Orderly, Random!Running
        <3>2. "running" \in Random!OperationState
            BY DEF Random!OperationState
        <3>3. /\ Len(status') = Total
              /\ \A n \in 1..Total : status'[n] = IF n = Random!Top.op THEN "running" ELSE status[n]
            BY <1>2, <2>3, <3>2, OverwriteSeq
        <3> QED
            BY <3>1, <3>3 DEF NoneRunning, Total
    <2> QED
        BY <2>1, <2>2, <2>3
<1>4. CASE EmitChunk
    <2>1. status' = Append(status, "queued")
        BY <1>4 DEF EmitChunk, Random!AddOperation, Random!AddOperationAs
    <2>2. "queued" \in Random!OperationState
        BY DEF Random!OperationState
    <2>3. /\ Len(status') = Total + 1 /\ status'[Total + 1] = "queued"
          /\ \A n \in 1..Total : status'[n] = status[n]
        BY <1>2, <2>1, <2>2, PushCall
    <2> QED
        BY <1>2, <2>3 DEF SingleInv, Total
<1>5. CASE ~BatchRuns /\ ~EmitChunk
    BY <1>5, RunMoves DEF SingleInv
<1> QED
    BY <1>3, <1>4, <1>5

LEMMA UploadStays ==
    ASSUME [Next]_vars
    PROVE  upload' = upload
BY DEF Next, Internal, External, Stopped, vars, Others, quietVars, BuildChunk, Emission, EmitLost,
       EmitBeyond, EmitZeros, EmitChunk, ReadReturns, WriteReturns, EndReturns, BatchRuns, Ran,
       RanThen, BatchSteps, Drain, DrainThen, UserCallbackStops, UserCallbackReturns, End,
       FileOpens, FileOpenFails,
       ReadEmits, ReadEnds, ReadFails, PipeWrites, PipeEnds, DestinationReady, CommitDone,
       RequestDone

(* A call of the chunk stream returns, and the source may give again.       *)
LEMMA ReturnsGive ==
    ASSUME WholeInv, StartInv, StoppedInv, HeavyInv, SleepInv, Orderly, calls' = <<>>, MayGive',
           ReadReturns \/ WriteReturns \/ EndReturns
    PROVE  NoneRunning
<1>1. /\ UploadInv /\ TypesInv /\ SourceShape /\ Len(calls) \in Nat /\ calls \in Seq(CallSet)
      /\ upload \in Scenario /\ active \in Int
    BY WholeParts, CallKinds, UploadFacts DEF BatchTypes
<1>2. /\ Calling /\ calls # <<>> /\ Top = calls[Len(calls)] /\ Len(calls) \in Nat \ {0}
      /\ Len(calls') = Len(calls) - 1
    BY <1>1, ReturnedCalls DEF ReadReturns, WriteReturns, EndReturns
<1>3. Len(calls) = 1 /\ Top = calls[1] /\ 1 \in 1..Len(calls)
    <2>1. Len(calls') = 0
        OBVIOUS
    <2>2. Len(calls) = 1
        BY <1>2, <2>1
    <2> QED
        BY <1>2, <2>2
<1>4. upload' = upload /\ fd' = fd /\ sourceEnded' = sourceEnded /\ unpiped' = unpiped /\ held' = held
    BY DEF ReadReturns, WriteReturns, EndReturns, Others, sourceVars
<1>5. fd # "opening"
    BY <1>1, <1>2 DEF SourceShape, OpeningInv
<1>6. Local => reads = <<>>
    BY <1>2 DEF SleepInv, Orderly
<1>7. CASE EndReturns
    <2>1. Top.then = "end" /\ reads' = reads
        BY <1>7 DEF EndReturns, Returning, sourceVars
    <2>2. ~Local => unpiped \/ sourceEnded
        BY <1>3, <2>1 DEF StoppedInv
    <2> QED
        BY <1>4, <1>5, <1>6, <2>1, <2>2 DEF MayGive, Local
<1>8. CASE ~held
    <2>1. active <= 0
        BY <1>1, <1>8 DEF HeavyInv, Orderly
    <2> QED
        BY <1>2, <1>3, <2>1, NothingRuns
<1>9. CASE WriteReturns /\ held
    <2>1. Top.then = "write" /\ awaiting' = held
        BY <1>9 DEF WriteReturns, Returning
    <2>2. ~Local
        BY <1>1, <1>3, <2>1 DEF SourceShape, KindsInv
    <2> QED
        BY <1>4, <1>9, <2>1, <2>2 DEF MayGive, Local
<1>10. CASE ReadReturns /\ held
    <2>1. Top.then = "read"
        BY <1>10 DEF ReadReturns, Returning
    <2>2. Local
        BY <1>1, <1>3, <2>1 DEF SourceShape, KindsInv
    <2>3. reads' = reads
        BY <1>4, <1>10 DEF ReadReturns, EmitData
    <2> QED
        BY <1>4, <1>5, <1>6, <2>2, <2>3 DEF MayGive, Local
<1> QED
    BY <1>7, <1>8, <1>9, <1>10

LEMMA GiveStep ==
    ASSUME WholeInv, WholeInv', ControlInv, ShapeInv, FlowInv, EarlyInv, HeavyInv, SleepInv, GiveInv,
           [Next]_vars
    PROVE  GiveInv'
<1>1. /\ UploadInv /\ BatchTypes /\ StackInv /\ TypesInv /\ SourceShape /\ Total \in Nat
      /\ Len(calls) \in Nat /\ active \in Int /\ StartInv /\ StoppedInv
    BY WholeParts, CallKinds, TotalFacts DEF BatchTypes, ControlInv
<1>2. upload' = upload /\ (error => error')
    BY UploadStays, StatusMoves
<1> SUFFICES ASSUME Orderly', calls' = <<>>, MayGive'
             PROVE  NoneRunning'
    BY DEF GiveInv
<1>3. Orderly
    BY <1>2 DEF Orderly, InOrder
<1>4. CASE BatchRuns
    <2>1. calls' = calls /\ Random!Top.pc = "run" /\ stack # <<>>
        BY <1>4, RunStacks
    <2>2. Len(stack) \in 1..Len(stack) /\ Random!Top = stack[Len(stack)]
        BY <1>1, <2>1, TopFacts DEF Random!Top
    <2>3. Starts(stack[Len(stack)].pc)
        BY <2>1, <2>2 DEF Starts
    <2>4. \E m \in 1..Len(calls) : TRUE
        BY <1>1, <2>2, <2>3 DEF StartInv
    <2>5. calls # <<>>
        BY <2>4
    <2> QED
        BY <2>1, <2>5
<1>5. CASE EmitChunk
    BY <1>1, <1>5, TouchedCalls
<1>6. ASSUME ~BatchRuns, ~EmitChunk, NoneRunning
      PROVE  NoneRunning'
    BY <1>6, RunMoves DEF NoneRunning
<1>7. ASSUME ~BatchRuns, ~EmitChunk, calls = <<>>, MayGive
      PROVE  NoneRunning'
    BY <1>3, <1>6, <1>7 DEF GiveInv
<1>8. CASE ReadReturns \/ WriteReturns \/ EndReturns
    <2>1. NoneRunning
        BY <1>1, <1>3, <1>8, ReturnsGive
    <2>2. ~BatchRuns /\ ~EmitChunk
        BY <1>1, <1>8 DEF BatchRuns, EmitChunk, Emitting, ReadReturns, WriteReturns, EndReturns, Returning
    <2> QED
        BY <1>6, <2>1, <2>2
<1>9. CASE FileOpens \/ FileOpenFails
    <2>1. status' = <<>>
        BY <1>1, <1>9 DEF FileOpens, FileOpenFails, SourceShape, OpeningInv, batchVars
    <2>2. Total' = 0
        BY <2>1, EmptySeq DEF Total
    <2> QED
        BY <2>2 DEF NoneRunning
<1>10. CASE DestinationReady
    <2>1. status' = <<>>
        BY <1>10 DEF DestinationReady, EarlyInv, batchVars
    <2>2. Total' = 0
        BY <2>1, EmptySeq DEF Total
    <2> QED
        BY <2>2 DEF NoneRunning
<1>11. CASE Drain
    <2>1. calls' = calls
        BY <1>11, DrainStacks
    <2>2. active <= 0
        <3>1. \E lowMemory \in BOOLEAN : Ordered!ShouldDrain(lowMemory)
            BY <1>3, <1>11 DEF Drain, DrainThen, Mode, Ordered!EmitDrain, Orderly
        <3> QED
            BY <1>1, <3>1 DEF Ordered!ShouldDrain, Ordered!IsWorkloadHeavy
    <2>3. NoneRunning
        BY <1>1, <2>1, <2>2, NothingRuns
    <2>4. status' = status
        BY <1>11, DrainStacks DEF Random!batch
    <2> QED
        BY <2>3, <2>4 DEF NoneRunning, Total
<1>12. CASE ReadEmits \/ ReadEnds \/ ReadFails
    <2>1. reads # <<>> /\ calls = <<>> /\ UNCHANGED status
        BY <1>12 DEF ReadEmits, ReadEnds, ReadFails, ReadGets, EventLoop, batchVars
    <2>2. Local
        BY <1>1, <2>1 DEF SourceShape, OriginInv
    <2>3. MayGive
        BY <2>1, <2>2 DEF MayGive
    <2>4. NoneRunning
        BY <1>3, <2>1, <2>3 DEF GiveInv
    <2> QED
        BY <2>1, <2>4 DEF NoneRunning, Total
<1>13. CASE PipeWrites \/ PipeEnds
    <2>1. PICK c : calls' = Append(calls, c) \/ calls' = <<c>>
        BY <1>13 DEF PipeWrites, PipeEnds
    <2>2. calls \in Seq(CallSet)
        BY <1>1, CallKinds
    <2>3. Append(calls, c) # <<>> /\ <<c>> # <<>>
        BY <2>2
    <2> QED
        BY <2>1, <2>3
<1>14. CASE UserCallbackStops \/ EmitBeyond
    <2>1. Len(calls') = Len(calls) + 1 /\ Len(calls) \in Nat
        BY <1>1, <1>14, StoppedCalls
    <2> QED
        BY <2>1
<1>15. CASE BuildChunk \/ EmitLost \/ EmitZeros
    BY <1>1, <1>15, TouchedCalls
<1>16. CASE \/ CommitDone \/ Ran \/ BatchSteps \/ UserCallbackReturns \/ End
            \/ \E i \in 1..Total, failed \in BOOLEAN : RequestDone(i, failed)
            \/ UNCHANGED vars
    <2>1. UNCHANGED <<calls, reads, fd, awaiting, sourceEnded, unpiped>>
        BY <1>16 DEF CommitDone, Ran, RanThen, BatchSteps, UserCallbackReturns, End, RequestDone,
           quietVars, sourceVars, chunkVars, vars
    <2>2. calls = <<>> /\ MayGive
        BY <1>2, <2>1 DEF MayGive, Local
    <2> QED
        BY <1>4, <1>5, <1>7, <2>2
<1> QED
    BY <1>4, <1>5, <1>8, <1>9, <1>10, <1>11, <1>12, <1>13, <1>14, <1>15, <1>16
       DEF Next, Internal, External, Stopped, Emission

(* While a call of the chunk stream is the innermost one no operation       *)
(* starts, and an operation that starts has no call of the stream above it. *)
LEMMA CallingRunsNothing ==
    ASSUME WholeInv, Open \/ Calling
    PROVE  ~Random!Running("run")
<1>1. Open
    BY WholeParts, HeightFacts
<1> QED
    BY <1>1 DEF Open, Random!Running

LEMMA CutStep ==
    ASSUME WholeInv, WholeInv', ControlInv, ShapeInv, ShapeInv', FlowInv, FlowInv', EarlyInv, ErrorInv,
           LoneInv, GiveInv, CutInv, RunInv, [Next]_vars
    PROVE  CutInv' /\ RunInv'
<1>1. /\ UploadInv /\ BatchTypes /\ StackInv /\ TypesInv /\ TypesInv' /\ SourceShape /\ Total \in Nat
      /\ Len(calls) \in Nat /\ Total = Len(status) /\ ChunkTypes
    BY WholeParts, BothTypes, CallKinds, TotalFacts
<1>2. upload' = upload /\ (error => error') /\ (Beyond => Beyond')
    BY UploadStays, StatusMoves, DeliveredStays
<1>3. /\ Size(TopOut) \in Int /\ Size(buffer.run) \in Int /\ Size(FirstLeft) \in Int
      /\ upload.chunk \in Nat \ {0} /\ upload.piece \in Nat \ {0}
      /\ Size(buffer.run) < upload.chunk
    BY <1>1, FlowTypes DEF ChunkTypes
<1>4. /\ Size(TopOut') \in Int /\ Size(buffer'.run) \in Int /\ Size(FirstLeft') \in Int
    <2>1. (TypesInv => /\ Size(TopOut) \in Int /\ Size(buffer.run) \in Int
                       /\ Size(FirstLeft) \in Int)'
        BY FlowTypes, PTL
    <2> QED
        BY <1>1, <2>1
<1>5. /\ Size(TopOut) >= 0 /\ Size(buffer.run) >= 0 /\ Size(FirstLeft) >= 0
      /\ Size(TopOut') >= 0 /\ Size(buffer'.run) >= 0 /\ Size(FirstLeft') >= 0
    <2>1. (FlowInv => Size(TopOut) >= 0 /\ Size(buffer.run) >= 0 /\ Size(FirstLeft) >= 0)'
        BY FlowSizes, PTL
    <2> QED
        BY <2>1, FlowSizes
<1> SUFFICES ASSUME Orderly'
             PROVE  /\ Cutting' =>
                         /\ Full' => NoneRunning'
                         /\ Size(TopOut') + Size(buffer'.run) + Size(FirstLeft') < 2 * upload.chunk
                         /\ Size(TopOut') > 0 /\ calls'[1].then # "end" => Size(TopOut') >= upload.chunk
                    /\ Random!Running("run")' => NoneRunning' /\ (Cutting' => ~Full')
    BY <1>2 DEF CutInv, RunInv
<1>6. Orderly /\ InOrder /\ ~error /\ upload.piece <= upload.chunk
    BY <1>2 DEF Orderly, InOrder
<1>7. ASSUME ~BatchRuns, ~EmitChunk
      PROVE  /\ NoneRunning => NoneRunning'
             /\ Random!Running("run")' => Random!Running("run")
    BY <1>7, RunMoves DEF NoneRunning
<1>8. ASSUME Cutting
      PROVE  /\ Full => NoneRunning
             /\ Size(TopOut) + Size(buffer.run) + Size(FirstLeft) < 2 * upload.chunk
             /\ Size(TopOut) > 0 /\ calls[1].then # "end" => Size(TopOut) >= upload.chunk
    BY <1>6, <1>8 DEF CutInv
<1>9. ASSUME ~BatchRuns, ~EmitChunk, Open \/ Calling, ~Cutting'
      PROVE  CutInv' /\ RunInv'
    BY <1>7, <1>9, CallingRunsNothing DEF CutInv, RunInv
<1>10. CASE BuildChunk
    <2>1. /\ TopOut = Nothing /\ calls # <<>> /\ offset' = offset /\ ready' = ready
          /\ Size(TopOut') + Size(buffer'.run) + Size(FirstLeft') = Size(buffer.run) + Size(FirstLeft)
          /\ Size(TopOut') = upload.chunk \/ Size(TopOut') = 0
          /\ Calling
        BY <1>10, BuildFlows DEF BuildChunk, Others
    <2>2. ~BatchRuns /\ ~EmitChunk
        BY <1>10, <2>1 DEF BatchRuns, EmitChunk, Emitting, BuildChunk
    <2>3. ~Random!Running("run")'
        BY <1>7, <2>1, <2>2, CallingRunsNothing
    <2>4. Size(TopOut) = 0
        BY <2>1, EmptyRuns
    <2>5. ASSUME Cutting'
          PROVE  Cutting
        BY <1>2, <2>1, <2>5 DEF Cutting, Beyond
    <2>6. ASSUME Full'
          PROVE  Full
        BY <1>2, <1>3, <1>4, <1>5, <2>1, <2>6 DEF Full
    <2> QED
        BY <1>3, <1>4, <1>5, <1>7, <1>8, <2>1, <2>2, <2>3, <2>4, <2>5, <2>6
<1>11. CASE EmitLost \/ EmitBeyond
    <2>1. Calling /\ ~BatchRuns /\ ~EmitChunk /\ ready' = ready
        BY <1>11 DEF EmitLost, EmitBeyond, Emitting, BatchRuns, EmitChunk, Others
    <2>2. ~Cutting'
        BY <1>2, <1>11, <2>1 DEF EmitLost, EmitBeyond, Cutting
    <2> QED
        BY <1>9, <2>1, <2>2 DEF CutInv, RunInv
<1>12. CASE EmitZeros
    BY <1>6, <1>12 DEF EmitZeros, Skipped, InOrder
<1>13. CASE EmitChunk
    <2>1. /\ calls # <<>> /\ Size(Top.out.run) > 0 /\ buffer' = NoData /\ TopOut = Top.out.run
          /\ TopOut' = Nothing /\ FirstLeft' = FirstLeft
        BY <1>13, EmittedCalls, EmitFlows DEF Emission
    <2>2. Cutting
        BY <1>13, <2>1 DEF EmitChunk, Cutting
    <2>3. NoneRunning
        BY <1>8, <2>1, <2>2 DEF Full
    <2>4. NoneRunning'
        <3>1. status' = Append(status, "queued") /\ status \in Seq(Random!OperationState)
            BY <1>1, <1>13 DEF EmitChunk, Random!AddOperation, Random!AddOperationAs, BatchTypes
        <3>2. "queued" \in Random!OperationState
            BY DEF Random!OperationState
        <3>3. /\ Len(status') = Total + 1 /\ status'[Total + 1] = "queued"
              /\ \A n \in 1..Total : status'[n] = status[n]
            BY <1>1, <3>1, <3>2, PushCall
        <3> QED
            BY <1>1, <2>3, <3>3 DEF NoneRunning, Total
    <2>5. Size(TopOut') = 0 /\ Size(buffer'.run) = 0
        BY <2>1, EmptyRuns
    <2>6. Size(FirstLeft) < upload.chunk
        <3>1. CASE calls[1].then = "end"
            <4>1. calls[1].left = NoData
                BY <1>1, <2>1, <3>1, FlowTypes DEF ShapeInv, CallsInv
            <4>2. Size(FirstLeft) = 0
                BY <2>1, <4>1, EmptyRuns DEF FirstLeft
            <4> QED
                BY <1>3, <4>2
        <3>2. CASE calls[1].then # "end"
            BY <1>3, <1>5, <1>8, <2>1, <2>2, <3>2
        <3> QED
            BY <3>1, <3>2
    <2>7. ~Full'
        BY <1>2, <1>3, <2>1, <2>5, <2>6 DEF Full
    <2> QED
        BY <1>3, <2>1, <2>4, <2>5, <2>6, <2>7
<1>14. CASE ReadReturns \/ WriteReturns \/ EndReturns
    <2>1. /\ Calling /\ Len(calls') = Len(calls) - 1 /\ calls # <<>> /\ offset' = offset
        BY <1>1, <1>14, ReturnedCalls DEF ReadReturns, WriteReturns, EndReturns
    <2>2. ~BatchRuns /\ ~EmitChunk
        BY <1>14, <2>1 DEF BatchRuns, EmitChunk, Emitting, ReadReturns, WriteReturns, EndReturns, Returning
    <2>3. ~Cutting'
        <3> SUFFICES ASSUME Cutting'
                     PROVE  FALSE
            OBVIOUS
        <3>1. ~Beyond
            BY <1>2, <2>1 DEF Cutting, Beyond
        <3>2. Len(calls) <= 1
            BY <1>6, <3>1 DEF LoneInv
        <3>3. calls' \in Seq(CallSet)
            BY <1>1 DEF TypesInv, ChunkTypes, CallsOK
        <3>4. calls' = <<>>
            BY <1>1, <2>1, <3>2, <3>3
        <3> QED
            BY <3>4 DEF Cutting
    <2> QED
        BY <1>9, <2>1, <2>2, <2>3 DEF CutInv, RunInv
<1>15. ASSUME calls = <<>>, MayGive, UNCHANGED batchVars, ~BatchRuns, ~EmitChunk, Open \/ Calling,
              Size(TopOut') + Size(buffer'.run) + Size(FirstLeft') < 2 * upload.chunk,
              Size(TopOut') = 0 \/ calls'[1].then = "end"
       PROVE  CutInv' /\ RunInv'
    <2>1. NoneRunning'
        BY <1>6, <1>7, <1>15 DEF GiveInv
    <2>2. ~Random!Running("run")'
        BY <1>7, <1>15, CallingRunsNothing
    <2> QED
        BY <1>2, <1>3, <1>4, <1>15, <2>1, <2>2 DEF CutInv, RunInv
<1>16. CASE ReadEmits
    <2>1. /\ calls = <<>> /\ buffer' = buffer /\ Size(TopOut') + Size(FirstLeft') <= upload.piece
        BY <1>16, ReadFlows
    <2>2. reads # <<>> /\ EventLoop /\ UNCHANGED batchVars
        BY <1>16 DEF ReadEmits, ReadGets
    <2>3. Local
        BY <1>1, <2>2 DEF SourceShape, OriginInv
    <2>4. MayGive
        BY <2>2, <2>3 DEF MayGive
    <2>5. Size(TopOut') = 0
        <3>1. ~IsFile
            BY <1>6 DEF InOrder, IsFile
        <3>2. PICK data : calls' = <<Call(data, NoData, "read")>>
            BY <1>16, <3>1 DEF ReadEmits
        <3>3. calls' # <<>> /\ Top' = Call(data, NoData, "read")
            BY <3>2 DEF Top, Last
        <3>4. TopOut' = NoData.run
            BY <3>3 DEF TopOut, Call
        <3> QED
            BY <3>4, EmptyRuns
    <2>6. ~BatchRuns /\ ~EmitChunk /\ Open
        BY <2>1, <2>2, EmptySeq DEF BatchRuns, EmitChunk, Emitting, Calling, EventLoop, Random!RunRequest,
           Random!RunAfterError, Random!Running, Open
    <2>7. Size(TopOut') + Size(buffer'.run) + Size(FirstLeft') < 2 * upload.chunk
        BY <1>3, <1>4, <1>6, <2>1
    <2> QED
        BY <1>15, <2>1, <2>2, <2>4, <2>5, <2>6, <2>7 DEF CutInv, RunInv
<1>17. CASE (ReadEnds /\ ~sourceEnded) \/ PipeEnds
    <2>1. /\ calls = <<>> /\ buffer' = NoData /\ TopOut' = buffer.run /\ Size(FirstLeft') = 0
          /\ calls'[1].then = "end"
        BY <1>17, EndFlows
    <2>2. EventLoop /\ UNCHANGED batchVars
        BY <1>17 DEF ReadEnds, ReadGets, PipeEnds
    <2>3. MayGive
        <3>1. CASE ReadEnds
            <4>1. reads # <<>>
                BY <3>1 DEF ReadEnds, ReadGets
            <4>2. Local
                BY <1>1, <4>1 DEF SourceShape, OriginInv
            <4> QED
                BY <4>1, <4>2 DEF MayGive
        <3>2. CASE PipeEnds
            BY <3>2 DEF PipeEnds, PipeMayCall, MayGive
        <3> QED
            BY <1>17, <3>1, <3>2
    <2>4. ~BatchRuns /\ ~EmitChunk /\ Open
        BY <2>1, <2>2, EmptySeq DEF BatchRuns, EmitChunk, Emitting, Calling, EventLoop, Random!RunRequest,
           Random!RunAfterError, Random!Running, Open
    <2>5. Size(TopOut') + Size(buffer'.run) + Size(FirstLeft') < 2 * upload.chunk
        BY <1>3, <1>4, <2>1, EmptyRuns
    <2> QED
        BY <1>15, <2>1, <2>2, <2>3, <2>4, <2>5 DEF CutInv, RunInv
<1>18. CASE PipeWrites
    <2>1. /\ calls = <<>> /\ buffer' = buffer /\ Size(TopOut') + Size(FirstLeft') <= upload.piece
          /\ TopOut' = Nothing
        BY <1>18, WriteFlows
    <2>2. UNCHANGED batchVars /\ MayGive /\ Open
        BY <1>18 DEF PipeWrites, PipeMayCall, MayGive, EventLoop, Open
    <2>3. ~BatchRuns /\ ~EmitChunk
        <3>1. ~Random!Running("run")
            BY <2>2, CallingRunsNothing
        <3> QED
            BY <2>1, <3>1 DEF BatchRuns, EmitChunk, Emitting, Calling, Random!RunRequest,
               Random!RunAfterError
    <2>4. Size(TopOut') = 0
        BY <2>1, EmptyRuns
    <2>5. Size(TopOut') + Size(buffer'.run) + Size(FirstLeft') < 2 * upload.chunk
        BY <1>3, <1>4, <1>6, <2>1
    <2> QED
        BY <1>15, <2>1, <2>2, <2>3, <2>4, <2>5 DEF CutInv, RunInv
<1>19. CASE UserCallbackStops
    BY <1>6, <1>19, StopsAfterError
<1>20. CASE DestinationReady
    <2>1. status' = <<>> /\ calls' = <<>>
        BY <1>20 DEF DestinationReady, EarlyInv, EventLoop, batchVars, chunkVars
    <2>2. Total' = 0
        BY <2>1, EmptySeq DEF Total
    <2> QED
        BY <2>1, <2>2 DEF NoneRunning, Cutting
<1>21. ASSUME UNCHANGED <<calls, buffer, offset, TopOut, FirstLeft, ready>>
       PROVE  /\ Cutting' <=> Cutting
              /\ Full' <=> Full
    BY <1>2, <1>21 DEF Cutting, Full, Beyond
<1>22. CASE /\ ~BatchRuns /\ ~EmitChunk
            /\ \/ FileOpens \/ FileOpenFails \/ ReadFails \/ (ReadEnds /\ sourceEnded)
               \/ CommitDone
               \/ Ran \/ BatchSteps \/ Drain \/ UserCallbackReturns \/ End
               \/ \E i \in 1..Total, failed \in BOOLEAN : RequestDone(i, failed)
               \/ UNCHANGED vars
    <2>1. UNCHANGED <<calls, buffer, offset, TopOut, FirstLeft>>
        BY <1>22, OtherFlows
    <2>2. ready' = ready
        BY <1>22 DEF FileOpens, FileOpenFails, ReadFails, ReadEnds, CommitDone, Ran,
           RanThen, BatchSteps, Drain, DrainThen,
           UserCallbackReturns, End, RequestDone, Others, quietVars, vars
    <2>3. /\ Cutting' <=> Cutting
          /\ Full' <=> Full
        BY <1>21, <2>1, <2>2
    <2> QED
        BY <1>6, <1>7, <1>8, <1>22, <2>1, <2>3 DEF RunInv
<1>23. CASE BatchRuns
    <2>1. UNCHANGED <<calls, buffer, offset, TopOut, FirstLeft>>
        BY <1>23, OtherFlows
    <2>2. /\ ready' = ready /\ stack # <<>> /\ Random!Top.pc = "run"
          /\ Random!Top'.pc \in {"ran", "fail"}
        BY <1>23, RunStacks DEF quietVars
    <2>3. /\ Cutting' <=> Cutting
          /\ Full' <=> Full
        BY <1>21, <2>1, <2>2
    <2>4. Cutting => ~Full
        BY <1>6, <2>2 DEF RunInv, Random!Running
    <2>5. ~Random!Running("run")'
        BY <2>2 DEF Random!Running
    <2> QED
        BY <1>8, <2>1, <2>3, <2>4, <2>5
<1> QED
    BY <1>10, <1>11, <1>12, <1>13, <1>14, <1>16, <1>17, <1>18, <1>19, <1>20, <1>22, <1>23
       DEF Next, Internal, External, Stopped, Emission, CutInv, RunInv

OrderInv == HeavyInv /\ SleepInv /\ LoneInv /\ GiveInv /\ CutInv /\ RunInv /\ SingleInv

LEMMA OrderInit ==
    ASSUME Init
    PROVE  OrderInv
<1>1. /\ status = <<>> /\ stack = <<>> /\ active = 0 /\ calls = <<>> /\ reads = <<>>
    BY DEF Init
<1>2. Total = 0 /\ Len(calls) = 0
    BY <1>1, EmptySeq DEF Total
<1>3. NoneRunning
    BY <1>2 DEF NoneRunning
<1>4. HeavyInv /\ SleepInv /\ LoneInv /\ GiveInv /\ RunInv /\ SingleInv
    BY <1>1, <1>2, <1>3 DEF HeavyInv, SleepInv, LoneInv, GiveInv, RunInv, SingleInv, Random!Running
<1>5. CutInv
    BY <1>1 DEF CutInv, Cutting
<1> QED
    BY <1>4, <1>5 DEF OrderInv

LEMMA OrderInvariant == Spec => [](DataInv /\ OrderInv)
<1>1. Init => OrderInv
    BY OrderInit
<1>2. DataInv /\ DataInv' /\ WholeDataInv /\ OrderInv /\ [Next]_vars => OrderInv'
    <2> SUFFICES ASSUME DataInv, DataInv', WholeDataInv, OrderInv, [Next]_vars
                 PROVE  OrderInv'
        OBVIOUS
    <2>1. /\ WholeInv /\ ControlInv /\ ShapeInv /\ FlowInv
          /\ WholeInv' /\ ShapeInv' /\ FlowInv'
        BY DEF DataInv
    <2>2. EarlyInv /\ ErrorInv
        BY DEF WholeDataInv
    <2>3. HeavyInv /\ SleepInv /\ LoneInv /\ GiveInv /\ CutInv /\ RunInv /\ SingleInv
        BY DEF OrderInv
    <2>4. HeavyInv'
        BY <2>1, <2>2, <2>3, HeavyStep
    <2>5. SleepInv' /\ LoneInv'
        BY <2>1, <2>2, <2>3, SleepStep, LoneStep
    <2>6. GiveInv'
        BY <2>1, <2>2, <2>3, GiveStep
    <2>7. CutInv' /\ RunInv'
        BY <2>1, <2>2, <2>3, CutStep
    <2>8. SingleInv'
        BY <2>1, <2>3, SingleStep
    <2> QED
        BY <2>4, <2>5, <2>6, <2>7, <2>8 DEF OrderInv
<1> QED
    BY <1>1, <1>2, WholeDataInvariant, PTL DEF Spec

LEMMA SingleAppends ==
    ASSUME DataInv, SingleInv
    PROVE  AppendsInOrder
<1> SUFFICES ASSUME InOrder, upload.piece <= upload.chunk
             PROVE  Cardinality({i \in 1..Total : status[i] = "running"}) <= 1
    BY DEF AppendsInOrder
<1> DEFINE R == {i \in 1..Total : status[i] = "running"}
<1>1. \A i, j \in R : i = j
    BY DEF SingleInv
<1>2. CASE R = {}
    BY <1>2, FS_EmptySet
<1>3. ASSUME NEW i \in R
      PROVE  Cardinality(R) <= 1
    <2>1. R = {i}
        BY <1>1, <1>3
    <2>2. Cardinality(R) = 1
        BY <2>1, FS_Singleton
    <2> QED
        BY <2>2
<1> QED
    BY <1>2, <1>3

(* An append blob gets one block after the other, as long as its source     *)
(* gives no more than a block at once.                                      *)
THEOREM UploadAppendsInOrder == Spec => []AppendsInOrder
<1>1. DataInv /\ OrderInv => AppendsInOrder
    BY SingleAppends DEF OrderInv
<1> QED
    BY <1>1, OrderInvariant, PTL

Distinct(s) == \A m, n \in 1..Len(s) : s[m] = s[n] => m = n

LEMMA InSequence ==
    ASSUME NEW s \in Seq(Nat)
    PROVE  /\ Len(s) \in Nat
           /\ \A x : x \in ToSet(s) <=> \E n \in 1..Len(s) : s[n] = x
    BY LenProperties DEF ToSet

(* What is in a pool after it was extended.                                 *)
LEMMA ExtendPools ==
    ASSUME NEW a, PoolOK(a), NEW used, IsFiniteSet(used), ToSet(a.pool) \subseteq used
    PROVE  /\ \A x \in ToSet(ExtendMemoryPool(a, used).pool) :
                 x \in ToSet(a.pool) \/ (x \notin used /\ x # 0)
           /\ Distinct(a.pool) => Distinct(ExtendMemoryPool(a, used).pool)
<1> DEFINE total == Len(a.pool) + a.inuse
           double == Smaller(2 * total, a.max)
           next == IF double = 0 THEN 1 ELSE double
           more == FreshBuffers(next - total, used)
           b == ExtendMemoryPool(a, used)
<1>1. /\ a = [pool |-> a.pool, inuse |-> a.inuse, max |-> a.max]
      /\ a.pool \in Seq(Nat) /\ a.inuse \in Nat /\ a.max \in Nat /\ Len(a.pool) \in Nat
      /\ a.max > 0 /\ Len(a.pool) <= a.max
    BY LenProperties DEF PoolOK, Allocator
<1>2. b = IF total >= a.max THEN a ELSE [a EXCEPT !.pool = @ \o more]
    BY Zenon DEF ExtendMemoryPool
<1>3. CASE total >= a.max
    <2>1. b = a
        BY <1>2, <1>3
    <2>2. ExtendMemoryPool(a, used) = a
        BY <2>1
    <2> HIDE DEF b
    <2> QED
        BY <2>2, Zenon
<1>4. CASE ~(total >= a.max)
    <2>1. next - total \in Nat
        BY <1>1, <1>4 DEF Smaller
    <2> HIDE DEF next
    <2>2. /\ more \in Seq(Nat) /\ Len(more) = next - total
          /\ \A j \in 1..(next - total) : more[j] \notin used
          /\ \A j \in 1..(next - total) : more[j] # 0
          /\ IsInjective(more)
        BY <2>1, FreshFacts
    <2> HIDE DEF more
    <2>3. /\ \A j \in 1..Len(more) : more[j] \notin used /\ more[j] # 0
          /\ Len(more) \in Nat /\ DOMAIN more = 1..Len(more)
          /\ \A i, j \in 1..Len(more) : more[i] = more[j] => i = j
        BY <2>1, <2>2, LenProperties DEF IsInjective
    <2>4. b = [pool |-> a.pool \o more, inuse |-> a.inuse, max |-> a.max]
        BY <1>1, <1>2, <1>4
    <2>5. b.pool = a.pool \o more
        BY <2>4
    <2>6. /\ a.pool \o more \in Seq(Nat) /\ Len(a.pool \o more) = Len(a.pool) + Len(more)
          /\ \A j \in 1..(Len(a.pool) + Len(more)) :
                 (a.pool \o more)[j] = IF j <= Len(a.pool) THEN a.pool[j]
                                       ELSE more[j - Len(a.pool)]
        BY <1>1, <2>2, ConcatProperties
    <2>7. PICK s, p : s = b.pool /\ p = a.pool
        OBVIOUS
    <2>8. /\ s \in Seq(Nat) /\ p \in Seq(Nat) /\ Len(p) \in Nat /\ Len(s) = Len(p) + Len(more)
          /\ \A j \in 1..Len(s) : s[j] = IF j <= Len(p) THEN p[j] ELSE more[j - Len(p)]
        BY <1>1, <2>5, <2>6, <2>7
    <2>9. ASSUME NEW j \in 1..Len(s)
          PROVE  \/ j \in 1..Len(p) /\ s[j] = p[j]
                 \/ j - Len(p) \in 1..Len(more) /\ s[j] = more[j - Len(p)]
        BY <2>3, <2>8, <2>9
    <2>10. \A x \in ToSet(s) : x \in ToSet(p) \/ (x \notin used /\ x # 0)
        <3> SUFFICES ASSUME NEW x \in ToSet(s)
                     PROVE  x \in ToSet(p) \/ (x \notin used /\ x # 0)
            OBVIOUS
        <3>1. PICK j \in 1..Len(s) : s[j] = x
            BY <2>8, InSequence
        <3>2. CASE j \in 1..Len(p) /\ s[j] = p[j]
            BY <2>8, <3>1, <3>2, InSequence
        <3>3. CASE j - Len(p) \in 1..Len(more) /\ s[j] = more[j - Len(p)]
            BY <2>3, <3>1, <3>3
        <3> QED
            BY <2>9, <3>2, <3>3
    <2>11. ASSUME Distinct(p), NEW m \in 1..Len(s), NEW n \in 1..Len(s), s[m] = s[n]
           PROVE  m = n
        <3>1. \A j \in 1..Len(p) : p[j] \in used
            BY <2>7, <2>8, InSequence
        <3>2. CASE m \in 1..Len(p) /\ n \in 1..Len(p)
            BY <2>8, <2>11, <3>2 DEF Distinct
        <3>3. CASE m - Len(p) \in 1..Len(more) /\ n - Len(p) \in 1..Len(more)
            <4>1. more[m - Len(p)] = more[n - Len(p)]
                BY <2>3, <2>8, <2>9, <2>11, <3>3
            <4>2. m - Len(p) = n - Len(p)
                BY <2>3, <3>3, <4>1
            <4> QED
                BY <2>8, <4>2
        <3>4. ASSUME NEW i \in 1..Len(p), NEW j \in 1..Len(s), j - Len(p) \in 1..Len(more),
                     s[i] = s[j]
              PROVE  FALSE
            <4>1. i \in 1..Len(s) /\ ~(j \in 1..Len(p)) /\ i <= Len(p)
                BY SMTT(30), <2>3, <2>8, <3>4
            <4>2. s[i] = p[i]
                BY <2>8, <4>1
            <4>3. s[j] = more[j - Len(p)]
                BY <2>9, <4>1
            <4> QED
                BY <2>3, <3>1, <3>4, <4>2, <4>3
        <3> QED
            BY <2>9, <2>11, <3>2, <3>3, <3>4
    <2>12. ExtendMemoryPool(a, used).pool = s
        BY <2>7
    <2>13. /\ \A x \in ToSet(s) : x \in ToSet(a.pool) \/ (x \notin used /\ x # 0)
           /\ Distinct(a.pool) => Distinct(s)
        BY <2>7, <2>10, <2>11 DEF Distinct
    <2> HIDE DEF b
    <2> QED
        BY <2>12, <2>13, Zenon
<1> QED
    BY <1>3, <1>4

(* What getBuffer returns, and what it leaves in the pool.                  *)
LEMMA GetPools ==
    ASSUME NEW a, PoolOK(a), NEW used, IsFiniteSet(used), ToSet(a.pool) \subseteq used
    PROVE  /\ \/ GetBuffer(a, used).buffer \in ToSet(a.pool)
              \/ GetBuffer(a, used).buffer \notin used /\ GetBuffer(a, used).buffer # 0
           /\ \A x \in ToSet(GetBuffer(a, used).allocator.pool) :
                 x \in ToSet(a.pool) \/ (x \notin used /\ x # 0)
           /\ Distinct(a.pool) =>
                 /\ Distinct(GetBuffer(a, used).allocator.pool)
                 /\ GetBuffer(a, used).buffer \notin ToSet(GetBuffer(a, used).allocator.pool)
<1> DEFINE b == IF a.pool = <<>> THEN ExtendMemoryPool(a, used) ELSE a
           fresh == FreshBuffers(1, used)
           first == [b EXCEPT !.inuse = @ + 1]
           next == [b EXCEPT !.inuse = @ + 1, !.pool = Front(@)]
           got == GetBuffer(a, used)
<1>1. /\ PoolOK(b)
      /\ \A x \in ToSet(b.pool) : x \in ToSet(a.pool) \/ (x \notin used /\ x # 0)
      /\ Distinct(a.pool) => Distinct(b.pool)
    BY ExtendFacts, ExtendPools
<1>2. got = IF b.pool = <<>> THEN [buffer |-> fresh[1], allocator |-> first]
            ELSE [buffer |-> Last(b.pool), allocator |-> next]
    BY Zenon DEF GetBuffer
<1> HIDE DEF b, got
<1>3. /\ b = [pool |-> b.pool, inuse |-> b.inuse, max |-> b.max]
      /\ b.pool \in Seq(Nat) /\ b.inuse \in Nat /\ b.max \in Nat /\ Len(b.pool) \in Nat
    BY <1>1, LenProperties DEF PoolOK, Allocator
<1>4. CASE b.pool = <<>>
    <2>1. /\ \A j \in 1..1 : fresh[j] \notin used
          /\ \A j \in 1..1 : fresh[j] # 0
        BY FreshFacts
    <2>2. fresh[1] \notin used /\ fresh[1] # 0
        BY <2>1
    <2> HIDE DEF fresh
    <2>3. first.pool = <<>>
        BY <1>3, <1>4
    <2> HIDE DEF first
    <2>4. got.buffer = fresh[1] /\ got.allocator.pool = <<>>
        BY <1>2, <1>4, <2>3
    <2>5. ToSet(<<>>) = {} /\ Distinct(<<>>)
        BY DEF ToSet, Distinct
    <2> QED
        BY <2>2, <2>4, <2>5 DEF got
<1>5. CASE b.pool # <<>>
    <2>1. /\ Len(b.pool) \in Nat \ {0} /\ b.pool[Len(b.pool)] \in Nat
          /\ Front(b.pool) \in Seq(Nat) /\ Len(Front(b.pool)) = Len(b.pool) - 1
          /\ \A n \in 1..(Len(b.pool) - 1) : Front(b.pool)[n] = b.pool[n]
        BY <1>3, <1>5, PopCall DEF Front
    <2>2. next.pool = Front(b.pool)
        <3>1. PICK p \in Seq(Nat), u \in Nat, m \in Nat : b = [pool |-> p, inuse |-> u, max |-> m]
            BY <1>3, Zenon
        <3>2. b.pool = p /\ b.inuse = u /\ b.max = m
            BY <3>1
        <3>3. next = [[pool |-> p, inuse |-> u, max |-> m]
                         EXCEPT !.inuse = u + 1, !.pool = Front(p)]
            BY <3>1, <3>2
        <3> HIDE DEF next
        <3> QED
            BY <3>2, <3>3
    <2> HIDE DEF next
    <2>3. got.buffer = b.pool[Len(b.pool)] /\ got.allocator.pool = Front(b.pool)
        BY <1>2, <1>5, <2>2 DEF Last
    <2>4. PICK p, q, k : p = b.pool /\ q = Front(b.pool) /\ k = Len(b.pool)
        OBVIOUS
    <2>5. /\ p \in Seq(Nat) /\ q \in Seq(Nat) /\ Len(p) = k /\ Len(q) = k - 1 /\ k \in Nat \ {0}
          /\ \A n \in 1..(k - 1) : q[n] = p[n]
        BY <1>3, <2>1, <2>4
    <2>6. \A n \in 1..(k - 1) : n \in 1..k /\ n # k
        BY <2>5
    <2>7. p[k] \in ToSet(p)
        BY <2>5, InSequence
    <2>8. \A x \in ToSet(q) : \E n \in 1..(k - 1) : x = p[n]
        BY SMTT(30), <2>5, InSequence
    <2>9. \A x \in ToSet(q) : x \in ToSet(p)
        BY <2>5, <2>6, <2>8, InSequence
    <2>10. Distinct(p) => p[k] \notin ToSet(q)
        <3>1. k \in 1..k
            BY <2>5
        <3> QED
            BY <2>5, <2>6, <2>8, <3>1 DEF Distinct
    <2>11. Distinct(p) => Distinct(q)
        BY <2>5, <2>6 DEF Distinct
    <2>12. got.buffer = p[k] /\ got.allocator.pool = q
        BY <2>3, <2>4
    <2> QED
        BY <1>1, <2>4, <2>7, <2>9, <2>10, <2>11, <2>12 DEF got
<1> QED
    BY <1>4, <1>5

(* What is in a pool after a release, or when its stream was destroyed.     *)
LEMMA ReleasePools ==
    ASSUME NEW a, PoolOK(a), NEW id \in Nat
    PROVE  /\ \A x \in ToSet(ReleaseBuffer(a, id).pool) : x \in ToSet(a.pool) \/ x = id
           /\ Distinct(a.pool) /\ id \notin ToSet(a.pool) => Distinct(ReleaseBuffer(a, id).pool)
           /\ ToSet(DestroyAllocator(a).pool) = {} /\ Distinct(DestroyAllocator(a).pool)
<1>1. /\ a = [pool |-> a.pool, inuse |-> a.inuse, max |-> a.max]
      /\ a.pool \in Seq(Nat) /\ a.inuse \in Nat /\ a.max \in Nat /\ a.max > 0
      /\ Len(a.pool) \in Nat /\ Len(a.pool) <= a.max
    BY LenProperties DEF PoolOK, Allocator
<1>0. PICK p \in Seq(Nat), u \in Nat, m \in Nat : a = [pool |-> p, inuse |-> u, max |-> m]
    BY <1>1, Zenon
<1>a. a.pool = p /\ a.inuse = u /\ a.max = m
    BY <1>0
<1>2. ReleaseBuffer(a, id).pool = IF Len(p) < m THEN Append(p, id) ELSE p
    <2>1. ReleaseBuffer(a, id) =
             [[pool |-> p, inuse |-> u, max |-> m] EXCEPT
                 !.pool = IF Len(p) < m THEN Append(p, id) ELSE p,
                 !.inuse = IF u = 0 THEN 0 ELSE u - 1]
        BY <1>0, <1>a DEF ReleaseBuffer
    <2> QED
        BY <2>1
<1>3. DestroyAllocator(a).pool = <<>>
    <2>1. DestroyAllocator(a) =
             [[pool |-> p, inuse |-> u, max |-> m] EXCEPT !.pool = <<>>, !.inuse = 0]
        BY <1>0 DEF DestroyAllocator
    <2> QED
        BY <2>1
<1>4. ToSet(<<>>) = {} /\ Distinct(<<>>)
    BY DEF ToSet, Distinct
<1>5. PICK q : q = Append(p, id)
    OBVIOUS
<1>6. /\ q \in Seq(Nat) /\ Len(q) = Len(p) + 1 /\ Len(p) \in Nat
      /\ \A n \in 1..Len(p) : q[n] = p[n]
      /\ q[Len(p) + 1] = id
    BY <1>5, PushCall
<1>7. \A n \in 1..Len(q) : n \in 1..Len(p) \/ n = Len(p) + 1
    BY <1>6
<1>8. \A x \in ToSet(q) : x \in ToSet(p) \/ x = id
    <2> SUFFICES ASSUME NEW x \in ToSet(q)
                 PROVE  x \in ToSet(p) \/ x = id
        OBVIOUS
    <2>1. PICK n \in 1..Len(q) : q[n] = x
        BY <1>6, InSequence
    <2> QED
        BY <1>6, <1>7, <2>1, InSequence
<1>9. ASSUME Distinct(p), id \notin ToSet(p)
      PROVE  Distinct(q)
    <2>1. \A n \in 1..Len(p) : p[n] # id
        BY <1>9, InSequence
    <2> QED
        BY <1>6, <1>7, <1>9, <2>1 DEF Distinct
<1>10. CASE Len(p) < m
    BY <1>a, <1>2, <1>3, <1>4, <1>5, <1>8, <1>9, <1>10
<1>11. CASE ~(Len(p) < m)
    BY <1>a, <1>2, <1>3, <1>4, <1>11
<1> QED
    BY <1>10, <1>11

(* Who has a buffer: the pools, the chunks that are to be stored, the       *)
(* internal buffer, the chunk about to be emitted, what is left of the data *)
(* that was given, and the read of a file.                                  *)
ChunkPool == ToSet(allocators["chunk"].pool)
SourcePool == ToSet(allocators["source"].pool)
Flying == {assigned[i].id : i \in InFlight}
Buffered == IF buffer = NoData THEN {} ELSE {buffer.id}
Leaving == IF calls = <<>> \/ Top.out = NoData THEN {} ELSE {Top.out.id}
Remaining == IF Size(FirstLeft) > 0 THEN {calls[1].left.id} ELSE {}
BeingRead == {reads[n].id : n \in 1..Len(reads)}

(* No two of them have the same, except that the pool of the source may     *)
(* hold, several times, what is read from a file into a block.              *)
Apart(x) ==
    /\ x \in ChunkPool => x \notin SourcePool /\ x \notin Flying
    /\ x \in SourcePool => x \notin Flying
    /\ x \in Buffered \/ x \in Leaving =>
          x \notin ChunkPool /\ x \notin SourcePool /\ x \notin Flying
    /\ x \in Remaining \/ x \in BeingRead =>
          x \notin ChunkPool /\ x \notin Flying /\ x \notin Buffered /\ x \notin Leaving
    /\ x \in Remaining /\ ~Local => x \notin SourcePool
    /\ x \in BeingRead /\ IsFile => x \notin SourcePool
    /\ x = 0 => /\ x \notin ChunkPool /\ x \notin SourcePool /\ x \notin Flying
                /\ x \notin Buffered /\ x \notin Leaving
                /\ x \notin Remaining /\ x \notin BeingRead
ApartInv == \A x : Apart(x)
FlightsInv == \A i, j \in InFlight : assigned[i].id = assigned[j].id => i = j
PoolsInv ==
    /\ Distinct(allocators["chunk"].pool)
    /\ ~Local => Distinct(allocators["source"].pool)
OwnersInv == ApartInv /\ FlightsInv /\ PoolsInv

(* A buffer nobody refers to.                                               *)
Unheld(x) == x \notin Referred /\ x # 0

LEMMA UnheldFacts ==
    ASSUME DataInv
    PROVE  \A x : Unheld(x) =>
              /\ x \notin ChunkPool /\ x \notin SourcePool /\ x \notin Flying /\ x \notin Buffered
              /\ x \notin Leaving /\ x \notin Remaining /\ x \notin BeingRead /\ x # 0
<1>1. TypesInv /\ Total \in Nat
    BY WholeParts, TotalFacts DEF DataInv
<1>2. \A x \in ChunkPool \cup SourcePool \cup Buffered \cup BeingRead : x \in Referred
    BY DEF Referred, ChunkPool, SourcePool, Buffered, BeingRead
<1>3. \A x \in Flying : x \in Referred
    BY DEF Referred, Flying, InFlight
<1>4. \A x \in Leaving \cup Remaining : x \in Referred
    <2>1. calls # <<>> => /\ 1 \in 1..Len(calls) /\ Len(calls) \in 1..Len(calls)
                          /\ Top = calls[Len(calls)]
        BY <1>1, FlowTypes
    <2>2. FirstLeft # Nothing => calls # <<>>
        BY DEF FirstLeft
    <2>3. Size(FirstLeft) > 0 => FirstLeft # Nothing
        BY EmptyRuns
    <2>4. \A n \in 1..Len(calls) : calls[n].left.id \in Referred /\ calls[n].out.id \in Referred
        BY DEF Referred
    <2> QED
        BY <2>1, <2>2, <2>3, <2>4 DEF Leaving, Remaining
<1> QED
    BY <1>2, <1>3, <1>4 DEF Unheld

(* What Obtain returns, and what it leaves in the pool.                     *)
LEMMA ObtainOwns ==
    ASSUME DataInv, NEW a \in {"source", "chunk"}
    PROVE  /\ Unheld(Obtain(a).buffer)
              \/ (Obtain(a).buffer \in ToSet(allocators[a].pool) /\ ~IsFile)
           /\ \A x \in ToSet(Obtain(a).allocator.pool) :
                 x \in ToSet(allocators[a].pool) \/ Unheld(x)
           /\ Distinct(allocators[a].pool) =>
                 /\ Distinct(Obtain(a).allocator.pool)
                 /\ Obtain(a).buffer \notin ToSet(Obtain(a).allocator.pool)
           /\ IsFile => Obtain(a).allocator = allocators[a]
<1>1. TypesInv
    BY WholeParts DEF DataInv
<1>2. IsFiniteSet(Referred) /\ PoolOK(allocators[a])
    BY <1>1, ReferredFinite DEF TypesInv, ChunkTypes, PoolsOK
<1>3. ToSet(allocators[a].pool) \subseteq Referred
    BY DEF Referred
<1>4. CASE IsFile
    <2>1. \A j \in 1..1 : FreshBuffers(1, Referred)[j] \notin Referred /\ FreshBuffers(1, Referred)[j] # 0
        BY <1>2, FreshFacts
    <2>2. Unheld(FreshBuffers(1, Referred)[1])
        BY <2>1 DEF Unheld
    <2>3. Obtain(a).buffer = FreshBuffers(1, Referred)[1] /\ Obtain(a).allocator = allocators[a]
        BY <1>4 DEF Obtain
    <2> QED
        BY <1>3, <2>2, <2>3 DEF Unheld
<1>5. CASE ~IsFile
    <2>1. Obtain(a) = GetBuffer(allocators[a], Referred)
        BY <1>5 DEF Obtain
    <2> QED
        BY <1>2, <1>3, <1>5, <2>1, GetPools DEF Unheld
<1> QED
    BY <1>4, <1>5

(* Nobody gets a buffer, unless the internal buffer is emitted, and nothing *)
(* is put into a pool.                                                      *)
LEMMA ApartLess ==
    ASSUME ApartInv, upload' = upload,
           \A x : /\ x \in ChunkPool' => x \in ChunkPool
                  /\ x \in SourcePool' => x \in SourcePool
                  /\ x \in Flying' => x \in Flying
                  /\ x \in Buffered' => x \in Buffered
                  /\ x \in Leaving' => x \in Leaving \/ x \in Buffered
                  /\ x \in Remaining' => x \in Remaining
                  /\ x \in BeingRead' => x \in BeingRead
    PROVE  ApartInv'
<1>1. (Local' <=> Local) /\ (IsFile' <=> IsFile)
    BY DEF Local, IsFile
<1>2. ASSUME NEW x, Apart(x)
      PROVE  Apart(x)'
    BY <1>1, <1>2 DEF Apart
<1> QED
    BY <1>2 DEF ApartInv

LEMMA PoolsKept ==
    ASSUME PoolsInv, UNCHANGED <<upload, allocators>>
    PROVE  PoolsInv' /\ ChunkPool' = ChunkPool /\ SourcePool' = SourcePool
BY DEF PoolsInv, ChunkPool, SourcePool, Local

(* The chunks to be stored become fewer, but for a new one.                 *)
LEMMA FlightsMove ==
    ASSUME DataInv, DataInv', [Next]_vars, assigned' = assigned
    PROVE  /\ upload' = upload
           /\ \A i \in InFlight' : i \in InFlight
           /\ \A x \in Flying' : x \in Flying
           /\ FlightsInv => FlightsInv'
<1>1. WholeInv /\ (WholeInv => TypesInv)'
    BY WholeParts, PTL DEF DataInv
<1>2. TypesInv /\ TypesInv'
    BY <1>1, WholeParts DEF DataInv
<1>3. (TypesInv => Total = Len(assigned) /\ Total \in Nat)'
    BY TypesCount, PTL
<1>4. Total' = Total /\ \A n \in 1..Total : Moves(n)
    BY <1>1, <1>2, <1>3, TypesCount, StatusMoves
<1>5. \A i \in InFlight' : i \in InFlight
    BY <1>4 DEF InFlight, Moves, Settles
<1>6. upload' = upload
    BY UploadStays
<1> QED
    BY <1>5, <1>6 DEF Flying, FlightsInv

(* A step that leaves the buffers where they are.                           *)
LEMMA QuietOwns ==
    ASSUME DataInv, DataInv', OwnersInv, [Next]_vars,
           UNCHANGED <<assigned, allocators, calls, buffer, reads>>
    PROVE  OwnersInv'
<1>1. /\ upload' = upload /\ FlightsInv'
      /\ \A x \in Flying' : x \in Flying
    BY FlightsMove DEF OwnersInv
<1>2. PoolsInv' /\ ChunkPool' = ChunkPool /\ SourcePool' = SourcePool
    BY <1>1, PoolsKept DEF OwnersInv
<1>3. Buffered' = Buffered /\ Leaving' = Leaving /\ Remaining' = Remaining /\ BeingRead' = BeingRead
    BY DEF Buffered, Leaving, Remaining, BeingRead, FirstLeft, Top
<1> QED
    BY <1>1, <1>2, <1>3, ApartLess DEF OwnersInv

(* A read of a file is started; what was left of the calls is gone.         *)
LEMMA EmitDataOwns ==
    ASSUME DataInv, DataInv', OwnersInv, [Next]_vars, NEW at, EmitData(at),
           Local, fd' = "open" /\ ~held' /\ ~sourceEnded => reads = <<>>,
           UNCHANGED <<assigned, buffer>>,
           \A x : /\ x \in Leaving' => x \in Leaving
                  /\ x \in Remaining' => x \in Remaining
    PROVE  OwnersInv'
<1>1. /\ upload' = upload /\ FlightsInv'
      /\ \A x \in Flying' : x \in Flying
    BY FlightsMove DEF OwnersInv
<1>2. Buffered' = Buffered /\ (Local' <=> Local) /\ (IsFile' <=> IsFile)
    BY <1>1 DEF Buffered, Local, IsFile
<1>3. CASE ~(fd' = "open" /\ ~held' /\ ~sourceEnded)
    <2>1. UNCHANGED <<reads, allocators>>
        BY <1>3 DEF EmitData
    <2>2. PoolsInv' /\ ChunkPool' = ChunkPool /\ SourcePool' = SourcePool
        BY <1>1, <2>1, PoolsKept DEF OwnersInv
    <2>3. BeingRead' = BeingRead
        BY <2>1 DEF BeingRead
    <2> QED
        BY <1>1, <1>2, <2>2, <2>3, ApartLess DEF OwnersInv
<1>4. CASE fd' = "open" /\ ~held' /\ ~sourceEnded
    <2> DEFINE got == Obtain("source")
    <2>1. /\ reads' = Append(reads, [at |-> at, id |-> got.buffer])
          /\ allocators' = [allocators EXCEPT !.source = got.allocator]
        BY <1>4 DEF EmitData
    <2>2. /\ Unheld(got.buffer) \/ (got.buffer \in SourcePool /\ ~IsFile)
          /\ \A x \in ToSet(got.allocator.pool) : x \in SourcePool \/ Unheld(x)
          /\ IsFile => got.allocator = allocators["source"]
        BY ObtainOwns DEF SourcePool
    <2> HIDE DEF got
    <2>3. PoolsOK(allocators)
        BY WholeParts DEF DataInv, TypesInv, ChunkTypes
    <2>4. allocators'["source"] = got.allocator /\ allocators'["chunk"] = allocators["chunk"]
        <3>1. PICK s, c : allocators = [source |-> s, chunk |-> c]
            BY <2>3 DEF PoolsOK
        <3>2. allocators' = [source |-> got.allocator, chunk |-> c]
            BY <2>1, <3>1
        <3> QED
            BY <3>1, <3>2
    <2>5. /\ ChunkPool' = ChunkPool
          /\ \A x \in SourcePool' : x \in SourcePool \/ Unheld(x)
          /\ IsFile => SourcePool' = SourcePool
        BY <2>2, <2>4 DEF ChunkPool, SourcePool
    <2>6. PoolsInv'
        BY <1>2, <2>4 DEF OwnersInv, PoolsInv
    <2>7. BeingRead' = {got.buffer}
        <3>1. reads' = <<[at |-> at, id |-> got.buffer]>>
            BY <1>4, <2>1
        <3>2. Len(reads') = 1 /\ reads'[1].id = got.buffer
            BY <3>1
        <3> QED
            BY <3>2 DEF BeingRead
    <2>8. ASSUME NEW x PROVE Apart(x)'
        <3>1. Apart(x)
            BY DEF OwnersInv, ApartInv
        <3>2. Unheld(x) =>
              /\ x \notin ChunkPool /\ x \notin SourcePool /\ x \notin Flying /\ x \notin Buffered
              /\ x \notin Leaving /\ x \notin Remaining /\ x \notin BeingRead /\ x # 0
            BY UnheldFacts
        <3>3. x \in BeingRead' => Unheld(x) \/ (x \in SourcePool /\ ~IsFile)
            BY <2>2, <2>7
        <3> QED
            BY <1>1, <1>2, <2>5, <3>1, <3>2, <3>3 DEF Apart
    <2> QED
        BY <1>1, <2>6, <2>8 DEF OwnersInv, ApartInv
<1> QED
    BY <1>3, <1>4

(* A file was opened, or the batch drains.                                  *)
LEMMA ReadingOwns ==
    ASSUME DataInv, DataInv', OwnersInv, [Next]_vars, FileOpens \/ Drain
    PROVE  OwnersInv'
<1>1. /\ WholeInv /\ SourceShape /\ OriginInv /\ OpeningInv /\ HeldInv
    BY WholeParts DEF DataInv, SourceShape
<1>2. UNCHANGED <<assigned, buffer, calls, upload>>
    BY DEF FileOpens, Drain, DrainThen, quietVars, Others
<1>3. Leaving' = Leaving /\ Remaining' = Remaining
    BY <1>2 DEF Leaving, Remaining, FirstLeft, Top
<1>4. CASE FileOpens
    <2>1. EmitData(position) /\ reads = <<>> /\ Local
        BY <1>1, <1>4 DEF FileOpens, OpeningInv, OriginInv
    <2> QED
        BY <1>2, <1>3, <2>1, EmitDataOwns
<1>5. CASE Drain
    <2>1. CASE Local /\ held
        <3>1. EmitData(position) /\ fd' = fd
            BY <1>5, <2>1 DEF Drain, DrainThen
        <3>2. fd' = "open" /\ ~held' /\ ~sourceEnded => reads = <<>>
            BY <1>1, <2>1, <3>1 DEF HeldInv, Reading
        <3> QED
            BY <1>2, <1>3, <2>1, <3>1, <3>2, EmitDataOwns
    <2>2. CASE ~(Local /\ held)
        <3>1. UNCHANGED <<reads, allocators>>
            BY <1>5, <2>2 DEF Drain, DrainThen
        <3> QED
            BY <1>2, <3>1, QuietOwns
    <2> QED
        BY <2>1, <2>2
<1> QED
    BY <1>4, <1>5

(* A call of the chunk stream returns.                                      *)
LEMMA ReturnsOwn ==
    ASSUME DataInv, DataInv', OwnersInv, [Next]_vars, ReadReturns \/ WriteReturns \/ EndReturns
    PROVE  OwnersInv'
<1>1. /\ WholeInv /\ TypesInv /\ UploadInv /\ SourceShape /\ KindsInv /\ ShapeInv /\ CallsInv
    BY WholeParts DEF DataInv, SourceShape, ShapeInv
<1>2. UNCHANGED <<assigned, buffer, upload>>
    BY DEF ReadReturns, WriteReturns, EndReturns, Others
<1>3. PICK then : Returning(then) /\ (ReadReturns => then = "read")
    BY DEF ReadReturns, WriteReturns, EndReturns
<1>4. /\ calls # <<>> /\ Len(calls) \in Nat \ {0} /\ Len(calls') = Len(calls) - 1
      /\ Top = calls[Len(calls)] /\ Top.then = then
      /\ \A n \in 1..(Len(calls) - 1) : calls'[n] = calls[n]
    BY <1>1, <1>3, ReturnedCalls
<1>5. calls' # <<>> => Len(calls') \in 1..Len(calls') /\ Len(calls') \in Nat \ {0}
    <2>1. (TypesInv => Len(calls) \in Nat /\ (calls # <<>> => 1 \in 1..Len(calls)))'
        BY FlowTypes, PTL
    <2>2. TypesInv'
        BY BothTypes DEF DataInv
    <2>3. calls' # <<>> => Len(calls') \in Nat /\ 1 \in 1..Len(calls')
        BY <2>1, <2>2
    <2> QED
        BY <2>3
<1>6. Leaving' = {}
    <2>1. CASE calls' = <<>>
        BY <2>1 DEF Leaving
    <2>2. CASE calls' # <<>>
        <3>1. Len(calls') \in 1..(Len(calls) - 1) /\ Len(calls') \in 1..Len(calls)
              /\ Len(calls') # Len(calls)
            BY <1>4, <1>5, <2>2
        <3>2. calls[Len(calls')].out = NoData
            BY <1>1, <3>1, EmptyRuns DEF CallsInv
        <3>3. Top' = calls'[Len(calls')]
            BY DEF Top, Last
        <3> QED
            BY <1>4, <3>1, <3>2, <3>3 DEF Leaving
    <2> QED
        BY <2>1, <2>2
<1>7. \A x \in Remaining' : x \in Remaining
    <2>1. CASE calls' = <<>>
        BY <2>1, EmptyRuns DEF Remaining, FirstLeft
    <2>2. CASE calls' # <<>>
        <3>1. 1 \in 1..(Len(calls) - 1)
            BY <1>4, <1>5, <2>2
        <3>2. calls'[1] = calls[1]
            BY <1>4, <3>1
        <3> QED
            BY <1>4, <2>2, <3>2 DEF Remaining, FirstLeft
    <2> QED
        BY <2>1, <2>2
<1>8. CASE ReadReturns
    <2>1. Len(calls) \in 1..Len(calls)
        BY <1>4
    <2>2. Local /\ reads = <<>>
        <3>1. calls[Len(calls)].then = "read" /\ OneRead
            BY <1>1, <1>3, <1>4, <1>8 DEF SourceShape
        <3> QED
            BY <1>1, <2>1, <3>1, ReadsFacts DEF KindsInv
    <2>3. EmitData(position')
        BY <1>8 DEF ReadReturns
    <2> QED
        BY <1>2, <1>6, <1>7, <2>2, <2>3, EmitDataOwns
<1>9. CASE ~ReadReturns
    <2>1. UNCHANGED <<reads, allocators>>
        BY <1>9 DEF WriteReturns, EndReturns, sourceVars
    <2>2. /\ FlightsInv' /\ \A x \in Flying' : x \in Flying
        BY <1>2, FlightsMove DEF OwnersInv
    <2>3. PoolsInv' /\ ChunkPool' = ChunkPool /\ SourcePool' = SourcePool
        BY <1>2, <2>1, PoolsKept DEF OwnersInv
    <2>4. Buffered' = Buffered /\ BeingRead' = BeingRead
        BY <1>2, <2>1 DEF Buffered, BeingRead
    <2> QED
        BY <1>2, <1>6, <1>7, <2>2, <2>3, <2>4, ApartLess DEF OwnersInv
<1> QED
    BY <1>8, <1>9

LEMMA AllocatorsFacts ==
    ASSUME DataInv
    PROVE  /\ PoolOK(allocators["source"]) /\ PoolOK(allocators["chunk"])
           /\ \A p : /\ [allocators EXCEPT !.source = p]["source"] = p
                     /\ [allocators EXCEPT !.source = p]["chunk"] = allocators["chunk"]
                     /\ [allocators EXCEPT !.chunk = p]["chunk"] = p
                     /\ [allocators EXCEPT !.chunk = p]["source"] = allocators["source"]
<1>1. PoolsOK(allocators)
    BY WholeParts DEF DataInv, TypesInv, ChunkTypes
<1>2. PICK s, c : allocators = [source |-> s, chunk |-> c]
    BY <1>1 DEF PoolsOK
<1> QED
    BY <1>1, <1>2 DEF PoolsOK

LEMMA FreshUnheld ==
    ASSUME DataInv
    PROVE  Unheld(FreshBuffers(1, Referred)[1])
<1>1. IsFiniteSet(Referred)
    BY WholeParts, ReferredFinite DEF DataInv
<1>2. \A j \in 1..1 : FreshBuffers(1, Referred)[j] \notin Referred /\ FreshBuffers(1, Referred)[j] # 0
    BY <1>1, FreshFacts
<1> QED
    BY <1>2 DEF Unheld

(* One call is made.                                                        *)
LEMMA FirstOwner ==
    ASSUME NEW c, calls' = <<c>>
    PROVE  /\ \A x \in Leaving' : x = c.out.id /\ c.out # NoData
           /\ \A x \in Remaining' : x = c.left.id /\ Size(c.left.run) > 0
<1>1. calls' # <<>> /\ Top' = c /\ calls'[1] = c
    BY DEF Top, Last
<1> QED
    BY <1>1 DEF Leaving, Remaining, FirstLeft

(* Data was read from a file.                                               *)
LEMMA ReadEmitsOwn ==
    ASSUME DataInv, DataInv', OwnersInv, [Next]_vars, ReadEmits
    PROVE  OwnersInv'
<1>1. /\ WholeInv /\ TypesInv /\ OriginInv /\ OneRead /\ ShapeInv /\ ShapeInv' /\ BufferInv
    BY WholeParts DEF DataInv, SourceShape, ShapeInv
<1>2. PICK n \in 1..upload.piece :
         /\ reads # <<>> /\ reads' = Tail(reads) /\ EventLoop
         /\ allocators' = IF n < upload.piece /\ ~IsFile
                          THEN [allocators EXCEPT !.source = ReleaseBuffer(@, Head(reads).id)]
                          ELSE allocators
         /\ LET r == Head(reads)
                data == [run |-> Run(r.at + 1, r.at + n), id |-> r.id]
            IN  calls' = <<IF IsFile THEN Call([data EXCEPT !.run.first = @ + n], data, "read")
                           ELSE Call(data, NoData, "read")>>
         /\ UNCHANGED <<assigned, upload, buffer>>
    BY DEF ReadEmits, ReadGets, Others
<1> DEFINE r == Head(reads)
           data == [run |-> Run(r.at + 1, r.at + n), id |-> r.id]
           left == IF IsFile THEN [data EXCEPT !.run.first = @ + n] ELSE data
           out == IF IsFile THEN data ELSE NoData
           c == Call(left, out, "read")
<1>3. calls' = <<c>>
    BY <1>2
<1>4. /\ reads \in Seq(ReadSet) /\ Len(reads) = 1 /\ reads' = <<>> /\ r = reads[1]
      /\ r.id \in Nat /\ r.id \in BeingRead
    <2>1. reads \in Seq(ReadSet) /\ Len(reads) = 1 /\ Tail(reads) = <<>>
        BY <1>1, <1>2, ReadsFacts
    <2>3. r = reads[1] /\ 1 \in 1..Len(reads)
        BY <2>1
    <2>2. reads[1] \in ReadSet
        BY <2>1, <2>3, ElementOfSeq
    <2> HIDE DEF r
    <2> QED
        BY <1>2, <2>1, <2>2, <2>3 DEF BeingRead, ReadSet
<1>5. Local /\ calls = <<>>
    BY <1>1, <1>2 DEF OriginInv, EventLoop
<1>6. data.id = r.id /\ left.id = r.id /\ (out # NoData => out.id = r.id /\ IsFile)
    OBVIOUS
<1>7. c.left = left /\ c.out = out
    BY DEF Call
<1> HIDE DEF r, data, left, out, c
<1>8. IsFile => Buffered = {} /\ Remaining' = {}
    <2>1. IsFile => buffer = NoData
        BY <1>1, <1>5 DEF BufferInv
    <2>2. (IsFile' <=> IsFile) /\ (Local' <=> Local)
        BY <1>2 DEF IsFile, Local
    <2>3. Len(calls') = 1 /\ 1 \in 1..Len(calls') /\ calls'[1] = c
        BY <1>3
    <2>4. IsFile => Size(c.left.run) = 0
        BY <1>1, <1>5, <2>2, <2>3 DEF ShapeInv, CallsInv
    <2>5. \A x \in Remaining' : Size(c.left.run) > 0
        BY <1>3, FirstOwner
    <2> QED
        BY <2>1, <2>4, <2>5 DEF Buffered
<1>9. /\ \A x \in Leaving' : x = r.id /\ IsFile
      /\ \A x \in Remaining' : x = r.id
      /\ BeingRead' = {} /\ Buffered' = Buffered
    <2>1. Len(reads') = 0
        BY <1>4
    <2>2. \A x \in Leaving' : x = c.out.id /\ c.out # NoData
        BY <1>3, FirstOwner
    <2>3. \A x \in Remaining' : x = c.left.id
        BY <1>3, FirstOwner
    <2>4. \A x \in Leaving' : x = r.id /\ IsFile
        BY <1>6, <1>7, <2>2
    <2> QED
        BY <1>2, <1>6, <1>7, <2>1, <2>3, <2>4 DEF BeingRead, Buffered
<1>10. /\ FlightsInv' /\ \A x \in Flying' : x \in Flying
    BY <1>2, FlightsMove DEF OwnersInv
<1>11. /\ ChunkPool' = ChunkPool
       /\ \A x \in SourcePool' : x \in SourcePool \/ (x = r.id /\ ~IsFile)
       /\ allocators'["chunk"] = allocators["chunk"]
    <2>1. CASE n < upload.piece /\ ~IsFile
        <3>1. allocators' = [allocators EXCEPT !.source = ReleaseBuffer(allocators["source"], r.id)]
            BY <1>2, <2>1 DEF r
        <3>2. \A x \in ToSet(ReleaseBuffer(allocators["source"], r.id).pool) :
                 x \in ToSet(allocators["source"].pool) \/ x = r.id
            BY <1>4, AllocatorsFacts, ReleasePools
        <3>3. /\ allocators'["source"] = ReleaseBuffer(allocators["source"], r.id)
              /\ allocators'["chunk"] = allocators["chunk"]
            BY <3>1, AllocatorsFacts
        <3> QED
            BY <2>1, <3>2, <3>3 DEF ChunkPool, SourcePool
    <2>2. CASE ~(n < upload.piece /\ ~IsFile)
        <3>1. allocators' = allocators
            BY <1>2, <2>2
        <3> QED
            BY <3>1 DEF ChunkPool, SourcePool
    <2> QED
        BY <2>1, <2>2
<1>12. (Local' <=> Local) /\ (IsFile' <=> IsFile)
    BY <1>2 DEF Local, IsFile
<1>13. PoolsInv'
    BY <1>5, <1>11, <1>12 DEF OwnersInv, PoolsInv
<1>14. ASSUME NEW x PROVE Apart(x)'
    <2>1. Apart(x)
        BY DEF OwnersInv, ApartInv
    <2>2. x = r.id => x \in BeingRead
        BY <1>4
    <2> QED
        BY <1>5, <1>8, <1>9, <1>10, <1>11, <1>12, <2>1, <2>2 DEF Apart
<1> QED
    BY <1>10, <1>13, <1>14 DEF OwnersInv, ApartInv

(* A file was read to its end.                                              *)
LEMMA ReadEndsOwn ==
    ASSUME DataInv, DataInv', OwnersInv, [Next]_vars, ReadEnds
    PROVE  OwnersInv'
<1>1. /\ WholeInv /\ TypesInv /\ OneRead
    BY WholeParts DEF DataInv, SourceShape
<1>2. /\ reads' = Tail(reads) /\ reads # <<>> /\ UNCHANGED <<assigned, upload, allocators>>
    BY DEF ReadEnds, ReadGets, Others
<1>3. BeingRead' = {}
    <2>1. reads' = <<>>
        BY <1>1, <1>2, ReadsFacts
    <2>2. Len(reads') = 0
        BY <2>1
    <2> QED
        BY <2>2 DEF BeingRead
<1>4. /\ FlightsInv' /\ \A x \in Flying' : x \in Flying
    BY <1>2, FlightsMove DEF OwnersInv
<1>5. PoolsInv' /\ ChunkPool' = ChunkPool /\ SourcePool' = SourcePool
    BY <1>2, PoolsKept DEF OwnersInv
<1>6. CASE sourceEnded
    <2>1. UNCHANGED <<calls, buffer>>
        BY <1>6 DEF ReadEnds
    <2>2. Buffered' = Buffered /\ Leaving' = Leaving /\ Remaining' = Remaining
        BY <2>1 DEF Buffered, Leaving, Remaining, FirstLeft, Top
    <2> QED
        BY <1>2, <1>3, <1>4, <1>5, <2>2, ApartLess DEF OwnersInv
<1>7. CASE ~sourceEnded
    <2>1. calls' = <<Call(NoData, buffer, "end")>> /\ buffer' = NoData
        BY <1>7 DEF ReadEnds
    <2>2. Call(NoData, buffer, "end").left = NoData /\ Call(NoData, buffer, "end").out = buffer
        BY DEF Call
    <2>3. Buffered' = {} /\ Remaining' = {} /\ \A x \in Leaving' : x \in Buffered
        BY <2>1, <2>2, FirstOwner, EmptyRuns DEF Buffered
    <2> QED
        BY <1>2, <1>3, <1>4, <1>5, <2>3, ApartLess DEF OwnersInv
<1> QED
    BY <1>6, <1>7

(* A read of the file fails: its buffer is lost.                            *)
LEMMA ReadFailsOwns ==
    ASSUME DataInv, DataInv', OwnersInv, [Next]_vars, ReadFails
    PROVE  OwnersInv'
<1>1. TypesInv /\ OneRead /\ reads # <<>>
    BY WholeParts DEF DataInv, SourceShape, ReadFails
<1>2. reads' = Tail(reads) /\ UNCHANGED <<assigned, upload, allocators, calls, buffer>>
    BY DEF ReadFails, Others, chunkVars
<1>3. BeingRead' = {}
    <2>1. reads' = <<>>
        BY <1>1, <1>2, ReadsFacts
    <2>2. Len(reads') = 0
        BY <2>1
    <2> QED
        BY <2>2 DEF BeingRead
<1>4. /\ FlightsInv' /\ \A x \in Flying' : x \in Flying
    BY <1>2, FlightsMove DEF OwnersInv
<1>5. PoolsInv' /\ ChunkPool' = ChunkPool /\ SourcePool' = SourcePool
    BY <1>2, PoolsKept DEF OwnersInv
<1>6. Buffered' = Buffered /\ Leaving' = Leaving /\ Remaining' = Remaining
    BY <1>2 DEF Buffered, Leaving, Remaining, FirstLeft, Top
<1> QED
    BY <1>2, <1>3, <1>4, <1>5, <1>6, ApartLess DEF OwnersInv

(* A program writes into the stream.                                        *)
LEMMA PipeWritesOwn ==
    ASSUME DataInv, DataInv', OwnersInv, [Next]_vars, PipeWrites
    PROVE  OwnersInv'
<1>1. calls = <<>>
    BY WritesAlone DEF DataInv, ControlInv
<1> DEFINE id == FreshBuffers(1, Referred)[1]
<1>2. PICK n : /\ calls' = Append(calls, [Call(NoData, NoData, "write") EXCEPT !.left =
                              [run |-> Run(position + 1, position + n), id |-> id]])
               /\ UNCHANGED <<assigned, upload, allocators, buffer, reads>>
    BY DEF PipeWrites, Others
<1> DEFINE c == [Call(NoData, NoData, "write") EXCEPT !.left =
                    [run |-> Run(position + 1, position + n), id |-> id]]
<1>3. calls' = <<c>> /\ c.left.id = id /\ c.out = NoData
    BY <1>1, <1>2 DEF Call
<1>4. Unheld(id)
    BY FreshUnheld
<1> HIDE DEF c, id
<1>5. /\ Leaving' = {} /\ \A x \in Remaining' : x = id
    BY <1>3, FirstOwner
<1>6. /\ FlightsInv' /\ \A x \in Flying' : x \in Flying
    BY <1>2, FlightsMove DEF OwnersInv
<1>7. PoolsInv' /\ ChunkPool' = ChunkPool /\ SourcePool' = SourcePool
    BY <1>2, PoolsKept DEF OwnersInv
<1>8. Buffered' = Buffered /\ BeingRead' = BeingRead /\ (Local' <=> Local) /\ (IsFile' <=> IsFile)
    BY <1>2 DEF Buffered, BeingRead, Local, IsFile
<1>9. ASSUME NEW x PROVE Apart(x)'
    <2>1. Apart(x)
        BY DEF OwnersInv, ApartInv
    <2>2. x = id =>
              /\ x \notin ChunkPool /\ x \notin SourcePool /\ x \notin Flying /\ x \notin Buffered
              /\ x \notin Leaving /\ x \notin Remaining /\ x \notin BeingRead /\ x # 0
        BY <1>4, UnheldFacts
    <2> QED
        BY <1>5, <1>6, <1>7, <1>8, <2>1, <2>2 DEF Apart
<1> QED
    BY <1>6, <1>7, <1>9 DEF OwnersInv, ApartInv

(* The program ends the stream: the chunk stream that wraps it copies what  *)
(* it has kept.                                                             *)
LEMMA PipeEndsOwn ==
    ASSUME DataInv, DataInv', OwnersInv, [Next]_vars, PipeEnds
    PROVE  OwnersInv'
<1> DEFINE got == Obtain("chunk")
           wrapped == ~IsFile /\ ready = "yes" /\ buffer # NoData
           out == IF wrapped THEN [buffer EXCEPT !.id = got.buffer] ELSE buffer
           c == Call(NoData, out, "end")
<1>1. /\ allocators' = IF wrapped THEN [allocators EXCEPT !.chunk = got.allocator] ELSE allocators
      /\ calls' = <<c>> /\ buffer' = NoData /\ ~Local /\ EventLoop
      /\ UNCHANGED <<assigned, upload, reads>>
    BY DEF PipeEnds, Others
<1>2. TypesInv /\ buffer \in Data
    BY WholeParts DEF DataInv, TypesInv, ChunkTypes
<1>3. reads = <<>>
    BY <1>1, WholeParts DEF DataInv, OriginInv, SourceShape
<1>4. /\ wrapped => out.id = got.buffer
      /\ ~wrapped => out = buffer
    BY <1>2 DEF Data
<1>5. c.left = NoData /\ c.out = out
    BY DEF Call
<1>6. /\ Unheld(got.buffer) \/ got.buffer \in ChunkPool
      /\ \A x \in ToSet(got.allocator.pool) : x \in ChunkPool \/ Unheld(x)
      /\ Distinct(allocators["chunk"].pool) =>
            Distinct(got.allocator.pool) /\ got.buffer \notin ToSet(got.allocator.pool)
    BY ObtainOwns DEF ChunkPool
<1> HIDE DEF c, out, got
<1>7. /\ Buffered' = {} /\ Remaining' = {} /\ BeingRead' = {}
      /\ wrapped => \A x \in Leaving' : x = got.buffer
      /\ ~wrapped => \A x \in Leaving' : x \in Buffered
    <2>1. Len(reads') = 0
        BY <1>1, <1>3
    <2>2. \A x \in Leaving' : x = c.out.id /\ c.out # NoData
        BY <1>1, FirstOwner
    <2>3. \A x \in Remaining' : Size(c.left.run) > 0
        BY <1>1, FirstOwner
    <2> QED
        BY <1>1, <1>4, <1>5, <2>1, <2>2, <2>3, EmptyRuns DEF Buffered, BeingRead
<1>8. /\ FlightsInv' /\ \A x \in Flying' : x \in Flying
    BY <1>1, FlightsMove DEF OwnersInv
<1>9. (Local' <=> Local) /\ (IsFile' <=> IsFile)
    BY <1>1 DEF Local, IsFile
<1>10. CASE wrapped
    <2>1. allocators' = [allocators EXCEPT !.chunk = got.allocator]
        BY <1>1, <1>10
    <2>2. allocators'["chunk"] = got.allocator /\ allocators'["source"] = allocators["source"]
        BY <2>1, AllocatorsFacts
    <2>3. /\ \A x \in ChunkPool' : (x \in ChunkPool \/ Unheld(x)) /\ x # got.buffer
          /\ SourcePool' = SourcePool
        BY <1>6, <2>2 DEF ChunkPool, SourcePool, OwnersInv, PoolsInv
    <2>4. PoolsInv'
        BY <1>6, <1>9, <2>2 DEF OwnersInv, PoolsInv
    <2>5. ASSUME NEW x PROVE Apart(x)'
        <3>1. Apart(x)
            BY DEF OwnersInv, ApartInv
        <3>2. Unheld(x) =>
              /\ x \notin ChunkPool /\ x \notin SourcePool /\ x \notin Flying /\ x \notin Buffered
              /\ x \notin Leaving /\ x \notin Remaining /\ x \notin BeingRead /\ x # 0
            BY UnheldFacts
        <3>3. x \in Leaving' => x = got.buffer /\ (Unheld(x) \/ x \in ChunkPool)
            BY <1>6, <1>7, <1>10
        <3> HIDE DEF wrapped
        <3> QED
            BY <1>7, <1>8, <1>9, <2>3, <3>1, <3>2, <3>3 DEF Apart
    <2> QED
        BY <1>8, <2>4, <2>5 DEF OwnersInv, ApartInv
<1>11. CASE ~wrapped
    <2>1. allocators' = allocators
        BY <1>1, <1>11
    <2>2. PoolsInv' /\ ChunkPool' = ChunkPool /\ SourcePool' = SourcePool
        BY <1>1, <2>1, PoolsKept DEF OwnersInv
    <2> QED
        BY <1>1, <1>7, <1>8, <1>11, <2>2, ApartLess DEF OwnersInv
<1> QED
    BY <1>10, <1>11

(* The user callback of a chunk that failed stops the stream, which may     *)
(* emit what it has kept.                                                   *)
LEMMA StopOwns ==
    ASSUME DataInv, DataInv', OwnersInv, [Next]_vars, UserCallbackStops
    PROVE  OwnersInv'
<1>1. /\ UploadInv /\ TypesInv
    BY WholeParts DEF DataInv
<1>2. /\ Len(calls') = Len(calls) + 1 /\ Len(calls) \in Nat
      /\ \A n \in 1..Len(calls) : calls'[n] = calls[n]
      /\ calls'[Len(calls) + 1] =
                 Call(NoData, IF Local /\ ~IsFile THEN buffer ELSE NoData, "end")
      /\ buffer' = IF Local /\ ~IsFile THEN NoData ELSE buffer
      /\ UNCHANGED <<upload, reads, assigned>>
    BY <1>1, StoppedCalls
<1>3. Top' = Call(NoData, IF Local /\ ~IsFile THEN buffer ELSE NoData, "end") /\ calls' # <<>>
    <2>1. Top' = calls'[Len(calls')]
        BY DEF Top, Last
    <2>2. calls' # <<>>
        BY <1>2
    <2> QED
        BY <1>2, <2>1, <2>2
<1>4. \A x \in Leaving' : x \in Buffered
    <2>1. Top'.out = IF Local /\ ~IsFile THEN buffer ELSE NoData
        BY <1>3 DEF Call
    <2> QED
        BY <1>3, <2>1 DEF Leaving, Buffered
<1>5. \A x \in Remaining' : x \in Remaining
    <2>1. CASE calls = <<>>
        <3>1. calls'[1] = Call(NoData, IF Local /\ ~IsFile THEN buffer ELSE NoData, "end")
            BY <1>2, <2>1
        <3>2. calls'[1].left = NoData
            BY <3>1 DEF Call
        <3> QED
            BY <1>3, <3>2, EmptyRuns DEF Remaining, FirstLeft
    <2>2. CASE calls # <<>>
        <3>1. calls'[1] = calls[1]
            BY <1>1, <1>2, <2>2, FlowTypes
        <3> QED
            BY <1>3, <2>2, <3>1 DEF Remaining, FirstLeft
    <2> QED
        BY <2>1, <2>2
<1>6. Buffered' \subseteq Buffered /\ BeingRead' = BeingRead
    BY <1>2 DEF Buffered, BeingRead
<1>7. /\ FlightsInv' /\ \A x \in Flying' : x \in Flying
    BY <1>2, FlightsMove DEF OwnersInv
<1>8. PoolsInv' /\ ChunkPool' = ChunkPool /\ SourcePool' \subseteq SourcePool
    <2>1. CASE Local \/ IsFile
        <3>1. allocators' = allocators
            BY <2>1 DEF UserCallbackStops, Stop
        <3> QED
            BY <1>2, <3>1, PoolsKept DEF OwnersInv
    <2>2. CASE ~(Local \/ IsFile)
        <3>1. allocators' = [allocators EXCEPT !.source = DestroyAllocator(allocators["source"])]
            BY <2>2 DEF UserCallbackStops, Stop
        <3>2. /\ allocators'["source"] = DestroyAllocator(allocators["source"])
              /\ allocators'["chunk"] = allocators["chunk"]
            BY <3>1, AllocatorsFacts
        <3>3. /\ ToSet(DestroyAllocator(allocators["source"]).pool) = {}
              /\ Distinct(DestroyAllocator(allocators["source"]).pool)
            <4>1. 0 \in Nat
                OBVIOUS
            <4> QED
                BY <4>1, AllocatorsFacts, ReleasePools
        <3> QED
            BY <3>2, <3>3 DEF OwnersInv, PoolsInv, ChunkPool, SourcePool
    <2> QED
        BY <2>1, <2>2
<1> QED
    BY <1>2, <1>4, <1>5, <1>6, <1>7, <1>8, ApartLess DEF OwnersInv

(* A chunk was stored: its buffer goes to the pool.                         *)
LEMMA ReleasedOwns ==
    ASSUME DataInv, DataInv', OwnersInv, [Next]_vars, UserCallbackReturns
    PROVE  OwnersInv'
<1>1. /\ WholeInv /\ TypesInv /\ BatchTypes /\ Total \in Nat /\ Total = Len(status)
    BY WholeParts, TotalFacts DEF DataInv
<1> DEFINE i == Random!Top.op
           id == assigned[i].id
<1>2. /\ i \in 1..Total /\ status[i] \in {"callback", "error"}
      /\ status' = [status EXCEPT ![i] = "complete"]
      /\ UNCHANGED <<quietVars, sourceVars>>
    BY <1>1, ReturnStacks
<1>3. allocators' = IF Size(assigned[i].run) # upload.chunk THEN allocators
                    ELSE [allocators EXCEPT !.chunk = ReleaseBuffer(allocators["chunk"], id)]
    BY DEF UserCallbackReturns
<1> HIDE DEF i
<1>4. id \in Nat /\ id \in Flying /\ i \in InFlight
    <2>1. assigned \in Seq(ChunkSet) /\ Len(assigned) = Total
        BY <1>1 DEF TypesInv, ChunkTypes
    <2>2. id \in Nat
        BY <1>2, <2>1, ChunkLasts
    <2> QED
        BY <1>2, <2>2 DEF InFlight, Flying
<1>5. UNCHANGED <<upload, buffer, calls, assigned, reads>>
    BY <1>2 DEF quietVars, sourceVars
<1>6. /\ FlightsInv' /\ \A x \in Flying' : x \in Flying
      /\ \A j \in InFlight' : j \in InFlight
    BY <1>5, FlightsMove DEF OwnersInv
<1>7. i \notin InFlight'
    <2>1. status \in Seq(Random!OperationState)
        BY <1>1 DEF BatchTypes
    <2>2. "complete" \in Random!OperationState
        BY DEF Random!OperationState
    <2>3. status'[i] = "complete"
        BY <1>1, <1>2, <2>1, <2>2, OverwriteSeq
    <2> QED
        BY <2>3 DEF InFlight
<1> HIDE DEF id
<1>8. \A x \in Flying' : x # id
    BY <1>4, <1>5, <1>6, <1>7 DEF Flying, OwnersInv, FlightsInv, id
<1>9. /\ Buffered' = Buffered /\ Leaving' = Leaving /\ Remaining' = Remaining
      /\ BeingRead' = BeingRead /\ (Local' <=> Local) /\ (IsFile' <=> IsFile)
    BY <1>5 DEF Buffered, Leaving, Remaining, BeingRead, FirstLeft, Top, Local, IsFile
<1>10. id \notin ChunkPool
    BY <1>4 DEF OwnersInv, ApartInv, Apart
<1>11. /\ PoolsInv' /\ SourcePool' = SourcePool
       /\ \A x \in ChunkPool' : x \in ChunkPool \/ x = id
    <2>1. CASE Size(assigned[i].run) # upload.chunk
        <3>1. allocators' = allocators
            BY <1>3, <2>1
        <3> QED
            BY <1>5, <3>1, PoolsKept DEF OwnersInv
    <2>2. CASE ~(Size(assigned[i].run) # upload.chunk)
        <3> DEFINE a == ReleaseBuffer(allocators["chunk"], id)
        <3>1. allocators' = [allocators EXCEPT !.chunk = a]
            BY <1>3, <2>2
        <3>2. /\ \A x \in ToSet(a.pool) : x \in ToSet(allocators["chunk"].pool) \/ x = id
              /\ Distinct(allocators["chunk"].pool) /\ id \notin ToSet(allocators["chunk"].pool)
                    => Distinct(a.pool)
            BY <1>4, AllocatorsFacts, ReleasePools
        <3> HIDE DEF a
        <3>3. allocators'["chunk"] = a /\ allocators'["source"] = allocators["source"]
            BY <3>1, AllocatorsFacts
        <3> QED
            BY <1>9, <1>10, <3>2, <3>3 DEF OwnersInv, PoolsInv, ChunkPool, SourcePool
    <2> QED
        BY <2>1, <2>2
<1>12. ASSUME NEW x PROVE Apart(x)'
    <2>1. Apart(x)
        BY DEF OwnersInv, ApartInv
    <2>2. x = id => x \in Flying
        BY <1>4
    <2> QED
        BY <1>6, <1>8, <1>9, <1>11, <2>1, <2>2 DEF Apart
<1> QED
    BY <1>6, <1>11, <1>12 DEF OwnersInv, ApartInv

(* The only call goes on.                                                   *)
LEMMA TouchedOwner ==
    ASSUME TypesInv, Len(calls) = 1, calls # <<>>, NEW left \in Data, NEW out \in Data,
           calls' = TopWith(left, out)
    PROVE  /\ \A x \in Leaving' : x = out.id /\ out # NoData
           /\ \A x \in Remaining' : x = left.id /\ Size(left.run) > 0
<1>1. calls \in Seq(CallSet)
    BY CallKinds
<1>2. /\ Len(calls') = 1
      /\ calls'[1] = [height |-> Top.height, left |-> left, out |-> out, then |-> Top.then]
    BY <1>1, TopWithShape
<1>3. Top' = calls'[Len(calls')]
    BY DEF Top, Last
<1>4. Top'.out = out /\ calls'[1].left = left /\ calls' # <<>>
    BY <1>2, <1>3
<1> QED
    BY <1>4 DEF Leaving, Remaining, FirstLeft

(* What _buildChunk does with the buffers when it copies.                   *)
LEMMA CopyOwns ==
    ASSUME DataInv, OwnersInv, Len(calls) = 1, calls # <<>>, Size(Top.left.run) > 0,
           NEW n \in Nat, CopyUpTo(n), upload' = upload, Local => Top.then = "read"
    PROVE  /\ PoolsInv'
           /\ \A x \in ChunkPool' : x \in ChunkPool \/ (Unheld(x) /\ Local)
           /\ \A x \in SourcePool' : \/ x \in SourcePool \/ (Unheld(x) /\ ~Local)
                                     \/ (x \in Remaining /\ Local)
           /\ \E id : /\ Unheld(id) \/ id \in Buffered \/ id \in (IF Local THEN ChunkPool ELSE SourcePool)
                      /\ id \notin ChunkPool' /\ id \notin SourcePool'
                      /\ \A x \in Buffered' \cup Leaving' : x = id
                      /\ Buffered' = {} \/ Leaving' = {}
           /\ \A x \in Remaining' : x \in Remaining
<1> DEFINE fresh == buffer = NoData
           got == Obtain(Level)
           id == IF fresh THEN got.buffer ELSE buffer.id
           run == Run(IF fresh THEN Top.left.run.first ELSE buffer.run.first,
                      Top.left.run.first + n - 1)
           rest == [Top.left EXCEPT !.run.first = @ + n]
           before == IF fresh THEN [allocators EXCEPT ![Level] = got.allocator] ELSE allocators
<1>1. /\ TypesInv /\ buffer \in Data /\ Top.left \in Data
    BY WholeParts, FlowTypes DEF DataInv, TypesInv, ChunkTypes
<1>2. /\ allocators' = AfterCopy(before)
      /\ IF Size(run) < upload.chunk
         THEN buffer' = [run |-> run, id |-> id] /\ calls' = TopWith(rest, NoData)
         ELSE buffer' = NoData /\ calls' = TopWith(rest, [run |-> run, id |-> id])
    BY DEF CopyUpTo, CopyAndPop
<1>3. Top.left.id \in Remaining /\ Top.left.id \in Nat
    <2>1. Top = calls[1]
        BY <1>1, FlowTypes
    <2> QED
        BY <1>1, <2>1, DataFacts DEF Remaining, FirstLeft
<1>4. rest \in Data /\ rest.id = Top.left.id
    <2>1. PICK d \in Data : d = Top.left
        BY <1>1
    <2>2. [d EXCEPT !.run.first = @ + n] \in Data /\ [d EXCEPT !.run.first = @ + n].id = d.id
        BY DataFacts
    <2> QED
        BY <2>1, <2>2
<1>5. Level \in {"source", "chunk"} /\ Level = IF Local THEN "chunk" ELSE "source"
    BY DEF Level
<1>6. /\ Unheld(got.buffer) \/ got.buffer \in ToSet(allocators[Level].pool)
      /\ \A x \in ToSet(got.allocator.pool) : x \in ToSet(allocators[Level].pool) \/ Unheld(x)
      /\ Distinct(allocators[Level].pool) =>
            Distinct(got.allocator.pool) /\ got.buffer \notin ToSet(got.allocator.pool)
      /\ got.buffer \in Nat /\ PoolOK(got.allocator)
    BY <1>1, <1>5, ObtainOwns, ObtainFacts
<1>7. Distinct(allocators[Level].pool)
    BY <1>5 DEF OwnersInv, PoolsInv
<1> HIDE DEF got
<1>8. id \in Nat
    BY <1>1, <1>6, DataFacts
<1>9. run \in [first : Nat, last : Int]
    <2>1. Top.left.run.first \in Nat /\ buffer.run.first \in Nat
        BY <1>1, DataFacts
    <2> QED
        BY <2>1 DEF Run
<1> HIDE DEF id, run, rest
<1>10. \A x \in Remaining' : x \in Remaining
    <2>1. NoData \in Data /\ [run |-> run, id |-> id] \in Data
        BY <1>1, <1>8, <1>9, NoDataOK DEF TypesInv, Data
    <2>2. \E out \in Data : calls' = TopWith(rest, out)
        BY <1>2, <2>1
    <2>3. \A x \in Remaining' : x = rest.id
        BY <1>1, <1>4, <2>2, TouchedOwner
    <2> QED
        BY <1>3, <1>4, <2>3
<1>11. /\ \A x \in Buffered' \cup Leaving' : x = id
       /\ Buffered' = {} \/ Leaving' = {}
    <2>1. NoData \in Data /\ [run |-> run, id |-> id] \in Data
        BY <1>1, <1>8, <1>9, NoDataOK DEF TypesInv, Data
    <2>2. CASE Size(run) < upload.chunk
        <3>1. buffer' = [run |-> run, id |-> id] /\ calls' = TopWith(rest, NoData)
            BY <1>2, <2>2
        <3>2. \A x \in Leaving' : NoData # NoData
            BY <1>1, <1>4, <2>1, <3>1, TouchedOwner
        <3> QED
            BY <3>1, <3>2 DEF Buffered
    <2>3. CASE ~(Size(run) < upload.chunk)
        <3>1. buffer' = NoData /\ calls' = TopWith(rest, [run |-> run, id |-> id])
            BY <1>2, <2>3
        <3>2. \A x \in Leaving' : x = [run |-> run, id |-> id].id
            BY <1>1, <1>4, <2>1, <3>1, TouchedOwner
        <3> QED
            BY <3>1, <3>2 DEF Buffered
    <2> QED
        BY <2>2, <2>3
<1>12. /\ Unheld(id) \/ id \in Buffered \/ id \in (IF Local THEN ChunkPool ELSE SourcePool)
       /\ id \notin ToSet(before[Level].pool)
       /\ Distinct(before[Level].pool)
       /\ \A x \in ToSet(before[Level].pool) : x \in ToSet(allocators[Level].pool) \/ Unheld(x)
       /\ \A a \in {"source", "chunk"} : a # Level => before[a] = allocators[a]
    <2>1. CASE fresh
        <3>1. before = [allocators EXCEPT ![Level] = got.allocator]
            BY <2>1
        <3>2. before[Level] = got.allocator
              /\ \A a \in {"source", "chunk"} : a # Level => before[a] = allocators[a]
            <4>1. CASE Local
                BY <1>5, <3>1, <4>1, AllocatorsFacts
            <4>2. CASE ~Local
                BY <1>5, <3>1, <4>2, AllocatorsFacts
            <4> QED
                BY <4>1, <4>2
        <3> HIDE DEF before
        <3> QED
            BY <1>5, <1>6, <1>7, <2>1, <3>2 DEF id, ChunkPool, SourcePool
    <2>2. CASE ~fresh
        <3>1. before = allocators /\ id \in Buffered
            BY <2>2 DEF id, Buffered
        <3>2. id \notin ChunkPool /\ id \notin SourcePool
            BY <3>1 DEF OwnersInv, ApartInv, Apart
        <3> HIDE DEF before
        <3> QED
            BY <1>5, <1>7, <3>1, <3>2 DEF ChunkPool, SourcePool
    <2> QED
        BY <2>1, <2>2
<1>13. PoolsOK(before)
    <2>1. PoolsOK(allocators)
        BY <1>1 DEF TypesInv, ChunkTypes
    <2> QED
        BY <1>6, <2>1, PoolsExcept
<1>14. (Local' <=> Local)
    BY DEF Local
<1>a. Local => id \notin SourcePool /\ id \notin Remaining
    <2>1. Unheld(id) => id \notin SourcePool /\ id \notin Remaining
        BY UnheldFacts
    <2>2. Apart(id)
        BY DEF OwnersInv, ApartInv
    <2> QED
        BY <1>12, <2>1, <2>2 DEF Apart
<1>b. ~Local => id \notin ChunkPool
    <2>1. Unheld(id) => id \notin ChunkPool
        BY UnheldFacts
    <2>2. Apart(id)
        BY DEF OwnersInv, ApartInv
    <2> QED
        BY <1>12, <2>1, <2>2 DEF Apart
<1> HIDE DEF before
<1>15. CASE ~Local
    <2>1. allocators' = before
        BY <1>2, <1>15 DEF AfterCopy
    <2>2. Level = "source" /\ allocators'["chunk"] = allocators["chunk"]
        BY <1>5, <1>12, <1>15, <2>1
    <2>3. /\ PoolsInv'
          /\ ChunkPool' = ChunkPool
          /\ \A x \in SourcePool' : x \in SourcePool \/ Unheld(x)
          /\ id \notin SourcePool'
        BY <1>12, <1>14, <1>15, <2>1, <2>2 DEF OwnersInv, PoolsInv, ChunkPool, SourcePool
    <2> QED
        BY <1>10, <1>11, <1>12, <1>15, <1>b, <2>3
<1>16. CASE Local
    <2>1. Level = "chunk" /\ before["source"] = allocators["source"]
        BY <1>5, <1>12, <1>16
    <2>2. /\ allocators'["chunk"] = before["chunk"]
          /\ \A x \in SourcePool' : x \in SourcePool \/ x \in Remaining
        <3>1. CASE allocators' = before
            BY <2>1, <3>1 DEF SourcePool
        <3>2. CASE allocators' = [before EXCEPT !.source = ReleaseBuffer(before["source"], Top.left.id)]
            <4>1. PICK s, c : before = [source |-> s, chunk |-> c]
                BY <1>13 DEF PoolsOK
            <4>2. /\ allocators'["source"] = ReleaseBuffer(allocators["source"], Top.left.id)
                  /\ allocators'["chunk"] = before["chunk"]
                BY <2>1, <3>2, <4>1
            <4>3. \A x \in ToSet(ReleaseBuffer(allocators["source"], Top.left.id).pool) :
                     x \in ToSet(allocators["source"].pool) \/ x = Top.left.id
                BY <1>3, AllocatorsFacts, ReleasePools
            <4> QED
                BY <1>3, <4>2, <4>3 DEF SourcePool
        <3> QED
            BY <1>2, <3>1, <3>2 DEF AfterCopy
    <2>3. /\ PoolsInv'
          /\ \A x \in ChunkPool' : x \in ChunkPool \/ Unheld(x)
          /\ id \notin ChunkPool'
        BY <1>12, <1>14, <1>16, <2>1, <2>2 DEF OwnersInv, PoolsInv, ChunkPool
    <2>4. id \notin SourcePool'
        BY <1>16, <1>a, <2>2
    <2> QED
        BY <1>10, <1>11, <1>12, <1>16, <2>2, <2>3, <2>4
<1> QED
    BY <1>15, <1>16

(* _buildChunk copies data, or passes on what the program wrote.            *)
LEMMA BuildOwns ==
    ASSUME DataInv, DataInv', OwnersInv, [Next]_vars, BuildChunk
    PROVE  OwnersInv'
<1>1. /\ WholeInv /\ TypesInv /\ OriginInv /\ KindsInv /\ OneRead /\ ShapeInv /\ FlowInv
      /\ buffer \in Data /\ Size(buffer.run) < upload.chunk
    BY WholeParts DEF DataInv, SourceShape, TypesInv, ChunkTypes
<1>2. Len(calls) = 1 /\ calls # <<>> /\ Top.then # "end"
    BY <1>1, BuildFlows
<1>3. /\ Top = calls[1] /\ 1 \in 1..Len(calls) /\ Top.left \in Data
      /\ Top.then \in {"read", "write", "end"}
    BY <1>1, <1>2, FlowTypes, CallKinds
<1>4. /\ Local => Top.then = "read"
      /\ Top.then = "read" => Local /\ reads = <<>>
    BY <1>1, <1>2, <1>3, ReadsFacts DEF KindsInv
<1>5. Size(Top.left.run) > 0 /\ Top.left.id \in Remaining
    BY <1>3 DEF BuildChunk, Remaining, FirstLeft
<1>6. UNCHANGED <<assigned, upload, reads>>
    BY DEF BuildChunk, Others, sourceVars
<1>7. BeingRead = {} /\ BeingRead' = {}
    <2>1. reads = <<>>
        BY <1>1, <1>3, <1>4 DEF OriginInv
    <2>2. Len(reads) = 0 /\ Len(reads') = 0
        BY <1>6, <2>1
    <2> QED
        BY <2>2 DEF BeingRead
<1>8. /\ FlightsInv' /\ \A x \in Flying' : x \in Flying
    BY <1>6, FlightsMove DEF OwnersInv
<1>9. (Local' <=> Local) /\ (IsFile' <=> IsFile)
    BY <1>6 DEF Local, IsFile
<1> DEFINE room == upload.chunk - (IF buffer = NoData THEN 0 ELSE Size(buffer.run))
           n == Smaller(room, Size(Top.left.run))
<1>10. CASE buffer = NoData /\ Top.then = "write" /\ calls' = TopWith(NoData, Top.left)
            /\ UNCHANGED <<buffer, allocators>>
    <2>1. NoData \in Data /\ Top.left \in Data
        BY <1>1, <1>3, NoDataOK DEF TypesInv
    <2>2. /\ \A x \in Leaving' : x = Top.left.id
          /\ Remaining' = {}
        BY <1>1, <1>2, <1>10, <2>1, TouchedOwner, EmptyRuns
    <2>3. Buffered' = {} /\ ~Local
        BY <1>4, <1>10 DEF Buffered
    <2>4. PoolsInv' /\ ChunkPool' = ChunkPool /\ SourcePool' = SourcePool
        BY <1>6, <1>10, PoolsKept DEF OwnersInv
    <2>5. ASSUME NEW x PROVE Apart(x)'
        <3>1. Apart(x)
            BY DEF OwnersInv, ApartInv
        <3>2. x \in Leaving' => x \in Remaining
            BY <1>5, <2>2
        <3> QED
            BY <1>7, <1>8, <1>9, <2>2, <2>3, <2>4, <3>1, <3>2 DEF Apart
    <2> QED
        BY <1>8, <2>4, <2>5 DEF OwnersInv, ApartInv
<1>11. CASE CopyUpTo(n)
    <2>1. n \in Nat
        <3>1. Size(buffer.run) \in Int /\ Size(Top.left.run) \in Int /\ upload.chunk \in Nat
            BY <1>1, <1>3, DataFacts, FlowTypes
        <3> QED
            BY <1>1, <1>5, <3>1 DEF Smaller
    <2> HIDE DEF n
    <2>2. /\ PoolsInv'
          /\ \A x \in ChunkPool' : x \in ChunkPool \/ (Unheld(x) /\ Local)
          /\ \A x \in SourcePool' : \/ x \in SourcePool \/ (Unheld(x) /\ ~Local)
                                     \/ (x \in Remaining /\ Local)
          /\ \A x \in Remaining' : x \in Remaining
        BY <1>2, <1>4, <1>5, <1>6, <1>11, <2>1, CopyOwns
    <2>3. PICK id :
             /\ Unheld(id) \/ id \in Buffered \/ id \in (IF Local THEN ChunkPool ELSE SourcePool)
             /\ id \notin ChunkPool' /\ id \notin SourcePool'
             /\ \A x \in Buffered' \cup Leaving' : x = id
        BY <1>2, <1>4, <1>5, <1>6, <1>11, <2>1, CopyOwns
    <2>4. ASSUME NEW x PROVE Apart(x)'
        <3>1. Apart(x)
            BY DEF OwnersInv, ApartInv
        <3>2. Unheld(x) =>
              /\ x \notin ChunkPool /\ x \notin SourcePool /\ x \notin Flying /\ x \notin Buffered
              /\ x \notin Leaving /\ x \notin Remaining /\ x \notin BeingRead /\ x # 0
            BY UnheldFacts
        <3>3. x \in Buffered' \/ x \in Leaving' =>
                 /\ Unheld(x) \/ x \in Buffered \/ (x \in ChunkPool /\ Local)
                      \/ (x \in SourcePool /\ ~Local)
                 /\ x \notin ChunkPool' /\ x \notin SourcePool'
            BY <2>3
        <3>4. /\ x \in ChunkPool' => x \in ChunkPool \/ (Unheld(x) /\ Local)
              /\ x \in SourcePool' => \/ x \in SourcePool \/ (Unheld(x) /\ ~Local)
                                      \/ (x \in Remaining /\ Local)
              /\ x \in Remaining' => x \in Remaining
            BY <2>2
        <3> QED
            BY <1>7, <1>8, <1>9, <3>1, <3>2, <3>3, <3>4 DEF Apart
    <2> QED
        BY <1>8, <2>2, <2>4 DEF OwnersInv, ApartInv
<1> QED
    BY <1>10, <1>11 DEF BuildChunk

(* What a chunk is emitted as: itself, or a copy of it.                     *)
LEMMA RewrapOwns ==
    ASSUME DataInv, OwnersInv, Emitting
    PROVE  /\ PoolsOK(Rewrapped.allocators)
           /\ Distinct(Rewrapped.allocators["chunk"].pool)
           /\ ~Local => Distinct(Rewrapped.allocators["source"].pool)
           /\ \A x \in ToSet(Rewrapped.allocators["chunk"].pool) : x \in ChunkPool \/ Unheld(x)
           /\ \A x \in ToSet(Rewrapped.allocators["source"].pool) :
                 x \in SourcePool \/ (x \in Leaving /\ ~Local)
           /\ Rewrapped.id \notin ToSet(Rewrapped.allocators["chunk"].pool)
           /\ Rewrapped.id \notin ToSet(Rewrapped.allocators["source"].pool)
           /\ Rewrapped.id \in Leaving \/ Rewrapped.id \in ChunkPool \/ Unheld(Rewrapped.id)
<1> DEFINE got == Obtain("chunk")
           source == ReleaseBuffer(allocators.source, Top.out.id)
           both == [chunk |-> got.allocator, source |-> source]
<1>1. Rewrapped = IF Wraps THEN [id |-> got.buffer, allocators |-> both]
                  ELSE [id |-> Top.out.id, allocators |-> allocators]
    BY Zenon DEF Rewrapped
<1>2. TypesInv /\ calls # <<>> /\ Top.out # NoData /\ Top.out.id \in Leaving /\ Top.out.id \in Nat
    <2>1. TypesInv /\ calls # <<>> /\ Top.out # NoData
        BY WholeParts, HeightFacts DEF DataInv, Emitting
    <2>2. Top.out \in Data
        BY <2>1, FlowTypes
    <2> QED
        BY <2>1, <2>2, DataFacts DEF Leaving
<1>3. PoolsOK(Rewrapped.allocators)
    BY <1>2, RewrappedFacts
<1>4. /\ Unheld(got.buffer) \/ got.buffer \in ChunkPool
      /\ \A x \in ToSet(got.allocator.pool) : x \in ChunkPool \/ Unheld(x)
      /\ Distinct(got.allocator.pool) /\ got.buffer \notin ToSet(got.allocator.pool)
    BY ObtainOwns DEF ChunkPool, OwnersInv, PoolsInv
<1>5. /\ \A x \in ToSet(source.pool) : x \in SourcePool \/ x = Top.out.id
      /\ Distinct(allocators["source"].pool) /\ Top.out.id \notin SourcePool
            => Distinct(source.pool)
    BY <1>2, AllocatorsFacts, ReleasePools DEF SourcePool
<1> HIDE DEF got, source
<1>6. Apart(Top.out.id) /\ Apart(got.buffer)
    BY DEF OwnersInv, ApartInv
<1>7. CASE Wraps
    <2>1. Rewrapped.id = got.buffer /\ Rewrapped.allocators = both
        BY <1>1, <1>7
    <2>2. Rewrapped.allocators["chunk"] = got.allocator /\ Rewrapped.allocators["source"] = source
        BY <2>1
    <2>3. ~Local
        BY <1>7 DEF Wraps
    <2>4. got.buffer \notin ToSet(source.pool)
        <3>1. Unheld(got.buffer) => got.buffer \notin SourcePool /\ got.buffer \notin Leaving
            BY UnheldFacts
        <3>2. got.buffer \in ChunkPool => got.buffer \notin SourcePool /\ got.buffer \notin Leaving
            BY <1>6 DEF Apart
        <3> QED
            BY <1>2, <1>4, <1>5, <3>1, <3>2
    <2>5. Distinct(source.pool)
        BY <1>2, <1>5, <1>6, <2>3 DEF Apart, OwnersInv, PoolsInv
    <2> HIDE DEF both
    <2> QED
        BY <1>2, <1>3, <1>4, <1>5, <2>1, <2>2, <2>3, <2>4, <2>5
<1>8. CASE ~Wraps
    <2>1. Rewrapped.id = Top.out.id /\ Rewrapped.allocators = allocators
        BY <1>1, <1>8
    <2>2. Top.out.id \notin ChunkPool /\ Top.out.id \notin SourcePool
        BY <1>2, <1>6 DEF Apart
    <2> QED
        BY <1>2, <1>3, <2>1, <2>2 DEF ChunkPool, SourcePool, OwnersInv, PoolsInv
<1> QED
    BY <1>7, <1>8

LEMMA EmissionPools ==
    ASSUME DataInv, OwnersInv, Emission, upload' = upload
    PROVE  /\ PoolsInv'
           /\ \A x \in ChunkPool' : x \in ChunkPool \/ Unheld(x)
           /\ \A x \in SourcePool' : x \in SourcePool \/ (x \in Leaving /\ ~Local)
           /\ EmitChunk => Rewrapped.id \notin ChunkPool' /\ Rewrapped.id \notin SourcePool'
<1> DEFINE as == Rewrapped.allocators
<1>1. Emitting
    BY DEF Emission, EmitLost, EmitBeyond, EmitZeros, EmitChunk
<1>2. Local' <=> Local
    BY DEF Local
<1>3. /\ PoolsOK(as)
      /\ Distinct(as["chunk"].pool)
      /\ ~Local => Distinct(as["source"].pool)
      /\ \A x \in ToSet(as["chunk"].pool) : x \in ChunkPool \/ Unheld(x)
      /\ \A x \in ToSet(as["source"].pool) : x \in SourcePool \/ (x \in Leaving /\ ~Local)
      /\ Rewrapped.id \notin ToSet(as["chunk"].pool)
      /\ Rewrapped.id \notin ToSet(as["source"].pool)
    BY <1>1, RewrapOwns
<1> HIDE DEF as
<1>4. CASE EmitLost
    <2>1. allocators' = allocators /\ ~EmitChunk
        BY <1>4 DEF EmitLost, EmitChunk
    <2>2. PoolsInv' /\ ChunkPool' = ChunkPool /\ SourcePool' = SourcePool
        BY <2>1, PoolsKept DEF OwnersInv
    <2> QED
        BY <2>1, <2>2
<1>5. CASE EmitZeros \/ EmitChunk
    <2>1. allocators' = as
        BY <1>5 DEF EmitZeros, EmitChunk, as
    <2> QED
        BY <1>2, <1>3, <2>1 DEF PoolsInv, ChunkPool, SourcePool
<1>6. CASE EmitBeyond
    <2>1. allocators' = IF Local \/ IsFile THEN as
                        ELSE [as EXCEPT !.source = DestroyAllocator(as["source"])]
        BY <1>6 DEF EmitBeyond, Stop, as
    <2>2. ~EmitChunk
        BY <1>6 DEF EmitBeyond, EmitChunk
    <2>3. CASE allocators' = as
        BY <1>2, <1>3, <2>2, <2>3 DEF PoolsInv, ChunkPool, SourcePool
    <2>4. CASE allocators' = [as EXCEPT !.source = DestroyAllocator(as["source"])]
        <3>1. PICK s, c : as = [source |-> s, chunk |-> c] /\ PoolOK(s)
            BY <1>3 DEF PoolsOK
        <3>2. allocators'["source"] = DestroyAllocator(s) /\ allocators'["chunk"] = as["chunk"]
            BY <2>4, <3>1
        <3>3. ToSet(DestroyAllocator(s).pool) = {} /\ Distinct(DestroyAllocator(s).pool)
            <4>1. 0 \in Nat
                OBVIOUS
            <4> QED
                BY <3>1, <4>1, ReleasePools
        <3> QED
            BY <1>2, <1>3, <2>2, <3>2, <3>3 DEF PoolsInv, ChunkPool, SourcePool
    <2> QED
        BY <2>1, <2>3, <2>4
<1> QED
    BY <1>4, <1>5, <1>6 DEF Emission

(* A chunk is emitted.                                                      *)
LEMMA EmissionOwns ==
    ASSUME DataInv, DataInv', OwnersInv, [Next]_vars, Emission
    PROVE  OwnersInv'
<1>1. /\ WholeInv /\ WholeInv' /\ TypesInv /\ ShapeInv /\ FlowInv
    BY WholeParts DEF DataInv
<1>2. /\ Emitting /\ calls # <<>> /\ Len(calls) \in Nat
      /\ buffer = NoData /\ buffer' = NoData
      /\ Len(calls') \in {Len(calls), Len(calls) + 1}
      /\ \A n \in 1..Len(calls') : calls'[n].out = NoData
      /\ \A n \in 1..Len(calls) : calls'[n].left = calls[n].left
      /\ upload' = upload
    BY <1>1, EmittedCalls
<1>3. 1 \in 1..Len(calls) /\ Len(calls') \in 1..Len(calls') /\ calls' # <<>>
    BY <1>1, <1>2, FlowTypes
<1>4. Leaving' = {} /\ Buffered' = {} /\ Remaining' = Remaining
    <2>1. Top' = calls'[Len(calls')]
        BY DEF Top, Last
    <2>2. Top'.out = NoData /\ calls'[1].left = calls[1].left
        BY <1>2, <1>3, <2>1
    <2> QED
        BY <1>2, <1>3, <2>2 DEF Leaving, Buffered, Remaining, FirstLeft
<1>5. BeingRead' = BeingRead
    <2>1. reads' = reads
        BY DEF Emission, EmitLost, EmitBeyond, EmitZeros, EmitChunk, Stop, sourceVars
    <2> QED
        BY <2>1 DEF BeingRead
<1>6. /\ PoolsInv'
      /\ \A x \in ChunkPool' : x \in ChunkPool \/ Unheld(x)
      /\ \A x \in SourcePool' : x \in SourcePool \/ (x \in Leaving /\ ~Local)
      /\ EmitChunk => Rewrapped.id \notin ChunkPool' /\ Rewrapped.id \notin SourcePool'
    BY <1>2, EmissionPools
<1>7. /\ Rewrapped.id \in Leaving \/ Rewrapped.id \in ChunkPool \/ Unheld(Rewrapped.id)
      /\ Rewrapped.id \in Nat
    BY <1>1, <1>2, RewrapOwns, RewrappedFacts
<1>8. /\ Rewrapped.id \notin Flying /\ Rewrapped.id # 0
      /\ Rewrapped.id \notin Remaining /\ Rewrapped.id \notin BeingRead
    <2>1. Apart(Rewrapped.id)
        BY DEF OwnersInv, ApartInv
    <2>2. Unheld(Rewrapped.id) =>
              /\ Rewrapped.id \notin Flying /\ Rewrapped.id # 0
              /\ Rewrapped.id \notin Remaining /\ Rewrapped.id \notin BeingRead
        BY UnheldFacts
    <2> QED
        BY <1>7, <2>1, <2>2 DEF Apart
<1>9. /\ FlightsInv'
      /\ \A x \in Flying' : x \in Flying \/ (EmitChunk /\ x = Rewrapped.id)
    <2>1. CASE ~EmitChunk
        <3>1. assigned' = assigned
            BY <2>1 DEF Emission, EmitLost, EmitBeyond, EmitZeros, Others
        <3> QED
            BY <3>1, FlightsMove DEF OwnersInv
    <2>2. CASE EmitChunk
        <3> DEFINE chunk == [run |-> Clipped(Top.out.run), start |-> offset, id |-> Rewrapped.id]
        <3>1. assigned' = Append(assigned, chunk) /\ status' = Append(status, "queued")
            BY <2>2 DEF EmitChunk, Random!AddOperation, Random!AddOperationAs
        <3>2. /\ assigned \in Seq(ChunkSet) /\ Len(assigned) = Total /\ Total \in Nat
              /\ assigned' \in Seq(ChunkSet) /\ Len(assigned') = Total'
              /\ status \in Seq(Random!OperationState) /\ Total = Len(status)
            <4>1. (WholeInv => ChunkTypes)'
                BY WholeParts, PTL
            <4> QED
                BY <1>1, <4>1, WholeParts, TotalFacts DEF ChunkTypes, BatchTypes
        <3>3. chunk.id = Rewrapped.id
            OBVIOUS
        <3> HIDE DEF chunk
        <3>4. /\ Total' = Total + 1
              /\ \A i \in 1..Total : status'[i] = status[i]
            <4>1. "queued" \in Random!OperationState
                BY DEF Random!OperationState
            <4>2. /\ Len(status') = Len(status) + 1
                  /\ \A i \in 1..Len(status) : status'[i] = status[i]
                BY <3>1, <3>2, <4>1, PushCall
            <4> QED
                BY <3>2, <4>2 DEF Total
        <3>5. /\ \A i \in 1..Total : assigned'[i] = assigned[i]
              /\ assigned'[Total + 1] = chunk
            BY <3>1, <3>2
        <3>6. \A i \in InFlight' : i \in InFlight \/ i = Total + 1
            BY <3>2, <3>4 DEF InFlight
        <3>7. \A i \in InFlight : /\ assigned'[i] = assigned[i] /\ assigned[i].id \in Flying
                                  /\ assigned[i].id # Rewrapped.id
            BY <1>8, <3>5 DEF InFlight, Flying
        <3>8. \A i \in InFlight' : \/ i \in InFlight
                                   \/ i = Total + 1 /\ assigned'[i].id = Rewrapped.id
            BY <3>3, <3>5, <3>6
        <3>9. FlightsInv'
            BY <3>7, <3>8 DEF FlightsInv, OwnersInv
        <3>10. \A x \in Flying' : x \in Flying \/ x = Rewrapped.id
            BY <3>7, <3>8 DEF Flying
        <3> QED
            BY <2>2, <3>9, <3>10
    <2> QED
        BY <2>1, <2>2
<1>10. (Local' <=> Local) /\ (IsFile' <=> IsFile)
    BY <1>2 DEF Local, IsFile
<1>11. ASSUME NEW x PROVE Apart(x)'
    <2>1. Apart(x)
        BY DEF OwnersInv, ApartInv
    <2>2. Unheld(x) =>
              /\ x \notin ChunkPool /\ x \notin SourcePool /\ x \notin Flying /\ x \notin Buffered
              /\ x \notin Leaving /\ x \notin Remaining /\ x \notin BeingRead /\ x # 0
        BY UnheldFacts
    <2>3. x \in Flying' =>
             \/ x \in Flying
             \/ /\ x \notin Remaining /\ x \notin BeingRead /\ x # 0
                /\ x \notin ChunkPool' /\ x \notin SourcePool'
        BY <1>6, <1>8, <1>9
    <2>4. /\ x \in ChunkPool' => x \in ChunkPool \/ Unheld(x)
          /\ x \in SourcePool' => x \in SourcePool \/ (x \in Leaving /\ ~Local)
        BY <1>6
    <2> QED
        BY <1>4, <1>5, <1>10, <2>1, <2>2, <2>3, <2>4 DEF Apart
<1> QED
    BY <1>6, <1>9, <1>11 DEF OwnersInv, ApartInv

(* The first buffers are new and different ones.                            *)
LEMMA NewPools ==
    ASSUME NEW max \in Nat \ {0}, NEW used, IsFiniteSet(used)
    PROVE  /\ Distinct(NewAllocator(max, used).pool)
           /\ \A x \in ToSet(NewAllocator(max, used).pool) : x \notin used /\ x # 0
<1> DEFINE a == [pool |-> <<>>, inuse |-> 0, max |-> max]
<1>1. PoolOK(a) /\ a.pool = <<>>
    BY DEF PoolOK, Allocator
<1> HIDE DEF a
<1>2. ToSet(a.pool) = {} /\ Distinct(a.pool)
    BY <1>1 DEF ToSet, Distinct
<1>3. NewAllocator(max, used) = ExtendMemoryPool(a, used)
    BY DEF NewAllocator, a
<1> QED
    BY <1>1, <1>2, <1>3, ExtendPools

LEMMA OwnersInit ==
    ASSUME Init
    PROVE  OwnersInv
<1> DEFINE chunk == NewAllocator(Threads(upload), {})
           source == NewAllocator(Threads(upload), ToSet(chunk.pool))
<1>1. Threads(upload) \in Nat \ {0}
    BY UploadAssumption DEF UploadAssumption, Threads
<1>2. PoolOK(chunk) /\ IsFiniteSet({})
    BY <1>1, NewFacts, FS_EmptySet
<1>3. IsFiniteSet(ToSet(chunk.pool))
    BY <1>2, PoolFinite
<1>4. Distinct(chunk.pool) /\ \A x \in ToSet(chunk.pool) : x # 0
    BY <1>1, <1>2, NewPools
<1> HIDE DEF chunk
<1>5. Distinct(source.pool) /\ \A x \in ToSet(source.pool) : x \notin ToSet(chunk.pool) /\ x # 0
    BY <1>1, <1>3, NewPools
<1>6. allocators = [chunk |-> chunk, source |-> source]
    BY Zenon DEF Init, chunk
<1> HIDE DEF source
<1>7. allocators["chunk"] = chunk /\ allocators["source"] = source
    BY <1>6
<1>8. /\ status = <<>> /\ calls = <<>> /\ reads = <<>> /\ buffer = NoData
    BY DEF Init
<1>9. InFlight = {}
    <2>1. Total = 0
        BY <1>8, EmptySeq DEF Total
    <2> QED
        BY <2>1 DEF InFlight
<1>10. /\ Flying = {} /\ Buffered = {} /\ Leaving = {} /\ Remaining = {} /\ BeingRead = {}
    <2>1. Len(reads) = 0
        BY <1>8
    <2> QED
        BY <1>8, <1>9, <2>1, EmptyRuns DEF Flying, Buffered, Leaving, Remaining, BeingRead, FirstLeft
<1>11. FlightsInv /\ PoolsInv
    BY <1>4, <1>5, <1>7, <1>9 DEF FlightsInv, PoolsInv
<1>12. ASSUME NEW x PROVE Apart(x)
    <2>1. ChunkPool = ToSet(chunk.pool) /\ SourcePool = ToSet(source.pool)
        BY <1>7 DEF ChunkPool, SourcePool
    <2> QED
        BY <1>4, <1>5, <1>10, <2>1 DEF Apart
<1> QED
    BY <1>11, <1>12 DEF OwnersInv, ApartInv

(* The other steps leave the buffers where they are.                        *)
LEMMA OthersOwn ==
    ASSUME DataInv, DataInv', OwnersInv, [Next]_vars,
           \/ DestinationReady \/ CommitDone \/ BatchRuns \/ Ran \/ BatchSteps \/ End
           \/ FileOpenFails
           \/ \E i \in 1..Total, failed \in BOOLEAN : RequestDone(i, failed)
           \/ UNCHANGED vars
    PROVE  OwnersInv'
<1>1. UNCHANGED <<assigned, allocators, calls, buffer, reads>>
    <2>1. CASE DestinationReady \/ CommitDone \/ End \/ FileOpenFails \/ UNCHANGED vars
        BY <2>1 DEF DestinationReady, CommitDone, End, FileOpenFails, Others, vars,
           chunkVars,
                    sourceVars
    <2>2. CASE \E i \in 1..Total, failed \in BOOLEAN : RequestDone(i, failed)
        <3>1. UNCHANGED <<sourceVars, chunkVars, assigned>>
            BY <2>2 DEF RequestDone
        <3> QED
            BY <3>1 DEF sourceVars, chunkVars
    <2>3. CASE BatchRuns \/ Ran \/ BatchSteps
        BY <2>3 DEF BatchRuns, Ran, RanThen, BatchSteps, quietVars, sourceVars
    <2> QED
        BY <2>1, <2>2, <2>3
<1> QED
    BY <1>1, QuietOwns

LEMMA OwnersStep ==
    ASSUME DataInv, DataInv', OwnersInv, [Next]_vars
    PROVE  OwnersInv'
<1>1. CASE BuildChunk
    BY <1>1, BuildOwns
<1>2. CASE Emission
    BY <1>2, EmissionOwns
<1>3. CASE ReadReturns \/ WriteReturns \/ EndReturns
    BY <1>3, ReturnsOwn
<1>4. CASE ReadEmits
    BY <1>4, ReadEmitsOwn
<1>5. CASE ReadEnds
    BY <1>5, ReadEndsOwn
<1>6. CASE PipeWrites
    BY <1>6, PipeWritesOwn
<1>7. CASE PipeEnds
    BY <1>7, PipeEndsOwn
<1>8. CASE UserCallbackStops
    BY <1>8, StopOwns
<1>9. CASE UserCallbackReturns
    BY <1>9, ReleasedOwns
<1>10. CASE FileOpens \/ Drain
    BY <1>10, ReadingOwns
<1>11. CASE \/ DestinationReady \/ CommitDone \/ BatchRuns \/ Ran \/ BatchSteps \/ End
            \/ FileOpenFails
            \/ \E i \in 1..Total, failed \in BOOLEAN : RequestDone(i, failed)
            \/ UNCHANGED vars
    BY <1>11, OthersOwn
<1>12. CASE ReadFails
    BY <1>12, ReadFailsOwns
<1> QED
    BY <1>1, <1>2, <1>3, <1>4, <1>5, <1>6, <1>7, <1>8, <1>9, <1>10, <1>11, <1>12
       DEF Next, Internal, External, Stopped

LEMMA OwnersInvariant == Spec => [](DataInv /\ OwnersInv)
<1>1. Init => OwnersInv
    BY OwnersInit
<1>2. DataInv /\ DataInv' /\ OwnersInv /\ [Next]_vars => OwnersInv'
    BY OwnersStep
<1> QED
    BY <1>1, <1>2, DataInvariant, PTL DEF Spec

LEMMA OwnersIntact ==
    ASSUME DataInv, OwnersInv
    PROVE  BuffersIntact
<1>1. \A i, j \in InFlight : assigned[i].id = assigned[j].id => i = j
    BY DEF OwnersInv, FlightsInv
<1>2. ASSUME NEW i \in InFlight
      PROVE  /\ assigned[i].id # buffer.id
             /\ \A n \in 1..Len(reads) : assigned[i].id # reads[n].id
             /\ \A a \in {"source", "chunk"} : assigned[i].id \notin ToSet(allocators[a].pool)
    <2>1. assigned[i].id \in Flying
        BY DEF Flying
    <2>2. Apart(assigned[i].id)
        BY DEF OwnersInv, ApartInv
    <2>3. /\ assigned[i].id \notin ChunkPool /\ assigned[i].id \notin SourcePool
          /\ assigned[i].id \notin Buffered /\ assigned[i].id \notin BeingRead
          /\ assigned[i].id # 0
        BY <2>1, <2>2 DEF Apart
    <2> QED
        BY <2>3, EmptyRuns DEF ChunkPool, SourcePool, Buffered, BeingRead
<1>3. buffer # NoData => buffer.id \notin ToSet(allocators[Level].pool)
    <2>1. Apart(buffer.id)
        BY DEF OwnersInv, ApartInv
    <2>2. buffer # NoData => buffer.id \notin ChunkPool /\ buffer.id \notin SourcePool
        BY <2>1 DEF Apart, Buffered
    <2> QED
        BY <2>2 DEF ChunkPool, SourcePool, Level
<1> QED
    BY <1>1, <1>2, <1>3 DEF BuffersIntact

(* The buffer of a chunk that is still to be stored is neither in a pool    *)
(* nor read into, filled or stored as another chunk, although slices and    *)
(* the buffers of the program are released as well.                         *)
THEOREM UploadBuffersIntact == Spec => []BuffersIntact
<1>1. DataInv /\ OwnersInv => BuffersIntact
    BY OwnersIntact
<1> QED
    BY <1>1, OwnersInvariant, PTL
=============================================================================
