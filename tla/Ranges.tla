------------------------------- MODULE Ranges -------------------------------
(***************************************************************************)
(* The arithmetic of src/lib/common/streams/rangestream.js: how the ranges *)
(* a service lists for a page blob or a file are merged, padded with empty *)
(* ranges and split into the ranges that a download requests.  A range is  *)
(* [start, end, data], where data is FALSE for a range with dataSize 0.    *)
(***************************************************************************)
EXTENDS Integers, Sequences, FiniteSets

CONSTANTS
    MinRangeSize,  \* _minRangeSize: smaller ranges are merged
    MaxRangeSize   \* _maxRangeSize: larger ranges are split

ASSUME RangeAssumption ==
    /\ MinRangeSize \in Nat \ {0} /\ MaxRangeSize \in Nat \ {0}
    /\ MinRangeSize <= MaxRangeSize

ByteRange == [start : Nat, end : Int, data : BOOLEAN]
Piece(start, end, data) == [start |-> start, end |-> end, data |-> data]
Smaller(a, b) == IF a < b THEN a ELSE b

(* Plausible bug: every piece has the maximum size.                         *)
SplitWhole(r) ==
    [k \in 1..((r.end - r.start + MaxRangeSize) \div MaxRangeSize) |->
        Piece(r.start + (k - 1) * MaxRangeSize, r.start + k * MaxRangeSize - 1, r.data)]

(* splitAndSaveRanges: pieces of at most MaxRangeSize bytes.                *)
Split(r) ==
    [k \in 1..((r.end - r.start + MaxRangeSize) \div MaxRangeSize) |->
        Piece(r.start + (k - 1) * MaxRangeSize,
              Smaller(r.start + k * MaxRangeSize - 1, r.end), r.data)]

(* The state of the loop of resizeAndSaveRanges: the range being held,      *)
(* whose end is -1 while it holds nothing, _dataOffset and _rangelist.      *)
LoopState == [hold : ByteRange, offset : Nat, saved : Seq(ByteRange)]
Loop(hold, offset, saved) == [hold |-> hold, offset |-> offset, saved |-> saved]

Merged(hold, r) == Piece(hold.start, r.end, hold.data \/ r.data)

(* One turn of the loop reads the range r.                                  *)
Turn(s, r) ==
    LET small == r.end - s.hold.start + 1 < MinRangeSize
        holding == s.hold.end # -1
        held == IF holding THEN Split(s.hold) ELSE <<>>
        gap == Split(Piece(s.offset, r.start - 1, FALSE))
        next == r.end + 1
    IN  CASE small -> Loop(Merged(s.hold, r), next, s.saved)
          [] ~small /\ (holding \/ s.offset # r.start) ->
                Loop(r, next, s.saved \o held \o gap)
          [] OTHER -> Loop(Piece(next, -1, FALSE), next, s.saved \o Split(r))

(* After the last turn the range being held is saved, too.                  *)
Rest(s) == IF s.hold.end > s.hold.start THEN Split(s.hold) ELSE <<>>

(* resizeAndSaveRanges: what is appended to _rangelist.                     *)
Turns(found, start, offset) ==
    LET state[n \in 0..Len(found)] ==
            IF n = 0 THEN Loop(Piece(start, -1, FALSE), offset, <<>>)
            ELSE Turn(state[n - 1], found[n])
    IN  state
Resize(found, start, offset) ==
    LET s == Turns(found, start, offset)[Len(found)]
    IN  s.saved \o Rest(s)

(* The pieces are a partition of the offsets first to last, in order.       *)
Partition(pieces, first, last) ==
    /\ \A n \in 1..Len(pieces) :
          /\ pieces[n].start = IF n = 1 THEN first ELSE pieces[n - 1].end + 1
          /\ pieces[n].end >= pieces[n].start
    /\ last = IF pieces = <<>> THEN first - 1 ELSE pieces[Len(pieces)].end

(* The elements of a finite set of numbers, in order.                       *)
Sorted(S) ==
    [n \in 1..Cardinality(S) |->
        CHOOSE i \in S : Cardinality({j \in S : j < i}) = n - 1]
=============================================================================
