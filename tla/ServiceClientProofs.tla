------------------------ MODULE ServiceClientProofs ------------------------
(***************************************************************************)
(* Proofs about ServiceClient for every set of calls whose requests are    *)
(* well formed (CallsAssumption, which TLC evaluates for the tables of all *)
(* methods), any number of faults, segments and edits, and any content of  *)
(* the two locations.                                                      *)
(***************************************************************************)
EXTENDS ServiceClient, SequenceTheorems, TLAPS

(* The types of what VariablesTyped leaves out.                                     *)
BatchType ==
    batch \in [operations : Seq(EntityOperations),
               pk : {None} \cup {operation.pk : operation \in EntityOperations},
               retrieve : BOOLEAN]

HistoryType ==
    history \in [origin : [Locations -> Copy], did : SUBSET Nat,
                 was : [Locations -> SUBSET BOOLEAN], read : SUBSET Nat,
                 over : SUBSET {"seen", "us", "them"},
                 refused : SUBSET EntityOperations]

TypeInv == call \in Calls /\ VariablesTyped /\ BatchType /\ HistoryType /\ Known(at["PRIMARY"])
-----------------------------------------------------------------------------
(* Facts about the operators.                                               *)

(* The service answers with a known error or "ok".                          *)
LEMMA AnswerType ==
    ASSUME NEW copy, NEW of, NEW does, NEW with, NEW at0
    PROVE  Answer(copy, of, does, with, at0) \in Errors \cup {"ok"}
BY DEF Answer, Errors

(* A change keeps a copy a copy, and makes a version nobody knew.           *)
LEMMA AfterKnown ==
    ASSUME NEW copy \in Copy, Known(copy), NEW does, NEW by \in {"us", "them"}
    PROVE  After(copy, does, by) \in Copy /\ Known(After(copy, does, by))
<1> DEFINE written == [copy EXCEPT !.version = copy.next, !.by = by,
                                   !.next = copy.next + 1]
           deleted == [copy EXCEPT !.version = Absent, !.by = by, !.lease = "none"]
           taken == [copy EXCEPT !.lease = IF by = "us" THEN "ours" ELSE "theirs"]
           freed == [copy EXCEPT !.lease = "none"]
<1>1. written \in Copy /\ Known(written)
  <2>1. copy.next \in Nat /\ copy.next + 1 \in Nat
    BY DEF Copy
  <2>2. written.version = copy.next /\ written.next = copy.next + 1
    BY DEF Copy
  <2>3. written \in Copy
    BY <2>1 DEF Copy
  <2>4. QED BY <2>1, <2>2, <2>3 DEF Known, SeenVersion
<1>2. deleted \in Copy /\ Known(deleted)
  <2>1. deleted.version = 0 /\ deleted.next = copy.next /\ deleted \in Copy
    BY DEF Copy, Absent
  <2>2. QED BY <2>1 DEF Known, SeenVersion
<1>3. taken \in Copy /\ Known(taken)
  BY DEF Copy, Known
<1>4. freed \in Copy /\ Known(freed)
  BY DEF Copy, Known
<1>5. After(copy, does, by) \in {written, deleted, taken, freed, copy}
  BY DEF After
<1>6. QED BY <1>1, <1>2, <1>3, <1>4, <1>5

(* A request that names a version, or that there be none, is answered "ok"  *)
(* only by such a copy.                                                     *)
LEMMA GuardedRequest ==
    ASSUME NEW copy, NEW of, of # "account", NEW does, does # "stage", NEW with,
           NEW at0, Answer(copy, of, does, with, at0) = "ok"
    PROVE  /\ "match" \in with => copy.version = SeenVersion
           /\ "absent" \in with => copy.version = Absent
BY DEF Answer, FailsCondition

(* What the methods conclude from an answer.                                *)
LEMMA AnswerMeans ==
    ASSUME NEW copy \in Copy, NEW of, of # "account", of # "child" => copy.around,
           NEW does, NEW with, NEW at0
    PROVE  LET answer == Answer(copy, of, does, with, at0)
           IN /\ does = "read" /\ answer = "ok" => Present(copy)
              /\ does = "create" /\ answer = "conflict" => Present(copy)
              /\ answer \in {"notFound", "parentNotFound"} => ~Present(copy)
BY DEF Answer, Present, NeedsTarget, Copy, Writes

(* A location stays that of the mode.                                       *)
LEMMA NextLocationType ==
    ASSUME NEW l \in Locations, NEW m
    PROVE  NextLocation(l, m) \in Locations
BY DEF NextLocation, Locations

(* The request in flight is one of the call's and well formed.              *)
LEMMA NowWellFormed ==
    ASSUME TypeInv
    PROVE  /\ Now \in Request
           /\ step \in DOMAIN call.requests /\ WellFormed(call, step)
           /\ call.requests \in Seq(Request) /\ call.requests # <<>>
           /\ Len(call.requests) \in Nat
<1>1. call \in Call /\ call.requests # <<>>
      /\ \A i \in DOMAIN call.requests : WellFormed(call, i)
  BY CallsAssumption DEF TypeInv
<1>2. call.requests \in Seq(Request)
  BY <1>1 DEF Call
<1>3. Len(call.requests) \in Nat /\ DOMAIN call.requests = 1..Len(call.requests)
  BY <1>2
<1>4. step \in 1..Len(call.requests)
  BY DEF TypeInv, VariablesTyped
<1>5. call.requests[step] \in Request
  BY <1>2, <1>3, <1>4
<1>6. QED
  BY <1>1, <1>2, <1>3, <1>4, <1>5 DEF Now
-----------------------------------------------------------------------------
(* What an answer, or the loss of one, may lead to; each as an operator, so *)
(* that an invariant is proved for these four instead of for every path     *)
(* through the callbacks.                                                   *)
Resent ==
    /\ location' \in {location, NextLocation(location, mode)}
    /\ UNCHANGED <<step, phase, outcome, token, listed>>

WentOn ==
    /\ Continue /\ MoreRequests /\ call.kind # "list"
    /\ UNCHANGED <<location, token, listed>>

CameToEnd ==
    /\ phase' = "done"
    /\ outcome'.result \in {"ok", "failed", "thrown"}
    /\ outcome'.error \in Errors \cup {"none"}
    /\ call.kind = "list" => outcome'.result # "ok"
    /\ UNCHANGED <<step, location, token, listed>>

GotSegment == call.kind = "list" /\ SegmentAnswered /\ UNCHANGED location

Effect ==
    \/ UNCHANGED <<at, history>>
    \/ Reply = "ok" /\ at' = Changed /\ history' = Noted

LEMMA CheckOutcome ==
    ASSUME TypeInv, NEW exists \in BOOLEAN, CheckAnswered(exists),
           call.kind # "list", UNCHANGED <<location, token, listed>>
    PROVE  WentOn \/ CameToEnd
BY DEF CheckAnswered, WentOn, CameToEnd, Ended

LEMMA FailedOutcome ==
    ASSUME TypeInv, NEW error \in Errors, Failed(error), UNCHANGED location
    PROVE  WentOn \/ CameToEnd
<1>1. /\ Now.ignores # {} => MoreRequests
      /\ call.kind = "list" => Now.absorbs = {} /\ Now.ignores = {}
  BY NowWellFormed DEF WellFormed, Now, MoreRequests
<1>2. CASE error \in Now.absorbs /\ step = 1
  <2>1. CheckAnswered(FALSE) /\ UNCHANGED <<token, listed>> /\ call.kind # "list"
    BY <1>1, <1>2 DEF Failed
  <2>2. QED BY <2>1, CheckOutcome
<1>3. CASE error \in Now.absorbs /\ step # 1
  BY <1>1, <1>3 DEF Failed, Ended, CameToEnd
<1>4. CASE error \notin Now.absorbs /\ error \in Now.ignores
  BY <1>1, <1>4 DEF Failed, WentOn
<1>5. CASE error \notin Now.absorbs /\ error \notin Now.ignores
  BY <1>5 DEF Failed, Ended, CameToEnd
<1>6. QED BY <1>2, <1>3, <1>4, <1>5

LEMMA SucceededOutcome ==
    ASSUME TypeInv, Succeeded, UNCHANGED location
    PROVE  WentOn \/ CameToEnd \/ GotSegment
<1>1. CASE call.kind = "list"
  BY <1>1 DEF Succeeded, GotSegment
<1>2. CASE call.kind # "list" /\ step = 1 /\ call.kind \in Conditional
  <2>1. CheckAnswered(TRUE) /\ UNCHANGED <<token, listed>>
    BY <1>2 DEF Succeeded
  <2>2. QED BY <1>2, <2>1, CheckOutcome
<1>3. CASE call.kind # "list" /\ ~(step = 1 /\ call.kind \in Conditional)
  <2>1. UNCHANGED <<token, listed>>
    BY <1>3 DEF Succeeded
  <2>2. CASE MoreRequests
    <3>1. Continue
      BY <1>3, <2>2 DEF Succeeded
    <3>2. QED BY <1>3, <2>1, <2>2, <3>1 DEF WentOn
  <2>3. CASE ~MoreRequests
    <3>1. Ended("ok", "none", TRUE) /\ UNCHANGED step
      BY <1>3, <2>3 DEF Succeeded
    <3>2. QED BY <1>3, <2>1, <3>1 DEF Ended, CameToEnd
  <2>4. QED BY <2>2, <2>3
<1>4. QED BY <1>1, <1>2, <1>3

LEMMA AnswerOutcome ==
    ASSUME TypeInv, Answered \/ AnswerLost
    PROVE  /\ phase = "inFlight" /\ UNCHANGED <<call, batch, mode>>
           /\ Effect
           /\ Resent \/ WentOn \/ CameToEnd \/ GotSegment
<1>1. Reply \in Errors \cup {"ok"}
  BY AnswerType DEF Reply
<1>2. "lost" \in Errors
  BY DEF Errors
<1>3. CASE Answered
  <2>1. phase = "inFlight" /\ UNCHANGED <<call, batch, location, mode>> /\ Effect
    BY <1>3 DEF Answered, Served, Effect
  <2>2. CASE Reply = "ok"
    BY <1>3, <2>1, <2>2, SucceededOutcome DEF Answered
  <2>3. CASE Reply # "ok"
    BY <1>1, <1>3, <2>1, <2>3, FailedOutcome DEF Answered
  <2>4. QED BY <2>1, <2>2, <2>3
<1>4. CASE AnswerLost
  <2>1. phase = "inFlight" /\ UNCHANGED <<call, batch, mode>> /\ Effect
    BY <1>4 DEF AnswerLost, Served, Effect
  <2>2. Resent \/ (Failed("lost") /\ UNCHANGED location)
    BY <1>4 DEF AnswerLost, Resent
  <2>3. QED BY <1>2, <2>1, <2>2, FailedOutcome
<1>5. QED BY <1>3, <1>4
-----------------------------------------------------------------------------
(* The types.                                                               *)

(* A sequence without one of its elements.                                  *)
LEMMA RemoveAtFacts ==
    ASSUME NEW S, NEW s \in Seq(S), NEW i \in DOMAIN s
    PROVE  /\ RemoveAt(s, i) \in Seq(S)
           /\ Len(RemoveAt(s, i)) = Len(s) - 1
           /\ \A j \in DOMAIN RemoveAt(s, i) :
                 \E k \in DOMAIN s : RemoveAt(s, i)[j] = s[k]
<1> DEFINE before == SubSeq(s, 1, i - 1)
           after == SubSeq(s, i + 1, Len(s))
<1> DEFINE rest == before \o after
<1>1. Len(s) \in Nat /\ DOMAIN s = 1..Len(s) /\ i \in 1..Len(s)
  OBVIOUS
<1>2. /\ before \in Seq(S) /\ Len(before) = i - 1
      /\ \A j \in 1..(i - 1) : before[j] = s[j]
  BY <1>1
<1>3. /\ after \in Seq(S) /\ Len(after) = Len(s) - i
      /\ \A j \in 1..(Len(s) - i) : after[j] = s[i + j]
  BY <1>1
<1>4. RemoveAt(s, i) = rest
  BY DEF RemoveAt
<1> HIDE DEF before, after
<1>5. /\ rest \in Seq(S) /\ Len(rest) = Len(s) - 1 /\ DOMAIN rest = 1..(Len(s) - 1)
      /\ \A j \in 1..(Len(s) - 1) :
            rest[j] = IF j <= i - 1 THEN before[j] ELSE after[j - (i - 1)]
  <2>1. /\ rest \in Seq(S) /\ Len(rest) = Len(before) + Len(after)
        /\ \A j \in 1..Len(before) + Len(after) :
              rest[j] = IF j <= Len(before) THEN before[j] ELSE after[j - Len(before)]
    BY <1>2, <1>3, ConcatProperties, Zenon
  <2>2. (i - 1) + (Len(s) - i) = Len(s) - 1
    BY <1>1
  <2>3. DOMAIN rest = 1..Len(rest)
    BY <2>1
  <2>4. QED BY <1>2, <1>3, <2>1, <2>2, <2>3
<1> HIDE DEF rest
<1>6. ASSUME NEW j \in 1..(Len(s) - 1)
      PROVE  \E k \in DOMAIN s : rest[j] = s[k]
  <2>1. CASE j <= i - 1
    <3>1. j \in 1..(i - 1) /\ j \in DOMAIN s
      BY <1>1, <2>1
    <3>2. rest[j] = s[j]
      BY <1>2, <1>5, <2>1, <3>1
    <3>3. QED BY <3>1, <3>2
  <2>2. CASE j > i - 1
    <3>1. j - (i - 1) \in 1..(Len(s) - i) /\ j + 1 \in DOMAIN s /\ ~(j <= i - 1)
      BY <1>1, <2>2
    <3>2. after[j - (i - 1)] = s[i + (j - (i - 1))] /\ i + (j - (i - 1)) = j + 1
      BY <1>1, <1>3, <3>1
    <3>3. rest[j] = s[j + 1]
      BY <1>5, <3>1, <3>2
    <3>4. QED BY <3>1, <3>3
  <2>3. QED BY <1>1, <2>1, <2>2
<1>7. QED BY <1>4, <1>5, <1>6

LEMMA TypeInit == Init => TypeInv
<1> SUFFICES ASSUME Init PROVE TypeInv
  OBVIOUS
<1>1. at \in [Locations -> Copy] /\ Known(at["PRIMARY"])
  BY OriginsAssumption DEF Init
<1>2. call \in Calls /\ call \in Call /\ call.requests # <<>>
  BY CallsAssumption DEF Init
<1>3. step \in 1..Len(call.requests)
  <2>1. call.requests \in Seq(Request)
    BY <1>2 DEF Call
  <2>2. QED BY <1>2, <2>1 DEF Init
<1>4. BatchType /\ Len(batch.operations) <= BatchLimit
  <2>1. batch = [operations |-> <<>>, pk |-> None, retrieve |-> FALSE]
    BY DEF Init, NewBatch
  <2>2. QED BY <2>1, BoundsAssumption DEF BatchType
<1>5. HistoryType
  BY <1>1 DEF Init, NewHistory, HistoryType, Present, Copy
<1>6. VariablesTyped
  BY <1>1, <1>2, <1>3, <1>4 DEF Init, VariablesTyped, BatchType, Locations, LocationModes, NoOutcome
<1>7. QED BY <1>1, <1>2, <1>4, <1>5, <1>6 DEF TypeInv

(* The copies stay copies, and version 1 stays what the program knows.      *)
LEMMA PrimaryChanged ==
    ASSUME TypeInv, NEW copy \in Copy, Known(copy),
           at' = [at EXCEPT !["PRIMARY"] = copy]
    PROVE  at' \in [Locations -> Copy] /\ Known(at'["PRIMARY"])
BY DEF TypeInv, VariablesTyped, Locations

LEMMA ObservedType ==
    ASSUME TypeInv, NEW copies \in [Locations -> Copy]
    PROVE  Observed(copies) \in [Locations -> SUBSET BOOLEAN]
<1>1. history.was \in [Locations -> SUBSET BOOLEAN]
  BY DEF TypeInv, HistoryType
<1>2. \A l \in Locations : copies[l] \in Copy /\ Present(copies[l]) \in BOOLEAN
  BY DEF Present, Copy
<1>3. QED BY <1>1, <1>2 DEF Observed

LEMMA EffectType ==
    ASSUME TypeInv, Effect
    PROVE  at' \in [Locations -> Copy] /\ Known(at'["PRIMARY"]) /\ HistoryType'
<1>1. CASE UNCHANGED <<at, history>>
  BY <1>1 DEF TypeInv, VariablesTyped, HistoryType
<1>2. CASE at' = Changed /\ history' = Noted
  <2>1. "PRIMARY" \in Locations /\ at["PRIMARY"] \in Copy /\ at[location] \in Copy
    BY DEF TypeInv, VariablesTyped, Locations
  <2>2. /\ After(at["PRIMARY"], Now.does, "us") \in Copy
        /\ Known(After(at["PRIMARY"], Now.does, "us"))
    BY <2>1, AfterKnown DEF TypeInv
  <2>3. at' = [at EXCEPT !["PRIMARY"] = After(at["PRIMARY"], Now.does, "us")]
    BY <1>2 DEF Changed
  <2>4. at' \in [Locations -> Copy] /\ Known(at'["PRIMARY"])
    BY <2>2, <2>3, PrimaryChanged
  <2>5. Observed(Changed) \in [Locations -> SUBSET BOOLEAN]
    BY <1>2, <2>4, ObservedType
  <2>6. step \in Nat /\ at[location].version \in Nat
        /\ at["PRIMARY"].by \in {"seen", "us", "them"}
    BY <2>1, NowWellFormed DEF Copy
  <2>7. HistoryType'
    BY <1>2, <2>5, <2>6 DEF TypeInv, HistoryType, Noted
  <2>8. QED BY <2>4, <2>7
<1>3. QED BY <1>1, <1>2 DEF Effect
(* An edit keeps the batch a batch.                                         *)
LEMMA EditType ==
    ASSUME TypeInv, NEW edited, NEW refused \in SUBSET EntityOperations,
           Edit(edited, refused),
           edited \in [operations : Seq(EntityOperations),
                       pk : {None} \cup {operation.pk : operation \in EntityOperations},
                       retrieve : BOOLEAN],
           Len(edited.operations) <= BatchLimit
    PROVE  TypeInv'
<1>1. BatchType' /\ Len(batch'.operations) <= BatchLimit
  BY DEF Edit, BatchType
<1>2. HistoryType'
  BY DEF Edit, TypeInv, HistoryType
<1>3. VariablesTyped'
  BY <1>1, <1>2 DEF Edit, TypeInv, VariablesTyped, BatchType
<1>4. QED BY <1>1, <1>2, <1>3 DEF Edit, TypeInv

LEMMA TypeEdits ==
    ASSUME TypeInv, EntityAdded \/ OperationRemoved \/ BatchCleared
    PROVE  TypeInv'
<1>1. /\ batch.operations \in Seq(EntityOperations)
      /\ Len(batch.operations) \in Nat /\ Len(batch.operations) <= BatchLimit
      /\ batch.pk \in {None} \cup {operation.pk : operation \in EntityOperations}
      /\ batch.retrieve \in BOOLEAN
      /\ BatchLimit \in Nat /\ BatchType
  BY BoundsAssumption DEF TypeInv, VariablesTyped, BatchType
<1>2. CASE EntityAdded
  <2>1. PICK operation \in EntityOperations :
           IF Refuses(batch, operation) THEN Edit(batch, {operation})
           ELSE Edit(AddOperation(batch, operation), {})
    BY <1>2 DEF EntityAdded
  <2>2. CASE Refuses(batch, operation)
    BY <1>1, <2>1, <2>2, EditType DEF BatchType
  <2>3. CASE ~Refuses(batch, operation)
    <3>1. Append(batch.operations, operation) \in Seq(EntityOperations)
      BY <1>1
    <3>2. Len(Append(batch.operations, operation)) <= BatchLimit
      BY <1>1, <2>3 DEF Refuses
    <3>3. AddOperation(batch, operation)
             \in [operations : Seq(EntityOperations),
                  pk : {None} \cup {o.pk : o \in EntityOperations},
                  retrieve : BOOLEAN]
      BY <1>1, <3>1 DEF AddOperation
    <3>4. AddOperation(batch, operation).operations = Append(batch.operations, operation)
      BY DEF AddOperation
    <3>5. QED BY <2>1, <2>3, <3>2, <3>3, <3>4, EditType
  <2>4. QED BY <2>2, <2>3
<1>3. CASE OperationRemoved
  <2>1. PICK index \in DOMAIN batch.operations : Edit(RemoveOperation(batch, index), {})
    BY <1>3 DEF OperationRemoved
  <2> DEFINE rest == RemoveAt(batch.operations, index)
  <2>2. rest \in Seq(EntityOperations) /\ Len(rest) = Len(batch.operations) - 1
    BY <1>1, RemoveAtFacts
  <2>3. CASE rest = <<>>
    <3>1. RemoveOperation(batch, index)
             = [operations |-> <<>>, pk |-> None, retrieve |-> FALSE]
      BY <2>3 DEF RemoveOperation, NewBatch
    <3>2. RemoveOperation(batch, index)
             \in [operations : Seq(EntityOperations),
                  pk : {None} \cup {o.pk : o \in EntityOperations},
                  retrieve : BOOLEAN]
          /\ Len(RemoveOperation(batch, index).operations) = 0
      BY <3>1
    <3>3. QED BY <1>1, <2>1, <3>2, EditType
  <2>4. CASE rest # <<>>
    <3>1. RemoveOperation(batch, index) = [batch EXCEPT !.operations = rest]
      BY <2>4 DEF RemoveOperation
    <3> HIDE DEF rest
    <3>2. [batch EXCEPT !.operations = rest]
             \in [operations : Seq(EntityOperations),
                  pk : {None} \cup {o.pk : o \in EntityOperations},
                  retrieve : BOOLEAN]
          /\ [batch EXCEPT !.operations = rest].operations = rest
      BY <1>1, <2>2 DEF BatchType
    <3>3. Len(rest) <= BatchLimit
      BY <1>1, <2>2
    <3>4. QED BY <2>1, <3>1, <3>2, <3>3, EditType
  <2>5. QED BY <2>3, <2>4
<1>4. CASE BatchCleared
  <2>1. /\ Clear(batch) \in [operations : Seq(EntityOperations),
                              pk : {None} \cup {o.pk : o \in EntityOperations},
                              retrieve : BOOLEAN]
        /\ Len(Clear(batch).operations) = 0
    <3>1. <<>> \in Seq(EntityOperations) /\ Len(<<>>) = 0
      OBVIOUS
    <3>2. Clear(batch).operations = <<>>
      BY <1>1 DEF Clear, BatchType
    <3>3. QED BY <1>1, <3>1, <3>2 DEF Clear, BatchType
  <2>2. Edit(Clear(batch), {})
    BY <1>4 DEF BatchCleared
  <2>3. QED BY <1>1, <2>1, <2>2, EditType
<1>5. QED BY <1>2, <1>3, <1>4

LEMMA TypeSent ==
    ASSUME TypeInv, RequestSent
    PROVE  TypeInv'
<1>1. /\ ModeOf(Now) \in LocationModes
      /\ InitialLocation(ModeOf(Now)) \in Locations
  <2>1. call.mode \in LocationModes
    BY CallsAssumption DEF TypeInv, Call
  <2>2. QED BY <2>1 DEF ModeOf, LocationModes, Locations, InitialLocation
<1>2. LET forced == ForcedLocation(WhereOf(Now), InitialLocation(ModeOf(Now)), ModeOf(Now))
      IN forced[1] \in Locations /\ forced[2] \in LocationModes
  BY <1>1 DEF ForcedLocation, Locations, LocationModes
<1>3. /\ location' \in Locations /\ mode' \in LocationModes
      /\ phase' \in {"inFlight", "done"}
      /\ outcome'.result \in {"none", "ok", "failed", "thrown"}
      /\ outcome'.error \in Errors \cup {"none"}
  <2>1. /\ location \in Locations /\ mode \in LocationModes
        /\ outcome.result \in {"none", "ok", "failed", "thrown"}
        /\ outcome.error \in Errors \cup {"none"}
    BY DEF TypeInv, VariablesTyped
  <2>2. CASE (Now.checks /\ ~call.good) \/ RefusesMode(WhereOf(Now), ModeOf(Now), TRUE)
    <3>1. /\ outcome' = [result |-> "thrown", error |-> "none", answer |-> FALSE]
          /\ phase' = "done" /\ location' = location /\ mode' = mode
      BY <2>2 DEF RequestSent, Ended
    <3>2. QED BY <2>1, <3>1
  <2>3. CASE ~((Now.checks /\ ~call.good) \/ RefusesMode(WhereOf(Now), ModeOf(Now), TRUE))
    <3>1. /\ location' = ForcedLocation(WhereOf(Now), InitialLocation(ModeOf(Now)),
                                        ModeOf(Now))[1]
          /\ mode' = ForcedLocation(WhereOf(Now), InitialLocation(ModeOf(Now)),
                                    ModeOf(Now))[2]
          /\ phase' = "inFlight" /\ outcome' = outcome
      BY <2>3 DEF RequestSent
    <3>2. QED BY <1>2, <2>1, <3>1
  <2>4. QED BY <2>2, <2>3
<1>4. VariablesTyped'
  BY <1>3 DEF RequestSent, TypeInv, VariablesTyped
<1>5. QED BY <1>4 DEF RequestSent, TypeInv, BatchType, HistoryType

LEMMA TypeAnswers ==
    ASSUME TypeInv, Answered \/ AnswerLost
    PROVE  TypeInv'
<1>1. /\ UNCHANGED <<call, batch, mode>> /\ phase = "inFlight"
      /\ at' \in [Locations -> Copy] /\ Known(at'["PRIMARY"]) /\ HistoryType'
      /\ Resent \/ WentOn \/ CameToEnd \/ GotSegment
  BY AnswerOutcome, EffectType
<1>2. /\ step' \in 1..Len(call.requests)
      /\ phase' \in {"building", "ready", "inFlight", "done"}
      /\ location' \in Locations
      /\ token' \in [at : Locations, segment : 2..Segments] \cup {NoToken}
      /\ outcome'.result \in {"none", "ok", "failed", "thrown"}
      /\ outcome'.error \in Errors \cup {"none"}
  <2>1. CASE Resent
    BY <2>1, NextLocationType DEF Resent, TypeInv, VariablesTyped
  <2>2. CASE WentOn
    BY <2>2, NowWellFormed DEF WentOn, Continue, MoreRequests, TypeInv, VariablesTyped
  <2>3. CASE CameToEnd
    BY <2>3 DEF CameToEnd, TypeInv, VariablesTyped
  <2>4. CASE GotSegment
    <3>1. token.segment < Segments => [at |-> location, segment |-> token.segment + 1]
                                          \in [at : Locations, segment : 2..Segments]
      BY BoundsAssumption DEF TypeInv, VariablesTyped, NoToken
    <3>2. QED BY <2>4, <3>1 DEF GotSegment, SegmentAnswered, Ended, TypeInv, VariablesTyped
  <2>5. QED BY <1>1, <2>1, <2>2, <2>3, <2>4
<1>3. VariablesTyped'
  BY <1>1, <1>2 DEF TypeInv, VariablesTyped
<1>4. QED BY <1>1, <1>3 DEF TypeInv, BatchType
(* What other clients write is a copy as well.                              *)
LEMMA MeddleType ==
    ASSUME TypeInv, NEW copy \in Copy, Known(copy), Meddle(copy)
    PROVE  TypeInv'
<1>1. at' \in [Locations -> Copy] /\ Known(at'["PRIMARY"])
  BY PrimaryChanged DEF Meddle
<1>2. Observed(at') \in [Locations -> SUBSET BOOLEAN]
  BY <1>1, ObservedType
<1>3. HistoryType'
  BY <1>2 DEF Meddle, TypeInv, HistoryType
<1>4. VariablesTyped'
  BY <1>1 DEF Meddle, TypeInv, VariablesTyped
<1>5. QED BY <1>1, <1>3, <1>4 DEF Meddle, TypeInv, BatchType

LEMMA TypeOthers ==
    ASSUME TypeInv, OtherRequest \/ OtherRemovesParent \/ Replicated
    PROVE  TypeInv'
<1>1. at["PRIMARY"] \in Copy /\ Known(at["PRIMARY"]) /\ at \in [Locations -> Copy]
  BY DEF TypeInv, VariablesTyped, Locations
<1>2. CASE OtherRequest
  <2>1. PICK does \in {"create", "update", "delete", "acquire", "break"} :
           Meddle(After(at["PRIMARY"], does, "them"))
    BY <1>2 DEF OtherRequest
  <2>2. QED BY <1>1, <2>1, AfterKnown, MeddleType
<1>3. CASE OtherRemovesParent
  <2> DEFINE gone == [at["PRIMARY"] EXCEPT !.around = FALSE, !.version = Absent,
                                           !.by = "them", !.lease = "none"]
  <2>1. gone.version = 0 /\ gone.next = at["PRIMARY"].next
    BY <1>1 DEF Copy, Absent
  <2>2. gone \in Copy
    BY <1>1 DEF Copy, Absent
  <2>3. Known(gone)
    BY <1>1, <2>1 DEF Known, SeenVersion
  <2>4. Meddle(gone)
    BY <1>3 DEF OtherRemovesParent
  <2>5. QED BY <2>2, <2>3, <2>4, MeddleType
<1>4. CASE Replicated
  <2>1. at' = [at EXCEPT !["SECONDARY"] = at["PRIMARY"]]
    BY <1>4 DEF Replicated
  <2>2. at' \in [Locations -> Copy] /\ at'["PRIMARY"] = at["PRIMARY"]
    BY <1>1, <2>1 DEF Locations
  <2>3. HistoryType'
    BY <1>4, <2>2, ObservedType DEF Replicated, TypeInv, HistoryType
  <2>4. VariablesTyped'
    BY <1>4, <2>2 DEF Replicated, TypeInv, VariablesTyped
  <2>5. Known(at'["PRIMARY"])
    BY <1>1, <2>2
  <2>6. QED BY <1>4, <2>3, <2>4, <2>5 DEF Replicated, TypeInv, BatchType
<1>5. QED BY <1>2, <1>3, <1>4

LEMMA TypeNext == TypeInv /\ [Next]_vars => TypeInv'
<1> SUFFICES ASSUME TypeInv, [Next]_vars PROVE TypeInv'
  OBVIOUS
<1>1. CASE EntityAdded \/ OperationRemoved \/ BatchCleared
  BY <1>1, TypeEdits
<1>2. CASE BatchExecuted
  <2>1. VariablesTyped'
    BY <1>2 DEF BatchExecuted, Ended, TypeInv, VariablesTyped
  <2>2. QED BY <1>2, <2>1 DEF BatchExecuted, TypeInv, BatchType, HistoryType
<1>3. CASE RequestSent
  BY <1>3, TypeSent
<1>4. CASE Answered \/ AnswerLost
  BY <1>4, TypeAnswers
<1>5. CASE OtherRequest \/ OtherRemovesParent \/ Replicated
  BY <1>5, TypeOthers
<1>6. CASE Done \/ UNCHANGED vars
  <2>1. UNCHANGED vars
    BY <1>6 DEF Done
  <2>2. QED BY <2>1 DEF vars, TypeInv, VariablesTyped, BatchType, HistoryType
<1>7. QED BY <1>1, <1>2, <1>3, <1>4, <1>5, <1>6 DEF Next

(* The variables keep their types, for calls of any number of requests.     *)
THEOREM TypeCorrect ==
    ASSUME AreRegular(Calls), AreSteady(Calls) PROVE Spec => []TypeOK
<1>1. TypeInv => TypeOK
  BY DEF TypeInv, TypeOK, AreRegular, AreSteady
<1>2. QED BY <1>1, TypeInit, TypeNext, PTL DEF Spec
-----------------------------------------------------------------------------
(* Where requests are sent.  That a retry stays where it may be rests on    *)
(* the mode that goes with the location; that the mode is right on what a   *)
(* request, the program and a continuation token demand together.           *)
Refused(r) == call.mode = "SECONDARY_ONLY" /\ NeverAtSecondary(r)

RouteInv ==
    /\ phase = "inFlight" =>
           /\ ~Refused(Now)
           /\ Now.where = Primary => location = "PRIMARY" /\ mode = "PRIMARY_ONLY"
           /\ call.mode = "PRIMARY_ONLY" => location = "PRIMARY" /\ mode = "PRIMARY_ONLY"
           /\ call.mode = "SECONDARY_ONLY" => location = "SECONDARY" /\ mode = "SECONDARY_ONLY"
           /\ token # NoToken => location = token.at /\ mode = Only(token.at)
    /\ step > 1 => ~Refused(call.requests[1])
    /\ token # NoToken =>
           call.kind = "list" /\ (Now.where = Primary => token.at = "PRIMARY")

(* What does not touch the route, or ends it, keeps it.                     *)
LEMMA RouteUnchanged ==
    ASSUME RouteInv, UNCHANGED <<call, step, token>>,
           phase' = "inFlight" => phase = "inFlight" /\ UNCHANGED <<location, mode>>
    PROVE  RouteInv'
BY DEF RouteInv, Refused, Now, NeverAtSecondary

LEMMA RouteSent ==
    ASSUME TypeInv, RouteInv, RequestSent
    PROVE  RouteInv'
<1> DEFINE where == WhereOf(Now)
           asked == ModeOf(Now)
           forced == ForcedLocation(where, InitialLocation(asked), asked)
<1>1. CASE (Now.checks /\ ~call.good) \/ RefusesMode(where, asked, TRUE)
  <2>1. UNCHANGED <<call, step, token>> /\ phase' = "done"
    BY <1>1 DEF RequestSent, Ended
  <2>2. QED BY <2>1, RouteUnchanged
<1>2. CASE ~RefusesMode(where, asked, TRUE) /\ ~(Now.checks /\ ~call.good)
  <2>1. /\ location' = forced[1] /\ mode' = forced[2] /\ phase' = "inFlight"
        /\ UNCHANGED <<call, step, token>>
    BY <1>2 DEF RequestSent
  <2>2. /\ Now.where \in {"PRIMARY_ONLY", "SECONDARY_ONLY", "PRIMARY_OR_SECONDARY", "TOKEN"}
        /\ call.mode \in LocationModes
        /\ WellFormed(call, step) /\ step \in Nat \ {0} /\ Now = call.requests[step]
        /\ token # NoToken => token.at \in {"PRIMARY", "SECONDARY"}
    <3>1. Now.where \in RequestModes \cup {"TOKEN"} /\ WellFormed(call, step)
      BY NowWellFormed DEF Request
    <3>2. call.mode \in LocationModes
      BY CallsAssumption DEF TypeInv, Call
    <3>3. step \in Nat \ {0} /\ (token # NoToken => token.at \in {"PRIMARY", "SECONDARY"})
      BY NowWellFormed DEF TypeInv, VariablesTyped, Locations
    <3>4. QED BY <3>1, <3>2, <3>3 DEF RequestModes, Now
  <2>3. ~Refused(Now)
    BY <1>2 DEF Refused, NeverAtSecondary, RefusesMode, WhereOf, ModeOf, Primary
  <2>4. call.mode = "SECONDARY_ONLY" => asked = "SECONDARY_ONLY"
    <3>1. SUFFICES ASSUME call.mode = "SECONDARY_ONLY", "location" \notin Now.with
                   PROVE  FALSE
      BY DEF ModeOf
    <3>2. NeverAtSecondary(call.requests[1])
      BY <2>2, <3>1 DEF WellFormed
    <3>3. CASE step = 1
      BY <2>2, <2>3, <3>1, <3>2, <3>3 DEF Refused
    <3>4. CASE step > 1
      BY <3>1, <3>2, <3>4 DEF RouteInv, Refused
    <3>5. QED BY <2>2, <3>3, <3>4
  <2>5. call.mode = "PRIMARY_ONLY" => asked = "PRIMARY_ONLY"
    BY DEF ModeOf
  <2>6. Now.where = Primary => forced[1] = "PRIMARY" /\ forced[2] = "PRIMARY_ONLY"
    BY DEF WhereOf, ForcedLocation, Primary
  <2>7. call.mode = "PRIMARY_ONLY" => forced[1] = "PRIMARY" /\ forced[2] = "PRIMARY_ONLY"
    BY <1>2, <2>2, <2>5 DEF WhereOf, Only, ForcedLocation, RefusesMode, InitialLocation
  <2>8. call.mode = "SECONDARY_ONLY" => forced[1] = "SECONDARY" /\ forced[2] = "SECONDARY_ONLY"
    BY <1>2, <2>2, <2>4 DEF WhereOf, Only, ForcedLocation, RefusesMode, InitialLocation
  <2>9. token # NoToken => forced[1] = token.at /\ forced[2] = Only(token.at)
    <3>1. SUFFICES ASSUME token # NoToken
                   PROVE  forced[1] = token.at /\ forced[2] = Only(token.at)
      OBVIOUS
    <3>2. Now.where \in {"TOKEN", Primary} /\ (Now.where = Primary => token.at = "PRIMARY")
      BY <2>2, <3>1 DEF RouteInv, WellFormed
    <3>3. where = Only(token.at)
      BY <2>2, <3>1, <3>2 DEF WhereOf, Only, Primary
    <3>4. QED BY <2>2, <3>1, <3>3 DEF ForcedLocation, Only
  <2>10. QED
    BY <2>1, <2>3, <2>6, <2>7, <2>8, <2>9 DEF RouteInv, Refused, Now
<1>3. QED BY <1>1, <1>2

LEMMA RouteAnswers ==
    ASSUME TypeInv, RouteInv, Answered \/ AnswerLost
    PROVE  RouteInv'
<1>1. /\ phase = "inFlight" /\ UNCHANGED <<call, mode>>
      /\ Resent \/ WentOn \/ CameToEnd \/ GotSegment
  BY AnswerOutcome
<1>2. CASE Resent
  <2>1. UNCHANGED <<step, phase, token>>
    BY <1>2 DEF Resent
  <2>2. token # NoToken => token.at \in {"PRIMARY", "SECONDARY"}
    BY DEF TypeInv, VariablesTyped, Locations
  <2>3. CASE location' = location
    BY <1>1, <2>1, <2>3 DEF RouteInv, Refused, Now
  <2>4. CASE location' = NextLocation(location, mode)
    <3>1. /\ mode = "PRIMARY_ONLY" => location' = "PRIMARY"
          /\ mode = "SECONDARY_ONLY" => location' = "SECONDARY"
      BY <2>4 DEF NextLocation
    <3>2. token # NoToken => location' = token.at
      BY <1>1, <2>2, <3>1 DEF RouteInv, Only
    <3>3. QED BY <1>1, <2>1, <3>1, <3>2 DEF RouteInv, Refused, Now
  <2>5. QED BY <1>2, <2>3, <2>4 DEF Resent
<1>3. CASE WentOn
  <2>1. /\ phase' = "ready" /\ step' = step + 1 /\ token' = token
        /\ call.kind # "list" /\ step \in 1..Len(call.requests)
    BY <1>3 DEF WentOn, Continue, TypeInv, VariablesTyped
  <2>2. ~Refused(call.requests[1])
    BY <1>1, <2>1, NowWellFormed DEF RouteInv, Now
  <2>3. QED BY <1>1, <2>1, <2>2 DEF RouteInv, Refused
<1>4. CASE CameToEnd
  BY <1>1, <1>4, RouteUnchanged DEF CameToEnd
<1>5. CASE GotSegment
  <2>1. /\ phase' \in {"ready", "done"} /\ step' = step /\ call.kind = "list"
        /\ token' = token \/ token' = [at |-> location, segment |-> token.segment + 1]
    BY <1>5 DEF GotSegment, SegmentAnswered, Ended
  <2>2. Now.where = Primary => location = "PRIMARY"
    BY <1>1 DEF RouteInv
  <2>3. Now' = Now
    BY <1>1, <2>1 DEF Now
  <2>4. token' # NoToken => (Now.where = Primary => token'.at = "PRIMARY")
    BY <2>1, <2>2 DEF RouteInv
  <2>5. QED BY <1>1, <2>1, <2>3, <2>4 DEF RouteInv, Refused
<1>6. QED BY <1>1, <1>2, <1>3, <1>4, <1>5

LEMMA RouteInit == Init => RouteInv
BY DEF Init, RouteInv

LEMMA RouteNext == TypeInv /\ RouteInv /\ [Next]_vars => RouteInv'
<1> SUFFICES ASSUME TypeInv, RouteInv, [Next]_vars PROVE RouteInv'
  OBVIOUS
<1>1. CASE EntityAdded \/ OperationRemoved \/ BatchCleared
  BY <1>1, RouteUnchanged DEF EntityAdded, OperationRemoved, BatchCleared, Edit
<1>2. CASE BatchExecuted
  BY <1>2, RouteUnchanged DEF BatchExecuted, Ended
<1>3. CASE RequestSent
  BY <1>3, RouteSent
<1>4. CASE Answered \/ AnswerLost
  BY <1>4, RouteAnswers
<1>5. CASE OtherRequest \/ OtherRemovesParent \/ Replicated
  BY <1>5, RouteUnchanged DEF OtherRequest, OtherRemovesParent, Replicated, Meddle
<1>6. CASE Done \/ UNCHANGED vars
  BY <1>6, RouteUnchanged DEF Done, vars
<1>7. QED BY <1>1, <1>2, <1>3, <1>4, <1>5, <1>6 DEF Next

(* A request, sent for the first time or again, goes to a location that     *)
(* takes it, that the program allows and that its continuation token is of. *)
THEOREM GoesWhereAllowed == Spec => []SentWhereAllowed
<1>1. TypeInv /\ RouteInv => SentWhereAllowed
  <2>1. SUFFICES ASSUME TypeInv, RouteInv, phase = "inFlight", Now.does # "read"
                 PROVE  Now.where = Primary
    BY DEF RouteInv, SentWhereAllowed
  <2>2. QED BY <2>1, NowWellFormed DEF WellFormed, Now
<1>2. QED BY <1>1, TypeInit, TypeNext, RouteInit, RouteNext, PTL DEF Spec
-----------------------------------------------------------------------------
(* Listings: until the end, what was received are the segments before the   *)
(* one that the token names, all of the location that it names.             *)
Received == IF token = NoToken THEN {} ELSE {token.at} \X (1..(token.segment - 1))

ListInv ==
    /\ phase # "done" => outcome.result = "none"
    /\ call.kind = "list" =>
           /\ phase # "done" => listed = Received
           /\ outcome.result = "ok" =>
                  \E l \in Locations, n \in 1..Segments :
                      listed = {l} \X (1..n) /\ (n = Segments \/ Now.endsEmpty)

LEMMA SentOutcome ==
    ASSUME RequestSent
    PROVE  \/ phase' = "done" /\ outcome'.result # "ok"
           \/ phase' = "inFlight" /\ outcome' = outcome
<1>1. CASE (Now.checks /\ ~call.good) \/ RefusesMode(WhereOf(Now), ModeOf(Now), TRUE)
  <2>1. phase' = "done"
        /\ outcome' = [result |-> "thrown", error |-> "none", answer |-> FALSE]
    BY <1>1 DEF RequestSent, Ended
  <2>2. QED BY <2>1
<1>2. CASE ~((Now.checks /\ ~call.good) \/ RefusesMode(WhereOf(Now), ModeOf(Now), TRUE))
  BY <1>2 DEF RequestSent
<1>3. QED BY <1>1, <1>2

LEMMA ListUnchanged ==
    ASSUME ListInv, UNCHANGED <<call, token, listed>>, phase = "done" => step' = step,
           \/ phase' = "done" /\ phase # "done"
              /\ (call.kind = "list" => outcome'.result # "ok")
           \/ UNCHANGED outcome /\ (phase = "done" <=> phase' = "done")
    PROVE  ListInv'
<1>1. phase = "done" => Now' = Now
  BY DEF Now
<1>2. QED BY <1>1 DEF ListInv, Received

LEMMA ListAnswers ==
    ASSUME TypeInv, RouteInv, ListInv, Answered \/ AnswerLost
    PROVE  ListInv'
<1>1. /\ phase = "inFlight" /\ UNCHANGED <<call, mode>>
      /\ Resent \/ WentOn \/ CameToEnd \/ GotSegment
  BY AnswerOutcome
<1>2. CASE Resent
  BY <1>1, <1>2, ListUnchanged DEF Resent
<1>3. CASE WentOn
  BY <1>1, <1>3, ListUnchanged DEF WentOn, Continue
<1>4. CASE CameToEnd
  BY <1>1, <1>4, ListUnchanged DEF CameToEnd
<1>5. CASE GotSegment
  <2> DEFINE l == location
             n == token.segment
  <2>1. /\ l \in Locations /\ l # "nowhere" /\ Segments \in Nat /\ n \in 1..Segments
        /\ listed' = listed \cup {<<l, n>>} /\ call' = call /\ call.kind = "list"
        /\ token = NoToken => n = 1
    BY <1>1, <1>5, BoundsAssumption
       DEF GotSegment, SegmentAnswered, TypeInv, VariablesTyped, NoToken, Locations
  <2>2. listed = {l} \X (1..(n - 1))
    <3>1. CASE token = NoToken
      BY <1>1, <2>1, <3>1 DEF ListInv, Received
    <3>2. CASE token # NoToken
      BY <1>1, <2>1, <3>2 DEF ListInv, Received, RouteInv
    <3>3. QED BY <3>1, <3>2
  <2>3. listed' = {l} \X (1..n)
    <3>1. 1..n = 1..(n - 1) \cup {n}
      BY <2>1
    <3>2. QED BY <2>1, <2>2, <3>1
  <2>4. CASE n < Segments /\ token' = [at |-> l, segment |-> n + 1] /\ phase' = "ready"
               /\ outcome' = outcome
    <3>1. token' # NoToken
      BY <2>1, <2>4 DEF NoToken
    <3>2. token'.segment - 1 = n /\ token'.at = l
      BY <2>1, <2>4
    <3>3. listed' = Received'
      BY <2>3, <3>1, <3>2 DEF Received
    <3>4. QED BY <1>1, <2>4, <3>3 DEF ListInv
  <2>5. CASE (n < Segments => Now.endsEmpty) /\ phase' = "done"
    <3>1. Now' = Now /\ (n = Segments \/ Now.endsEmpty)
      BY <1>5, <2>1, <2>5 DEF GotSegment, SegmentAnswered, Now
    <3>2. \E k \in Locations, m \in 1..Segments :
             listed' = {k} \X (1..m) /\ (m = Segments \/ Now'.endsEmpty)
      BY <2>1, <2>3, <3>1, Zenon
    <3>3. QED BY <2>1, <2>5, <3>2 DEF ListInv
  <2>6. QED BY <1>5, <2>4, <2>5 DEF GotSegment, SegmentAnswered, Ended
<1>6. QED BY <1>1, <1>2, <1>3, <1>4, <1>5

LEMMA ListInit == Init => ListInv
BY DEF Init, ListInv, Received, NoOutcome

LEMMA ListNext == TypeInv /\ RouteInv /\ ListInv /\ [Next]_vars => ListInv'
<1> SUFFICES ASSUME TypeInv, RouteInv, ListInv, [Next]_vars PROVE ListInv'
  OBVIOUS
<1>1. CASE EntityAdded \/ OperationRemoved \/ BatchCleared
  BY <1>1, ListUnchanged DEF EntityAdded, OperationRemoved, BatchCleared, Edit
<1>2. CASE BatchExecuted
  BY <1>2, ListUnchanged DEF BatchExecuted, Ended
<1>3. CASE RequestSent
  <2>1. phase = "ready" /\ UNCHANGED <<call, token, listed>>
    BY <1>3 DEF RequestSent
  <2>2. \/ phase' = "done" /\ outcome'.result # "ok"
        \/ phase' = "inFlight" /\ outcome' = outcome
    BY <1>3, SentOutcome
  <2>3. QED BY <2>1, <2>2, ListUnchanged
<1>4. CASE Answered \/ AnswerLost
  BY <1>4, ListAnswers
<1>5. CASE OtherRequest \/ OtherRemovesParent \/ Replicated
  BY <1>5, ListUnchanged DEF OtherRequest, OtherRemovesParent, Replicated, Meddle
<1>6. CASE Done \/ UNCHANGED vars
  BY <1>6, ListUnchanged DEF Done, vars
<1>7. QED BY <1>1, <1>2, <1>3, <1>4, <1>5, <1>6 DEF Next

(* A listing that ends has every segment of one location, up to the one     *)
(* that ends it, and none of the other, however many segments, lost answers *)
(* and retries there were; only a method that takes an empty segment for    *)
(* the last one ends before the last.                                       *)
THEOREM ListsOneLocation == Spec => []ListingComplete
<1>1. ListInv => ListingComplete
  BY DEF ListInv, ListingComplete
<1>2. QED
  BY <1>1, TypeInit, TypeNext, RouteInit, RouteNext, ListInit, ListNext, PTL DEF Spec
-----------------------------------------------------------------------------
(* Lost updates: a write that carries a condition replaces only what the    *)
(* condition allows, and a version 1 is never somebody else's.              *)
LEMMA UpdatesNext ==
    AreRegular(Calls) /\ TypeInv /\ RouteInv /\ NoLostUpdate /\ [Next]_vars => NoLostUpdate'
<1> SUFFICES ASSUME AreRegular(Calls), TypeInv, RouteInv, NoLostUpdate, [Next]_vars PROVE NoLostUpdate'
  OBVIOUS
<1>1. CASE UNCHANGED call /\ history'.over = history.over
  BY <1>1 DEF NoLostUpdate
<1>2. CASE EntityAdded \/ OperationRemoved \/ BatchCleared
  <2>1. UNCHANGED call /\ history'.over = history.over
    BY <1>2 DEF EntityAdded, OperationRemoved, BatchCleared, Edit, TypeInv, HistoryType
  <2>2. QED BY <1>1, <2>1
<1>3. CASE BatchExecuted \/ RequestSent
  BY <1>1, <1>3 DEF BatchExecuted, RequestSent
<1>4. CASE Answered \/ AnswerLost
  <2>1. call' = call /\ phase = "inFlight" /\ Effect
    BY <1>4, AnswerOutcome
  <2>2. CASE history'.over = history.over
    BY <1>1, <2>1, <2>2
  <2>3. CASE history'.over # history.over
    <3>1. /\ Reply = "ok" /\ history' = Noted /\ Now.does \in Writes
          /\ at["PRIMARY"].version # Absent
          /\ history'.over = history.over \cup {at["PRIMARY"].by}
      BY <2>1, <2>3 DEF Effect, Noted, TypeInv, HistoryType
    <3>2. Now.does # "read" /\ Now.does # "stage"
      BY <3>1 DEF Writes
    <3>3. /\ Now.where = Primary /\ call.gives \cap Conditions \subseteq Now.with
          /\ call.of = "account" => call.gives \cap Conditions = {}
      <4>1. Regular(call, step)
        BY NowWellFormed DEF AreRegular, TypeInv
      <4>2. QED BY <3>1, <3>2, <4>1, NowWellFormed DEF WellFormed, Regular, Now
    <3>4. location = "PRIMARY"
      BY <2>1, <3>3 DEF RouteInv
    <3>5. CASE call.gives \cap Conditions = {}
      BY <2>1, <3>5 DEF NoLostUpdate, Conditions
    <3>6. CASE call.gives \cap Conditions # {}
      <4>1. /\ "match" \in Now.with \cap call.gives => at["PRIMARY"].version = SeenVersion
            /\ "absent" \in Now.with \cap call.gives => at["PRIMARY"].version = Absent
        BY <3>1, <3>2, <3>3, <3>4, <3>6, GuardedRequest DEF Reply
      <4>2. "absent" \notin call.gives
        BY <3>1, <3>3, <4>1 DEF Conditions
      <4>3. "match" \in call.gives => at["PRIMARY"].by # "them"
        BY <3>3, <4>1 DEF Conditions, TypeInv, Known
      <4>4. QED BY <2>1, <3>1, <4>2, <4>3 DEF NoLostUpdate
    <3>7. QED BY <3>5, <3>6
  <2>4. QED BY <2>2, <2>3
<1>5. CASE OtherRequest \/ OtherRemovesParent \/ Replicated
  <2>1. UNCHANGED call /\ history'.over = history.over
    BY <1>5 DEF OtherRequest, OtherRemovesParent, Replicated, Meddle, TypeInv, HistoryType
  <2>2. QED BY <1>1, <2>1
<1>6. CASE Done \/ UNCHANGED vars
  BY <1>1, <1>6 DEF Done, vars
<1>7. QED BY <1>2, <1>3, <1>4, <1>5, <1>6 DEF Next

(* A write that names the version it means, or requires that there be none, *)
(* overwrites nothing of another client, resent or not, whatever the others *)
(* do in the meantime.                                                      *)
THEOREM LosesNoUpdate == ASSUME AreRegular(Calls) PROVE Spec => []NoLostUpdate
<1>1. Init => NoLostUpdate
  BY DEF Init, NewHistory, NoLostUpdate
<1>2. TypeInv /\ RouteInv /\ NoLostUpdate /\ [Next]_vars => NoLostUpdate'
  BY UpdatesNext
<1>3. QED
  BY <1>1, <1>2, TypeInit, TypeNext, RouteInit, RouteNext, PTL DEF Spec
-----------------------------------------------------------------------------
(* Table batches: pk is the key of every operation, and retrieve tells      *)
(* whether one of them is a retrieval, which is then the only one.          *)
BatchInv ==
    /\ call.kind = "batch" /\ phase \in {"ready", "inFlight"} => HasOperations(batch)
    /\ \A i \in DOMAIN batch.operations : batch.operations[i].pk = batch.pk
    /\ \A i \in DOMAIN batch.operations :
           batch.operations[i].type = Retrieve => Len(batch.operations) = 1
    /\ batch.retrieve <=>
           \E i \in DOMAIN batch.operations : batch.operations[i].type = Retrieve
    /\ \A operation \in history.refused :
           ~ValidOperations(Append(batch.operations, operation))

LEMMA BatchUnchanged ==
    ASSUME BatchInv, UNCHANGED <<call, batch>>, history'.refused = history.refused,
           phase' \in {"ready", "inFlight"} => phase \in {"ready", "inFlight"}
    PROVE  BatchInv'
BY DEF BatchInv, HasOperations

LEMMA BatchFacts ==
    ASSUME TypeInv
    PROVE  /\ batch.operations \in Seq(EntityOperations)
           /\ Len(batch.operations) \in 0..BatchLimit
           /\ DOMAIN batch.operations = 1..Len(batch.operations)
           /\ BatchLimit \in Nat \ {0}
           /\ HasOperations(batch) <=> Len(batch.operations) > 0
BY BoundsAssumption DEF TypeInv, VariablesTyped, BatchType, HasOperations

(* addOperation throws only for what does not belong into the batch.        *)
LEMMA RefusedRightly ==
    ASSUME TypeInv, BatchInv, NEW operation \in EntityOperations, Refuses(batch, operation)
    PROVE  ~ValidOperations(Append(batch.operations, operation))
<1> DEFINE ops == batch.operations
           more == Append(ops, operation)
<1>1. /\ ops \in Seq(EntityOperations) /\ Len(ops) \in 0..BatchLimit
      /\ DOMAIN ops = 1..Len(ops) /\ BatchLimit \in Nat \ {0}
      /\ HasOperations(batch) <=> Len(ops) > 0
  BY BatchFacts
<1>2. /\ Len(more) = Len(ops) + 1 /\ DOMAIN more = 1..(Len(ops) + 1)
      /\ more[Len(ops) + 1] = operation /\ \A i \in 1..Len(ops) : more[i] = ops[i]
  BY <1>1
<1>3. CASE Len(ops) >= BatchLimit
  BY <1>1, <1>2, <1>3 DEF ValidOperations
<1>4. CASE operation.type = Retrieve /\ HasOperations(batch)
  BY <1>1, <1>2, <1>4 DEF ValidOperations
<1>5. CASE batch.retrieve
  <2>1. PICK i \in 1..Len(ops) : ops[i].type = Retrieve
    BY <1>1, <1>5 DEF BatchInv
  <2>2. more[i].type = Retrieve /\ i \in DOMAIN more /\ Len(more) # 1
    BY <1>1, <1>2, <2>1
  <2>3. QED BY <2>2 DEF ValidOperations
<1>6. CASE HasOperations(batch) /\ operation.pk # batch.pk
  <2>1. 1 \in DOMAIN ops /\ ops[1].pk = batch.pk
    BY <1>1, <1>6 DEF BatchInv
  <2>2. more[1].pk # more[Len(ops) + 1].pk /\ {1, Len(ops) + 1} \subseteq DOMAIN more
    BY <1>1, <1>2, <1>6, <2>1
  <2>3. QED BY <2>2 DEF ValidOperations
<1>7. QED BY <1>3, <1>4, <1>5, <1>6 DEF Refuses

(* The edits of the batch, when one with a retrieval is not cleared.        *)
LEMMA BatchEdits ==
    ASSUME ~ClearsRetrieval, TypeInv, BatchInv,
           EntityAdded \/ OperationRemoved \/ BatchCleared
    PROVE  BatchInv'
<1> DEFINE ops == batch.operations
<1>1. /\ ops \in Seq(EntityOperations) /\ Len(ops) \in 0..BatchLimit
      /\ DOMAIN ops = 1..Len(ops) /\ BatchLimit \in Nat \ {0}
      /\ HasOperations(batch) <=> Len(ops) > 0
  BY BatchFacts
<1>2. /\ phase' = "building" /\ call' = call
      /\ \A edited, refused : Edit(edited, refused) =>
             batch' = edited /\ history'.refused = refused
  BY DEF EntityAdded, OperationRemoved, BatchCleared, Edit, TypeInv, HistoryType
<1>3. ASSUME NEW edited, Edit(edited, {}),
             \A i \in DOMAIN edited.operations : edited.operations[i].pk = edited.pk,
             \A i \in DOMAIN edited.operations :
                edited.operations[i].type = Retrieve => Len(edited.operations) = 1,
             edited.retrieve <=>
                \E i \in DOMAIN edited.operations : edited.operations[i].type = Retrieve
      PROVE  BatchInv'
  BY <1>2, <1>3 DEF BatchInv
<1>4. CASE EntityAdded
  <2>1. PICK operation \in EntityOperations :
           IF Refuses(batch, operation) THEN Edit(batch, {operation})
           ELSE Edit(AddOperation(batch, operation), {})
    BY <1>4 DEF EntityAdded
  <2>2. CASE Refuses(batch, operation)
    <3>1. batch' = batch /\ history'.refused = {operation}
      BY <1>2, <2>1, <2>2
    <3>2. QED BY <1>2, <2>2, <3>1, RefusedRightly DEF BatchInv
  <2>3. CASE ~Refuses(batch, operation)
    <3> DEFINE edited == AddOperation(batch, operation)
               more == Append(ops, operation)
    <3>1. /\ Len(more) = Len(ops) + 1 /\ DOMAIN more = 1..(Len(ops) + 1)
          /\ more[Len(ops) + 1] = operation /\ \A i \in 1..Len(ops) : more[i] = ops[i]
      BY <1>1
    <3>2. /\ edited.operations = more
          /\ edited.pk = IF HasOperations(batch) THEN batch.pk ELSE operation.pk
          /\ edited.retrieve <=> batch.retrieve \/ operation.type = Retrieve
      BY DEF AddOperation
    <3>3. /\ operation.type = Retrieve => Len(ops) = 0
          /\ operation.type # Retrieve => ~batch.retrieve
          /\ Len(ops) > 0 => operation.pk = batch.pk
      BY <1>1, <2>3 DEF Refuses
    <3> HIDE DEF edited, more
    <3>4. \A i \in 1..(Len(ops) + 1) : more[i].pk = edited.pk
      <4>1. more[Len(ops) + 1].pk = edited.pk
        BY <1>1, <3>1, <3>2, <3>3
      <4>2. ASSUME NEW i \in 1..Len(ops)
            PROVE  more[i].pk = edited.pk
        BY <1>1, <3>1, <3>2, <3>3 DEF BatchInv
      <4>3. \A i \in 1..(Len(ops) + 1) : i = Len(ops) + 1 \/ i \in 1..Len(ops)
        BY <1>1
      <4> QED BY <4>1, <4>2, <4>3
    <3>5. \A i \in 1..(Len(ops) + 1) : more[i].type = Retrieve => Len(more) = 1
      BY <1>1, <3>1, <3>3 DEF BatchInv
    <3>6. edited.retrieve <=> \E i \in 1..(Len(ops) + 1) : more[i].type = Retrieve
      <4>1. CASE operation.type = Retrieve
        <5>1. edited.retrieve
          BY <3>2, <4>1
        <5>2. Len(ops) + 1 \in 1..(Len(ops) + 1) /\ more[Len(ops) + 1].type = Retrieve
          BY <1>1, <3>1, <4>1
        <5>3. QED BY <5>1, <5>2
      <4>2. CASE operation.type # Retrieve
        <5>1. \A i \in 1..Len(ops) : ops[i].type # Retrieve
          BY <1>1, <3>3, <4>2 DEF BatchInv
        <5>2. \A i \in 1..(Len(ops) + 1) : more[i].type # Retrieve
          BY <1>1, <3>1, <4>2, <5>1
        <5>3. ~edited.retrieve
          BY <3>2, <3>3, <4>2
        <5>4. QED BY <5>2, <5>3
      <4>3. QED BY <4>1, <4>2
    <3>7. Edit(edited, {})
      BY <2>1, <2>3 DEF edited
    <3>8. QED BY <1>3, <3>1, <3>2, <3>4, <3>5, <3>6, <3>7
  <2>4. QED BY <2>2, <2>3
<1>5. CASE OperationRemoved
  <2>1. PICK index \in DOMAIN ops : Edit(RemoveOperation(batch, index), {})
    BY <1>5 DEF OperationRemoved
  <2> DEFINE rest == RemoveAt(ops, index)
  <2>2. /\ rest \in Seq(EntityOperations) /\ Len(rest) = Len(ops) - 1
        /\ \A j \in DOMAIN rest : \E k \in DOMAIN ops : rest[j] = ops[k]
    BY <1>1, RemoveAtFacts
  <2>3. CASE rest = <<>>
    <3>1. RemoveOperation(batch, index)
             = [operations |-> <<>>, pk |-> None, retrieve |-> FALSE]
      BY <2>3 DEF RemoveOperation, NewBatch
    <3>2. QED BY <1>3, <2>1, <3>1
  <2>4. CASE rest # <<>>
    <3>1. RemoveOperation(batch, index) = [batch EXCEPT !.operations = rest]
      BY <2>4 DEF RemoveOperation
    <3> HIDE DEF rest
    <3> DEFINE edited == [batch EXCEPT !.operations = rest]
    <3>2. edited.operations = rest /\ edited.pk = batch.pk
          /\ edited.retrieve = batch.retrieve
      BY DEF TypeInv, BatchType
    <3>3. Len(ops) # 1
      BY <1>1, <2>2, <2>4
    <3>4. \A k \in DOMAIN ops : ops[k].type # Retrieve /\ ops[k].pk = batch.pk
      BY <3>3 DEF BatchInv
    <3>5. ~batch.retrieve
      BY <3>4 DEF BatchInv
    <3>6. \A j \in DOMAIN rest : rest[j].type # Retrieve /\ rest[j].pk = batch.pk
      BY <2>2, <3>4
    <3>7. Edit(edited, {})
      BY <2>1, <3>1
    <3> HIDE DEF edited
    <3>8. QED BY <1>3, <3>2, <3>5, <3>6, <3>7
  <2>5. QED BY <2>3, <2>4
<1>6. CASE BatchCleared
  <2> DEFINE edited == Clear(batch)
  <2>1. Edit(edited, {}) /\ ~batch.retrieve
    BY <1>6 DEF BatchCleared
  <2>2. edited.operations = <<>> /\ edited.retrieve = batch.retrieve
    BY DEF Clear, TypeInv, BatchType
  <2> HIDE DEF edited
  <2>3. QED BY <1>3, <2>1, <2>2
<1>7. QED BY <1>4, <1>5, <1>6

LEMMA BatchInit == Init => BatchInv
BY DEF Init, BatchInv, NewBatch, NewHistory

LEMMA BatchNext == ~ClearsRetrieval /\ TypeInv /\ BatchInv /\ [Next]_vars => BatchInv'
<1> SUFFICES ASSUME ~ClearsRetrieval, TypeInv, BatchInv, [Next]_vars PROVE BatchInv'
  OBVIOUS
<1>1. CASE EntityAdded \/ OperationRemoved \/ BatchCleared
  BY <1>1, BatchEdits
<1>2. CASE BatchExecuted
  BY <1>2 DEF BatchExecuted, Ended, BatchInv, HasOperations
<1>3. CASE RequestSent
  BY <1>3, BatchUnchanged DEF RequestSent, Ended
<1>4. CASE Answered \/ AnswerLost
  <2>1. phase = "inFlight" /\ UNCHANGED <<call, batch>> /\ Effect
    BY <1>4, AnswerOutcome
  <2>2. history'.refused = history.refused
    BY <2>1 DEF Effect, Noted, TypeInv, HistoryType
  <2>3. QED BY <2>1, <2>2, BatchUnchanged
<1>5. CASE OtherRequest \/ OtherRemovesParent \/ Replicated
  <2>1. phase = "inFlight" /\ UNCHANGED <<call, batch>> /\ history'.refused = history.refused
    BY <1>5 DEF OtherRequest, OtherRemovesParent, Replicated, Meddle, TypeInv, HistoryType
  <2>2. QED BY <2>1, BatchUnchanged
<1>6. CASE Done \/ UNCHANGED vars
  BY <1>6, BatchUnchanged DEF Done, vars
<1>7. QED BY <1>1, <1>2, <1>3, <1>4, <1>5, <1>6 DEF Next

(* Whatever is added to a batch and removed from it, in any order: what is  *)
(* sent has one key, not too many operations and a retrieval only by itself,*)
(* and what was refused had no place in it; unless a batch with a retrieval *)
(* is cleared, whose flag stays.                                            *)
THEOREM SendsValidBatch == ASSUME ~ClearsRetrieval PROVE Spec => []ValidBatch
<1>1. TypeInv /\ BatchInv => ValidBatch
  <2>1. SUFFICES ASSUME TypeInv, BatchInv, call.kind = "batch", phase = "inFlight"
                 PROVE  ValidOperations(batch.operations)
    BY DEF BatchInv, ValidBatch
  <2>2. QED BY <2>1, BatchFacts DEF BatchInv, ValidOperations
<1>2. TypeInv /\ BatchInv /\ [Next]_vars => BatchInv'
  BY BatchNext
<1>3. QED BY <1>1, <1>2, TypeInit, TypeNext, BatchInit, PTL DEF Spec
-----------------------------------------------------------------------------
(* Successes are true: what is there now was seen by the history; what      *)
(* contains a resource that is no child stays; all changes of the steps     *)
(* before the current one took effect; and a call that names a version has  *)
(* read no other.                                                           *)
SeenInv == \A l \in Locations : Present(at[l]) \in history.was[l]
AroundInv == call.of # "child" => \A l \in Locations : at[l].around
DidInv == phase # "done" => \A i \in Changes : i < step => i \in history.did
ReadInv == "match" \in call.gives => history.read \subseteq {SeenVersion}

SuccessInv == SeenInv /\ AroundInv /\ DidInv /\ ReadInv /\ SuccessTrue

(* A change of copies that the history observes.                            *)
LEMMA SeenObserved ==
    ASSUME TypeInv, at' \in [Locations -> Copy], history'.was = Observed(at')
    PROVE  SeenInv' /\ \A l \in Locations : history.was[l] \subseteq history'.was[l]
BY DEF SeenInv, Observed

LEMMA AfterAround ==
    ASSUME NEW copy \in Copy, NEW does, NEW by
    PROVE  After(copy, does, by).around = copy.around
BY DEF After, Copy

(* A request that is answered, or not, keeps all but the outcome.           *)
LEMMA EffectSeen ==
    ASSUME AreRegular(Calls), TypeInv, RouteInv, SeenInv, AroundInv, ReadInv,
           phase = "inFlight", Effect, call' = call
    PROVE  /\ SeenInv' /\ AroundInv' /\ ReadInv'
           /\ \A l \in Locations : history.was[l] \subseteq history'.was[l]
           /\ history.did \subseteq history'.did
<1>1. CASE UNCHANGED <<at, history>>
  BY <1>1 DEF SeenInv, AroundInv, ReadInv
<1>2. CASE Reply = "ok" /\ at' = Changed /\ history' = Noted
  <2>1. at' \in [Locations -> Copy]
    BY EffectType
  <2>2. /\ history'.was = Observed(at') /\ history'.did = history.did \cup {step}
        /\ history'.read = IF Now.does = "read"
                           THEN history.read \cup {at[location].version} ELSE history.read
    BY <1>2 DEF Noted, TypeInv, HistoryType
  <2>3. at["PRIMARY"] \in Copy /\ at \in [Locations -> Copy]
    BY DEF TypeInv, VariablesTyped, Locations
  <2>4. AroundInv'
    <3>1. \A l \in Locations : at'[l].around = at[l].around
      BY <1>2, <2>3, AfterAround DEF Changed, Locations
    <3>2. QED BY <3>1 DEF AroundInv
  <2>5. ReadInv'
    <3>1. SUFFICES ASSUME "match" \in call.gives, Now.does = "read"
                   PROVE  at[location].version = SeenVersion
      BY <2>2 DEF ReadInv
    <3>2. /\ call.of = "account" => call.gives \cap Conditions = {}
          /\ "match" \in Now.with
      <4>1. Regular(call, step)
        BY NowWellFormed DEF AreRegular, TypeInv
      <4>2. QED BY <3>1, <4>1 DEF Regular, Now
    <3>3. call.of # "account" /\ Now.does # "stage" /\ "match" \in Now.with \cap call.gives
      BY <3>1, <3>2 DEF Conditions
    <3>4. QED BY <1>2, <3>3, GuardedRequest DEF Reply
  <2>6. QED BY <2>1, <2>2, <2>4, <2>5, SeenObserved
<1>3. QED BY <1>1, <1>2 DEF Effect

(* What the request in flight is, in the methods that look first.           *)
LEMMA ConditionalFacts ==
    ASSUME AreRegular(Calls), TypeInv, RouteInv, phase = "inFlight"
    PROVE  /\ Now.ignores # {} => Now.does = "read"
           /\ Now.absorbs # {} => call.kind \in Conditional
           /\ call.kind \in Conditional =>
                 /\ call.of # "account"
                 /\ MoreRequests <=> step = 1 /\ call.kind # "exists"
                 /\ step = 1 => /\ Now.does = "read"
                               /\ Now.absorbs \subseteq {"notFound", "parentNotFound"}
                 /\ step # 1 => /\ call.kind = "createIf" =>
                                      Now.does = "create" /\ Now.absorbs \subseteq {"conflict"}
                                /\ call.kind = "deleteIf" =>
                                      Now.does = "delete" /\ Now.absorbs \subseteq {"notFound"}
                                /\ call.kind # "exists"
                 /\ call.kind # "exists" => location = "PRIMARY"
<1>1. /\ Regular(call, step) /\ WellFormed(call, step) /\ Now = call.requests[step]
      /\ step \in 1..Len(call.requests) /\ Len(call.requests) \in Nat
  <2>1. Regular(call, step)
    BY NowWellFormed DEF AreRegular, TypeInv
  <2>2. QED BY <2>1, NowWellFormed DEF Now, TypeInv, VariablesTyped
<1>2. SUFFICES ASSUME call.kind \in Conditional
               PROVE  /\ MoreRequests <=> step = 1 /\ call.kind # "exists"
                      /\ step # 1 => step = 2 /\ call.kind \in {"createIf", "deleteIf"}
                      /\ call.kind # "exists" => location = "PRIMARY"
  BY <1>1 DEF Regular, Conditional
<1>3. /\ Len(call.requests) = IF call.kind = "exists" THEN 1 ELSE 2
      /\ call.kind \in {"createIf", "deleteIf", "exists"}
  BY <1>1, <1>2 DEF Regular, Conditional
<1>4. step # 1 => step = 2 /\ call.kind \in {"createIf", "deleteIf"}
  BY <1>1, <1>3
<1>5. MoreRequests <=> step = 1 /\ call.kind # "exists"
  BY <1>1, <1>3 DEF MoreRequests
<1>6. call.kind # "exists" => Now.where = Primary
  BY <1>1, <1>2, <1>4 DEF Regular, WellFormed
<1>7. QED BY <1>4, <1>5, <1>6 DEF RouteInv
(* The three ways an event of the request in flight is dealt with.          *)
LEMMA AnswerPaths ==
    ASSUME TypeInv, Answered \/ AnswerLost
    PROVE  \/ Resent
           \/ Reply = "ok" /\ at' = Changed /\ history' = Noted
              /\ Succeeded /\ UNCHANGED location
           \/ \E error \in Errors :
                 /\ Failed(error) /\ UNCHANGED location
                 /\ error = "lost" \/ (error = Reply /\ UNCHANGED <<at, history>>)
<1>1. Reply \in Errors \cup {"ok"} /\ "lost" \in Errors
  BY AnswerType DEF Reply, Errors
<1>2. CASE Answered /\ Reply = "ok"
  BY <1>2 DEF Answered, Served
<1>3. CASE Answered /\ Reply # "ok"
  BY <1>1, <1>3 DEF Answered, Served
<1>4. CASE AnswerLost
  BY <1>1, <1>4 DEF AnswerLost, Resent
<1>5. QED BY <1>2, <1>3, <1>4

(* What is concluded from the answer was seen.                              *)
LEMMA ReplyMeans ==
    ASSUME TypeInv, SeenInv, AroundInv, call.of # "account"
    PROVE  /\ location \in Locations
           /\ Now.does = "read" /\ Reply = "ok" => TRUE \in history.was[location]
           /\ Now.does = "create" /\ Reply = "conflict" => TRUE \in history.was[location]
           /\ Reply \in {"notFound", "parentNotFound"} => FALSE \in history.was[location]
<1>1. /\ location \in Locations /\ at[location] \in Copy
      /\ call.of # "child" => at[location].around
      /\ Present(at[location]) \in history.was[location]
      /\ Present(at[location]) \in BOOLEAN
  BY DEF TypeInv, VariablesTyped, AroundInv, SeenInv, Present, Copy
<1>2. /\ Now.does = "read" /\ Reply = "ok" => Present(at[location])
      /\ Now.does = "create" /\ Reply = "conflict" => Present(at[location])
      /\ Reply \in {"notFound", "parentNotFound"} => ~Present(at[location])
  BY <1>1, AnswerMeans DEF Reply
<1>3. QED BY <1>1, <1>2

(* The steps, of all requests, that were counted as changes.                *)
LEMMA ChangesFacts ==
    ASSUME TypeInv
    PROVE  /\ Changes \subseteq 1..Len(call.requests) /\ Len(call.requests) \in Nat
           /\ step \in 1..Len(call.requests)
           /\ step \in Changes <=> Now.does # "read"
           /\ call.kind = "list" => Changes = {} /\ call.kind \notin Conditional
           /\ ~MoreRequests => step = Len(call.requests)
           /\ call' = call => Changes' = Changes
<1>1. /\ call.requests \in Seq(Request) /\ step \in DOMAIN call.requests
      /\ Len(call.requests) \in Nat /\ WellFormed(call, step)
  BY NowWellFormed
<1>2. DOMAIN call.requests = 1..Len(call.requests)
  BY <1>1
<1>3. call.kind = "list" => Changes = {}
  <2>1. SUFFICES ASSUME call.kind = "list"
                 PROVE  DOMAIN call.requests = {step} /\ call.requests[step].does = "read"
    BY DEF Changes
  <2>2. Len(call.requests) = 1 /\ call.requests[step].does = "read"
    BY <1>1, <2>1 DEF WellFormed
  <2>3. QED BY <1>1, <1>2, <2>2
<1>4. QED BY <1>1, <1>2, <1>3 DEF Changes, Now, MoreRequests, Conditional

LEMMA SuccessSucceeded ==
    ASSUME AreRegular(Calls), TypeInv, RouteInv, ListInv, SuccessInv, phase = "inFlight",
           call' = call, Reply = "ok", at' = Changed, history' = Noted,
           Succeeded, UNCHANGED location
    PROVE  SuccessInv'
<1>1. /\ SeenInv' /\ AroundInv' /\ ReadInv'
      /\ \A l \in Locations : history.was[l] \subseteq history'.was[l]
  BY EffectSeen DEF Effect, SuccessInv
<1>2. \A i \in Changes : i <= step => i \in history'.did
  <2>1. history'.did = history.did \cup {step}
    BY DEF Noted, TypeInv, HistoryType
  <2>2. \A i \in Changes : i < step => i \in history.did
    BY DEF SuccessInv, DidInv
  <2>3. QED BY <2>1, <2>2, ChangesFacts
<1>3. outcome.result = "none" /\ location \in Locations
  BY DEF ListInv, TypeInv, VariablesTyped
<1>4. CASE Continue
  <2>1. DidInv'
    <3>1. step' = step + 1
      BY <1>4 DEF Continue
    <3>2. \A i \in Changes : i < step + 1 => i <= step
      BY ChangesFacts
    <3>3. QED BY <1>2, <3>1, <3>2, ChangesFacts DEF DidInv
  <2>2. SuccessTrue'
    BY <1>3, <1>4 DEF Continue, SuccessTrue
  <2>3. QED BY <1>1, <2>1, <2>2 DEF SuccessInv
<1>5. CASE call.kind = "list"
  <2>1. DidInv' /\ SuccessTrue'
    BY <1>1, <1>5, ChangesFacts DEF DidInv, SuccessTrue, ReadInv, Conditional
  <2>2. QED BY <1>1, <2>1 DEF SuccessInv
<1>6. CASE ~Continue /\ call.kind # "list" /\ step = 1 /\ call.kind \in Conditional
  <2>1. /\ Ended("ok", "none", call.kind = "exists" /\ TRUE)
        /\ ~(MoreRequests /\ TRUE = (call.kind = "deleteIf"))
    BY <1>6 DEF Succeeded, CheckAnswered
  <2>2. call.kind # "deleteIf"
    BY <1>6, <2>1, ConditionalFacts
  <2>3. TRUE \in history'.was[location]
    BY <1>1, <1>6, ReplyMeans, ConditionalFacts DEF SuccessInv
  <2>4. /\ phase' = "done" /\ outcome'.result = "ok"
        /\ outcome'.answer <=> call.kind = "exists"
        /\ outcome'.answer \in BOOLEAN
    BY <2>1 DEF Ended
  <2>5. call.kind = "createIf" => location = "PRIMARY"
    BY <1>6, ConditionalFacts
  <2>6. SuccessTrue'
    BY <1>1, <2>2, <2>3, <2>4, <2>5 DEF SuccessTrue, ReadInv
  <2>7. QED BY <1>1, <2>4, <2>6 DEF SuccessInv, DidInv
<1>7. CASE ~Continue /\ call.kind # "list" /\ ~(step = 1 /\ call.kind \in Conditional)
  <2>1. Ended("ok", "none", TRUE) /\ ~MoreRequests
    BY <1>7 DEF Succeeded
  <2>2. phase' = "done" /\ outcome'.answer
    BY <2>1 DEF Ended
  <2>3. Changes' \subseteq history'.did
    BY <1>2, <2>1, ChangesFacts
  <2>4. call.kind # "exists"
    BY <1>7, ConditionalFacts DEF Conditional
  <2>5. SuccessTrue'
    BY <1>1, <2>2, <2>3, <2>4 DEF SuccessTrue, ReadInv
  <2>6. QED BY <1>1, <2>2, <2>5 DEF SuccessInv, DidInv
<1>8. QED BY <1>4, <1>5, <1>6, <1>7

LEMMA SuccessFailed ==
    ASSUME AreRegular(Calls), TypeInv, RouteInv, ListInv, SuccessInv, phase = "inFlight",
           call' = call, Effect, UNCHANGED location, NEW error \in Errors, Failed(error),
           error = "lost" \/ (error = Reply /\ UNCHANGED <<at, history>>)
    PROVE  SuccessInv'
<1>1. /\ SeenInv' /\ AroundInv' /\ ReadInv' /\ history.did \subseteq history'.did
      /\ \A l \in Locations : history.was[l] \subseteq history'.was[l]
  BY EffectSeen DEF SuccessInv
<1>2. outcome.result = "none" /\ location \in Locations
  BY DEF ListInv, TypeInv, VariablesTyped
<1>3. CASE Continue /\ Now.does = "read"
  <2>1. DidInv'
    <3>1. step' = step + 1 /\ step \notin Changes
      BY <1>3, ChangesFacts DEF Continue
    <3>2. \A i \in Changes : i < step + 1 => i < step
      BY <3>1, ChangesFacts
    <3>3. \A i \in Changes : i < step => i \in history.did
      BY DEF SuccessInv, DidInv
    <3>4. QED BY <1>1, <3>1, <3>2, <3>3, ChangesFacts DEF DidInv
  <2>2. SuccessTrue'
    BY <1>2, <1>3 DEF Continue, SuccessTrue
  <2>3. QED BY <1>1, <2>1, <2>2 DEF SuccessInv
<1>4. CASE phase' = "done" /\ outcome'.result # "ok"
  BY <1>1, <1>4 DEF SuccessInv, DidInv, SuccessTrue
<1>5. CASE error \in Now.absorbs
  <2>1. /\ call.kind \in Conditional /\ call.of # "account"
        /\ call.kind # "exists" => location = "PRIMARY"
    BY <1>5, ConditionalFacts
  <2>2. error = Reply
    BY <1>5, <2>1, ConditionalFacts DEF Conditional
  <2>3. CASE step = 1
    <3>1. CheckAnswered(FALSE)
      BY <1>5, <2>3 DEF Failed
    <3>2. CASE Continue
      BY <1>3, <2>1, <2>3, <3>2, ConditionalFacts
    <3>3. CASE ~Continue
      <4>1. /\ Ended("ok", "none", call.kind = "exists" /\ FALSE)
            /\ ~(MoreRequests /\ FALSE = (call.kind = "deleteIf"))
        BY <3>1, <3>3 DEF CheckAnswered
      <4>2. call.kind # "createIf"
        BY <2>1, <2>3, <4>1, ConditionalFacts
      <4>3. FALSE \in history'.was[location]
        BY <1>1, <1>5, <2>1, <2>2, <2>3, ReplyMeans, ConditionalFacts DEF SuccessInv
      <4>4. phase' = "done" /\ outcome'.answer = FALSE
        BY <4>1 DEF Ended
      <4>5. SuccessTrue'
        BY <1>1, <2>1, <4>2, <4>3, <4>4 DEF SuccessTrue, ReadInv
      <4>6. QED BY <1>1, <4>4, <4>5 DEF SuccessInv, DidInv
    <3>4. QED BY <3>2, <3>3
  <2>4. CASE step # 1
    <3>1. Ended("ok", "none", FALSE)
      BY <1>5, <2>4 DEF Failed
    <3>2. phase' = "done" /\ outcome'.answer = FALSE
      BY <3>1 DEF Ended
    <3>3. /\ call.kind # "exists"
          /\ call.kind = "createIf" => TRUE \in history'.was[location]
          /\ call.kind = "deleteIf" => FALSE \in history'.was[location]
      BY <1>1, <1>5, <2>1, <2>2, <2>4, ReplyMeans, ConditionalFacts DEF SuccessInv
    <3>4. SuccessTrue'
      BY <1>1, <2>1, <3>2, <3>3 DEF SuccessTrue, ReadInv
    <3>5. QED BY <1>1, <3>2, <3>4 DEF SuccessInv, DidInv
  <2>5. QED BY <2>3, <2>4
<1>6. CASE error \notin Now.absorbs /\ error \in Now.ignores
  <2>1. Continue /\ Now.does = "read"
    BY <1>6, ConditionalFacts DEF Failed
  <2>2. QED BY <1>3, <2>1
<1>7. CASE error \notin Now.absorbs /\ error \notin Now.ignores
  <2>1. phase' = "done" /\ outcome'.result # "ok"
    BY <1>7 DEF Failed, Ended
  <2>2. QED BY <1>4, <2>1
<1>8. QED BY <1>5, <1>6, <1>7

LEMMA SuccessAnswers ==
    ASSUME AreRegular(Calls), TypeInv, RouteInv, ListInv, SuccessInv, Answered \/ AnswerLost
    PROVE  SuccessInv'
<1>1. phase = "inFlight" /\ call' = call /\ Effect
  BY AnswerOutcome
<1>2. CASE Resent
  <2>1. /\ SeenInv' /\ AroundInv' /\ ReadInv' /\ history.did \subseteq history'.did
    BY <1>1, EffectSeen DEF SuccessInv
  <2>2. DidInv' /\ SuccessTrue'
    BY <1>1, <1>2, <2>1, ChangesFacts
       DEF Resent, SuccessInv, DidInv, SuccessTrue, ListInv
  <2>3. QED BY <2>1, <2>2 DEF SuccessInv
<1>3. CASE Reply = "ok" /\ at' = Changed /\ history' = Noted
           /\ Succeeded /\ UNCHANGED location
  BY <1>1, <1>3, SuccessSucceeded
<1>4. CASE \E error \in Errors :
                 /\ Failed(error) /\ UNCHANGED location
                 /\ error = "lost" \/ (error = Reply /\ UNCHANGED <<at, history>>)
  BY <1>1, <1>4, SuccessFailed
<1>5. QED BY <1>2, <1>3, <1>4, AnswerPaths

(* Steps of the others while the request is in flight, or none at all.      *)
LEMMA SuccessUnchanged ==
    ASSUME TypeInv, ListInv, SuccessInv,
           UNCHANGED <<call, step, location, at>>,
           \A i \in {"was", "did", "read"} : history'[i] = history[i],
           phase' # "done" => phase # "done",
           UNCHANGED outcome \/ outcome'.result # "ok"
    PROVE  SuccessInv'
<1>1. /\ history'.was = history.was /\ history'.did = history.did
      /\ history'.read = history.read
  OBVIOUS
<1>2. SeenInv' /\ AroundInv' /\ DidInv' /\ ReadInv'
  BY <1>1, ChangesFacts DEF SuccessInv, SeenInv, AroundInv, DidInv, ReadInv
<1>3. SuccessTrue'
  BY <1>1, ChangesFacts DEF SuccessInv, SuccessTrue
<1>4. QED BY <1>2, <1>3 DEF SuccessInv

LEMMA SuccessOthers ==
    ASSUME TypeInv, ListInv, SuccessInv, OtherRequest \/ OtherRemovesParent \/ Replicated
    PROVE  SuccessInv'
<1>1. TypeInv'
  BY TypeOthers
<1>2. /\ phase = "inFlight" /\ UNCHANGED <<call, step, phase, location, outcome>>
      /\ history' = [history EXCEPT !.was = Observed(at')]
  BY DEF OtherRequest, OtherRemovesParent, Replicated, Meddle
<1>3. /\ history'.was = Observed(at') /\ history'.did = history.did
      /\ history'.read = history.read
  BY <1>2 DEF TypeInv, HistoryType
<1>4. SeenInv'
  BY <1>1, <1>3, SeenObserved DEF TypeInv, VariablesTyped
<1>5. AroundInv'
  <2>1. SUFFICES ASSUME call.of # "child" PROVE \A l \in Locations : at'[l].around
    BY <1>2 DEF AroundInv
  <2>2. /\ \A l \in Locations : at[l].around /\ at[l] \in Copy
        /\ at \in [Locations -> Copy] /\ "PRIMARY" \in Locations
    BY <2>1 DEF SuccessInv, AroundInv, TypeInv, VariablesTyped, Locations
  <2>3. CASE OtherRequest
    <3>1. PICK does \in {"create", "update", "delete", "acquire", "break"} :
             at' = [at EXCEPT !["PRIMARY"] = After(at["PRIMARY"], does, "them")]
      BY <2>3 DEF OtherRequest, Meddle
    <3>2. After(at["PRIMARY"], does, "them").around
      BY <2>2, AfterAround
    <3>3. QED BY <2>2, <3>1, <3>2
  <2>4. CASE OtherRemovesParent
    BY <2>1, <2>4 DEF OtherRemovesParent
  <2>5. CASE Replicated
    BY <2>2, <2>5 DEF Replicated
  <2>6. QED BY <2>3, <2>4, <2>5
<1>6. DidInv' /\ ReadInv'
  BY <1>2, <1>3, ChangesFacts DEF SuccessInv, DidInv, ReadInv
<1>7. SuccessTrue'
  BY <1>2 DEF ListInv, SuccessTrue
<1>8. QED BY <1>4, <1>5, <1>6, <1>7 DEF SuccessInv

LEMMA SuccessInit == TypeInv /\ Init => SuccessInv
<1> SUFFICES ASSUME TypeInv, Init PROVE SuccessInv
  OBVIOUS
<1>1. SeenInv
  BY DEF Init, NewHistory, SeenInv
<1>2. AroundInv
  BY DEF Init, AroundInv
<1>3. DidInv
  <2>1. step = 1
    BY DEF Init
  <2>2. QED BY <2>1, ChangesFacts DEF DidInv
<1>4. ReadInv /\ SuccessTrue
  BY DEF Init, NewHistory, NoOutcome, ReadInv, SuccessTrue
<1>5. QED BY <1>1, <1>2, <1>3, <1>4 DEF SuccessInv

LEMMA SuccessNext ==
    AreRegular(Calls) /\ TypeInv /\ RouteInv /\ ListInv /\ SuccessInv /\ [Next]_vars
        => SuccessInv'
<1> SUFFICES ASSUME AreRegular(Calls), TypeInv, RouteInv, ListInv, SuccessInv, [Next]_vars
             PROVE  SuccessInv'
  OBVIOUS
<1>1. CASE EntityAdded \/ OperationRemoved \/ BatchCleared
  BY <1>1, SuccessUnchanged
     DEF EntityAdded, OperationRemoved, BatchCleared, Edit, TypeInv, HistoryType
<1>2. CASE BatchExecuted
  <2>1. UNCHANGED outcome \/ outcome'.result # "ok"
    BY <1>2 DEF BatchExecuted, Ended
  <2>2. phase # "done" /\ UNCHANGED <<call, step, location, at, history>>
    BY <1>2 DEF BatchExecuted
  <2>3. QED BY <2>1, <2>2, SuccessUnchanged
<1>3. CASE RequestSent
  <2>1. /\ phase = "ready" /\ UNCHANGED <<call, step, at, history>>
        /\ UNCHANGED outcome \/ outcome'.result # "ok"
    BY <1>3, SentOutcome DEF RequestSent
  <2>2. outcome.result = "none"
    BY <2>1 DEF ListInv
  <2>3. SeenInv' /\ AroundInv' /\ DidInv' /\ ReadInv'
    BY <2>1, ChangesFacts DEF SuccessInv, SeenInv, AroundInv, DidInv, ReadInv
  <2>4. SuccessTrue'
    BY <2>1, <2>2 DEF SuccessTrue
  <2>5. QED BY <2>3, <2>4 DEF SuccessInv
<1>4. CASE Answered \/ AnswerLost
  BY <1>4, SuccessAnswers
<1>5. CASE OtherRequest \/ OtherRemovesParent \/ Replicated
  BY <1>5, SuccessOthers
<1>6. CASE Done \/ UNCHANGED vars
  BY <1>6, SuccessUnchanged DEF Done, vars
<1>7. QED BY <1>1, <1>2, <1>3, <1>4, <1>5, <1>6 DEF Next

(* What a method reports without an error is true, for every method whose   *)
(* requests are regular: a changing request whose error is not looked at is *)
(* what the theorem does not allow, and what src/lib/services has in        *)
(* _uploadBlobFromText (the finding).                                       *)
THEOREM SuccessIsTrue == ASSUME AreRegular(Calls) PROVE Spec => []SuccessTrue
<1>1. Init => SuccessInv
  BY SuccessInit, TypeInit
<1>2. TypeInv /\ RouteInv /\ ListInv /\ SuccessInv /\ [Next]_vars => SuccessInv'
  BY SuccessNext
<1>3. SuccessInv => SuccessTrue
  BY DEF SuccessInv
<1>4. QED
  BY <1>1, <1>2, <1>3, TypeInit, TypeNext, RouteInit, RouteNext, ListInit, ListNext,
     PTL DEF Spec
-----------------------------------------------------------------------------
(* Failures.  Until a call is disturbed by a lost answer or by others, what *)
(* it may be entitled to at first it is entitled to all the time: the       *)
(* primary location is as it was, or has what the call's own requests wrote *)
(* there under the same lease, and the position is that of what is there.   *)
FaultsInv == faults \in [lost : Nat, meddling : Nat, edits : Nat]
Undisturbed == faults.lost = 0 /\ faults.meddling = 0

AsAtFirst ==
    /\ at["PRIMARY"] = history.origin["PRIMARY"]
    /\ at["SECONDARY"] \in {history.origin[l] : l \in Locations}
Rewritten ==
    /\ at["PRIMARY"].version # Absent
    /\ at["PRIMARY"].lease = history.origin["PRIMARY"].lease
    /\ at["PRIMARY"].around = history.origin["PRIMARY"].around

CourseInv ==
    Undisturbed /\ call.of # "account" /\ phase # "done" =>
        /\ IF Rewrites(call, step) THEN Rewritten ELSE AsAtFirst
        /\ step > 1 /\ call.requests[step - 1].ignores = {} /\ call.kind \notin Conditional
                /\ Main(call).where = Primary =>
               position = at["PRIMARY"].version
        /\ step > 1 /\ call.kind = "deleteIf" =>
               /\ at["PRIMARY"].version # Absent
               /\ call.of = "child" => at["PRIMARY"].around
        /\ step > 1 /\ call.kind = "createIf" =>
               at["PRIMARY"].version = Absent \/ (call.of = "child" /\ ~at["PRIMARY"].around)
        /\ phase = "inFlight" /\ Main(call).where = Primary => location = "PRIMARY"

(* What is thrown without an answer is thrown for a reason.                 *)
ThrowInv ==
    /\ phase = "building" => call.kind = "batch"
    /\ phase = "inFlight" /\ ModeOf(Now) = "PRIMARY_ONLY" =>
           location = "PRIMARY" /\ mode = "PRIMARY_ONLY"
    /\ token # NoToken =>
           /\ ModeOf(Now) = "PRIMARY_ONLY" => token.at = "PRIMARY"
           /\ call.mode = "SECONDARY_ONLY" => token.at = "SECONDARY"

FailureInv == FaultsInv /\ CourseInv /\ ThrowInv /\ FailuresExcused

(* What a request that is granted tells of the copy, and what is enough for *)
(* another one to be granted, too.                                          *)
Fit(copy, of, does, with) ==
    /\ of = "child" => copy.around
    /\ NeedsTarget(does) => copy.version # Absent
    /\ does = "read" => "absent" \notin with
    /\ does = "create" => copy.version = Absent
    /\ does # "stage" => /\ "match" \in with => copy.version = SeenVersion
                         /\ "absent" \in with => copy.version = Absent
    /\ does # "acquire" /\ "lease" \in with => copy.lease = "ours"
    /\ does = "acquire" => copy.lease = "none"
    /\ does = "break" => copy.lease # "none"
    /\ does \in Writes \cup {"stage"} /\ copy.lease # "none" => "lease" \in with

LEMMA GrantedIsFit ==
    ASSUME NEW copy, NEW of, of # "account", NEW does, NEW with, NEW place,
           Answer(copy, of, does, with, place) = "ok"
    PROVE  Fit(copy, of, does, with)
BY DEF Answer, Fit, FailsCondition, FailsLease, NeedsTarget, Writes

LEMMA FitIsGranted ==
    ASSUME NEW copy, NEW of, of # "account", NEW does, NEW with, NEW place,
           Fit(copy, of, does, with), does = "append" => copy.version = place
    PROVE  Answer(copy, of, does, with, place) = "ok"
BY DEF Answer, Fit, FailsCondition, FailsLease

(* What a call is entitled to.                                              *)
LEMMA EntitledFit ==
    ASSUME TypeInv, Entitled, call.of # "account", NEW l \in MayGo(Main(call))
    PROVE  LET copy == history.origin[l]
               answer == Answer(copy, call.of, Main(call).does, call.gives, copy.version)
           IN /\ answer \in {"ok"} \cup AlsoAnswers
              /\ answer = "ok" => Fit(copy, call.of, Main(call).does, call.gives)
BY GrantedIsFit DEF Entitled

LEMMA AlsoAnswered ==
    /\ call.kind = "createIf" => AlsoAnswers = {"conflict"}
    /\ call.kind \in {"deleteIf", "exists"} => AlsoAnswers = {"notFound", "parentNotFound"}
    /\ call.kind \notin Conditional => AlsoAnswers = {}
BY DEF AlsoAnswers, Conditional

(* The request in flight among those of its call.                           *)
LEMMA NowSteady ==
    ASSUME AreRegular(Calls), AreSteady(Calls), TypeInv
    PROVE  /\ Regular(call, step) /\ Steady(call, step) /\ WellFormed(call, step)
           /\ Now = call.requests[step] /\ Now \in Request
           /\ step \in 1..Len(call.requests) /\ Len(call.requests) \in Nat
           /\ MoreRequests <=> step < Len(call.requests)
           /\ step = Len(call.requests) => Now = Main(call)
           /\ call.kind \in Conditional => step \in 1..2 /\ ~Rewrites(call, step)
           /\ Rewrites(call, step) => Main(call).does \in Writes /\ Main(call).where = Primary
<1>1. /\ step \in 1..Len(call.requests) /\ Len(call.requests) \in Nat
      /\ DOMAIN call.requests = 1..Len(call.requests) /\ Now = call.requests[step]
      /\ WellFormed(call, step) /\ Now \in Request /\ call \in Calls
    BY NowWellFormed DEF TypeInv, VariablesTyped, Now
<1>2. \A i \in 1..Len(call.requests) :
          Regular(call, i) /\ Steady(call, i) /\ WellFormed(call, i)
    BY <1>1, CallsAssumption DEF AreRegular, AreSteady
<1>3. ASSUME Rewrites(call, step)
      PROVE  Main(call).does \in Writes /\ Main(call).where = Primary
    <2>1. PICK j \in 1..(step - 1) : call.requests[j].does \in Writes
        BY <1>3 DEF Rewrites
    <2>2. j \in 1..Len(call.requests) /\ j < Len(call.requests)
        BY <1>1, <2>1
    <2>3. Leads(call, j) /\ call.requests[j].does # "read"
        BY <1>2, <2>1, <2>2 DEF Steady, Writes
    <2>4. Main(call).does \in Writes
        BY <2>3 DEF Leads
    <2>5. Len(call.requests) \in 1..Len(call.requests)
        BY <1>1
    <2>6. WellFormed(call, Len(call.requests)) /\ Main(call).does # "read"
        BY <1>2, <2>4, <2>5 DEF Writes
    <2> QED
        BY <2>4, <2>6 DEF WellFormed, Main
<1>4. ASSUME call.kind \in Conditional
      PROVE  step \in 1..2 /\ ~Rewrites(call, step)
    <2>1. Len(call.requests) <= 2
        BY <1>1, <1>2, <1>4 DEF Regular
    <2>2. 1 \in 1..Len(call.requests)
        BY <1>1
    <2>3. call.requests[1].does = "read"
        BY <1>2, <1>4, <2>2 DEF Regular
    <2>4. step \in 1..2 /\ \A j \in 1..(step - 1) : j = 1
        BY <1>1, <2>1
    <2> QED
        BY <2>3, <2>4 DEF Rewrites, Writes
<1> QED
    BY <1>1, <1>2, <1>3, <1>4 DEF MoreRequests, Main

(* The copy that answers is that of an origin, which would grant what the   *)
(* call is entitled to, or one that the call has rewritten.                 *)
LEMMA AnsweringCopy ==
    ASSUME AreRegular(Calls), AreSteady(Calls), TypeInv, RouteInv, CourseInv,
           phase = "inFlight", Undisturbed, call.of # "account"
    PROVE  \E l \in MayGo(Main(call)) :
              /\ Rewrites(call, step) =>
                    /\ at[location].version # Absent
                    /\ at[location].lease = history.origin[l].lease
                    /\ at[location].around = history.origin[l].around
              /\ ~Rewrites(call, step) => at[location] = history.origin[l]
<1>1. location \in Locations
    BY DEF TypeInv, VariablesTyped
<1>2. CASE "PRIMARY_ONLY" \in {Main(call).where, call.mode}
    <2>1. location = "PRIMARY"
        BY <1>2 DEF CourseInv, RouteInv, Primary
    <2>2. "PRIMARY" \in MayGo(Main(call))
        BY <1>2 DEF MayGo
    <2> QED
        BY <2>1, <2>2 DEF CourseInv, Rewritten, AsAtFirst
<1>3. CASE ~("PRIMARY_ONLY" \in {Main(call).where, call.mode})
    <2>1. ~Rewrites(call, step)
        BY <1>3, NowSteady DEF Primary
    <2>2. MayGo(Main(call)) = Locations
        BY <1>3 DEF MayGo
    <2>3. AsAtFirst
        BY <2>1 DEF CourseInv
    <2>4. \E l \in Locations : at[location] = history.origin[l]
        BY <1>1, <2>3 DEF AsAtFirst, Locations
    <2> QED
        BY <2>1, <2>2, <2>4
<1> QED
    BY <1>2, <1>3

(* An append goes to where the request before it has found the end.         *)
LEMMA LeadingPosition ==
    ASSUME AreRegular(Calls), AreSteady(Calls), TypeInv, RouteInv, CourseInv,
           phase = "inFlight", Undisturbed, call.of # "account", Now.does = "append",
           call.kind \notin Conditional
    PROVE  at[location].version = position
<1>1. /\ Steady(call, step) /\ Now = call.requests[step] /\ Now.where = Primary
      /\ WellFormed(call, Len(call.requests)) /\ step \in 1..Len(call.requests)
      /\ Len(call.requests) \in Nat
    <2>1. /\ call \in Calls /\ DOMAIN call.requests = 1..Len(call.requests)
          /\ Len(call.requests) \in 1..Len(call.requests)
        BY NowWellFormed, NowSteady DEF TypeInv
    <2>2. WellFormed(call, Len(call.requests))
        BY <2>1, CallsAssumption
    <2> QED
        BY <2>2, NowSteady DEF WellFormed
<1>2. step > 1 /\ call.requests[step - 1].ignores = {}
    BY <1>1 DEF Steady
<1>3. Main(call).where = Primary
    <2>1. CASE step < Len(call.requests)
        <3>1. Main(call).does \in Writes
            BY <1>1, <2>1 DEF Steady, Leads
        <3> QED
            BY <1>1, <3>1 DEF WellFormed, Main, Writes
    <2>2. CASE step = Len(call.requests)
        BY <1>1, <2>2 DEF Main
    <2> QED
        BY <1>1, <2>1, <2>2
<1> QED
    BY <1>2, <1>3 DEF CourseInv, RouteInv, Primary

(* The last request is answered as the call expects.                        *)
LEMMA LastReply ==
    ASSUME AreRegular(Calls), AreSteady(Calls), TypeInv, RouteInv, CourseInv,
           phase = "inFlight", Undisturbed, Entitled, call.of # "account",
           step = Len(call.requests), ~Rewrites(call, step)
    PROVE  Reply \in {"ok"} \cup Now.absorbs
<1> DEFINE carried == Now.with \cap call.gives
<1>1. PICK l \in MayGo(Main(call)) : at[location] = history.origin[l]
    BY AnsweringCopy
<1> DEFINE copy == at[location]
<1>2. /\ Answer(copy, call.of, Now.does, call.gives, copy.version) \in {"ok"} \cup AlsoAnswers
      /\ Answer(copy, call.of, Now.does, call.gives, copy.version) = "ok" =>
            Fit(copy, call.of, Now.does, call.gives)
    BY <1>1, EntitledFit, NowSteady
<1>3. Now.does = "append" => copy.version = position
    <2>1. Now.does = "append" => call.kind \notin Conditional
        BY NowSteady DEF Regular, Conditional
    <2> QED
        BY <2>1, LeadingPosition
<1>4. Reply = Answer(copy, call.of, Now.does, carried, position)
    BY DEF Reply
<1>5. /\ Steady(call, step) /\ Regular(call, step) /\ Now = call.requests[step]
      /\ call.kind \in Conditional => step \in 1..2
    BY NowSteady, Zenon
<1>6. Now.does \in Writes \cup {"stage"} /\ "lease" \in call.gives => "lease" \in carried
    BY <1>5 DEF Steady
<1> HIDE DEF copy
<1>7. CASE Answer(copy, call.of, Now.does, call.gives, copy.version) = "ok"
    <2>1. Fit(copy, call.of, Now.does, carried)
        BY <1>2, <1>6, <1>7 DEF Fit
    <2> QED
        BY <1>3, <1>4, <2>1, FitIsGranted
<1>8. CASE Answer(copy, call.of, Now.does, call.gives, copy.version) # "ok"
    <2>1. Answer(copy, call.of, Now.does, call.gives, copy.version) \in AlsoAnswers
        BY <1>2, <1>8
    <2>2. call.kind \in Conditional
        BY <2>1, AlsoAnswered
    <2>3. CASE call.kind = "createIf"
        <3>1. Answer(copy, call.of, Now.does, call.gives, copy.version) = "conflict"
            BY <2>1, <2>3, AlsoAnswered
        <3>2. step = 2 /\ Now.does = "create"
            BY <1>5, <2>2, <2>3, NowSteady DEF Regular
        <3>3. location = "PRIMARY"
            BY <2>2, <2>3, <3>2, ConditionalFacts
        <3>4. copy.version = Absent \/ (call.of = "child" /\ ~copy.around)
            BY <2>3, <3>2, <3>3 DEF CourseInv, copy
        <3> QED
            BY <3>1, <3>2, <3>4 DEF Answer, NeedsTarget
    <2>4. CASE call.kind \in {"deleteIf", "exists"}
        <3>1. Answer(copy, call.of, Now.does, call.gives, copy.version)
                  \in {"notFound", "parentNotFound"}
            BY <2>1, <2>4, AlsoAnswered
        <3>2. Now.does \in {"read", "delete"}
            BY <1>5, <2>2, <2>4 DEF Regular
        <3>3. Reply = Answer(copy, call.of, Now.does, call.gives, copy.version)
              \/ Reply = "badRequest"
            BY <1>4, <3>1, <3>2 DEF Answer, NeedsTarget
        <3>4. Reply = Answer(copy, call.of, Now.does, call.gives, copy.version)
            BY <1>4, <3>1, <3>2 DEF Answer, NeedsTarget
        <3>5. CASE step = 1
            BY <1>5, <2>2, <3>1, <3>4, <3>5 DEF Steady
        <3>6. CASE step = 2
            <4>1. Now.does = "delete" /\ call.kind = "deleteIf"
                BY <1>5, <2>2, <2>4, <3>6, NowSteady DEF Regular, Conditional
            <4>2. location = "PRIMARY"
                BY <2>2, <4>1, ConditionalFacts
            <4>3. copy.version # Absent /\ (call.of = "child" => copy.around)
                BY <3>6, <4>1, <4>2 DEF CourseInv, copy
            <4> QED
                BY <3>1, <4>1, <4>3 DEF Answer
        <3> QED
            BY <1>5, <2>2, <3>5, <3>6
    <2> QED
        BY <2>2, <2>3, <2>4 DEF Conditional
<1> QED
    BY <1>7, <1>8

(* What deletes if it is there ends with the deletion.                      *)
LEMMA DeletesLast ==
    ASSUME AreRegular(Calls), AreSteady(Calls), TypeInv, call.kind = "deleteIf"
    PROVE  Main(call).does = "delete"
<1>1. /\ call \in Calls /\ DOMAIN call.requests = 1..Len(call.requests)
      /\ step \in 1..Len(call.requests) /\ Len(call.requests) \in Nat
    BY NowWellFormed, NowSteady DEF TypeInv
<1>2. Len(call.requests) = 2
    BY <1>1 DEF AreRegular, Regular, Conditional
<1>3. Regular(call, 2)
    BY <1>1, <1>2 DEF AreRegular
<1> QED
    BY <1>2, <1>3 DEF Regular, Conditional, Main

(* A request before the last does not get in the way.                       *)
LEMMA LeadingReply ==
    ASSUME AreRegular(Calls), AreSteady(Calls), TypeInv, RouteInv, CourseInv,
           phase = "inFlight", Undisturbed, Entitled, call.of # "account",
           step < Len(call.requests), ~Rewrites(call, step)
    PROVE  Reply \in {"ok"} \cup Now.absorbs \cup Now.ignores
<1> DEFINE carried == Now.with \cap call.gives
           main == Main(call).does
           copy == at[location]
<1>1. PICK l \in MayGo(Main(call)) : at[location] = history.origin[l]
    BY AnsweringCopy
<1>2. /\ Answer(copy, call.of, main, call.gives, copy.version) \in {"ok"} \cup AlsoAnswers
      /\ Answer(copy, call.of, main, call.gives, copy.version) = "ok" =>
            Fit(copy, call.of, main, call.gives)
    BY <1>1, EntitledFit
<1>3. /\ Steady(call, step) /\ Regular(call, step) /\ Now = call.requests[step]
      /\ Leads(call, step) /\ Carried(call, step) = carried
    BY NowSteady DEF Steady, Carried
<1>4. Reply = Answer(copy, call.of, Now.does, carried, position)
    BY DEF Reply
<1>5. main \in Writes \cup {"read"} /\ (Now.does # "read" => main \in Writes)
    BY <1>3 DEF Leads
<1>6. Now.does \in Writes \cup {"stage"} /\ "lease" \in call.gives => "lease" \in carried
    BY <1>3 DEF Steady
<1>7. CASE Now.does = "read" /\ "absent" \in carried
    <2>1. "badRequest" \in Now.ignores
        BY <1>3, <1>7 DEF Leads
    <2>2. call.kind \notin Conditional
        BY <1>3, <2>1 DEF Steady
    <2>3. Answer(copy, call.of, main, call.gives, copy.version) = "ok"
        BY <1>2, <2>2, AlsoAnswered
    <2>4. call.of = "child" => copy.around
        BY <1>2, <2>3 DEF Fit
    <2>5. Reply = "badRequest"
        BY <1>4, <1>7, <2>4 DEF Answer
    <2> QED
        BY <2>1, <2>5
<1>8. CASE call.kind \in Conditional /\ ~(Now.does = "read" /\ "absent" \in carried)
    <2>1. step = 1 /\ Now.does = "read"
        BY <1>3, <1>8, NowSteady DEF Regular
    <2>2. {"notFound", "parentNotFound"} \subseteq Now.absorbs
        BY <1>3, <1>8, <2>1 DEF Steady
    <2>3. SUFFICES ASSUME Reply \notin {"notFound", "parentNotFound"}
                   PROVE  Reply = "ok"
        BY <2>2
    <2>4. copy.version # Absent /\ (call.of = "child" => copy.around)
        BY <1>4, <1>8, <2>1, <2>3 DEF Answer, NeedsTarget
    <2>5. CASE call.kind = "createIf"
        <3>1. carried = {}
            BY <1>3, <1>8, <2>1, <2>5 DEF Steady
        <3> QED
            BY <1>4, <2>1, <2>4, <3>1, FitIsGranted DEF Fit, Writes
    <2>6. CASE call.kind = "deleteIf"
        <3>1. main = "delete"
            BY <1>3, <1>8, <2>6, DeletesLast
        <3>2. Answer(copy, call.of, main, call.gives, copy.version)
                 \notin {"notFound", "parentNotFound"}
            BY <2>4, <3>1 DEF Answer
        <3>3. Fit(copy, call.of, main, call.gives)
            BY <1>2, <2>6, <3>2, AlsoAnswered
        <3>4. Fit(copy, call.of, Now.does, carried)
            BY <1>8, <2>1, <2>4, <3>1, <3>3 DEF Fit, Writes
        <3> QED
            BY <1>4, <2>1, <3>4, FitIsGranted
    <2>7. call.kind # "exists"
        BY <1>3, <1>8, <2>1 DEF Regular
    <2> QED
        BY <1>8, <2>5, <2>6, <2>7 DEF Conditional
<1>9. CASE call.kind \notin Conditional /\ ~(Now.does = "read" /\ "absent" \in carried)
    <2>1. Fit(copy, call.of, main, call.gives)
        BY <1>2, <1>9, AlsoAnswered
    <2>2. Now.absorbs = {} /\ Now.does # "create" /\ Now.does # "acquire" /\ Now.does # "break"
          /\ main # "stage" /\ main # "acquire"
        BY <1>3, <1>5, <1>9 DEF Regular, Leads, Writes
    <2>3. NeedsTarget(Now.does) => copy.version # Absent
        <3>1. NeedsTarget(Now.does) => NeedsTarget(main) \/ "match" \in call.gives
            BY <1>3, <1>9, <2>2 DEF Leads
        <3> QED
            BY <2>1, <2>2, <3>1 DEF Fit, SeenVersion, Absent
    <2>4. Fit(copy, call.of, Now.does, carried)
        <3>1. Now.does \in Writes \cup {"stage"} /\ copy.lease # "none" => "lease" \in carried
            BY <1>5, <1>6, <2>1 DEF Fit, Writes
        <3> QED
            BY <1>9, <2>1, <2>2, <2>3, <3>1 DEF Fit
    <2>5. Now.does = "append" => copy.version = position
        BY <1>3, <1>5, <1>9, LeadingPosition
    <2> QED
        BY <1>4, <2>4, <2>5, FitIsGranted
<1> QED
    BY <1>7, <1>8, <1>9

(* A request after the call's own changes is granted.                       *)
LEMMA LaterReply ==
    ASSUME AreRegular(Calls), AreSteady(Calls), TypeInv, RouteInv, CourseInv,
           phase = "inFlight", Undisturbed, Entitled, call.of # "account",
           Rewrites(call, step)
    PROVE  Reply = "ok"
<1> DEFINE carried == Now.with \cap call.gives
           main == Main(call).does
           copy == at[location]
<1>1. PICK l \in MayGo(Main(call)) :
              /\ copy.version # Absent
              /\ copy.lease = history.origin[l].lease
              /\ copy.around = history.origin[l].around
    BY AnsweringCopy
<1>2. /\ Steady(call, step) /\ Regular(call, step) /\ Now = call.requests[step]
      /\ Carried(call, step) = carried /\ main \in Writes
      /\ call.kind \notin Conditional
    BY NowSteady DEF Carried
<1>3. Fit(history.origin[l], call.of, main, call.gives)
    BY <1>2, EntitledFit, AlsoAnswered
<1>4. Now.does \in Writes \cup {"stage", "read"}
    <2>1. CASE step < Len(call.requests)
        BY <1>2, <2>1 DEF Steady, Leads, Writes
    <2>2. CASE step = Len(call.requests)
        BY <1>2, <2>2, NowSteady
    <2> QED
        BY <2>1, <2>2, NowSteady
<1>5. /\ Now.does # "create" /\ carried \cap Conditions = {}
      /\ Now.does \in Writes \cup {"stage"} /\ "lease" \in call.gives => "lease" \in carried
    BY <1>2 DEF Steady
<1>6. Fit(copy, call.of, Now.does, carried)
    <2>1. /\ call.of = "child" => copy.around
          /\ "lease" \in call.gives => copy.lease = "ours"
          /\ copy.lease # "none" => "lease" \in call.gives
        BY <1>1, <1>2, <1>3 DEF Fit, Writes
    <2> QED
        BY <1>1, <1>4, <1>5, <2>1 DEF Fit, Writes, Conditions
<1>7. Now.does = "append" => copy.version = position
    BY <1>2, LeadingPosition
<1>8. Reply = Answer(copy, call.of, Now.does, carried, position)
    BY DEF Reply
<1> QED
    BY <1>6, <1>7, <1>8, FitIsGranted

(* Undisturbed, a call that is entitled to what it asks for is told so, or  *)
(* something that it takes for an answer.                                   *)
LEMMA ReplyFine ==
    ASSUME AreRegular(Calls), AreSteady(Calls), TypeInv, RouteInv, CourseInv,
           phase = "inFlight", Undisturbed, Entitled
    PROVE  Reply \in {"ok"} \cup Now.absorbs \cup Now.ignores
<1>1. CASE call.of = "account"
    BY <1>1 DEF Reply, Answer
<1>2. CASE call.of # "account" /\ Rewrites(call, step)
    BY <1>2, LaterReply
<1>3. CASE call.of # "account" /\ ~Rewrites(call, step) /\ step < Len(call.requests)
    BY <1>3, LeadingReply
<1>4. CASE call.of # "account" /\ ~Rewrites(call, step) /\ step = Len(call.requests)
    BY <1>4, LastReply
<1>5. step < Len(call.requests) \/ step = Len(call.requests)
    BY NowSteady
<1> QED
    BY <1>1, <1>2, <1>3, <1>4, <1>5

(* What a request that leads to another one leaves behind.                  *)
LEMMA LeadingChange ==
    ASSUME AreRegular(Calls), AreSteady(Calls), TypeInv, RouteInv, CourseInv,
           phase = "inFlight", Undisturbed, call.of # "account",
           step < Len(call.requests), at' = Changed
    PROVE  /\ Now.does \notin Writes => at' = at
           /\ Now.does \in Writes \/ Rewrites(call, step) =>
                 /\ at'["PRIMARY"].version # Absent
                 /\ at'["PRIMARY"].lease = history.origin["PRIMARY"].lease
                 /\ at'["PRIMARY"].around = history.origin["PRIMARY"].around
<1> DEFINE copy == at["PRIMARY"]
           new == After(copy, Now.does, "us")
<1>1. at \in [Locations -> Copy] /\ "PRIMARY" \in Locations /\ copy \in Copy /\ Known(copy)
    BY DEF TypeInv, VariablesTyped, Locations
<1>2. at'["PRIMARY"] = new /\ (new = copy => at' = at)
    BY <1>1 DEF Changed
<1>3. Now.does \in {"read", "stage", "put", "update", "append"}
    BY NowSteady DEF Steady, Leads
<1>4. CASE Now.does \in {"read", "stage"}
    <2>1. new = copy
        BY <1>4 DEF After
    <2> QED
        BY <1>2, <1>4, <2>1 DEF Writes, CourseInv, Rewritten
<1>5. CASE Now.does \in {"put", "update", "append"}
    <2>1. new = [copy EXCEPT !.version = copy.next, !.by = "us", !.next = copy.next + 1]
        BY <1>5 DEF After
    <2>2. new.version # Absent /\ new.lease = copy.lease /\ new.around = copy.around
        <3> HIDE DEF copy, new
        <3>1. copy.next \in Nat /\ copy.next > 1
            BY <1>1 DEF Copy, Known, SeenVersion
        <3>2. new.version = copy.next /\ new.lease = copy.lease /\ new.around = copy.around
            BY <1>1, <2>1 DEF Copy
        <3> QED
            BY <3>1, <3>2 DEF Absent
    <2> QED
        BY <1>2, <1>5, <2>2 DEF Writes, CourseInv, Rewritten, AsAtFirst
<1> QED
    BY <1>3, <1>4, <1>5

-----------------------------------------------------------------------------
LEMMA EntitledKept ==
    ASSUME call' = call, history'.origin = history.origin
    PROVE  Entitled' <=> Entitled
BY DEF Entitled, MayGo, AlsoAnswers, Main

LEMMA OriginKept ==
    ASSUME TypeInv, [Next]_vars
    PROVE  call' = call /\ history'.origin = history.origin
<1>1. CASE EntityAdded \/ OperationRemoved \/ BatchCleared
    BY <1>1 DEF EntityAdded, OperationRemoved, BatchCleared, Edit, TypeInv, HistoryType
<1>2. CASE BatchExecuted \/ RequestSent
    BY <1>2 DEF BatchExecuted, RequestSent
<1>3. CASE Answered \/ AnswerLost
    BY <1>3, AnswerOutcome DEF Effect, Noted, TypeInv, HistoryType
<1>4. CASE OtherRequest \/ OtherRemovesParent \/ Replicated
    BY <1>4 DEF OtherRequest, OtherRemovesParent, Replicated, Meddle, TypeInv, HistoryType
<1>5. CASE Done \/ UNCHANGED vars
    BY <1>5 DEF Done, vars
<1> QED
    BY <1>1, <1>2, <1>3, <1>4, <1>5 DEF Next

(* A call is disturbed for good.                                            *)
LEMMA FaultsStep ==
    ASSUME TypeInv, FaultsInv, [Next]_vars
    PROVE  FaultsInv' /\ (Undisturbed' => Undisturbed)
<1>1. CASE EntityAdded \/ OperationRemoved \/ BatchCleared
    BY <1>1 DEF EntityAdded, OperationRemoved, BatchCleared, Edit, FaultsInv, Undisturbed
<1>2. CASE BatchExecuted \/ RequestSent \/ Answered \/ Replicated
    BY <1>2 DEF BatchExecuted, RequestSent, Answered, Replicated, FaultsInv, Undisturbed
<1>3. CASE AnswerLost
    BY <1>3 DEF AnswerLost, FaultsInv, Undisturbed
<1>4. CASE OtherRequest \/ OtherRemovesParent
    BY <1>4 DEF OtherRequest, OtherRemovesParent, Meddle, FaultsInv, Undisturbed
<1>5. CASE Done \/ UNCHANGED vars
    BY <1>5 DEF Done, vars, FaultsInv, Undisturbed
<1> QED
    BY <1>1, <1>2, <1>3, <1>4, <1>5 DEF Next

LEMMA DisturbedSteps ==
    ASSUME FaultsInv, AnswerLost \/ OtherRequest \/ OtherRemovesParent
    PROVE  ~Undisturbed'
BY DEF AnswerLost, OtherRequest, OtherRemovesParent, Meddle, FaultsInv, Undisturbed

(* What leaves the location, the step and the copies alone.                 *)
LEMMA CourseUnchanged ==
    ASSUME CourseInv, Undisturbed, UNCHANGED <<call, step, position, at>>,
           history'.origin = history.origin,
           phase' # "done" => phase # "done",
           phase' = "inFlight" /\ Main(call).where = Primary /\ call.of # "account" =>
               location' = "PRIMARY"
    PROVE  CourseInv'
<1>1. call' = call /\ step' = step /\ at' = at /\ position' = position
    OBVIOUS
<1>2. (Rewritten <=> Rewritten') /\ (AsAtFirst <=> AsAtFirst')
    BY <1>1 DEF Rewritten, AsAtFirst
<1>3. (Rewrites(call, step) <=> Rewrites(call, step)') /\ Main(call)' = Main(call)
    BY <1>1 DEF Rewrites, Main
<1> QED
    BY <1>1, <1>2, <1>3 DEF CourseInv

LEMMA NotAlone ==
    ASSUME NEW n \in Nat, NEW i \in 1..n, i < n
    PROVE  n # 1
OBVIOUS

(* A request goes to the primary if the last one has to.                    *)
LEMMA CourseSent ==
    ASSUME AreRegular(Calls), AreSteady(Calls), TypeInv, RouteInv, CourseInv, Undisturbed,
           RequestSent
    PROVE  CourseInv'
<1>1. /\ phase = "ready" /\ UNCHANGED <<call, step, position, at, history>>
    BY DEF RequestSent
<1>2. CASE (Now.checks /\ ~call.good) \/ RefusesMode(WhereOf(Now), ModeOf(Now), TRUE)
    <2>1. phase' = "done"
        BY <1>2 DEF RequestSent, Ended
    <2> QED
        BY <1>1, <2>1, CourseUnchanged
<1>3. CASE ~((Now.checks /\ ~call.good) \/ RefusesMode(WhereOf(Now), ModeOf(Now), TRUE))
    <2>1. location' = ForcedLocation(WhereOf(Now), InitialLocation(ModeOf(Now)), ModeOf(Now))[1]
        BY <1>3 DEF RequestSent
    <2>2. ASSUME Main(call).where = Primary
          PROVE  location' = "PRIMARY"
        <3>1. CASE Now.where = Primary
            BY <2>1, <3>1 DEF WhereOf, Primary, ForcedLocation
        <3>2. CASE Now.where # Primary
            <4>1. /\ Steady(call, step) /\ WellFormed(call, step) /\ Now = call.requests[step]
                  /\ step < Len(call.requests) /\ Now \in Request
                  /\ step \in 1..Len(call.requests) /\ Len(call.requests) \in Nat
                BY <2>2, <3>2, NowSteady
            <4>2. Leads(call, step)
                BY <4>1 DEF Steady
            <4>3. "location" \notin Now.with \/ call.mode \in {"PRIMARY_ONLY", "PRIMARY_THEN_SECONDARY"}
                BY <2>2, <3>2, <4>1, <4>2 DEF Leads
            <4>4. InitialLocation(ModeOf(Now)) = "PRIMARY"
                BY <4>3 DEF InitialLocation, ModeOf
            <4>5. Now.where = "PRIMARY_OR_SECONDARY"
                <5>1. Now.where \in RequestModes \cup {"TOKEN"} /\ Now.where # "SECONDARY_ONLY"
                    BY <4>1 DEF Request, Steady
                <5>2. Now.where # "TOKEN"
                    <6>1. /\ step < Len(call.requests) /\ Len(call.requests) \in Nat
                          /\ step \in 1..Len(call.requests)
                        BY <4>1
                    <6>2. Len(call.requests) # 1
                        BY <6>1, NotAlone, Zenon
                    <6>3. Now.where = "TOKEN" => call.kind = "list"
                        BY <4>1 DEF WellFormed
                    <6>4. call.kind = "list" => Len(call.requests) = 1
                        BY <4>1 DEF WellFormed
                    <6> QED
                        BY <6>2, <6>3, <6>4
                <5> QED
                    BY <3>2, <5>1, <5>2 DEF RequestModes, Primary
            <4> QED
                BY <2>1, <4>4, <4>5 DEF WhereOf, ForcedLocation
        <3> QED
            BY <3>1, <3>2
    <2> QED
        BY <1>1, <2>2, CourseUnchanged
<1> QED
    BY <1>2, <1>3

(* A call goes on to its next request.                                      *)
LEMMA CourseContinued ==
    ASSUME AreRegular(Calls), AreSteady(Calls), TypeInv, RouteInv, CourseInv, Undisturbed,
           phase = "inFlight", step < Len(call.requests), at' = Changed,
           call' = call, history'.origin = history.origin, phase' = "ready", step' = step + 1,
           Now.ignores = {} /\ call.kind \notin Conditional /\ Main(call).where = Primary =>
               position' = at'["PRIMARY"].version,
           call.kind = "deleteIf" /\ call.of # "account" =>
               /\ at'["PRIMARY"].version # Absent
               /\ call.of = "child" => at'["PRIMARY"].around,
           call.kind = "createIf" /\ call.of # "account" =>
               \/ at'["PRIMARY"].version = Absent
               \/ call.of = "child" /\ ~at'["PRIMARY"].around
    PROVE  CourseInv'
<1>1. /\ Now = call.requests[step] /\ step \in 1..Len(call.requests)
      /\ Len(call.requests) \in Nat
    BY NowSteady
<1>2. Rewrites(call, step)' <=> Rewrites(call, step) \/ Now.does \in Writes
    <2>1. 1..(step' - 1) = 1..(step - 1) \cup {step}
        BY <1>1
    <2> QED
        BY <1>1, <2>1 DEF Rewrites
<1>3. SUFFICES ASSUME call.of # "account"
               PROVE  CourseInv'
    BY DEF CourseInv
<1>4. /\ Now.does \notin Writes => at' = at
      /\ Now.does \in Writes \/ Rewrites(call, step) =>
            /\ at'["PRIMARY"].version # Absent
            /\ at'["PRIMARY"].lease = history.origin["PRIMARY"].lease
            /\ at'["PRIMARY"].around = history.origin["PRIMARY"].around
    BY <1>3, LeadingChange
<1>5. Rewrites(call, step)' => Rewritten'
    BY <1>2, <1>4 DEF Rewritten
<1>6. ~Rewrites(call, step)' => AsAtFirst'
    <2>1. ASSUME ~Rewrites(call, step)'
          PROVE  AsAtFirst'
        <3>1. at' = at /\ AsAtFirst
            BY <1>2, <1>3, <1>4, <2>1 DEF CourseInv
        <3> QED
            BY <3>1 DEF AsAtFirst
    <2> QED
        BY <2>1
<1>7. Main(call)' = Main(call) /\ call'.requests[step' - 1] = Now
    BY <1>1 DEF Main
<1> QED
    BY <1>3, <1>5, <1>6, <1>7 DEF CourseInv

(* What reads changes nothing.                                              *)
LEMMA ReadChanges ==
    ASSUME TypeInv, Now.does = "read"
    PROVE  Changed = at
BY DEF Changed, After, TypeInv, VariablesTyped, Locations

(* A call that goes on after an answer.                                     *)
LEMMA CourseAnswers ==
    ASSUME AreRegular(Calls), AreSteady(Calls), TypeInv, RouteInv, CourseInv, Undisturbed,
           Answered
    PROVE  CourseInv'
<1>1. /\ phase = "inFlight" /\ call' = call /\ location' = location /\ Served
      /\ IF Reply = "ok" THEN Succeeded ELSE Failed(Reply)
    BY DEF Answered
<1>2. history'.origin = history.origin
    BY OriginKept DEF Next
<1>3. /\ Steady(call, step) /\ Regular(call, step) /\ WellFormed(call, step)
      /\ Now = call.requests[step] /\ step \in 1..Len(call.requests)
      /\ MoreRequests <=> step < Len(call.requests)
    BY NowSteady
<1>4. CASE phase' = "done"
    BY <1>4 DEF CourseInv
<1>5. CASE Reply = "ok" /\ call.kind = "list" /\ phase' # "done"
    <2>1. step = 1 /\ Now.does = "read"
        BY <1>3, <1>5 DEF WellFormed
    <2>2. step' = step /\ phase' = "ready"
        BY <1>1, <1>5 DEF Succeeded, SegmentAnswered, Ended
    <2>3. at' = at
        BY <1>1, <2>1, ReadChanges DEF Served
    <2>4. AsAtFirst <=> AsAtFirst'
        BY <1>2, <2>3 DEF AsAtFirst
    <2>5. ~Rewrites(call, step) /\ ~Rewrites(call, step)'
        BY <2>1, <2>2 DEF Rewrites
    <2> QED
        BY <1>1, <2>1, <2>2, <2>4, <2>5 DEF CourseInv
<1>6. CASE Reply = "ok" /\ call.kind # "list" /\ phase' # "done"
    <2>1. at' = Changed /\ position' = at'[location].version
        BY <1>1, <1>6 DEF Served, Succeeded
    <2>2. /\ Continue /\ step < Len(call.requests)
          /\ step = 1 /\ call.kind \in Conditional => call.kind = "deleteIf"
        BY <1>1, <1>3, <1>6 DEF Succeeded, CheckAnswered, Ended
    <2>3. ASSUME Main(call).where = Primary, call.of # "account"
          PROVE  position' = at'["PRIMARY"].version
        BY <1>1, <2>1, <2>3 DEF CourseInv
    <2>4. ASSUME call.kind = "deleteIf", call.of # "account"
          PROVE  /\ at'["PRIMARY"].version # Absent
                 /\ call.of = "child" => at'["PRIMARY"].around
        <3>1. Now.does = "read" /\ location = "PRIMARY"
            <4>1. MoreRequests
                BY <1>3, <2>2
            <4> QED
                BY <1>1, <2>4, <4>1, ConditionalFacts DEF Conditional
        <3>2. Fit(at[location], call.of, Now.does, Now.with \cap call.gives)
            BY <1>6, <2>4, GrantedIsFit DEF Reply
        <3>3. at' = at
            BY <2>1, <3>1, ReadChanges
        <3> QED
            BY <3>1, <3>2, <3>3 DEF Fit, NeedsTarget
    <2>7. call.kind # "createIf"
        BY <1>1, <1>3, <2>2, ConditionalFacts DEF Conditional
    <2>5. CASE call.of # "account"
        BY <1>1, <1>2, <2>1, <2>2, <2>3, <2>4, <2>5, <2>7, CourseContinued DEF Continue
    <2>6. CASE call.of = "account"
        BY <1>1, <2>6 DEF CourseInv
    <2> QED
        BY <2>5, <2>6
<1>7. CASE Reply # "ok" /\ phase' # "done"
    <2>1. at' = at /\ Failed(Reply)
        BY <1>1, <1>7 DEF Served
    <2>2. CASE Reply \in Now.absorbs
        <3>1. call.kind \in Conditional /\ step = 1 /\ CheckAnswered(FALSE)
            BY <1>3, <1>7, <2>1, <2>2 DEF Failed, Ended, Regular
        <3>2. Continue /\ step < Len(call.requests) /\ call.kind # "deleteIf"
            BY <1>3, <1>7, <3>1 DEF CheckAnswered, Ended
        <3>3. at' = Changed
            BY <1>3, <2>1, <3>1, ReadChanges DEF Regular
        <3>4. ASSUME call.kind = "createIf", call.of # "account"
              PROVE  \/ at'["PRIMARY"].version = Absent
                     \/ call.of = "child" /\ ~at'["PRIMARY"].around
            <4>1. location = "PRIMARY"
                <5>1. MoreRequests
                    BY <1>3, <3>2
                <5> QED
                    BY <1>1, <3>1, <5>1, ConditionalFacts
            <4>2. Reply \in {"notFound", "parentNotFound"}
                BY <1>3, <2>2, <3>1 DEF Regular
            <4> QED
                BY <2>1, <4>1, <4>2 DEF Reply, Answer
        <3> QED
            BY <1>1, <1>2, <3>1, <3>2, <3>3, <3>4, CourseContinued DEF Continue
    <2>3. CASE Reply \notin Now.absorbs
        <3>1. Continue /\ Now.ignores # {}
            BY <1>7, <2>1, <2>3 DEF Failed, Ended
        <3>2. /\ step < Len(call.requests) /\ call.kind \notin Conditional /\ Now.does = "read"
            BY <1>3, <3>1 DEF WellFormed, Regular, Steady
        <3>3. at' = Changed
            BY <2>1, <3>2, ReadChanges
        <3> QED
            BY <1>1, <1>2, <3>1, <3>2, <3>3, CourseContinued DEF Continue, Conditional
    <2> QED
        BY <2>2, <2>3
<1> QED
    BY <1>4, <1>5, <1>6, <1>7

(* The course of a call, step by step.                                      *)
LEMMA CourseInit == Init => FaultsInv /\ CourseInv
<1> SUFFICES ASSUME Init PROVE FaultsInv /\ CourseInv
    OBVIOUS
<1>1. FaultsInv
    BY DEF Init, FaultsInv
<1>2. step = 1 /\ phase # "inFlight" /\ history.origin = at
    BY DEF Init, NewHistory
<1>3. ~Rewrites(call, step)
    BY <1>2 DEF Rewrites
<1>4. AsAtFirst
    BY <1>2 DEF AsAtFirst, Locations
<1> QED
    BY <1>1, <1>2, <1>3, <1>4 DEF CourseInv

LEMMA CourseReplicated ==
    ASSUME TypeInv, CourseInv, Undisturbed, Replicated
    PROVE  CourseInv'
<1>1. /\ UNCHANGED <<call, step, phase, location, position>>
      /\ at' = [at EXCEPT !["SECONDARY"] = at["PRIMARY"]]
      /\ history'.origin = history.origin
    BY OriginKept DEF Replicated, Next
<1>2. at'["PRIMARY"] = at["PRIMARY"] /\ at'["SECONDARY"] = at["PRIMARY"]
    BY <1>1 DEF TypeInv, VariablesTyped, Locations
<1>3. (Rewritten => Rewritten') /\ (AsAtFirst => AsAtFirst')
    BY <1>1, <1>2 DEF Rewritten, AsAtFirst, Locations
<1>4. (Rewrites(call, step) <=> Rewrites(call, step)') /\ Main(call)' = Main(call)
    BY <1>1 DEF Rewrites, Main
<1> QED
    BY <1>1, <1>2, <1>3, <1>4 DEF CourseInv

LEMMA CourseNext ==
    ASSUME AreRegular(Calls), AreSteady(Calls), TypeInv, RouteInv, FaultsInv, CourseInv,
           [Next]_vars
    PROVE  CourseInv'
<1>1. history'.origin = history.origin /\ (Undisturbed' => Undisturbed)
    BY OriginKept, FaultsStep
<1>2. SUFFICES ASSUME Undisturbed, Undisturbed'
               PROVE  CourseInv'
    BY <1>1 DEF CourseInv
<1>3. CASE EntityAdded \/ OperationRemoved \/ BatchCleared
    <2>1. phase' = phase /\ UNCHANGED <<call, step, position, at, location>>
        BY <1>3 DEF EntityAdded, OperationRemoved, BatchCleared, Edit
    <2>2. phase = "building"
        BY <1>3 DEF EntityAdded, OperationRemoved, BatchCleared, Edit
    <2> QED
        BY <1>1, <1>2, <2>1, <2>2, CourseUnchanged
<1>4. CASE BatchExecuted
    <2>1. phase = "building" /\ phase' # "inFlight" /\ UNCHANGED <<call, step, position, at>>
        BY <1>4 DEF BatchExecuted, Ended
    <2> QED
        BY <1>1, <1>2, <2>1, CourseUnchanged
<1>5. CASE RequestSent
    BY <1>2, <1>5, CourseSent
<1>6. CASE Answered
    BY <1>2, <1>6, CourseAnswers
<1>7. CASE AnswerLost \/ OtherRequest \/ OtherRemovesParent
    BY <1>2, <1>7, DisturbedSteps
<1>8. CASE Replicated
    BY <1>2, <1>8, CourseReplicated
<1>9. CASE Done \/ UNCHANGED vars
    <2>1. UNCHANGED vars
        BY <1>9 DEF Done
    <2>2. UNCHANGED <<call, step, phase, location, position, at>>
        BY <2>1 DEF vars
    <2> QED
        BY <1>1, <1>2, <2>2, CourseUnchanged DEF CourseInv
<1> QED
    BY <1>3, <1>4, <1>5, <1>6, <1>7, <1>8, <1>9 DEF Next

-----------------------------------------------------------------------------
LEMMA ThrowInit == Init => ThrowInv
BY DEF Init, ThrowInv

LEMMA ThrowUnchanged ==
    ASSUME ThrowInv, UNCHANGED <<call, step, token>>,
           phase' = "building" => phase = "building",
           phase' = "inFlight" => phase = "inFlight" /\ UNCHANGED <<location, mode>>
    PROVE  ThrowInv'
<1>1. Now' = Now /\ (\A r : ModeOf(r)' = ModeOf(r))
    BY DEF Now, ModeOf
<1> QED
    BY <1>1 DEF ThrowInv

LEMMA ThrowSent ==
    ASSUME TypeInv, ThrowInv, RequestSent
    PROVE  ThrowInv'
<1>1. UNCHANGED <<call, step, token>> /\ phase' \in {"done", "inFlight"}
    BY DEF RequestSent, Ended
<1>2. CASE phase' = "done"
    BY <1>1, <1>2, ThrowUnchanged
<1>3. CASE phase' = "inFlight"
    <2>1. ~(Now.checks /\ ~call.good) /\ ~RefusesMode(WhereOf(Now), ModeOf(Now), TRUE)
        BY <1>3 DEF RequestSent, Ended
    <2>2. LET forced == ForcedLocation(WhereOf(Now), InitialLocation(ModeOf(Now)), ModeOf(Now))
          IN location' = forced[1] /\ mode' = forced[2]
        BY <2>1 DEF RequestSent
    <2>3. Now' = Now /\ ModeOf(Now)' = ModeOf(Now)
        BY <1>1 DEF Now, ModeOf
    <2>4. ASSUME ModeOf(Now) = "PRIMARY_ONLY"
          PROVE  location' = "PRIMARY" /\ mode' = "PRIMARY_ONLY"
        <3>1. WhereOf(Now) # "SECONDARY_ONLY"
            BY <2>1, <2>4 DEF RefusesMode
        <3>2. InitialLocation(ModeOf(Now)) = "PRIMARY"
            BY <2>4 DEF InitialLocation
        <3> QED
            BY <2>2, <2>4, <3>1, <3>2 DEF ForcedLocation
    <2> QED
        BY <1>1, <1>3, <2>3, <2>4 DEF ThrowInv
<1> QED
    BY <1>1, <1>2, <1>3

LEMMA ThrowAnswers ==
    ASSUME TypeInv, RouteInv, ThrowInv, Answered \/ AnswerLost
    PROVE  ThrowInv'
<1>1. /\ phase = "inFlight" /\ UNCHANGED <<call, mode>>
      /\ Resent \/ WentOn \/ CameToEnd \/ GotSegment
    BY AnswerOutcome
<1>2. CASE Resent
    <2>1. /\ UNCHANGED <<step, phase, token>>
          /\ location' = location \/ location' = NextLocation(location, mode)
        BY <1>2 DEF Resent
    <2>2. Now' = Now /\ ModeOf(Now)' = ModeOf(Now)
        BY <1>1, <2>1 DEF Now, ModeOf
    <2> QED
        BY <1>1, <2>1, <2>2 DEF ThrowInv, NextLocation
<1>3. CASE WentOn
    <2>1. phase' = "ready" /\ token' = token /\ token = NoToken
        BY <1>3 DEF WentOn, Continue, RouteInv
    <2> QED
        BY <1>1, <2>1 DEF ThrowInv
<1>4. CASE CameToEnd
    BY <1>1, <1>4, ThrowUnchanged DEF CameToEnd
<1>5. CASE GotSegment
    <2>1. step' = step /\ location' = location /\ phase' \in {"ready", "done"}
        BY <1>5 DEF GotSegment, SegmentAnswered, Ended
    <2>2. token' = token \/ token'.at = location
        <3>1. token' = token \/ token' = [at |-> location, segment |-> token.segment + 1]
            BY <1>5, Zenon DEF GotSegment, SegmentAnswered, Ended
        <3> QED
            BY <3>1
    <2>3. Now' = Now /\ ModeOf(Now)' = ModeOf(Now)
        BY <1>1, <2>1 DEF Now, ModeOf
    <2>4. CASE token' = token
        BY <1>1, <2>1, <2>4, ThrowUnchanged
    <2>5. CASE token'.at = location
        BY <1>1, <2>1, <2>3, <2>5 DEF ThrowInv, RouteInv
    <2> QED
        BY <2>2, <2>4, <2>5
<1> QED
    BY <1>1, <1>2, <1>3, <1>4, <1>5

LEMMA ThrowNext ==
    ASSUME TypeInv, RouteInv, ThrowInv, [Next]_vars
    PROVE  ThrowInv'
<1>1. CASE EntityAdded \/ OperationRemoved \/ BatchCleared
    <2>1. UNCHANGED <<call, step, phase, location, mode, token>>
        BY <1>1 DEF EntityAdded, OperationRemoved, BatchCleared, Edit
    <2> QED
        BY <2>1, ThrowUnchanged
<1>2. CASE BatchExecuted
    <2>1. UNCHANGED <<call, step, token>> /\ phase' \in {"ready", "done"}
        BY <1>2 DEF BatchExecuted, Ended
    <2> QED
        BY <2>1, ThrowUnchanged
<1>3. CASE RequestSent
    BY <1>3, ThrowSent
<1>4. CASE Answered \/ AnswerLost
    BY <1>4, ThrowAnswers
<1>5. CASE OtherRequest \/ OtherRemovesParent \/ Replicated
    <2>1. UNCHANGED <<call, step, phase, location, mode, token>>
        BY <1>5 DEF OtherRequest, OtherRemovesParent, Meddle, Replicated
    <2> QED
        BY <2>1, ThrowUnchanged
<1>6. CASE Done \/ UNCHANGED vars
    <2>1. UNCHANGED <<call, step, phase, location, mode, token>>
        BY <1>6 DEF Done, vars
    <2> QED
        BY <2>1, ThrowUnchanged
<1> QED
    BY <1>1, <1>2, <1>3, <1>4, <1>5, <1>6 DEF Next

(* A request that is refused is refused for a reason.                       *)
LEMMA SentExcused ==
    ASSUME AreRegular(Calls), AreSteady(Calls), TypeInv, RouteInv, ThrowInv,
           (Now.checks /\ ~call.good) \/ RefusesMode(WhereOf(Now), ModeOf(Now), TRUE)
    PROVE  ~call.good \/ (call.mode = "SECONDARY_ONLY" /\ Now.where = "PRIMARY_ONLY")
<1>1. Steady(call, step) /\ Now = call.requests[step]
    BY NowSteady
<1>2. CASE RefusesMode(WhereOf(Now), ModeOf(Now), TRUE)
    <2>1. token # NoToken => token.at \in Locations
        BY DEF TypeInv, VariablesTyped
    <2>2. CASE WhereOf(Now) = "PRIMARY_ONLY" /\ ModeOf(Now) = "SECONDARY_ONLY"
        <3>1. "location" \in Now.with /\ call.mode = "SECONDARY_ONLY"
            BY <2>2 DEF ModeOf
        <3>2. CASE Now.where = "TOKEN"
            BY <2>1, <2>2, <3>1, <3>2 DEF WhereOf, Only, ThrowInv, Locations
        <3>3. CASE Now.where # "TOKEN"
            BY <2>2, <3>1, <3>3 DEF WhereOf
        <3> QED
            BY <3>2, <3>3
    <2>3. CASE WhereOf(Now) = "SECONDARY_ONLY" /\ ModeOf(Now) = "PRIMARY_ONLY"
        <3>1. Now.where # "SECONDARY_ONLY"
            BY <1>1 DEF Steady
        <3>2. token # NoToken /\ Only(token.at) = "SECONDARY_ONLY"
            BY <2>3, <3>1 DEF WhereOf
        <3> QED
            BY <2>3, <3>2 DEF Only, ThrowInv
    <2> QED
        BY <1>2, <2>2, <2>3 DEF RefusesMode
<1> QED
    BY <1>2

LEMMA ExcusedAnswers ==
    ASSUME AreRegular(Calls), AreSteady(Calls), TypeInv, RouteInv, ListInv, FaultsInv, CourseInv,
           Answered \/ AnswerLost
    PROVE  FailuresExcused'
<1>1. /\ phase = "inFlight" /\ call' = call /\ history'.origin = history.origin
      /\ outcome.result = "none"
    BY AnswerOutcome, OriginKept DEF Next, ListInv
<1>2. Entitled' <=> Entitled
    BY <1>1, EntitledKept
<1>3. CASE outcome'.result \notin {"failed", "thrown"}
    BY <1>3 DEF FailuresExcused
<1>4. ASSUME NEW error \in Errors, Failed(error),
             \/ Answered /\ error = Reply /\ error # "ok" /\ faults' = faults
             \/ error = "lost" /\ ~Undisturbed',
             outcome'.result \in {"failed", "thrown"}
      PROVE  FailuresExcused'
    <2>1. /\ error \notin Now.absorbs /\ error \notin Now.ignores
          /\ outcome'.error = error
        BY <1>1, <1>4 DEF Failed, CheckAnswered, Continue, Ended
    <2>2. error = Reply /\ error # "ok" => ~Undisturbed \/ ~Entitled
        BY <1>1, <2>1, ReplyFine
    <2>3. ~Undisturbed' \/ ~Entitled'
        BY <1>2, <1>4, <2>2 DEF Undisturbed
    <2>4. FaultsInv'
        BY FaultsStep DEF Next
    <2>5. error # "none"
        BY DEF Errors
    <2> QED
        BY <2>1, <2>3, <2>4, <2>5 DEF FailuresExcused, FaultsInv, Undisturbed
<1>5. CASE Answered
    <2>1. Reply \in Errors \cup {"ok"}
        BY AnswerType DEF Reply
    <2>2. CASE Reply = "ok"
        <3>1. Succeeded
            BY <1>5, <2>2 DEF Answered
        <3>2. outcome'.result \in {"none", "ok"}
            BY <1>1, <3>1
               DEF Succeeded, SegmentAnswered, CheckAnswered, Continue, Ended
        <3> QED
            BY <1>3, <3>2
    <2>3. CASE Reply # "ok"
        <3>1. Failed(Reply) /\ faults' = faults
            BY <1>5, <2>3 DEF Answered
        <3> QED
            BY <1>3, <1>4, <1>5, <2>1, <2>3, <3>1
    <2> QED
        BY <2>2, <2>3
<1>6. CASE AnswerLost
    <2>1. UNCHANGED outcome \/ Failed("lost")
        BY <1>6 DEF AnswerLost
    <2>2. ~Undisturbed'
        BY <1>6, DisturbedSteps
    <2>3. "lost" \in Errors
        BY DEF Errors
    <2> QED
        BY <1>1, <1>3, <1>4, <2>1, <2>2, <2>3
<1> QED
    BY <1>5, <1>6

-----------------------------------------------------------------------------
(* Together.                                                                *)
LEMMA FailureInit == Init => FailureInv
<1>1. Init => FailuresExcused
    BY DEF Init, NoOutcome, FailuresExcused
<1> QED
    BY <1>1, CourseInit, ThrowInit DEF FailureInv

LEMMA ExcusedNext ==
    ASSUME AreRegular(Calls), AreSteady(Calls), TypeInv, RouteInv, ListInv, FailureInv,
           [Next]_vars
    PROVE  FailuresExcused'
<1>1. /\ FaultsInv /\ CourseInv /\ ThrowInv /\ FailuresExcused
      /\ phase # "done" => outcome.result = "none"
    BY DEF FailureInv, ListInv
<1>2. CASE UNCHANGED outcome /\ phase # "done"
    BY <1>1, <1>2 DEF FailuresExcused
<1>3. CASE EntityAdded \/ OperationRemoved \/ BatchCleared
    <2>1. UNCHANGED outcome /\ phase = "building"
        BY <1>3 DEF EntityAdded, OperationRemoved, BatchCleared, Edit
    <2> QED
        BY <1>2, <2>1
<1>4. CASE BatchExecuted
    <2>1. call.kind = "batch" /\ UNCHANGED <<call, batch, step>>
        BY <1>1, <1>4 DEF BatchExecuted, ThrowInv
    <2>2. CASE HasOperations(batch)
        BY <1>1, <1>4, <2>2 DEF BatchExecuted, FailuresExcused
    <2>3. CASE ~HasOperations(batch)
        <3>1. outcome' = [result |-> "thrown", error |-> "none", answer |-> FALSE]
            BY <1>4, <2>3 DEF BatchExecuted, Ended
        <3> QED
            BY <2>1, <2>3, <3>1 DEF FailuresExcused
    <2> QED
        BY <2>2, <2>3
<1>5. CASE RequestSent
    <2>1. phase = "ready" /\ UNCHANGED <<call, batch, step>>
        BY <1>5 DEF RequestSent
    <2>2. CASE (Now.checks /\ ~call.good) \/ RefusesMode(WhereOf(Now), ModeOf(Now), TRUE)
        <3>1. outcome' = [result |-> "thrown", error |-> "none", answer |-> FALSE]
            BY <1>5, <2>2 DEF RequestSent, Ended
        <3>2. ~call.good \/ (call.mode = "SECONDARY_ONLY" /\ Now.where = "PRIMARY_ONLY")
            BY <1>1, <2>2, SentExcused
        <3>3. Now' = Now
            BY <2>1 DEF Now
        <3> QED
            BY <2>1, <3>1, <3>2, <3>3 DEF FailuresExcused
    <2>3. CASE ~((Now.checks /\ ~call.good) \/ RefusesMode(WhereOf(Now), ModeOf(Now), TRUE))
        <3>1. UNCHANGED outcome
            BY <1>5, <2>3 DEF RequestSent
        <3> QED
            BY <1>2, <2>1, <3>1
    <2> QED
        BY <2>2, <2>3
<1>6. CASE Answered \/ AnswerLost
    BY <1>1, <1>6, ExcusedAnswers
<1>7. CASE OtherRequest \/ OtherRemovesParent \/ Replicated
    <2>1. UNCHANGED outcome /\ phase = "inFlight"
        BY <1>7 DEF OtherRequest, OtherRemovesParent, Replicated, Meddle
    <2> QED
        BY <1>2, <2>1
<1>8. CASE Done \/ UNCHANGED vars
    <2>1. UNCHANGED vars
        BY <1>8 DEF Done
    <2>2. UNCHANGED <<call, batch, step, outcome, faults, history>>
        BY <2>1 DEF vars
    <2>3. (Entitled' <=> Entitled) /\ Now' = Now
        BY <2>2, EntitledKept DEF Now
    <2> QED
        BY <1>1, <2>2, <2>3 DEF FailuresExcused
<1> QED
    BY <1>3, <1>4, <1>5, <1>6, <1>7, <1>8 DEF Next

LEMMA FailureNext ==
    AreRegular(Calls) /\ AreSteady(Calls) /\ TypeInv /\ RouteInv /\ ListInv /\ FailureInv
        /\ [Next]_vars => FailureInv'
BY FaultsStep, CourseNext, ThrowNext, ExcusedNext DEF FailureInv

(* A call of a method whose requests are steady fails, or throws with an    *)
(* answer in hand, only because of a lost answer, of other clients or       *)
(* because it was not entitled to what it asks for: however many requests   *)
(* it makes, none of them gets in the way of a later one; and without an    *)
(* answer it throws only for its arguments or its location mode             *)
(* (_buildRequestOptions, the callbacks of src/lib/services).               *)
THEOREM FailuresAreExcused ==
    ASSUME AreRegular(Calls), AreSteady(Calls) PROVE Spec => []FailuresExcused
<1>1. Init => TypeInv /\ RouteInv /\ ListInv /\ FailureInv
    BY TypeInit, RouteInit, ListInit, FailureInit
<1>2. /\ TypeInv /\ RouteInv /\ ListInv /\ FailureInv
      /\ [Next]_vars
      => (TypeInv /\ RouteInv /\ ListInv /\ FailureInv)'
    BY TypeNext, RouteNext, ListNext, FailureNext
<1>3. FailureInv => FailuresExcused
    BY DEF FailureInv
<1> QED
    BY <1>1, <1>2, <1>3, PTL DEF Spec
=============================================================================
