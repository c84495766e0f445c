--------------------------- MODULE ServiceClient ---------------------------
(***************************************************************************)
(* One call of a method of BlobService, FileService, QueueService or       *)
(* TableService: its requests, one after the other, against an account     *)
(* with a secondary location that other clients use as well.  What a       *)
(* method sends is in BlobOperations and the like; this module models what *)
(* performs it: StorageServiceClient._performRequest as far as locations   *)
(* are concerned, the retry of a request whose answer is lost, and what    *)
(* the callbacks of the methods make of an answer.                         *)
(***************************************************************************)
EXTENDS FiniteSets, StorageService, TableBatch

CONSTANTS
    Calls,                           \* the calls the program may make
    Origins,                         \* what both locations may hold at first
    Segments,                        \* of a listing, at each location
    EntityOperations,                \* what may be added to a table batch
    ClearsRetrieval,                 \* whether such a batch is cleared too
    MaxLost, MaxMeddling, MaxEdits   \* bounds of the faults and the edits

(* The program's side: the method, the options given, one of the sequences  *)
(* of requests it may send.                                                 *)
Call == [of : {"account", "parent", "child"},
         kind : {"plain", "createIf", "deleteIf", "exists", "list", "batch"},
         mode : LocationModes, gives : SUBSET (Options \ {"location"}),
         good : BOOLEAN, requests : Seq(Request)]

(* Requests that need an option are left out without it.                    *)
Program(requests, gives) ==
    SelectSeq(requests, LAMBDA r : r.given = {} \/ r.given \cap gives # {})

ASSUME BoundsAssumption ==
    /\ Segments \in Nat \ {0} /\ BatchLimit \in Nat \ {0}
    /\ {MaxLost, MaxMeddling, MaxEdits} \subseteq Nat
    /\ ClearsRetrieval \in BOOLEAN

NeverAtSecondary(r) == r.where = Primary /\ "location" \in r.with

(* What the methods' requests have in common; TLC evaluates it for the      *)
(* tables of all methods.                                                   *)
WellFormed(c, i) ==
    LET r == c.requests[i]
    IN /\ r.does # "read" => r.where = Primary
       /\ c.mode = "SECONDARY_ONLY" =>
              "location" \in r.with \/ NeverAtSecondary(c.requests[1])
       /\ r.where = "TOKEN" => c.kind = "list"
       /\ c.kind = "list" =>
              /\ Len(c.requests) = 1 /\ r.absorbs = {} /\ r.ignores = {}
              /\ r.does = "read" /\ r.where \in {"TOKEN", Primary}
       /\ r.ignores # {} => i < Len(c.requests)

ASSUME CallsAssumption ==
    \A c \in Calls :
        /\ c \in Call /\ c.requests # <<>>
        /\ \A i \in DOMAIN c.requests : WellFormed(c, i)

(* What a method must respect beyond that for its successes to be true and  *)
(* its conditions to be kept; TypeOK has it, so that TLC evaluates it.      *)
Conditional == {"createIf", "deleteIf", "exists"}
Regular(c, i) ==
    LET r == c.requests[i]
    IN /\ c.of = "account" => c.gives \cap Conditions = {}
       /\ r.does \in Writes => c.gives \cap Conditions \subseteq r.with
       /\ r.ignores # {} => r.does = "read"
       /\ r.does = "read" => c.gives \cap {"match"} \subseteq r.with
       /\ r.absorbs # {} => c.kind \in Conditional
       /\ c.kind \in Conditional =>
              /\ c.of # "account"
              /\ Len(c.requests) = IF c.kind = "exists" THEN 1 ELSE 2
              /\ i = 1 => /\ r.does = "read" /\ r.absorbs \subseteq {"notFound", "parentNotFound"}
                          /\ c.kind # "exists" => r.where = Primary
              /\ i = 2 => IF c.kind = "createIf"
                          THEN r.does = "create" /\ r.absorbs \subseteq {"conflict"}
                          ELSE r.does = "delete" /\ r.absorbs \subseteq {"notFound"}
AreRegular(calls) == \A c \in calls : \A i \in DOMAIN c.requests : Regular(c, i)

(* What a method must do for its failures to have a cause outside of it: it *)
(* sends a request with what that needs, and a request before the last      *)
(* neither asks for more than the last one, nor elsewhere, nor stands in    *)
(* its way.  TypeOK has it, too.                                            *)
Main(c) == c.requests[Len(c.requests)]
Carried(c, i) == c.requests[i].with \cap c.gives
Rewrites(c, i) == \E j \in 1..(i - 1) : c.requests[j].does \in Writes

Leads(c, i) ==
    LET r == c.requests[i]
    IN /\ r.does \in {"read", "stage", "put", "update", "append"}
       /\ Main(c).does \in IF r.does = "read" THEN Writes \cup {"read"} ELSE Writes
       /\ r.does = "read" /\ "absent" \in Carried(c, i) => "badRequest" \in r.ignores
       /\ \/ ~NeedsTarget(r.does) \/ NeedsTarget(Main(c).does)
          \/ "match" \in c.gives \/ Rewrites(c, i) \/ r.absorbs # {}
          \/ r.does = "read" /\ "absent" \in Carried(c, i)
       /\ Main(c).where = Primary =>
              \/ r.where = Primary \/ "location" \notin r.with
              \/ c.mode \in {"PRIMARY_ONLY", "PRIMARY_THEN_SECONDARY"}

Steady(c, i) ==
    LET r == c.requests[i]
    IN /\ r.where # "SECONDARY_ONLY"
       /\ r.does \in Writes \cup {"stage"} => c.gives \cap {"lease"} \subseteq r.with
       /\ r.does = "append" => i > 1 /\ c.requests[i - 1].ignores = {}
       /\ Rewrites(c, i) => r.does # "create" /\ Carried(c, i) \cap Conditions = {}
       /\ c.kind \in Conditional =>
              /\ r.ignores = {}
              /\ i = 1 => {"notFound", "parentNotFound"} \subseteq r.absorbs
              /\ i = 1 /\ c.kind = "createIf" => Carried(c, i) = {}
       /\ i < Len(c.requests) => Leads(c, i)
AreSteady(calls) == \A c \in calls : \A i \in DOMAIN c.requests : Steady(c, i)

(* Nobody but the one the program knows of has written version 1.           *)
Known(copy) == copy.next > SeenVersion /\ (copy.version = SeenVersion => copy.by # "them")

ASSUME OriginsAssumption ==
    Origins \subseteq {copies \in [Locations -> Copy] : Known(copies["PRIMARY"])}

VARIABLES
    call, batch,                     \* what the program asks for
    step, phase,                     \* of the call's requests
    location, mode,                  \* of the request in flight
    token, listed,                   \* continuation token; segments received
    position,                        \* the version the method last heard of
    outcome,                         \* what the callback is given
    at,                              \* the resource at each location
    faults,                          \* how many of each kind there were
    history                          \* what the properties need to know

vars == <<call, batch, step, phase, location, mode, token, listed, position,
          outcome, at, faults, history>>

NoToken == [at |-> "nowhere", segment |-> 1]
NoOutcome == [result |-> "none", error |-> "none", answer |-> FALSE]

(* origin: what was there at first; did: the requests that took effect;     *)
(* was: whether the resource was there, at each location and at any moment; *)
(* read: the versions read; over: whose versions were replaced; refused:    *)
(* what addOperation just threw for.                                        *)
NewHistory(copies) ==
    [origin |-> copies, did |-> {}, was |-> [l \in Locations |-> {Present(copies[l])}],
     read |-> {}, over |-> {}, refused |-> {}]

Init ==
    /\ call \in Calls
    /\ at \in Origins
    /\ call.mode = "PRIMARY_ONLY" \/ call.of = "account" => at["PRIMARY"] = at["SECONDARY"]
    /\ call.of # "child" => \A l \in Locations : at[l].around
    /\ batch = NewBatch
    /\ step = 1
    /\ phase = IF call.kind = "batch" THEN "building" ELSE "ready"
    /\ location = "PRIMARY" /\ mode = "PRIMARY_ONLY"
    /\ token = NoToken /\ listed = {}
    /\ position = Absent
    /\ outcome = NoOutcome
    /\ faults = [lost |-> 0, meddling |-> 0, edits |-> 0]
    /\ history = NewHistory(at)
-----------------------------------------------------------------------------
(* The program fills a TableBatch and executes it.                          *)

Edit(edited, refused) ==
    /\ phase = "building" /\ faults.edits < MaxEdits
    /\ faults' = [faults EXCEPT !.edits = @ + 1]
    /\ batch' = edited
    /\ history' = [history EXCEPT !.refused = refused]
    /\ UNCHANGED <<call, step, phase, location, mode, token, listed, position,
                   outcome, at>>

EntityAdded ==
    \E operation \in EntityOperations :
        IF Refuses(batch, operation) THEN Edit(batch, {operation})
        ELSE Edit(AddOperation(batch, operation), {})

OperationRemoved ==
    \E index \in DOMAIN batch.operations : Edit(RemoveOperation(batch, index), {})

BatchCleared == (batch.retrieve => ClearsRetrieval) /\ Edit(Clear(batch), {})

Ended(result, error, answer) ==
    /\ phase' = "done"
    /\ outcome' = [result |-> result, error |-> error, answer |-> answer]

(* executeBatch throws if there is no operation.                            *)
BatchExecuted ==
    /\ phase = "building"
    /\ IF HasOperations(batch) THEN phase' = "ready" /\ UNCHANGED outcome
       ELSE Ended("thrown", "none", FALSE)
    /\ UNCHANGED <<call, batch, step, location, mode, token, listed, position,
                   at, faults, history>>
-----------------------------------------------------------------------------
(* The request of the current step and what it is sent with.                *)
Now == call.requests[step]
ModeOf(r) == IF "location" \in r.with THEN call.mode ELSE "PRIMARY_ONLY"

WhereOfAny(r) ==                            \* mutant: a marker is not looked at
    IF r.where # "TOKEN" THEN r.where ELSE "PRIMARY_OR_SECONDARY"

(* getNextListingLocationMode for a listing.                                *)
Only(l) == IF l = "PRIMARY" THEN "PRIMARY_ONLY" ELSE "SECONDARY_ONLY"
WhereOf(r) ==
    IF r.where # "TOKEN" THEN r.where
    ELSE IF token = NoToken THEN "PRIMARY_OR_SECONDARY" ELSE Only(token.at)

(* The method builds its next request and _performRequest sends it.         *)
RequestSent ==
    /\ phase = "ready"
    /\ IF (Now.checks /\ ~call.good) \/ RefusesMode(WhereOf(Now), ModeOf(Now), TRUE)
       THEN /\ Ended("thrown", "none", FALSE)
            /\ UNCHANGED <<location, mode>>
       ELSE LET forced == ForcedLocation(WhereOf(Now), InitialLocation(ModeOf(Now)), ModeOf(Now))
            IN /\ location' = forced[1] /\ mode' = forced[2]
               /\ phase' = "inFlight"
               /\ UNCHANGED outcome
    /\ UNCHANGED <<call, batch, step, token, listed, position, at, faults, history>>
-----------------------------------------------------------------------------
(* The service's side: its answer to the request in flight, and what that   *)
(* request changes.  Only the primary location takes changes.               *)
Reply == Answer(at[location], call.of, Now.does, Now.with \cap call.gives, position)

Changed == [at EXCEPT !["PRIMARY"] = After(@, Now.does, "us")]

Observed(copies) ==
    [l \in Locations |-> history.was[l] \cup {Present(copies[l])}]

(* What is noted of a request that was answered "ok".                       *)
Noted ==
    [history EXCEPT
        !.did = @ \cup {step},
        !.was = Observed(Changed),
        !.read = IF Now.does = "read" THEN @ \cup {at[location].version} ELSE @,
        !.over = IF Now.does \in Writes /\ at["PRIMARY"].version # Absent
                 THEN @ \cup {at["PRIMARY"].by} ELSE @]

Served ==
    IF Reply = "ok" THEN at' = Changed /\ history' = Noted
    ELSE UNCHANGED <<at, history>>
-----------------------------------------------------------------------------
(* What the callbacks make of an answer.                                    *)

MoreRequests == step < Len(call.requests)
Continue == phase' = "ready" /\ step' = step + 1 /\ UNCHANGED outcome

CheckContinues(exists) ==                   \* mutant: one that ends is not told apart
    IF exists = (call.kind = "deleteIf") THEN Continue
    ELSE Ended("ok", "none", call.kind = "exists" /\ exists) /\ UNCHANGED step

(* The existence checks; another request may follow, or there is no need.   *)
CheckAnswered(exists) ==
    IF MoreRequests /\ exists = (call.kind = "deleteIf") THEN Continue
    ELSE Ended("ok", "none", call.kind = "exists" /\ exists) /\ UNCHANGED step

(* A segment of a listing, with its continuation token unless it is the     *)
(* last, or taken for the last because it is empty, as any segment may be;  *)
(* responseObject.targetLocation is where it comes from.                    *)
SegmentAnswered ==
    /\ listed' = listed \cup {<<location, token.segment>>}
    /\ \/ /\ token.segment < Segments
          /\ token' = [at |-> location, segment |-> token.segment + 1]
          /\ phase' = "ready" /\ UNCHANGED outcome
       \/ /\ token.segment < Segments => Now.endsEmpty
          /\ Ended("ok", "none", TRUE) /\ UNCHANGED token
    /\ UNCHANGED step

Succeeded ==
    /\ IF call.kind = "list" THEN SegmentAnswered
       ELSE /\ IF step = 1 /\ call.kind \in Conditional
               THEN CheckAnswered(TRUE)
               ELSE IF MoreRequests THEN Continue
               ELSE Ended("ok", "none", TRUE) /\ UNCHANGED step
            /\ UNCHANGED <<token, listed>>
    /\ position' = at'[location].version

Chokes(error) ==
    error \in Now.chokes /\ (error = "lost" => "absent" \in call.gives)

Failed(error) ==
    /\ IF error \in Now.absorbs
       THEN IF step = 1 THEN CheckAnswered(FALSE)
            ELSE Ended("ok", "none", FALSE) /\ UNCHANGED step
       ELSE IF error \in Now.ignores THEN Continue
       ELSE /\ Ended(IF Chokes(error) THEN "thrown" ELSE "failed", error, FALSE)
            /\ UNCHANGED step
    /\ UNCHANGED <<token, listed, position>>

(* The answer, or the request, is lost; with retries left the filter sends  *)
(* it again, where getNextLocation tells, or, with a built-in policy, where *)
(* it told at the first retry; otherwise the callback gets an error as any  *)
(* other.                                                                   *)
AnswerLost ==
    /\ phase = "inFlight" /\ faults.lost < MaxLost
    /\ faults' = [faults EXCEPT !.lost = @ + 1]
    /\ Served \/ UNCHANGED <<at, history>>
    /\ \/ /\ \/ location' = NextLocation(location, mode)
             \/ location' = location /\ faults.lost > 0
          /\ UNCHANGED <<step, phase, outcome, token, listed, position>>
       \/ Failed("lost") /\ UNCHANGED location
    /\ UNCHANGED <<call, batch, mode>>

Answered ==
    /\ phase = "inFlight"
    /\ Served
    /\ IF Reply = "ok" THEN Succeeded ELSE Failed(Reply)
    /\ UNCHANGED <<call, batch, location, mode, faults>>
-----------------------------------------------------------------------------
(* Other clients, between two requests or before a request arrives, and the *)
(* replication to the secondary location.                                   *)

Meddle(copy) ==
    /\ phase = "inFlight" /\ faults.meddling < MaxMeddling
    /\ faults' = [faults EXCEPT !.meddling = @ + 1]
    /\ at' = [at EXCEPT !["PRIMARY"] = copy]
    /\ history' = [history EXCEPT !.was = Observed(at')]
    /\ UNCHANGED <<call, batch, step, phase, location, mode, token, listed,
                   position, outcome>>

(* Their lease is to them what "ours" is to the program.                    *)
Theirs == IF at["PRIMARY"].lease = "theirs" THEN {"lease"} ELSE {}

(* They ask for what the service would grant them.                          *)
OtherRequest ==
    \E does \in {"create", "update", "delete", "acquire", "break"} :
        /\ call.of # "account"
        /\ Answer([at["PRIMARY"] EXCEPT !.lease = IF @ = "theirs" THEN "ours" ELSE @],
                  call.of, does, Theirs, Absent) = "ok"
        /\ Meddle(After(at["PRIMARY"], does, "them"))

OtherRemovesParent ==
    /\ call.of = "child" /\ at["PRIMARY"].around
    /\ Meddle([at["PRIMARY"] EXCEPT !.around = FALSE, !.version = Absent,
                                    !.by = "them", !.lease = "none"])

Replicated ==
    /\ phase = "inFlight" /\ call.mode # "PRIMARY_ONLY"
    /\ at["SECONDARY"] # at["PRIMARY"]
    /\ at' = [at EXCEPT !["SECONDARY"] = at["PRIMARY"]]
    /\ history' = [history EXCEPT !.was = Observed(at')]
    /\ UNCHANGED <<call, batch, step, phase, location, mode, token, listed,
                   position, outcome, faults>>

Done == phase = "done" /\ UNCHANGED vars

Next ==
    \/ EntityAdded \/ OperationRemoved \/ BatchCleared \/ BatchExecuted
    \/ RequestSent \/ Answered \/ AnswerLost
    \/ OtherRequest \/ OtherRemovesParent \/ Replicated
    \/ Done

Spec == Init /\ [][Next]_vars
-----------------------------------------------------------------------------
VariablesTyped ==
    /\ call \in Call
    /\ batch.operations \in Seq(EntityOperations) /\ Len(batch.operations) <= BatchLimit
    /\ step \in 1..Len(call.requests)
    /\ phase \in {"building", "ready", "inFlight", "done"}
    /\ location \in Locations /\ mode \in LocationModes
    /\ token \in [at : Locations, segment : 2..Segments] \cup {NoToken}
    /\ at \in [Locations -> Copy]
    /\ outcome.result \in {"none", "ok", "failed", "thrown"}
    /\ outcome.error \in Errors \cup {"none"}

(* The variables keep their types; the requests of the methods are regular  *)
(* and steady.                                                              *)
TypeOK ==
    /\ VariablesTyped
    /\ \A i \in DOMAIN call.requests : Regular(call, i) /\ Steady(call, i)

Changes == {i \in DOMAIN call.requests : call.requests[i].does # "read"}

(* What the callback is told without an error is true: all requests of the  *)
(* method took effect; what was not created, or not deleted, was there, or  *)
(* not there, at a moment of the call, and so was what is said to exist, at *)
(* the location that was asked; and if a version was named, no other one    *)
(* was read (the result callbacks of src/lib/services).                     *)
SuccessTrue ==
    outcome.result = "ok" =>
        /\ outcome.answer /\ call.kind # "exists" => Changes \subseteq history.did
        /\ call.kind = "createIf" /\ ~outcome.answer => TRUE \in history.was["PRIMARY"]
        /\ call.kind = "deleteIf" /\ ~outcome.answer => FALSE \in history.was["PRIMARY"]
        /\ call.kind = "exists" => outcome.answer \in history.was[location]
        /\ "match" \in call.gives => history.read \subseteq {SeenVersion}

(* What the last request would have been answered at first, had it carried  *)
(* everything the program gave, by every copy that may answer it: the       *)
(* secondary location may have the one of the primary by then.              *)
MayGo(r) ==
    IF "PRIMARY_ONLY" \in {r.where, call.mode} THEN {"PRIMARY"} ELSE Locations
AlsoAnswers ==
    CASE call.kind = "createIf" -> {"conflict"}
      [] call.kind \in {"deleteIf", "exists"} -> {"notFound", "parentNotFound"}
      [] OTHER -> {}
Entitled ==
    \A l \in MayGo(Main(call)) :
        Answer(history.origin[l], call.of, Main(call).does, call.gives,
               history.origin[l].version) \in {"ok"} \cup AlsoAnswers

(* A call fails, or throws what its callback should have been given, only   *)
(* because of a lost answer, of other clients or because it was not         *)
(* entitled to what it asks for when it was made: no request of a method    *)
(* gets in the way of a later one; and it throws without an answer only for *)
(* its arguments, its location mode or a batch without operations           *)
(* (_buildRequestOptions, _validateLocation, the callbacks in src/lib/services). *)
FailuresExcused ==
    outcome.result \in {"failed", "thrown"} =>
        IF outcome.error = "none"
        THEN \/ ~call.good
             \/ call.mode = "SECONDARY_ONLY" /\ Now.where = "PRIMARY_ONLY"
             \/ call.kind = "batch" /\ ~HasOperations(batch)
        ELSE faults.meddling > 0 \/ faults.lost > 0 \/ ~Entitled

(* "If it was deleted already, there was no actual error."  (Comment of     *)
(* deleteContainerIfExists, blobservice.core.js:1056.)  The race that an    *)
(* IfExists or IfNotExists method is for is not reported as a failure, nor  *)
(* does it make the method's callback throw.                                *)
RacesAbsorbed ==
    outcome.result \in {"failed", "thrown"} =>
        /\ ~(call.kind = "createIf" /\ outcome.error = "conflict")
        /\ ~(call.kind = "deleteIf" /\ outcome.error = "notFound")

(* A listing that was followed to its end is the listing of one location,   *)
(* without a segment of the other or a gap, and all of it unless the method *)
(* takes an empty segment for the last one (getNextListingLocationMode,     *)
(* queueservice.js:284-305).                                                *)
ListingComplete ==
    call.kind = "list" /\ outcome.result = "ok" =>
        \E l \in Locations, n \in 1..Segments :
            listed = {l} \X (1..n) /\ (n = Segments \/ Now.endsEmpty)

(* Wherever a request is sent, first or again, it is a location that takes  *)
(* it, that the program allows and that knows its continuation token        *)
(* (_validateLocation, getNextLocation).                                    *)
SentWhereAllowed ==
    phase = "inFlight" =>
        /\ Now.does # "read" => location = "PRIMARY"
        /\ call.mode = "PRIMARY_ONLY" => location = "PRIMARY"
        /\ call.mode = "SECONDARY_ONLY" => location = "SECONDARY"
        /\ token # NoToken => location = token.at

(* What somebody else wrote is not overwritten or deleted by a call that    *)
(* names the version it means, or requires that there be none               *)
(* (options.accessConditions, an entity's etag, a pop receipt).             *)
NoLostUpdate ==
    /\ "match" \in call.gives => "them" \notin history.over
    /\ "absent" \in call.gives => history.over \subseteq {"us"}

(* A batch that is sent is one the service accepts, and an operation is     *)
(* refused only if the batch would not be one with it (tablebatch.js).      *)
ValidBatch ==
    call.kind = "batch" =>
        /\ phase = "inFlight" => ValidOperations(batch.operations)
        /\ \A operation \in history.refused :
               ~ValidOperations(Append(batch.operations, operation))
=============================================================================
