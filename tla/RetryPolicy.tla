---------------------------- MODULE RetryPolicy ----------------------------
(***************************************************************************)
(* One request of a storage service: StorageServiceClient._performRequest  *)
(* (src/lib/common/services/storageserviceclient.js) with a retry policy   *)
(* filter (src/lib/common/filters).                                        *)
(*                                                                         *)
(* The filter hands the request to the pipeline, which sleeps, validates   *)
(* the location and sends it; the answer comes back to the filter, which   *)
(* retries or calls the caller's callback.  Time passes inside the steps   *)
(* that wait (a timer, an answer), in abstract units.                      *)
(*                                                                         *)
(* The storage service is modelled from its use: it stores the body of a   *)
(* write, at most once when the write is conditional (appendPosition), it  *)
(* may store it and answer with an error, and there is no other writer.    *)
(***************************************************************************)
EXTENDS Integers, Sequences, LocationMode

CONSTANTS
    Requests,         \* the requests a caller may make, a set of Request
    RetryCount,       \* retryCount of the filter
    RetryInterval,    \* retryInterval
    MinRetryInterval, \* minRetryInterval of the exponential filter
    MaxRetryInterval, \* maxRetryInterval of the exponential filter
    ExecutionTime,    \* options.maximumExecutionTimeInMs
    Latencies,        \* how long an answer may take
    Lateness,         \* how late a timer may fire
    MaxChunks         \* bound: 'data' events of an output stream

Policies == {"none", "linear", "exponential", "custom"}
None == "none"
Never == -1

(* mode is options.locationMode, where is options.requestLocationMode,      *)
(* absorb is options.absorbConditionalErrorsOnRetry, expires tells whether  *)
(* options.maximumExecutionTimeInMs is set.  A body is a buffer, a stream   *)
(* that is piped, or one of 29 MB or more, which is collected (sendUnchunked). *)
Request == [write : BOOLEAN, mode : LocationModes, where : RequestModes,
            policy : Policies, absorb : BOOLEAN, conditional : BOOLEAN,
            body : {"buffer", "piped", "collected"}, expires : BOOLEAN,
            secondaryHost : BOOLEAN]

(* Reads and listings; everything else is sent to the primary location.     *)
WellFormed(r) ==
    IF r.write THEN r.where = "PRIMARY_ONLY"
               ELSE r.body = "buffer" /\ ~r.absorb /\ ~r.conditional

ASSUME RetryAssumption ==
    /\ Requests \subseteq {r \in Request : WellFormed(r)}
    /\ RetryCount \in Nat \ {0}
    /\ RetryInterval \in Nat /\ MinRetryInterval \in Nat /\ MaxRetryInterval \in Nat
    /\ ExecutionTime \in Nat
    /\ Latencies \subseteq Nat /\ Lateness \subseteq Nat
    /\ MaxChunks \in Nat

VARIABLES
    request,      \* the request being made
    phase,        \* what the pipeline does
    now,          \* Date.now(), from the start of the operation
    wake,         \* when the timer of the retry interval is due
    locationMode, \* options.locationMode of the retried options
    location,     \* options.currentLocation
    context,      \* options.retryContext, which the built-in filters return
                  \* from shouldRetry as the retryInfo
    last,         \* lastPrimaryAttempt and lastSecondaryAttempt
    sent,         \* outputStreamSent
    chunks,       \* 'data' events that were delivered
    server,       \* external: how often the service stored the body
    attempts,     \* history: the requests sent
    answers       \* history: the calls of the caller's callback

vars == <<request, phase, now, wake, locationMode, location, context, last,
          sent, chunks, server, attempts, answers>>

Phases == {"sleeping", "collecting", "inFlight", "awaitOpen",
           "thrown", "done"}

Context == [count : Nat, retryable : BOOLEAN, serverError : BOOLEAN,
            target : Locations \cup {None}, mode : LocationModes \cup {None}]

(* Answers of the service and failures of the network.  "unknown" stands    *)
(* for the client errors, "reset" for the five network errors that are      *)
(* retried and "ENOTFOUND" for the others, "corrupt" for an answer whose    *)
(* length or MD5 does not match and "garbled" for one that cannot be parsed; *)
(* "expired" is the TimeoutError raised while a stream is collected.        *)
WithoutResponse == {"reset", "ENOTFOUND", "expired"}
ClientErrors == {"notFound", "precondition", "unknown"}
Responses == {"ok", "corrupt", "garbled", "serverError", "notImplemented", "timedOut"}
             \cup ClientErrors \cup WithoutResponse

(* gap is the interval asked for when the attempt failed.                   *)
Attempt == [location : Locations, start : Nat, end : Nat \cup {Never},
            gap : Nat, response : Responses \cup {None}]
-----------------------------------------------------------------------------
(* _validateLocation.                                                       *)
LocationInvalid(mode) == RefusesMode(request.where, mode, request.secondaryHost)

(* Plausible bug: the location is checked but not forced.                   *)
LocationAsGiven(from, mode) == <<from, mode>>

ValidLocation(from, mode) == ForcedLocation(request.where, from, mode)

(* _maximumExecutionTimeExceeded.                                           *)
Exceeded(time) == request.expires /\ time > ExecutionTime

(* The intervals shouldRetry may return: the exponential one is spread by a *)
(* random factor of 0.8 to 1.2 and bounded.                                 *)
Intervals ==
    IF request.policy # "exponential" THEN {RetryInterval}
    ELSE {i \in 0..MaxRetryInterval :
            \E d \in ((4 * RetryInterval) \div 5)..((6 * RetryInterval) \div 5) :
               LET wanted == MinRetryInterval + (2^context.count - 1) * d
               IN  i = IF wanted < MaxRetryInterval THEN wanted ELSE MaxRetryInterval}

BuiltIn == request.policy \in {"linear", "exponential"}

(* _shouldRetryOnError on the retry context c; code is the status given.    *)
ShouldRetryOnError(code, c) ==
    CASE code = "notImplemented" -> [c EXCEPT !.retryable = FALSE]
      [] code = "precondition" /\ request.absorb -> [c EXCEPT !.retryable = c.serverError]
      [] code = "serverError" /\ request.absorb ->
            [c EXCEPT !.retryable = TRUE, !.serverError = TRUE]
      [] code \in ClientErrors \cup WithoutResponse /\ ~request.absorb ->
            [c EXCEPT !.retryable = FALSE]
      [] OTHER -> c

(* Plausible bug: every client error is absorbed.                           *)
IgnoredClientError(code, c) ==
    BuiltIn /\ request.absorb /\ code \in ClientErrors /\ c.serverError

(* retryInfo.ignore: the failure of a conditional append is absorbed.       *)
Ignored(code, c) ==
    BuiltIn /\ request.absorb /\ code = "precondition" /\ c.serverError

(* secondaryNotFound.                                                       *)
SecondaryMiss(response) ==
    location = "SECONDARY" /\ response \in {"notFound", "ENOTFOUND"}

(* Plausible bug: off by one.                                               *)
RetriesLeftOneMore == context.count # 0 => context.count <= RetryCount + 1

(* notExceedMaxRetryCount.                                                  *)
RetriesLeft == context.count # 0 => context.count <= RetryCount

(* shouldRetry after the answer response: the retryInfo.  A custom policy   *)
(* returns a new object that holds retryable (free here) and the interval.  *)
RetryInfo(response, free) ==
    LET code == IF SecondaryMiss(response) THEN "serverError" ELSE response
    IN  IF BuiltIn THEN ShouldRetryOnError(code, context)
        ELSE [context EXCEPT !.retryable = free, !.target = None, !.mode = None]

(* The part of the condition of the retry that the policy decides.          *)
MayResend(response, info) ==
    /\ request.policy # "none"
    /\ response \notin {"ok", "corrupt"} /\ RetriesLeft
    /\ response = "reset" \/ (info.retryable /\ response \notin WithoutResponse)

(* Plausible bug: outputStreamSent is not considered.                       *)
WouldRetryStream(response, info) ==
    MayResend(response, info) /\ ~Ignored(response, context)

(* The condition of the retry.                                              *)
WouldRetry(response, info) ==
    MayResend(response, info) /\ ~Ignored(response, context) /\ ~sent'
-----------------------------------------------------------------------------
(* _performRequest was called: the location and the expiry time are set and *)
(* the filter started the timer with no delay.                              *)
Init ==
    /\ request \in Requests
    /\ phase = "sleeping" /\ now = 0 /\ wake = 0
    /\ locationMode = request.mode
    /\ location = InitialLocation(request.mode)
    /\ context = [count |-> 0, retryable |-> FALSE, serverError |-> FALSE,
                  target |-> None, mode |-> request.mode]
    /\ last = [l \in Locations |-> Never]
    /\ sent = FALSE /\ chunks = 0
    /\ server = 0 /\ attempts = <<>> /\ answers = <<>>
-----------------------------------------------------------------------------
(* The steps of the pipeline.                                               *)

(* The caller's callback is called: the other filters pass the answer on.   *)
Answer(outcome) == answers' = Append(answers, outcome)

(* Plausible bug: a request to the secondary only is sent to the primary.   *)
LeavesAnyway(response) == SecondaryMiss(response)

(* A miss of the secondary makes the following retries go to the primary.   *)
Leaves(response) == SecondaryMiss(response) /\ locationMode # "SECONDARY_ONLY"

(* retryInfo.targetLocation, which the built-in policies keep.              *)
Target(info) ==
    IF info.target # None THEN info.target ELSE NextLocation(location, locationMode)
RetryTarget(response, info) == IF Leaves(response) THEN "PRIMARY" ELSE Target(info)

(* Plausible bug: only the next retry goes to the primary.                  *)
RetryModeKept(response, info) ==
    IF info.mode # None THEN info.mode ELSE locationMode

(* Plausible bug: a mode the policy does not give is taken, too.            *)
RetryModeOfPolicy(response, info) ==
    IF Leaves(response) THEN "PRIMARY_ONLY" ELSE info.mode

(* retryInfo.locationMode.                                                  *)
RetryMode(response, info) ==
    IF Leaves(response) THEN "PRIMARY_ONLY"
    ELSE IF info.mode # None THEN info.mode ELSE locationMode

(* Plausible bug: the attempt at the other location is looked at.           *)
DelayFromOther(target, interval) ==
    LET other == IF target = "PRIMARY" THEN "SECONDARY" ELSE "PRIMARY"
    IN  IF last'[other] = Never THEN 0 ELSE interval - (now' - last'[other])

(* retryRequestOptions.retryInterval: what is left of the interval since    *)
(* the last attempt at the target.                                          *)
Delay(target, interval) ==
    IF last'[target] = Never THEN 0 ELSE interval - (now' - last'[target])

(* The retry context after an answer.                                       *)
Counted(info, target, mode) ==
    IF BuiltIn THEN [info EXCEPT !.count = context.count + 1,
                                 !.target = target, !.mode = mode]
    ELSE [context EXCEPT !.count = @ + 1]

(* The retry filter resends, unless there is no time left.                  *)
Resend(response, info, interval) ==
    LET target == RetryTarget(response, info)
        mode == RetryMode(response, info)
        delay == Delay(target, interval)
    IN  /\ last' = [last EXCEPT ![location] = now']
        /\ locationMode' = mode /\ location' = target
        /\ context' = Counted(info, target, mode)
        /\ IF Exceeded(now' + delay)
           THEN phase' = "done" /\ Answer("timeout") /\ UNCHANGED wake
           ELSE /\ phase' = "sleeping" /\ UNCHANGED answers
                /\ wake' = now' + IF delay > 0 THEN delay ELSE 0

(* The attempt that was answered; a stream that is collected has none yet.  *)
Ended(response, interval) ==
    [n \in DOMAIN attempts |->
        IF n # Len(attempts) \/ phase = "collecting" THEN attempts[n]
        ELSE [attempts[n] EXCEPT !.end = now', !.gap = interval, !.response = response]]

(* The callback of the request comes back through the filter; after is the  *)
(* phase of the pipeline when it does not retry.                            *)
Returned(response, after) ==
    \E free \in BOOLEAN, interval \in Intervals :
       LET info == RetryInfo(response, free)
       IN  /\ request.policy = "custom" \/ ~free
           /\ attempts' = Ended(response, interval)
           /\ IF WouldRetry(response, info) THEN Resend(response, info, interval)
              ELSE /\ phase' = after
                   /\ Answer(IF response = "ok" \/ Ignored(response, context) THEN "success"
                             ELSE IF response = "expired" THEN "timeout" ELSE "failure")
                   /\ context' = Counted(info, Target(info), info.mode)
                   /\ UNCHANGED <<locationMode, location, last, wake>>

(* The request is sent.                                                     *)
Started(at) == Append(attempts, [location |-> at, start |-> now', end |-> Never,
                                  gap |-> 0, response |-> None])

SendBuffer(at) ==
    /\ request.body = "buffer"
    /\ phase' = "inFlight" /\ attempts' = Started(at)
    /\ UNCHANGED sent

(* A stream that was consumed is not readable: its 'open' is awaited.       *)
SendStream(at) ==
    /\ request.body # "buffer"
    /\ phase' = IF sent THEN "awaitOpen"
                ELSE IF request.body = "piped" THEN "inFlight" ELSE "collecting"
    /\ attempts' = IF phase' = "inFlight" THEN Started(at) ELSE attempts
    /\ sent' = (sent \/ request.body = "piped")

(* Plausible bug: the time is checked before the timer is started only.     *)
TooLateNever == FALSE

(* The check before a request is sent.                                      *)
TooLate == Exceeded(now')

(* operation of _performRequest, called when the timer fires.  The request  *)
(* is built and signed anew and the time is checked again.                  *)
Operation ==
    /\ phase = "sleeping"
    /\ \E late \in Lateness :
          now' = IF request.policy = "none" THEN now ELSE wake + late
    /\ IF LocationInvalid(locationMode)
       THEN phase' = "thrown" /\ UNCHANGED <<locationMode, location, sent, attempts, answers>>
       ELSE LET valid == ValidLocation(location, locationMode)
            IN  /\ location' = valid[1] /\ locationMode' = valid[2]
                /\ IF TooLate
                   THEN phase' = "done" /\ Answer("timeout") /\ UNCHANGED <<sent, attempts>>
                   ELSE /\ SendBuffer(valid[1]) \/ SendStream(valid[1])
                        /\ UNCHANGED answers
    /\ UNCHANGED <<request, wake, context, last, chunks, server>>

(* 'data' of a stream that is collected.                                    *)
StreamData ==
    /\ phase = "collecting" /\ chunks < MaxChunks
    /\ chunks' = chunks + 1
    /\ sent' = TRUE
    /\ \E latency \in Latencies : now' = now + latency
    /\ IF Exceeded(now') THEN Returned("expired", "collecting")
       ELSE UNCHANGED <<phase, wake, locationMode, location, context, last, attempts, answers>>
    /\ UNCHANGED <<request, server>>

(* 'end' of a stream that is collected: the request is built and sent.      *)
StreamEnd ==
    /\ phase = "collecting"
    /\ phase' = "inFlight"
    /\ now' = now
    /\ attempts' = Started(location)
    /\ UNCHANGED <<request, wake, locationMode, location, context, last, sent,
                   chunks, server, answers>>

(* 'error' of an output stream.  A request it is piped to is left waiting.  *)
StreamFails ==
    /\ phase = "collecting" \/ (phase = "inFlight" /\ request.body = "piped" /\ answers = <<>>)
    /\ now' = now /\ sent' = sent
    /\ Returned("ENOTFOUND", IF phase = "collecting" THEN "done" ELSE "inFlight")
    /\ UNCHANGED <<request, chunks, server>>

(* External: what the service may answer, and whether it stores the body.   *)
Possible(response, stored) ==
    /\ response # "expired"
    /\ stored => /\ request.write
                 /\ response \in {"ok", "serverError", "timedOut", "reset"}
                 /\ request.conditional => server = 0
    /\ response = "ok" /\ request.write => stored
    /\ response \in {"corrupt", "garbled"} => ~request.write
    /\ response = "precondition" => request.conditional /\ server > 0

(* The answer of the service, processResponseCallback.                      *)
Respond ==
    /\ phase = "inFlight"
    /\ \E latency \in Latencies : now' = now + latency
    /\ sent' = sent
    /\ \E response \in Responses, stored \in BOOLEAN :
          /\ Possible(response, stored)
          /\ server' = server + IF stored THEN 1 ELSE 0
          /\ Returned(response, "done")
    /\ UNCHANGED <<request, chunks>>

(* The program is done, failed, or waits for an event that does not come.   *)
Stopped ==
    /\ phase \in {"done", "thrown", "awaitOpen"}
    /\ UNCHANGED vars

Next == \/ Operation \/ StreamData \/ StreamEnd \/ StreamFails
        \/ Respond \/ Stopped

Spec == Init /\ [][Next]_vars

(* Timers fire, requests are answered or time out, streams end or fail.     *)
FairSpec == Spec /\ WF_vars(Next)
-----------------------------------------------------------------------------
TypeOK ==
    /\ request \in Request /\ phase \in Phases
    /\ now \in Nat /\ wake \in Nat
    /\ locationMode \in LocationModes /\ location \in Locations
    /\ context \in Context
    /\ last \in [Locations -> Nat \cup {Never}]
    /\ sent \in BOOLEAN /\ chunks \in Nat /\ server \in Nat
    /\ attempts \in Seq(Attempt)
    /\ answers \in Seq({"success", "failure", "timeout"})

(* Retries end, whatever the policy says and the service answers: since the *)
(* counter is read before it is incremented, and is 0 at the first failure, *)
(* there is at most one retry more than retryCount.                         *)
AttemptsBounded == Len(attempts) <= RetryCount + 2

(* Whatever combination of location modes the options, the kind of request  *)
(* and the filter's changes of mode produce, a request is only sent to a    *)
(* location that both its options and its kind allow.                       *)
Allowed(mode) ==
    CASE mode = "PRIMARY_ONLY" -> {"PRIMARY"}
      [] mode = "SECONDARY_ONLY" -> {"SECONDARY"}
      [] OTHER -> Locations
AllowedLocations ==
    \A n \in 1..Len(attempts) :
        attempts[n].location \in Allowed(request.mode) \cap Allowed(request.where)

(* _validateLocation throws, if at all, before anything is sent: no retry   *)
(* ends in an exception thrown from a timer that leaves the caller waiting. *)
NoLateThrow == phase = "thrown" => attempts = <<>>

(* "how long two requests to the same location should be apart from each    *)
(* other": the interval the policy returned after a failure separates the   *)
(* next attempt from every earlier one at the same location, although the   *)
(* time that passed since is subtracted and the locations may alternate.    *)
Spaced ==
    \A m, n \in 1..Len(attempts) :
        m < n /\ attempts[m].location = attempts[n].location =>
            attempts[n].start - attempts[m].end >= attempts[n - 1].gap

(* "further requests should be sent only to the primary location" after a   *)
(* secondary answered 404, when the options and the kind of request allow   *)
(* it, for all the retries that follow.                                     *)
Missed(n) ==
    /\ attempts[n].location = "SECONDARY"
    /\ attempts[n].response \in {"notFound", "ENOTFOUND"}
PrimaryAllowed == "PRIMARY" \in Allowed(request.mode) \cap Allowed(request.where)
LeavesSecondary ==
    \A m, n \in 1..Len(attempts) :
        m < n /\ Missed(m) /\ PrimaryAllowed => attempts[n].location = "PRIMARY"

(* "The client retry count": a request is sent again at most retryCount     *)
(* times.                                                                   *)
RetryCountKept == Len(attempts) <= RetryCount + 1

(* "in case of 404 only in the secondary location, the failure should still *)
(* be retryable": it is not reported while retries are left.                *)
SecondaryMissRetried ==
    LET tried == Len(attempts)
    IN  /\ answers = <<"failure">> /\ PrimaryAllowed
        /\ Missed(tried) /\ attempts[tried].response = "notFound"
        => tried > RetryCount

(* "calculate based on the previous location and locationMode": with a mode *)
(* of two locations a retry goes to the location not tried last.            *)
LocationsAlternate ==
    Allowed(request.mode) = Locations /\ Allowed(request.where) = Locations =>
        \A n \in 2..Len(attempts) :
            \/ \E m \in 1..(n - 1) : Missed(m)
            \/ attempts[n].location # attempts[n - 1].location

(* No request is sent after the maximum execution time; a stream that is    *)
(* collected is not checked again when it ends.                             *)
NotAfterExpiry ==
    request.expires /\ request.body # "collected" =>
        \A n \in 1..Len(attempts) : attempts[n].start <= ExecutionTime

(* A conditional append that is reported as a success was stored, once, by  *)
(* one of the attempts, although a failed condition counts as a success     *)
(* after a server error and attempts whose answer was lost may have stored  *)
(* the block.  (There is no other writer, which the option asks for.)       *)
SuccessMeansStored ==
    request.conditional /\ (\E n \in 1..Len(answers) : answers[n] = "success")
        => server = 1

(* The caller of every request hears of it: no retry waits for a stream     *)
(* that was consumed, no timeout is swallowed.                              *)
Answered == <>(answers # <<>> \/ phase = "thrown")

(* "`error` will contain information if an error occurs; otherwise" the     *)
(* result: the callback is called once.                                     *)
AnsweredOnce == Len(answers) <= 1
=============================================================================
