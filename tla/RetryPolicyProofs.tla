------------------------- MODULE RetryPolicyProofs -------------------------
(***************************************************************************)
(* Proofs about RetryPolicy for every set of requests, every retry count   *)
(* and interval, every latency and every stream: the types, the number of  *)
(* attempts, the maximum execution time and the locations.                 *)
(***************************************************************************)
EXTENDS RetryPolicy, TLAPS

-----------------------------------------------------------------------------
(* The intervals of every policy are natural numbers.                       *)
LEMMA IntervalsNat == ASSUME NEW i \in Intervals PROVE i \in Nat
<1>1. CASE request.policy # "exponential"
  BY <1>1, RetryAssumption DEF Intervals
<1>2. CASE request.policy = "exponential"
  <2>1. i \in 0..MaxRetryInterval
    BY <1>2 DEF Intervals
  <2>2. QED BY <2>1, RetryAssumption
<1>3. QED BY <1>1, <1>2

(* The attempts stay attempts when the last one is answered.                *)
LEMMA EndedType ==
    ASSUME attempts \in Seq(Attempt), now' \in Nat,
           NEW response \in Responses, NEW interval \in Nat
    PROVE  /\ Ended(response, interval) \in Seq(Attempt)
           /\ Len(Ended(response, interval)) = Len(attempts)
           /\ \A n \in 1..Len(attempts) :
                 /\ Ended(response, interval)[n].start = attempts[n].start
                 /\ Ended(response, interval)[n].location = attempts[n].location
<1> DEFINE e == Ended(response, interval)
<1>1. DOMAIN attempts = 1..Len(attempts) /\ Len(attempts) \in Nat
  OBVIOUS
<1>2. \A n \in 1..Len(attempts) : attempts[n] \in Attempt
  OBVIOUS
<1>3. \A n \in 1..Len(attempts) :
         /\ e[n] \in Attempt
         /\ e[n].start = attempts[n].start /\ e[n].location = attempts[n].location
  BY <1>1, <1>2 DEF Ended, Attempt
<1>4. e = [n \in 1..Len(attempts) |-> e[n]]
  BY <1>1 DEF Ended
<1>5. e \in Seq(Attempt) /\ Len(e) = Len(attempts)
  BY <1>1, <1>3, <1>4
<1>6. QED BY <1>3, <1>5

(* A request that is started is appended to the attempts.                   *)
LEMMA StartedType ==
    ASSUME attempts \in Seq(Attempt), now' \in Nat, NEW at \in Locations
    PROVE  /\ Started(at) \in Seq(Attempt)
           /\ Len(Started(at)) = Len(attempts) + 1
           /\ \A n \in 1..Len(attempts) : Started(at)[n] = attempts[n]
           /\ Started(at)[Len(attempts) + 1].start = now'
           /\ Started(at)[Len(attempts) + 1].location = at
<1> DEFINE a == [location |-> at, start |-> now', end |-> Never, gap |-> 0,
                 response |-> None]
<1>1. a \in Attempt
  BY DEF Attempt
<1>2. Started(at) = Append(attempts, a)
  BY DEF Started
<1>3. QED BY <1>1, <1>2

(* The retryInfo is a retry context, with or without target and mode.       *)
LEMMA RetryInfoType ==
    ASSUME context \in Context, NEW response \in Responses, NEW free \in BOOLEAN
    PROVE  /\ RetryInfo(response, free) \in Context
           /\ RetryInfo(response, free).count = context.count
           /\ RetryInfo(response, free).target \in {context.target, None}
           /\ RetryInfo(response, free).mode \in {context.mode, None}
           /\ BuiltIn => /\ RetryInfo(response, free).target = context.target
                         /\ RetryInfo(response, free).mode = context.mode
<1>1. CASE BuiltIn
  BY <1>1 DEF RetryInfo, ShouldRetryOnError, Context
<1>2. CASE ~BuiltIn
  BY <1>2 DEF RetryInfo, Context
<1>3. QED BY <1>1, <1>2

(* What the filter does to the state when an answer comes back.             *)
LEMMA ReturnedType ==
    ASSUME TypeOK, now' \in Nat,
           NEW response \in Responses, NEW after \in Phases, Returned(response, after)
    PROVE  /\ phase' \in Phases /\ wake' \in Nat
           /\ locationMode' \in LocationModes /\ location' \in Locations
           /\ context' \in Context
           /\ last' \in [Locations -> Nat \cup {Never}]
           /\ attempts' \in Seq(Attempt)
           /\ answers' \in Seq({"success", "failure", "timeout"})
           /\ Len(attempts') = Len(attempts)
           /\ \A n \in 1..Len(attempts) :
                 /\ attempts'[n].start = attempts[n].start
                 /\ attempts'[n].location = attempts[n].location
           /\ context'.count = context.count + 1
           /\ phase' \in {after, "sleeping", "done"}
           /\ phase' = "sleeping" /\ after # "sleeping" => RetriesLeft
<1>1. PICK free \in BOOLEAN, interval \in Intervals :
         /\ attempts' = Ended(response, interval)
         /\ IF WouldRetry(response, RetryInfo(response, free))
            THEN Resend(response, RetryInfo(response, free), interval)
            ELSE /\ phase' = after
                 /\ Answer(IF response = "ok" \/ Ignored(response, context) THEN "success"
                           ELSE IF response = "expired" THEN "timeout" ELSE "failure")
                 /\ context' = Counted(RetryInfo(response, free), Target(RetryInfo(response, free)),
                                       RetryInfo(response, free).mode)
                 /\ UNCHANGED <<locationMode, location, last, wake>>
  BY DEF Returned
<1> DEFINE info == RetryInfo(response, free)
           target == RetryTarget(response, info)
           mode == RetryMode(response, info)
<1> HIDE DEF info
<1>2. interval \in Nat
  BY IntervalsNat
<1>3. attempts \in Seq(Attempt) /\ context \in Context
  BY DEF TypeOK
<1>4. /\ info \in Context /\ info.count = context.count
      /\ info.target \in {context.target, None}
      /\ info.mode \in {context.mode, None}
  BY <1>3, RetryInfoType DEF info
<1>5. /\ attempts' \in Seq(Attempt) /\ Len(attempts') = Len(attempts)
      /\ \A n \in 1..Len(attempts) :
            /\ attempts'[n].start = attempts[n].start
            /\ attempts'[n].location = attempts[n].location
  BY <1>1, <1>2, <1>3, EndedType
<1>6. Target(info) \in Locations
  BY <1>3, <1>4 DEF Target, NextLocation, Context, Locations
<1>7. target \in Locations /\ mode \in LocationModes
  BY <1>4, <1>6 DEF RetryTarget, RetryMode, TypeOK, Locations, LocationModes, Context
<1>8. \A t \in Locations, m \in LocationModes \cup {None} :
         /\ Counted(info, t, m) \in Context
         /\ Counted(info, t, m).count = context.count + 1
  <2>1. context.count \in Nat
    BY <1>3 DEF Context
  <2>2. CASE BuiltIn
    <3> SUFFICES ASSUME NEW t \in Locations, NEW m \in LocationModes \cup {None}
                 PROVE  /\ Counted(info, t, m) \in Context
                        /\ Counted(info, t, m).count = context.count + 1
      OBVIOUS
    <3> DEFINE counted == [info EXCEPT !.count = context.count + 1]
               aimed == [counted EXCEPT !.target = t]
               result == [aimed EXCEPT !.mode = m]
    <3>1. counted \in Context /\ counted.count = context.count + 1
      BY <1>4, <2>1 DEF Context
    <3>2. aimed \in Context /\ aimed.count = context.count + 1
      BY <3>1 DEF Context
    <3>3. result \in Context /\ result.count = context.count + 1
      BY <3>2 DEF Context
    <3>4. Counted(info, t, m) = result
      BY <2>2 DEF Counted
    <3>5. QED BY <3>3, <3>4
  <2>3. CASE ~BuiltIn
    <3>1. \A t, m : Counted(info, t, m) = [context EXCEPT !.count = context.count + 1]
      BY <2>3 DEF Counted
    <3>2. QED BY <1>3, <2>1, <3>1 DEF Context
  <2>4. QED BY <2>2, <2>3
<1>9. CASE WouldRetry(response, info)
  <2>1. Resend(response, info, interval) /\ RetriesLeft
    BY <1>1, <1>9 DEF WouldRetry, MayResend, info
  <2>2. last' \in [Locations -> Nat \cup {Never}]
    BY <2>1 DEF Resend, TypeOK
  <2>3. Delay(target, interval) \in Int
    BY <2>2, <1>2, <1>7 DEF Delay, Never
  <2>4. wake' \in Nat
    BY <2>1, <2>3 DEF Resend, TypeOK
  <2>5. phase' \in {"done", "sleeping"} /\ answers' \in Seq({"success", "failure", "timeout"})
    <3>1. answers \in Seq({"success", "failure", "timeout"})
      BY DEF TypeOK
    <3>2. \/ phase' = "done" /\ answers' = Append(answers, "timeout")
          \/ phase' = "sleeping" /\ answers' = answers
      BY <2>1 DEF Resend, Answer
    <3>3. QED BY <3>1, <3>2
  <2>6. locationMode' = mode /\ location' = target /\ context' = Counted(info, target, mode)
    BY <2>1 DEF Resend
  <2>7. QED
    BY <1>5, <1>7, <1>8, <2>1, <2>2, <2>4, <2>5, <2>6 DEF Phases
<1>10. CASE ~WouldRetry(response, info)
  <2>1. /\ phase' = after /\ context' = Counted(info, Target(info), info.mode)
        /\ UNCHANGED <<locationMode, location, last, wake>>
        /\ \E outcome \in {"success", "failure", "timeout"} : Answer(outcome)
    BY <1>1, <1>10 DEF info
  <2>2. answers' \in Seq({"success", "failure", "timeout"})
    BY <2>1 DEF Answer, TypeOK
  <2>3. info.mode \in LocationModes \cup {None}
    BY <1>4 DEF Context
  <2>4. QED
    BY <1>5, <1>6, <1>8, <2>1, <2>2, <2>3 DEF TypeOK
<1>11. QED BY <1>9, <1>10
-----------------------------------------------------------------------------
(* Time passes: it is a natural number after every step.                    *)
LEMMA NowNat == ASSUME TypeOK, [Next]_vars PROVE now' \in Nat
<1>1. now \in Nat /\ wake \in Nat /\ Lateness \subseteq Nat /\ Latencies \subseteq Nat
  BY RetryAssumption DEF TypeOK
<1>2. CASE Operation
  BY <1>1, <1>2 DEF Operation
<1>3. CASE StreamData
  BY <1>1, <1>3 DEF StreamData
<1>4. CASE Respond
  BY <1>1, <1>4 DEF Respond
<1>5. CASE StreamEnd \/ StreamFails \/ Stopped \/ UNCHANGED vars
  BY <1>1, <1>5 DEF StreamEnd, StreamFails, Stopped, vars
<1>6. QED BY <1>2, <1>3, <1>4, <1>5 DEF Next

(* The request does not change.                                             *)
LEMMA SameRequest == ASSUME [Next]_vars PROVE request' = request
BY DEF Next, vars, Operation, StreamData, StreamEnd, StreamFails, Respond, Stopped

(* The forms a request is sent in: at once, or when its stream has ended.   *)
LEMMA OperationForms ==
    ASSUME TypeOK, Operation, now' \in Nat
    PROVE  /\ location' \in Locations /\ locationMode' \in LocationModes
           /\ answers' \in Seq({"success", "failure", "timeout"})
           /\ sent' \in BOOLEAN
           /\ \/ phase' = "thrown" /\ UNCHANGED <<locationMode, location, attempts>>
              \/ phase' = "done" /\ UNCHANGED attempts
              \/ phase' = "awaitOpen" /\ UNCHANGED attempts
              \/ phase' = "collecting" /\ UNCHANGED attempts /\ request.body = "collected"
              \/ /\ phase' = "inFlight" /\ attempts' = Started(location')
                 /\ ~Exceeded(now')
<1>1. CASE LocationInvalid(locationMode)
  BY <1>1 DEF Operation, TypeOK
<1>2. CASE ~LocationInvalid(locationMode)
  <2> DEFINE valid == ValidLocation(location, locationMode)
  <2>1. valid[1] \in Locations /\ valid[2] \in LocationModes
    BY DEF ValidLocation, ForcedLocation, TypeOK, Locations, LocationModes
  <2>2. location' = valid[1] /\ locationMode' = valid[2]
    BY <1>2 DEF Operation
  <2>3. CASE Exceeded(now')
    BY <1>2, <2>1, <2>2, <2>3 DEF Operation, TooLate, Answer, TypeOK
  <2>4. CASE ~Exceeded(now')
    <3>1. answers' = answers /\ (SendBuffer(valid[1]) \/ SendStream(valid[1]))
      BY <1>2, <2>4 DEF Operation, TooLate
    <3>2. request.body \in {"buffer", "piped", "collected"}
      BY DEF TypeOK, Request
    <3>3. CASE SendBuffer(valid[1])
      BY <2>1, <2>2, <2>4, <3>1, <3>3 DEF SendBuffer, TypeOK
    <3>4. CASE SendStream(valid[1])
      BY <2>1, <2>2, <2>4, <3>1, <3>2, <3>4 DEF SendStream, TypeOK
    <3>5. QED BY <3>1, <3>3, <3>4
  <2>5. QED BY <2>3, <2>4
<1>3. QED BY <1>1, <1>2

(* Type correctness.                                                        *)
THEOREM TypeCorrect == Spec => []TypeOK
<1>1. Init => TypeOK
  <2> SUFFICES ASSUME Init PROVE TypeOK
    OBVIOUS
  <2>1. request \in Request /\ request.mode \in LocationModes
    BY RetryAssumption DEF Init, Request
  <2>2. location \in Locations /\ locationMode \in LocationModes
    BY <2>1 DEF Init, InitialLocation, Locations
  <2>3. context \in Context
    BY <2>1 DEF Init, Context
  <2>4. attempts \in Seq(Attempt) /\ answers \in Seq({"success", "failure", "timeout"})
    BY DEF Init
  <2>5. last \in [Locations -> Nat \cup {Never}]
    BY DEF Init
  <2>6. QED BY <2>1, <2>2, <2>3, <2>4, <2>5 DEF Init, TypeOK, Phases
<1>2. TypeOK /\ [Next]_vars => TypeOK'
  <2> SUFFICES ASSUME TypeOK, [Next]_vars PROVE TypeOK'
    OBVIOUS
  <2>1. now' \in Nat /\ request' = request
    BY NowNat, SameRequest
  <2>2. /\ request' \in Request
        /\ attempts \in Seq(Attempt) /\ chunks \in Nat /\ server \in Nat
    BY <2>1 DEF TypeOK
  <2>3. CASE Operation
    <3>1. phase' \in Phases /\ attempts' \in Seq(Attempt)
      BY <2>1, <2>2, <2>3, OperationForms, StartedType DEF Phases
    <3>2. QED BY <2>1, <2>2, <2>3, <3>1, OperationForms DEF Operation, TypeOK
  <2>4. CASE StreamData
    <3>1. /\ chunks' = chunks + 1 /\ sent' = TRUE /\ UNCHANGED server
      BY <2>4 DEF StreamData
    <3>2. CASE Exceeded(now')
      BY <2>1, <2>2, <2>4, <3>1, <3>2, ReturnedType
         DEF StreamData, TypeOK, Phases, Responses, WithoutResponse
    <3>3. CASE ~Exceeded(now')
      BY <2>1, <2>2, <2>4, <3>1, <3>3 DEF StreamData, TypeOK
    <3>4. QED BY <3>2, <3>3
  <2>5. CASE StreamEnd
    <3>1. attempts' \in Seq(Attempt)
      BY <2>1, <2>2, <2>5, StartedType DEF StreamEnd, TypeOK
    <3>2. QED BY <2>1, <2>2, <2>5, <3>1 DEF StreamEnd, TypeOK, Phases
  <2>6. CASE StreamFails
    <3>1. \E after \in Phases : Returned("ENOTFOUND", after)
      BY <2>6 DEF StreamFails, Phases
    <3>2. UNCHANGED <<sent, chunks, server>>
      BY <2>6 DEF StreamFails
    <3>3. QED
      BY <2>1, <2>2, <3>1, <3>2, ReturnedType DEF TypeOK, Responses, WithoutResponse
  <2>7. CASE Respond
    <3>1. \E response \in Responses : Returned(response, "done")
      BY <2>7 DEF Respond
    <3>2. server' \in Nat /\ UNCHANGED <<sent, chunks>>
      BY <2>2, <2>7 DEF Respond
    <3>3. QED BY <2>1, <2>2, <3>1, <3>2, ReturnedType DEF TypeOK, Phases
  <2>8. CASE Stopped \/ UNCHANGED vars
    BY <2>8 DEF Stopped, vars, TypeOK
  <2>9. QED BY <2>3, <2>4, <2>5, <2>6, <2>7, <2>8 DEF Next
<1>3. QED BY <1>1, <1>2, PTL DEF Spec
-----------------------------------------------------------------------------
(* The number of attempts.  The counter grows with every answer, and a      *)
(* retry needs it to be at most retryCount; while a stream is collected the *)
(* counter may grow without a retry, and then there is none.                *)
CountInv ==
    /\ AttemptsBounded
    /\ phase \in {"sleeping", "collecting"} =>
          Len(attempts) <= RetryCount + 1 /\ Len(attempts) <= context.count
    /\ phase = "sleeping" => context.count <= RetryCount + 1
    /\ phase = "inFlight" => Len(attempts) <= context.count + 1

(* An answer keeps the count.                                               *)
LEMMA ReturnedCount ==
    ASSUME TypeOK, CountInv, now' \in Nat, phase \in {"inFlight", "collecting"},
           NEW response \in Responses, NEW after \in {"inFlight", "collecting", "done"},
           after = phase \/ after = "done", Returned(response, after)
    PROVE  CountInv'
<1>1. context.count \in Nat /\ Len(attempts) \in Nat /\ RetryCount \in Nat \ {0}
  BY RetryAssumption DEF TypeOK, Context
<1>2. /\ Len(attempts') = Len(attempts) /\ context'.count = context.count + 1
      /\ phase' \in {after, "sleeping", "done"}
      /\ phase' = "sleeping" => RetriesLeft
  BY ReturnedType DEF Phases
<1>3. Len(attempts) <= context.count + 1 /\ Len(attempts) <= RetryCount + 2
  BY <1>1 DEF CountInv, AttemptsBounded
<1>4. CASE phase' = "sleeping"
  <2>1. context.count <= RetryCount
    BY <1>1, <1>2, <1>4 DEF RetriesLeft
  <2>2. QED BY <1>1, <1>2, <1>3, <1>4, <2>1 DEF CountInv, AttemptsBounded
<1>5. CASE phase' = "done"
  BY <1>2, <1>3, <1>5 DEF CountInv, AttemptsBounded
<1>6. CASE phase' = phase /\ phase' = after
  BY <1>1, <1>2, <1>6 DEF CountInv, AttemptsBounded
<1>7. QED BY <1>2, <1>4, <1>5, <1>6

(* A request is sent at most retryCount + 2 times.                          *)
THEOREM BoundedAttempts == Spec => []AttemptsBounded
<1>1. Init => CountInv
  BY RetryAssumption DEF Init, CountInv, AttemptsBounded
<1>2. TypeOK /\ CountInv /\ [Next]_vars => CountInv'
  <2> SUFFICES ASSUME TypeOK, CountInv, [Next]_vars PROVE CountInv'
    OBVIOUS
  <2>1. now' \in Nat /\ RetryCount \in Nat /\ context.count \in Nat /\ Len(attempts) \in Nat
    BY NowNat, RetryAssumption DEF TypeOK, Context
  <2>2. CASE Operation
    <3>1. phase = "sleeping" /\ context' = context
      BY <2>2 DEF Operation
    <3>2. \/ attempts' = attempts /\ phase' \in {"thrown", "done", "awaitOpen", "collecting"}
          \/ phase' = "inFlight" /\ Len(attempts') = Len(attempts) + 1
      BY <2>1, <2>2, OperationForms, StartedType DEF TypeOK
    <3>3. QED BY <2>1, <3>1, <3>2 DEF CountInv, AttemptsBounded
  <2>3. CASE StreamData
    <3>1. CASE Exceeded(now')
      BY <2>1, <2>3, <3>1, ReturnedCount DEF StreamData, Responses, WithoutResponse
    <3>2. CASE ~Exceeded(now')
      BY <2>3, <3>2 DEF StreamData, CountInv, AttemptsBounded
    <3>3. QED BY <3>1, <3>2
  <2>4. CASE StreamEnd
    <3>1. Len(attempts') = Len(attempts) + 1
      BY <2>1, <2>4, StartedType DEF StreamEnd, TypeOK
    <3>2. QED BY <2>1, <2>4, <3>1 DEF StreamEnd, CountInv, AttemptsBounded
  <2>5. CASE StreamFails
    <3>1. \E after \in {"done", "inFlight"} :
             /\ after = phase \/ after = "done"
             /\ Returned("ENOTFOUND", after)
      BY <2>5 DEF StreamFails
    <3>2. phase \in {"collecting", "inFlight"}
      BY <2>5 DEF StreamFails
    <3>3. QED BY <2>1, <3>1, <3>2, ReturnedCount DEF Responses, WithoutResponse
  <2>6. CASE Respond
    <3>1. phase = "inFlight" /\ \E response \in Responses : Returned(response, "done")
      BY <2>6 DEF Respond
    <3>2. QED BY <2>1, <3>1, ReturnedCount
  <2>7. CASE Stopped \/ UNCHANGED vars
    BY <2>7 DEF Stopped, vars, CountInv, AttemptsBounded
  <2>8. QED BY <2>2, <2>3, <2>4, <2>5, <2>6, <2>7 DEF Next
<1>3. CountInv => AttemptsBounded
  BY DEF CountInv
<1>4. QED BY <1>1, <1>2, <1>3, TypeCorrect, PTL DEF Spec
-----------------------------------------------------------------------------
(* The maximum execution time.                                              *)
ExpiryInv ==
    /\ NotAfterExpiry
    /\ phase = "collecting" => request.body = "collected"

(* An answer keeps the starts of the attempts.                              *)
LEMMA ReturnedExpiry ==
    ASSUME TypeOK, ExpiryInv, now' \in Nat, request' = request,
           NEW response \in Responses, NEW after \in {"inFlight", "collecting", "done"},
           after = "collecting" => phase = "collecting", Returned(response, after)
    PROVE  ExpiryInv'
<1>1. /\ Len(attempts') = Len(attempts)
      /\ \A n \in 1..Len(attempts) : attempts'[n].start = attempts[n].start
      /\ phase' \in {after, "sleeping", "done"}
  BY ReturnedType DEF Phases
<1>2. QED BY <1>1 DEF ExpiryInv, NotAfterExpiry

(* No request but one whose stream is collected is sent too late.           *)
THEOREM InTime == Spec => []NotAfterExpiry
<1>1. Init => ExpiryInv
  BY DEF Init, ExpiryInv, NotAfterExpiry
<1>2. TypeOK /\ ExpiryInv /\ [Next]_vars => ExpiryInv'
  <2> SUFFICES ASSUME TypeOK, ExpiryInv, [Next]_vars PROVE ExpiryInv'
    OBVIOUS
  <2>1. now' \in Nat /\ request' = request /\ attempts \in Seq(Attempt)
    BY NowNat, SameRequest DEF TypeOK
  <2>2. CASE Operation
    <3>1. CASE UNCHANGED attempts
      BY <2>1, <2>2, <3>1, OperationForms DEF ExpiryInv, NotAfterExpiry
    <3>2. CASE phase' = "inFlight" /\ attempts' = Started(location') /\ ~Exceeded(now')
      <4>1. location' \in Locations
        BY <2>1, <2>2, OperationForms
      <4>2. /\ Len(attempts') = Len(attempts) + 1
            /\ \A n \in 1..Len(attempts) : attempts'[n].start = attempts[n].start
            /\ attempts'[Len(attempts) + 1].start = now'
        BY <2>1, <3>2, <4>1, StartedType
      <4>3. request.expires => now' <= ExecutionTime
        BY <2>1, <3>2, RetryAssumption DEF Exceeded
      <4>4. QED BY <2>1, <3>2, <4>2, <4>3 DEF ExpiryInv, NotAfterExpiry
    <3>3. QED BY <2>1, <2>2, <3>1, <3>2, OperationForms
  <2>3. CASE StreamData
    <3>1. CASE Exceeded(now')
      BY <2>1, <2>3, <3>1, ReturnedExpiry DEF StreamData, Responses, WithoutResponse
    <3>2. CASE ~Exceeded(now')
      BY <2>1, <2>3, <3>2 DEF StreamData, ExpiryInv, NotAfterExpiry
    <3>3. QED BY <3>1, <3>2
  <2>4. CASE StreamEnd
    BY <2>1, <2>4 DEF StreamEnd, ExpiryInv, NotAfterExpiry
  <2>5. CASE StreamFails
    <3>1. \E after \in {"done", "inFlight"} : Returned("ENOTFOUND", after)
      BY <2>5 DEF StreamFails
    <3>2. QED BY <2>1, <3>1, ReturnedExpiry DEF Responses, WithoutResponse
  <2>6. CASE Respond
    BY <2>1, <2>6, ReturnedExpiry DEF Respond
  <2>7. CASE Stopped \/ UNCHANGED vars
    BY <2>7 DEF Stopped, vars, ExpiryInv, NotAfterExpiry
  <2>8. QED BY <2>2, <2>3, <2>4, <2>5, <2>6, <2>7 DEF Next
<1>3. ExpiryInv => NotAfterExpiry
  BY DEF ExpiryInv
<1>4. QED BY <1>1, <1>2, <1>3, TypeCorrect, PTL DEF Spec
-----------------------------------------------------------------------------
(* The locations.  Restricted: a request of one location has its location   *)
(* and mode forced before it is sent, so only the request that may go to    *)
(* either has to keep its location and mode within those of its options.    *)
(* A request whose options contradict its kind is never sent.               *)
Valid == ~LocationInvalid(request.mode)
Unrestricted == request.where = "PRIMARY_OR_SECONDARY"

ModeSound(mode) ==
    /\ mode \in LocationModes /\ ~LocationInvalid(mode)
    /\ Unrestricted => Allowed(mode) \subseteq Allowed(request.mode)

ModesInv ==
    /\ ModeSound(locationMode)
    /\ Unrestricted => location \in Allowed(request.mode)
    /\ BuiltIn => /\ ModeSound(context.mode)
                  /\ Unrestricted => context.target \in {None} \cup Allowed(request.mode)
    /\ phase \in {"inFlight", "collecting"} =>
          /\ request.where = "SECONDARY_ONLY" => locationMode = "SECONDARY_ONLY"
          /\ location \in Allowed(request.mode) \cap Allowed(request.where)

LocationInv ==
    /\ AllowedLocations
    /\ phase = "thrown" => ~Valid
    /\ ~Valid => /\ attempts = <<>> /\ phase \in {"sleeping", "thrown"}
                 /\ locationMode = request.mode
    /\ Valid => ModesInv

(* Where a valid request is sent.                                           *)
LEMMA ValidLocationAllowed ==
    ASSUME TypeOK, Valid, ModesInv
    PROVE  LET valid == ValidLocation(location, locationMode)
           IN  /\ valid[1] \in Allowed(request.mode) \cap Allowed(request.where)
               /\ ModeSound(valid[2])
               /\ request.where = "SECONDARY_ONLY" => valid[2] = "SECONDARY_ONLY"
<1>1. request.mode \in LocationModes /\ request.where \in RequestModes
  BY DEF TypeOK, Request
<1>2. CASE request.where = "PRIMARY_ONLY"
  BY <1>1, <1>2 DEF ValidLocation, ForcedLocation, Valid, LocationInvalid, RefusesMode, ModeSound, Allowed,
     Locations, LocationModes, Unrestricted
<1>3. CASE request.where = "SECONDARY_ONLY"
  BY <1>1, <1>3 DEF ValidLocation, ForcedLocation, Valid, LocationInvalid, RefusesMode, ModeSound, Allowed,
     Locations, LocationModes, Unrestricted
<1>4. CASE Unrestricted
  BY <1>1, <1>4 DEF ValidLocation, ForcedLocation, ModesInv, ModeSound, Unrestricted, Allowed,
     Locations, TypeOK
<1>5. QED BY <1>1, <1>2, <1>3, <1>4 DEF RequestModes, Unrestricted

(* The next location and the mode of a retry.                               *)
LEMMA RetryAllowed ==
    ASSUME TypeOK, Valid, ModesInv, phase \in {"inFlight", "collecting"},
           NEW response \in Responses, NEW free \in BOOLEAN
    PROVE  LET info == RetryInfo(response, free)
           IN  /\ ModeSound(RetryMode(response, info))
               /\ Unrestricted => RetryTarget(response, info) \in Allowed(request.mode)
               /\ Unrestricted => Target(info) \in Allowed(request.mode)
               /\ BuiltIn => ModeSound(info.mode)
<1> DEFINE info == RetryInfo(response, free)
<1>1. /\ info.target \in {context.target, None} /\ info.mode \in {context.mode, None}
      /\ BuiltIn => info.target = context.target /\ info.mode = context.mode
  BY RetryInfoType DEF TypeOK
<1>2. ~BuiltIn => info.target = None /\ info.mode = None
  BY DEF RetryInfo, TypeOK, Context
<1> HIDE DEF info
<1>3. /\ ModeSound(locationMode) /\ locationMode \in LocationModes /\ location \in Locations
      /\ request.mode \in LocationModes /\ request.where \in RequestModes
  BY DEF ModesInv, TypeOK, Request
<1>4. BuiltIn => ModeSound(context.mode) /\ context.mode \in LocationModes
  BY DEF ModesInv, ModeSound
<1>5. Unrestricted => NextLocation(location, locationMode) \in Allowed(request.mode)
  BY <1>3 DEF NextLocation, ModeSound, Allowed, LocationModes, Locations
<1>6. Unrestricted => Target(info) \in Allowed(request.mode)
  <2>1. CASE info.target = None
    BY <1>5, <2>1 DEF Target
  <2>2. CASE info.target # None
    BY <1>1, <1>2, <2>2 DEF Target, ModesInv
  <2>3. QED BY <2>1, <2>2
<1>7. Leaves(response) =>
         /\ request.where # "SECONDARY_ONLY"
         /\ Unrestricted => "PRIMARY" \in Allowed(request.mode)
         /\ Allowed("PRIMARY_ONLY") = {"PRIMARY"}
         /\ request.secondaryHost \/ locationMode = "PRIMARY_ONLY"
  BY <1>3 DEF Leaves, ModesInv, ModeSound, Allowed, LocationModes, Locations,
     LocationInvalid, RefusesMode
<1>8. ModeSound(RetryMode(response, info))
  <2>1. CASE Leaves(response)
    BY <1>3, <1>7, <2>1 DEF RetryMode, ModeSound, LocationInvalid, RefusesMode, LocationModes
  <2>2. CASE ~Leaves(response)
    BY <1>1, <1>2, <1>3, <1>4, <2>2 DEF RetryMode
  <2>3. QED BY <2>1, <2>2
<1>9. Unrestricted => RetryTarget(response, info) \in Allowed(request.mode)
  BY <1>6, <1>7 DEF RetryTarget
<1>10. QED BY <1>1, <1>4, <1>6, <1>8, <1>9 DEF info

(* An answer keeps the locations.                                           *)
LEMMA ReturnedLocations ==
    ASSUME TypeOK, LocationInv, now' \in Nat, request' = request,
           phase \in {"inFlight", "collecting"},
           NEW response \in Responses, NEW after \in {"inFlight", "collecting", "done"},
           after = phase \/ after = "done", Returned(response, after)
    PROVE  LocationInv'
<1>1. Valid /\ ModesInv /\ AllowedLocations
  BY DEF LocationInv
<1>2. /\ Len(attempts') = Len(attempts)
      /\ \A n \in 1..Len(attempts) : attempts'[n].location = attempts[n].location
      /\ phase' \in {after, "sleeping", "done"}
  BY ReturnedType DEF Phases
<1>3. AllowedLocations'
  BY <1>1, <1>2 DEF AllowedLocations
<1>4. \A mode : ModeSound(mode)' <=> ModeSound(mode)
  BY DEF ModeSound, Unrestricted, LocationInvalid, RefusesMode
<1>5. Valid' /\ (Unrestricted' <=> Unrestricted) /\ (BuiltIn' <=> BuiltIn)
  BY <1>1 DEF Valid, LocationInvalid, RefusesMode, Unrestricted, BuiltIn
<1>6. PICK free \in BOOLEAN, interval \in Intervals :
         IF WouldRetry(response, RetryInfo(response, free))
         THEN Resend(response, RetryInfo(response, free), interval)
         ELSE /\ phase' = after
              /\ context' = Counted(RetryInfo(response, free), Target(RetryInfo(response, free)),
                                    RetryInfo(response, free).mode)
              /\ UNCHANGED <<locationMode, location, last, wake>>
  BY DEF Returned
<1> DEFINE info == RetryInfo(response, free)
<1>7. /\ ModeSound(RetryMode(response, info))
      /\ Unrestricted => RetryTarget(response, info) \in Allowed(request.mode)
      /\ Unrestricted => Target(info) \in Allowed(request.mode)
      /\ BuiltIn => ModeSound(info.mode)
      /\ info \in Context
  BY <1>1, RetryAllowed, RetryInfoType DEF TypeOK
<1> HIDE DEF info
<1>8. \A t, m : BuiltIn => Counted(info, t, m).target = t /\ Counted(info, t, m).mode = m
  BY <1>7 DEF Counted, Context
<1>9. CASE WouldRetry(response, info)
  <2>1. /\ locationMode' = RetryMode(response, info) /\ location' = RetryTarget(response, info)
        /\ context' = Counted(info, RetryTarget(response, info), RetryMode(response, info))
        /\ phase' \in {"done", "sleeping"}
    BY <1>6, <1>9 DEF Resend, info
  <2>2. ModesInv'
    BY <1>4, <1>5, <1>7, <1>8, <2>1 DEF ModesInv
  <2>3. QED BY <1>3, <1>5, <2>1, <2>2 DEF LocationInv
<1>10. CASE ~WouldRetry(response, info)
  <2>1. /\ phase' = after /\ context' = Counted(info, Target(info), info.mode)
        /\ UNCHANGED <<locationMode, location>>
    BY <1>6, <1>10 DEF info
  <2>2. ModesInv'
    BY <1>1, <1>4, <1>5, <1>7, <1>8, <2>1 DEF ModesInv
  <2>3. QED BY <1>3, <1>5, <2>1, <2>2 DEF LocationInv
<1>11. QED BY <1>9, <1>10

(* The invariant of the locations.                                          *)
LEMMA LocationsInductive == Spec => []LocationInv
<1>1. Init => LocationInv
  <2> SUFFICES ASSUME Init PROVE LocationInv
    OBVIOUS
  <2>1. request.mode \in LocationModes
    BY RetryAssumption DEF Init, Request
  <2>2. /\ locationMode = request.mode /\ context.mode = request.mode
        /\ context.target = None /\ attempts = <<>> /\ phase = "sleeping"
        /\ location = InitialLocation(request.mode)
    BY DEF Init
  <2>3. location \in Allowed(request.mode)
    BY <2>1, <2>2 DEF InitialLocation, Allowed, LocationModes, Locations
  <2>4. Valid => ModesInv
    BY <2>1, <2>2, <2>3 DEF Valid, ModesInv, ModeSound
  <2>5. QED BY <2>2, <2>4 DEF LocationInv, AllowedLocations
<1>2. TypeOK /\ LocationInv /\ [Next]_vars => LocationInv'
  <2> SUFFICES ASSUME TypeOK, LocationInv, [Next]_vars PROVE LocationInv'
    OBVIOUS
  <2>1. now' \in Nat /\ request' = request /\ attempts \in Seq(Attempt)
    BY NowNat, SameRequest DEF TypeOK
  <2>2. /\ \A mode : ModeSound(mode)' <=> ModeSound(mode)
        /\ (Valid' <=> Valid) /\ (Unrestricted' <=> Unrestricted) /\ (BuiltIn' <=> BuiltIn)
    BY <2>1 DEF ModeSound, Unrestricted, LocationInvalid, RefusesMode, Valid, BuiltIn
  <2>3. CASE Operation
    <3>1. context' = context /\ phase = "sleeping"
      BY <2>3 DEF Operation
    <3>2. CASE ~Valid
      <4>1. /\ LocationInvalid(locationMode) /\ attempts = <<>> /\ locationMode = request.mode
        BY <3>2 DEF LocationInv, Valid
      <4>2. phase' = "thrown" /\ UNCHANGED <<locationMode, attempts>>
        BY <2>3, <4>1 DEF Operation
      <4>3. QED BY <2>1, <2>2, <3>2, <4>1, <4>2 DEF LocationInv, AllowedLocations
    <3>3. CASE Valid
      <4>1. ModesInv /\ ~LocationInvalid(locationMode)
        BY <3>3 DEF LocationInv, ModesInv, ModeSound
      <4> DEFINE valid == ValidLocation(location, locationMode)
      <4>2. /\ valid[1] \in Allowed(request.mode) \cap Allowed(request.where)
            /\ ModeSound(valid[2])
            /\ request.where = "SECONDARY_ONLY" => valid[2] = "SECONDARY_ONLY"
        BY <3>3, <4>1, ValidLocationAllowed
      <4>3. location' = valid[1] /\ locationMode' = valid[2] /\ phase' # "thrown"
        BY <2>3, <4>1 DEF Operation, SendBuffer, SendStream
      <4> HIDE DEF valid
      <4>4. ModesInv'
        BY <2>1, <2>2, <3>1, <4>1, <4>2, <4>3 DEF ModesInv
      <4>5. AllowedLocations'
        <5>1. CASE UNCHANGED attempts
          BY <2>1, <5>1 DEF LocationInv, AllowedLocations
        <5>2. CASE attempts' = Started(location')
          <6>1. location' \in Locations
            BY <2>1, <2>3, OperationForms
          <6>2. /\ Len(attempts') = Len(attempts) + 1
                /\ \A n \in 1..Len(attempts) : attempts'[n] = attempts[n]
                /\ attempts'[Len(attempts) + 1].location = location'
            BY <2>1, <5>2, <6>1, StartedType
          <6>3. QED BY <2>1, <4>2, <4>3, <6>2 DEF LocationInv, AllowedLocations
        <5>3. QED BY <2>1, <2>3, <5>1, <5>2, OperationForms
      <4>6. QED BY <2>2, <3>3, <4>3, <4>4, <4>5 DEF LocationInv
    <3>4. QED BY <3>2, <3>3
  <2>4. CASE StreamData
    <3>1. CASE Exceeded(now')
      BY <2>1, <2>4, <3>1, ReturnedLocations DEF StreamData, Responses, WithoutResponse
    <3>2. CASE ~Exceeded(now')
      BY <2>1, <2>2, <2>4, <3>2 DEF StreamData, LocationInv, AllowedLocations, ModesInv
    <3>3. QED BY <3>1, <3>2
  <2>5. CASE StreamEnd
    <3>1. /\ Valid /\ ModesInv /\ phase = "collecting" /\ phase' = "inFlight"
          /\ UNCHANGED <<locationMode, location, context>> /\ attempts' = Started(location)
      BY <2>5 DEF StreamEnd, LocationInv
    <3>2. /\ Len(attempts') = Len(attempts) + 1
          /\ \A n \in 1..Len(attempts) : attempts'[n] = attempts[n]
          /\ attempts'[Len(attempts) + 1].location = location
      BY <2>1, <3>1, StartedType DEF TypeOK
    <3>3. AllowedLocations'
      BY <2>1, <3>1, <3>2 DEF LocationInv, AllowedLocations, ModesInv
    <3>4. ModesInv'
      BY <2>1, <2>2, <3>1 DEF ModesInv
    <3>5. QED BY <2>2, <3>1, <3>3, <3>4 DEF LocationInv
  <2>6. CASE StreamFails
    <3>1. \E after \in {"done", "inFlight"} :
             /\ after = phase \/ after = "done"
             /\ Returned("ENOTFOUND", after)
      BY <2>6 DEF StreamFails
    <3>2. phase \in {"collecting", "inFlight"}
      BY <2>6 DEF StreamFails
    <3>3. QED BY <2>1, <3>1, <3>2, ReturnedLocations DEF Responses, WithoutResponse
  <2>7. CASE Respond
    <3>1. phase = "inFlight" /\ \E response \in Responses : Returned(response, "done")
      BY <2>7 DEF Respond
    <3>2. QED BY <2>1, <3>1, ReturnedLocations
  <2>8. CASE Stopped \/ UNCHANGED vars
    BY <2>2, <2>8 DEF Stopped, vars, LocationInv, AllowedLocations, ModesInv
  <2>9. QED BY <2>3, <2>4, <2>5, <2>6, <2>7, <2>8 DEF Next
<1>3. QED BY <1>1, <1>2, TypeCorrect, PTL DEF Spec

(* A request is only sent where its options and its kind allow it.          *)
THEOREM SentWhereAllowed == Spec => []AllowedLocations
<1>1. LocationInv => AllowedLocations
  BY DEF LocationInv
<1>2. QED BY <1>1, LocationsInductive, PTL

(* _validateLocation never throws once a request was sent.                  *)
THEOREM ThrowsAtOnce == Spec => []NoLateThrow
<1>1. LocationInv => NoLateThrow
  BY DEF LocationInv, NoLateThrow
<1>2. QED BY <1>1, LocationsInductive, PTL
-----------------------------------------------------------------------------
(* Conditional appends.  Success is reported for an answer "ok", which      *)
(* stored the block, or for a failed condition, which fails only when an    *)
(* earlier attempt stored it.                                               *)
Succeeded == \E n \in 1..Len(answers) : answers[n] = "success"

StoredInv ==
    request.conditional =>
        request.write /\ server \in {0, 1} /\ (Succeeded => server = 1)

(* An answer reports success for no other reason.                           *)
LEMMA ReturnedSuccess ==
    ASSUME TypeOK, NEW response \in Responses, NEW after \in Phases,
           Returned(response, after), Succeeded'
    PROVE  Succeeded \/ response = "ok" \/ response = "precondition"
<1>1. answers \in Seq({"success", "failure", "timeout"})
  BY DEF TypeOK
<1>2. \/ answers' = answers
      \/ answers' = Append(answers, "timeout") \/ answers' = Append(answers, "failure")
      \/ response = "ok" \/ Ignored(response, context)
  BY DEF Returned, Resend, Answer
<1>3. CASE answers' = answers
  BY <1>3 DEF Succeeded
<1>4. CASE answers' = Append(answers, "timeout") \/ answers' = Append(answers, "failure")
  <2>1. PICK n \in 1..Len(answers') : answers'[n] = "success"
    BY DEF Succeeded
  <2>2. n \in 1..Len(answers) /\ answers[n] = "success"
    BY <1>1, <1>4, <2>1
  <2>3. QED BY <2>2 DEF Succeeded
<1>5. QED BY <1>2, <1>3, <1>4 DEF Ignored

(* An append that is reported as a success was stored once.                 *)
THEOREM SuccessIsStored == Spec => []SuccessMeansStored
<1>1. Init => StoredInv
  BY RetryAssumption DEF Init, StoredInv, WellFormed, Succeeded
<1>2. TypeOK /\ StoredInv /\ [Next]_vars => StoredInv'
  <2> SUFFICES ASSUME TypeOK, StoredInv, [Next]_vars PROVE StoredInv'
    OBVIOUS
  <2>1. request' = request /\ answers \in Seq({"success", "failure", "timeout"})
    BY SameRequest DEF TypeOK
  <2>2. CASE Respond
    <3>1. PICK response \in Responses, stored \in BOOLEAN :
             /\ Possible(response, stored) /\ Returned(response, "done")
             /\ server' = server + IF stored THEN 1 ELSE 0
      BY <2>2 DEF Respond
    <3>2. Succeeded' => Succeeded \/ response = "ok" \/ response = "precondition"
      BY <3>1, ReturnedSuccess DEF Phases
    <3>3. request.conditional =>
             /\ server' \in {0, 1} /\ (server = 1 => server' = 1)
             /\ response \in {"ok", "precondition"} => server' = 1
      <4> SUFFICES ASSUME request.conditional
                   PROVE  /\ server' \in {0, 1} /\ (server = 1 => server' = 1)
                          /\ response \in {"ok", "precondition"} => server' = 1
        OBVIOUS
      <4>1. request.write /\ server \in {0, 1}
        BY DEF StoredInv
      <4>2. CASE stored
        BY <3>1, <4>1, <4>2 DEF Possible
      <4>3. CASE ~stored
        BY <3>1, <4>1, <4>3 DEF Possible
      <4>4. QED BY <4>2, <4>3
    <3>4. QED BY <2>1, <3>2, <3>3 DEF StoredInv
  <2>3. CASE ~Respond
    <3>1. server' = server
      BY <2>3 DEF Next, Operation, StreamData, StreamEnd, StreamFails, Stopped, vars
    <3>2. Succeeded' => Succeeded
      <4>1. CASE Operation
        <5>1. answers' = answers \/ answers' = Append(answers, "timeout")
          BY <4>1 DEF Operation, Answer
        <5>2. QED BY <2>1, <5>1 DEF Succeeded
      <4>2. CASE StreamData
        <5>1. answers' = answers \/ Returned("expired", "collecting")
          BY <4>2 DEF StreamData
        <5>2. QED
          BY <5>1, ReturnedSuccess DEF Succeeded, Phases, Responses, WithoutResponse
      <4>3. CASE StreamFails
        <5>1. \E after \in Phases : Returned("ENOTFOUND", after)
          BY <4>3 DEF StreamFails, Phases
        <5>2. QED BY <5>1, ReturnedSuccess DEF Responses, WithoutResponse
      <4>4. CASE answers' = answers
        BY <4>4 DEF Succeeded
      <4>5. QED
        BY <2>3, <4>1, <4>2, <4>3, <4>4 DEF Next, StreamEnd, Stopped, vars
    <3>3. QED BY <2>1, <3>1, <3>2 DEF StoredInv
  <2>4. QED BY <2>2, <2>3
<1>3. StoredInv => SuccessMeansStored
  BY DEF StoredInv, SuccessMeansStored, Succeeded
<1>4. QED BY <1>1, <1>2, <1>3, TypeCorrect, PTL DEF Spec
-----------------------------------------------------------------------------
(* Leaving the secondary.  A miss forces the location, and the mode that    *)
(* the built-in policies keep in the context; from there on every target    *)
(* is the primary.  It does so only when the mode is not that of the        *)
(* secondary alone, which it never becomes when the primary is allowed.     *)
Left ==
    /\ location = "PRIMARY" /\ locationMode = "PRIMARY_ONLY"
    /\ BuiltIn => context.target = "PRIMARY" /\ context.mode = "PRIMARY_ONLY"

MissedBefore == \E m \in 1..Len(attempts) : Missed(m)

MaySend == phase \in {"sleeping", "collecting", "inFlight"}

LeaveInv ==
    /\ WellFormed(request)
    /\ phase = "inFlight" =>
          attempts # <<>> /\ attempts[Len(attempts)].location = location
    /\ PrimaryAllowed =>
          /\ locationMode # "SECONDARY_ONLY"
          /\ BuiltIn => context.mode # "SECONDARY_ONLY"
          /\ LeavesSecondary
          /\ MissedBefore /\ MaySend => Left

(* What a new attempt at a location leads to.                               *)
LEMMA LeavesStarted ==
    ASSUME TypeOK, LeaveInv, now' \in Nat, request' = request, NEW at \in Locations,
           attempts' = Started(at), PrimaryAllowed,
           MissedBefore => at = "PRIMARY"
    PROVE  LeavesSecondary' /\ (MissedBefore' => MissedBefore)
<1>1. attempts \in Seq(Attempt) /\ PrimaryAllowed'
  BY DEF TypeOK, PrimaryAllowed
<1>2. /\ Len(attempts') = Len(attempts) + 1 /\ Len(attempts) \in Nat
      /\ \A n \in 1..Len(attempts) : attempts'[n] = attempts[n]
      /\ attempts'[Len(attempts) + 1].location = at
  BY <1>1, StartedType
<1>3. attempts'[Len(attempts) + 1].response = None
  BY <1>1 DEF Started
<1>4. \A m : m = Len(attempts) + 1 => ~Missed(m)'
  BY <1>3 DEF Missed, None
<1>5. \A m \in 1..Len(attempts) : Missed(m)' <=> Missed(m)
  BY <1>2 DEF Missed
<1>6. \A m \in 1..Len(attempts') : m \in 1..Len(attempts) \/ m = Len(attempts) + 1
  BY <1>2
<1>7. MissedBefore' => MissedBefore
  BY <1>4, <1>5, <1>6 DEF MissedBefore
<1>8. ASSUME NEW m \in 1..Len(attempts'), NEW n \in 1..Len(attempts'), m < n, Missed(m)'
      PROVE  attempts'[n].location = "PRIMARY"
  <2>1. m \in 1..Len(attempts) /\ Missed(m)
    BY <1>4, <1>5, <1>6, <1>8
  <2>2. CASE n = Len(attempts) + 1
    BY <1>2, <2>1, <2>2 DEF MissedBefore
  <2>3. CASE n \in 1..Len(attempts)
    BY <1>2, <1>8, <2>1, <2>3 DEF LeaveInv, LeavesSecondary
  <2>4. QED BY <1>6, <2>2, <2>3
<1>9. QED BY <1>7, <1>8 DEF LeavesSecondary

(* An answer: a miss leaves the secondary, and nothing returns to it.       *)
LEMMA ReturnedLeaves ==
    ASSUME TypeOK, LocationInv, LeaveInv, now' \in Nat, request' = request,
           phase \in {"inFlight", "collecting"},
           NEW response \in Responses, NEW after \in {"inFlight", "collecting", "done"},
           after = phase \/ after = "done",
           after = "inFlight" => request.where = "PRIMARY_ONLY",
           Returned(response, after)
    PROVE  LeaveInv'
<1>1. PICK free \in BOOLEAN, interval \in Intervals :
         /\ attempts' = Ended(response, interval)
         /\ IF WouldRetry(response, RetryInfo(response, free))
            THEN Resend(response, RetryInfo(response, free), interval)
            ELSE /\ phase' = after
                 /\ context' = Counted(RetryInfo(response, free), Target(RetryInfo(response, free)),
                                       RetryInfo(response, free).mode)
                 /\ UNCHANGED <<locationMode, location, last, wake>>
  BY DEF Returned
<1> DEFINE info == RetryInfo(response, free)
<1>2. /\ info \in Context
      /\ info.target \in {context.target, None} /\ info.mode \in {context.mode, None}
      /\ BuiltIn => info.target = context.target /\ info.mode = context.mode
  BY RetryInfoType DEF TypeOK
<1>3. ~BuiltIn => info.target = None /\ info.mode = None
  BY DEF RetryInfo, TypeOK, Context
<1> HIDE DEF info
<1>4. attempts \in Seq(Attempt) /\ location \in Locations /\ context \in Context
      /\ locationMode \in LocationModes
  BY DEF TypeOK
<1>5. \A t, m : BuiltIn => Counted(info, t, m).target = t /\ Counted(info, t, m).mode = m
  BY <1>2 DEF Counted, Context
<1>6. /\ Len(attempts') = Len(attempts) /\ Len(attempts) \in Nat
      /\ \A n \in 1..Len(attempts) : attempts'[n].location = attempts[n].location
  BY <1>1, <1>4, EndedType, IntervalsNat
<1>7. /\ \A n \in 1..Len(attempts) :
            n # Len(attempts) \/ phase = "collecting" => attempts'[n] = attempts[n]
      /\ phase = "inFlight" => attempts'[Len(attempts)].response = response
  <2>1. DOMAIN attempts = 1..Len(attempts)
    BY <1>4
  <2>2. phase = "inFlight" => Len(attempts) \in 1..Len(attempts)
    BY <1>4, <1>6 DEF LeaveInv
  <2>3. \A n \in 1..Len(attempts) : attempts[n] \in Attempt
    BY <1>4
  <2>4. QED BY <1>1, <2>1, <2>2, <2>3 DEF Ended, Attempt
<1>8. phase' = "inFlight" => attempts' # <<>> /\ attempts'[Len(attempts')].location = location'
  <2>1. SUFFICES ASSUME phase' = "inFlight"
                 PROVE  attempts' # <<>> /\ attempts'[Len(attempts')].location = location'
    OBVIOUS
  <2>2. after = "inFlight" /\ phase = "inFlight" /\ location' = location
    BY <1>1, <2>1 DEF Resend
  <2>3. Len(attempts) \in 1..Len(attempts) /\ attempts[Len(attempts)].location = location
    BY <1>4, <1>6, <2>2 DEF LeaveInv
  <2>4. QED BY <1>6, <2>2, <2>3
<1>9. (BuiltIn' <=> BuiltIn) /\ (PrimaryAllowed' <=> PrimaryAllowed) /\ WellFormed(request)'
  BY DEF BuiltIn, PrimaryAllowed, LeaveInv
<1>10. SUFFICES ASSUME PrimaryAllowed
                PROVE  /\ locationMode' # "SECONDARY_ONLY"
                       /\ BuiltIn => context'.mode # "SECONDARY_ONLY"
                       /\ LeavesSecondary'
                       /\ MissedBefore' /\ MaySend' => Left'
  BY <1>8, <1>9 DEF LeaveInv
<1>11. /\ locationMode # "SECONDARY_ONLY" /\ (BuiltIn => context.mode # "SECONDARY_ONLY")
       /\ LeavesSecondary /\ (MissedBefore => Left)
  BY <1>10 DEF LeaveInv, MaySend
(* The answer is a miss of an attempt at the secondary, or no new miss.     *)
<1>12. ASSUME NEW m \in 1..Len(attempts), Missed(m)'
       PROVE  Missed(m) \/ (SecondaryMiss(response) /\ phase = "inFlight" /\ m = Len(attempts))
  <2>1. CASE m # Len(attempts) \/ phase = "collecting"
    BY <1>7, <1>12, <2>1 DEF Missed
  <2>2. CASE m = Len(attempts) /\ phase = "inFlight"
    <3>1. attempts[m].location = location
      BY <2>2 DEF LeaveInv
    <3>2. attempts'[m].location = "SECONDARY" /\ attempts'[m].response = response
      BY <1>7, <1>12, <2>2 DEF Missed
    <3>3. response \in {"notFound", "ENOTFOUND"}
      BY <1>12, <3>2 DEF Missed
    <3>4. QED BY <1>6, <2>2, <3>1, <3>2, <3>3 DEF SecondaryMiss
  <2>3. QED BY <2>1, <2>2
<1>13. LeavesSecondary'
  <2>1. SUFFICES ASSUME NEW m \in 1..Len(attempts), NEW n \in 1..Len(attempts),
                        m < n, Missed(m)'
                 PROVE  attempts'[n].location = "PRIMARY"
    BY <1>6 DEF LeavesSecondary
  <2>2. Missed(m)
    BY <1>6, <1>12, <2>1
  <2>3. QED BY <1>6, <1>10, <1>11, <2>1, <2>2 DEF LeavesSecondary
<1>14. MissedBefore' => MissedBefore \/ (SecondaryMiss(response) /\ phase = "inFlight")
  BY <1>6, <1>12 DEF MissedBefore
<1>15. MissedBefore => /\ Target(info) = "PRIMARY"
                       /\ ~SecondaryMiss(response)
                       /\ RetryTarget(response, info) = "PRIMARY"
                       /\ RetryMode(response, info) = "PRIMARY_ONLY"
                       /\ BuiltIn => info.mode = "PRIMARY_ONLY"
  <2>1. SUFFICES ASSUME Left
                 PROVE  /\ Target(info) = "PRIMARY"
                        /\ ~SecondaryMiss(response)
                        /\ RetryTarget(response, info) = "PRIMARY"
                        /\ RetryMode(response, info) = "PRIMARY_ONLY"
                        /\ BuiltIn => info.mode = "PRIMARY_ONLY"
    BY <1>11
  <2>2. Target(info) = "PRIMARY" /\ (BuiltIn => info.mode = "PRIMARY_ONLY")
    BY <1>2, <1>3, <2>1 DEF Left, Target, NextLocation
  <2>3. ~SecondaryMiss(response) /\ ~Leaves(response)
    BY <2>1 DEF Left, SecondaryMiss, Leaves
  <2>4. RetryMode(response, info) = "PRIMARY_ONLY"
    BY <1>3, <2>1, <2>2, <2>3 DEF RetryMode, Left
  <2>5. QED BY <2>2, <2>3, <2>4 DEF RetryTarget
<1>16. SecondaryMiss(response) => /\ RetryTarget(response, info) = "PRIMARY"
                                  /\ RetryMode(response, info) = "PRIMARY_ONLY"
  BY <1>11 DEF Leaves, RetryTarget, RetryMode
<1>17. CASE WouldRetry(response, info)
  <2>1. /\ locationMode' = RetryMode(response, info) /\ location' = RetryTarget(response, info)
        /\ context' = Counted(info, RetryTarget(response, info), RetryMode(response, info))
    BY <1>1, <1>17 DEF Resend, info
  <2>2. RetryMode(response, info) # "SECONDARY_ONLY"
    BY <1>2, <1>3, <1>11 DEF RetryMode
  <2>3. MissedBefore' => Left'
    <3>1. SUFFICES ASSUME MissedBefore' PROVE Left'
      OBVIOUS
    <3>2. location' = "PRIMARY" /\ locationMode' = "PRIMARY_ONLY"
      BY <1>14, <1>15, <1>16, <2>1, <3>1
    <3>3. BuiltIn => context'.target = "PRIMARY" /\ context'.mode = "PRIMARY_ONLY"
      BY <1>5, <2>1, <3>2
    <3>4. QED BY <1>9, <3>2, <3>3 DEF Left
  <2>4. QED BY <1>5, <1>13, <2>1, <2>2, <2>3
<1>18. CASE ~WouldRetry(response, info)
  <2>1. /\ phase' = after /\ context' = Counted(info, Target(info), info.mode)
        /\ UNCHANGED <<locationMode, location>>
    BY <1>1, <1>18 DEF info
  <2>2. BuiltIn => context'.mode # "SECONDARY_ONLY"
    BY <1>2, <1>5, <1>11, <2>1
  <2>3. MissedBefore' /\ MaySend' => MissedBefore
    <3>1. SUFFICES ASSUME MaySend', SecondaryMiss(response), phase = "inFlight"
                   PROVE  FALSE
      BY <1>14
    <3>2. after = "inFlight" /\ request.where = "PRIMARY_ONLY"
      BY <2>1, <3>1 DEF MaySend
    <3>3. location \in Allowed(request.where)
      BY <3>1 DEF LocationInv, ModesInv
    <3>4. location = "PRIMARY"
      BY <3>2, <3>3 DEF Allowed
    <3>5. QED BY <3>1, <3>4 DEF SecondaryMiss
  <2>4. MissedBefore' /\ MaySend' => Left'
    <3>1. SUFFICES ASSUME MissedBefore', MaySend' PROVE Left'
      OBVIOUS
    <3>2. Left /\ Target(info) = "PRIMARY" /\ (BuiltIn => info.mode = "PRIMARY_ONLY")
      BY <1>11, <1>15, <2>3, <3>1
    <3>3. BuiltIn => context'.target = "PRIMARY" /\ context'.mode = "PRIMARY_ONLY"
      BY <1>5, <2>1, <3>2
    <3>4. QED BY <1>9, <2>1, <3>2, <3>3 DEF Left
  <2>5. QED BY <1>11, <1>13, <2>1, <2>2, <2>4
<1>19. QED BY <1>17, <1>18

(* After a miss of the secondary every retry goes to the primary.           *)
THEOREM LeavesForGood == Spec => []LeavesSecondary
<1>1. Init => LeaveInv
  <2> SUFFICES ASSUME Init PROVE LeaveInv
    OBVIOUS
  <2>1. WellFormed(request) /\ attempts = <<>> /\ phase = "sleeping"
        /\ locationMode = request.mode /\ context.mode = request.mode
    BY RetryAssumption DEF Init
  <2>2. PrimaryAllowed => request.mode # "SECONDARY_ONLY"
    BY DEF PrimaryAllowed, Allowed
  <2>3. QED BY <2>1, <2>2 DEF LeaveInv, LeavesSecondary, MissedBefore
<1>2. TypeOK /\ LocationInv /\ LeaveInv /\ [Next]_vars => LeaveInv'
  <2> SUFFICES ASSUME TypeOK, LocationInv, LeaveInv, [Next]_vars PROVE LeaveInv'
    OBVIOUS
  <2>1. now' \in Nat /\ request' = request /\ attempts \in Seq(Attempt)
    BY NowNat, SameRequest DEF TypeOK
  <2>2. /\ (BuiltIn' <=> BuiltIn) /\ (PrimaryAllowed' <=> PrimaryAllowed)
        /\ WellFormed(request)'
    BY <2>1 DEF BuiltIn, PrimaryAllowed, LeaveInv
  <2>3. UNCHANGED attempts =>
           (LeavesSecondary' <=> LeavesSecondary) /\ (MissedBefore' <=> MissedBefore)
    BY <2>2 DEF LeavesSecondary, MissedBefore, Missed
  <2>4. CASE Operation
    <3>1. context' = context /\ phase = "sleeping"
      BY <2>4 DEF Operation
    <3>2. CASE LocationInvalid(locationMode)
      <4>1. phase' = "thrown" /\ UNCHANGED <<locationMode, attempts>>
        BY <2>4, <3>2 DEF Operation
      <4>2. QED BY <2>2, <2>3, <3>1, <4>1 DEF LeaveInv, MaySend
    <3>3. CASE ~LocationInvalid(locationMode)
      <4> DEFINE valid == ValidLocation(location, locationMode)
      <4>1. location' = valid[1] /\ locationMode' = valid[2]
        BY <2>4, <3>3 DEF Operation
      <4>2. PrimaryAllowed => request.where # "SECONDARY_ONLY"
        BY DEF PrimaryAllowed, Allowed
      <4>3. PrimaryAllowed => /\ valid[2] # "SECONDARY_ONLY"
                              /\ Left => valid[1] = "PRIMARY" /\ valid[2] = "PRIMARY_ONLY"
        BY <4>2 DEF ValidLocation, ForcedLocation, LeaveInv, Left
      <4> HIDE DEF valid
      <4>4. PrimaryAllowed /\ MissedBefore => Left /\ Left'
        BY <2>2, <3>1, <4>1, <4>3 DEF LeaveInv, MaySend, Left
      <4>5. CASE UNCHANGED attempts /\ phase' # "inFlight"
        BY <2>2, <2>3, <3>1, <4>1, <4>3, <4>4, <4>5 DEF LeaveInv
      <4>6. CASE phase' = "inFlight" /\ attempts' = Started(location')
        <5>1. location' \in Locations
          BY <2>1, <2>4, OperationForms
        <5>2. attempts' # <<>> /\ attempts'[Len(attempts')].location = location'
          BY <2>1, <4>6, <5>1, StartedType
        <5>3. PrimaryAllowed => LeavesSecondary' /\ (MissedBefore' => MissedBefore)
          BY <2>1, <4>4, <4>6, <5>1, LeavesStarted DEF Left
        <5>4. QED BY <2>2, <3>1, <4>1, <4>3, <4>4, <5>2, <5>3 DEF LeaveInv
      <4>7. QED BY <2>1, <2>4, <4>5, <4>6, OperationForms
    <3>4. QED BY <3>2, <3>3
  <2>5. CASE StreamData
    <3>1. CASE Exceeded(now')
      BY <2>1, <2>5, <3>1, ReturnedLeaves DEF StreamData, Responses, WithoutResponse
    <3>2. CASE ~Exceeded(now')
      <4>1. UNCHANGED <<phase, locationMode, location, context, attempts>>
            /\ phase = "collecting"
        BY <2>5, <3>2 DEF StreamData
      <4>2. QED BY <2>2, <2>3, <4>1 DEF LeaveInv, MaySend, Left
    <3>3. QED BY <3>1, <3>2
  <2>6. CASE StreamEnd
    <3>1. /\ phase = "collecting" /\ phase' = "inFlight"
          /\ UNCHANGED <<locationMode, location, context>> /\ attempts' = Started(location)
          /\ location \in Locations
      BY <2>6 DEF StreamEnd, TypeOK
    <3>2. attempts' # <<>> /\ attempts'[Len(attempts')].location = location'
      BY <2>1, <3>1, StartedType
    <3>3. PrimaryAllowed /\ MissedBefore => Left /\ Left'
      BY <2>2, <3>1 DEF LeaveInv, MaySend, Left
    <3>4. PrimaryAllowed => LeavesSecondary' /\ (MissedBefore' => MissedBefore)
      BY <2>1, <3>1, <3>3, LeavesStarted DEF Left
    <3>5. QED BY <2>2, <3>1, <3>2, <3>3, <3>4 DEF LeaveInv
  <2>7. CASE StreamFails
    <3>1. \E after \in {"done", "inFlight"} :
             /\ after = phase \/ after = "done"
             /\ after = "inFlight" => request.body = "piped"
             /\ Returned("ENOTFOUND", after)
      BY <2>7 DEF StreamFails
    <3>2. phase \in {"collecting", "inFlight"}
      BY <2>7 DEF StreamFails
    <3>3. request.body = "piped" => request.where = "PRIMARY_ONLY"
      BY DEF LeaveInv, WellFormed
    <3>4. QED BY <2>1, <3>1, <3>2, <3>3, ReturnedLeaves DEF Responses, WithoutResponse
  <2>8. CASE Respond
    <3>1. phase = "inFlight" /\ \E response \in Responses : Returned(response, "done")
      BY <2>8 DEF Respond
    <3>2. QED BY <2>1, <3>1, ReturnedLeaves
  <2>9. CASE Stopped \/ UNCHANGED vars
    <3>1. UNCHANGED <<phase, locationMode, location, context, attempts>>
      BY <2>9 DEF Stopped, vars
    <3>2. QED BY <2>2, <2>3, <3>1 DEF LeaveInv, MaySend, Left
  <2>10. QED BY <2>4, <2>5, <2>6, <2>7, <2>8, <2>9 DEF Next
<1>3. LeaveInv => LeavesSecondary
  BY DEF LeaveInv, LeavesSecondary
<1>4. QED BY <1>1, <1>2, <1>3, TypeCorrect, LocationsInductive, PTL DEF Spec
-----------------------------------------------------------------------------
(* Spacing.  Attempts that have ended did so no later than the last attempt *)
(* at their location that the filter knows of, which the interval is        *)
(* counted from; and where the filter aims at is where the pipeline sends.  *)
Home == IF request.where = "PRIMARY_ONLY" THEN "PRIMARY" ELSE "SECONDARY"

HomeInv ==
    ~Unrestricted =>
        /\ phase \in {"inFlight", "collecting"} => location = Home /\ locationMode = request.where
        /\ phase = "sleeping" /\ attempts # <<>> => location = Home
        /\ BuiltIn => context.target \in {None, Home}

ClockInv ==
    /\ \A l \in Locations : last[l] <= now
    /\ phase = "sleeping" => wake >= now /\ (attempts # <<>> => request.policy # "none")

Over(m) == phase \in {"sleeping", "collecting"} \/ (phase = "inFlight" /\ m < Len(attempts))

LastInv ==
    /\ phase = "inFlight" => attempts # <<>> /\ attempts[Len(attempts)].location = location
    /\ \A m \in 1..Len(attempts) :
          Over(m) => attempts[m].end \in Nat /\ attempts[m].end <= last[attempts[m].location]

(* A request at the location at may be started at the time t.               *)
FarEnough(at, t) ==
    \A m \in 1..Len(attempts) :
        attempts[m].location = at => attempts[m].end + attempts[Len(attempts)].gap <= t

WaitInv ==
    /\ phase = "sleeping" => FarEnough(location, wake)
    /\ phase = "collecting" => FarEnough(location, now)

SpaceInv == Spaced /\ HomeInv /\ ClockInv /\ LastInv /\ WaitInv

(* Parts of the invariant that a step which sends nothing keeps.            *)
LEMMA SpacedSame ==
    ASSUME UNCHANGED attempts PROVE Spaced' <=> Spaced
BY DEF Spaced

(* A new attempt that is far enough from the others.                        *)
LEMMA SpacedStarted ==
    ASSUME TypeOK, Spaced, now' \in Nat, NEW at \in Locations, attempts' = Started(at),
           FarEnough(at, now')
    PROVE  Spaced'
<1>1. attempts \in Seq(Attempt)
  BY DEF TypeOK
<1>2. /\ Len(attempts') = Len(attempts) + 1 /\ Len(attempts) \in Nat
      /\ \A n \in 1..Len(attempts) : attempts'[n] = attempts[n]
      /\ attempts'[Len(attempts) + 1].location = at
      /\ attempts'[Len(attempts) + 1].start = now'
  BY <1>1, StartedType
<1>3. \A n \in 1..Len(attempts) : attempts[n] \in Attempt
  BY <1>1
<1>4. SUFFICES ASSUME NEW m \in 1..Len(attempts'), NEW n \in 1..Len(attempts'), m < n,
                      attempts'[m].location = attempts'[n].location
               PROVE  attempts'[n].start - attempts'[m].end >= attempts'[n - 1].gap
  BY DEF Spaced
<1>5. m \in 1..Len(attempts) /\ n - 1 \in 1..Len(attempts)
  BY <1>2, <1>4
<1>6. CASE n \in 1..Len(attempts)
  BY <1>2, <1>4, <1>5, <1>6 DEF Spaced
<1>7. CASE n = Len(attempts) + 1
  <2>1. attempts[m].end + attempts[Len(attempts)].gap <= now'
    BY <1>2, <1>4, <1>5, <1>7 DEF FarEnough
  <2>2. attempts[m].end \in Int /\ attempts[Len(attempts)].gap \in Nat
    BY <1>2, <1>3, <1>5, <1>7 DEF Attempt, Never
  <2>3. QED BY <1>2, <1>5, <1>7, <2>1, <2>2
<1>8. QED BY <1>2, <1>4, <1>6, <1>7

(* An answer changes only the last attempt.                                 *)
LEMMA EndedParts ==
    ASSUME TypeOK, now' \in Nat, NEW response \in Responses, NEW interval \in Nat,
           attempts' = Ended(response, interval)
    PROVE  /\ Len(attempts') = Len(attempts) /\ Len(attempts) \in Nat
           /\ \A n \in 1..Len(attempts) :
                 /\ attempts'[n].location = attempts[n].location
                 /\ attempts'[n].start = attempts[n].start
                 /\ n # Len(attempts) \/ phase = "collecting" => attempts'[n] = attempts[n]
                 /\ n = Len(attempts) /\ phase = "inFlight" =>
                       attempts'[n].end = now' /\ attempts'[n].gap = interval
<1>1. attempts \in Seq(Attempt)
  BY DEF TypeOK
<1>2. /\ Len(attempts') = Len(attempts) /\ Len(attempts) \in Nat
      /\ \A n \in 1..Len(attempts) :
            attempts'[n].location = attempts[n].location /\ attempts'[n].start = attempts[n].start
  BY <1>1, EndedType
<1>3. DOMAIN attempts = 1..Len(attempts) /\ \A n \in 1..Len(attempts) : attempts[n] \in Attempt
  BY <1>1
<1>4. ASSUME NEW n \in 1..Len(attempts)
      PROVE  /\ n # Len(attempts) \/ phase = "collecting" => attempts'[n] = attempts[n]
             /\ n = Len(attempts) /\ phase = "inFlight" =>
                   attempts'[n].end = now' /\ attempts'[n].gap = interval
  BY <1>3, <1>4 DEF Ended, Attempt
<1>5. QED BY <1>2, <1>4

LEMMA SpacedEnded ==
    ASSUME TypeOK, Spaced, now' \in Nat, NEW response \in Responses, NEW interval \in Nat,
           attempts' = Ended(response, interval)
    PROVE  Spaced'
<1>1. /\ Len(attempts') = Len(attempts) /\ Len(attempts) \in Nat
      /\ \A n \in 1..Len(attempts) :
            /\ attempts'[n].location = attempts[n].location
            /\ attempts'[n].start = attempts[n].start
            /\ n # Len(attempts) => attempts'[n] = attempts[n]
  BY EndedParts
<1>2. SUFFICES ASSUME NEW m \in 1..Len(attempts), NEW n \in 1..Len(attempts), m < n,
                      attempts[m].location = attempts[n].location
               PROVE  attempts'[n].start - attempts'[m].end >= attempts'[n - 1].gap
  BY <1>1 DEF Spaced
<1>3. /\ m # Len(attempts) /\ n - 1 \in 1..Len(attempts) /\ n - 1 # Len(attempts)
  BY <1>1, <1>2
<1>4. attempts[n].start - attempts[m].end >= attempts[n - 1].gap
  BY <1>2 DEF Spaced
<1>5. QED BY <1>1, <1>3, <1>4

(* The target of a retry is a location.                                     *)
LEMMA TargetType ==
    ASSUME TypeOK, NEW response \in Responses, NEW info \in Context
    PROVE  RetryTarget(response, info) \in Locations
BY DEF RetryTarget, Target, NextLocation, TypeOK, Context, Locations

(* An answer: where the filter aims at.                                     *)
LEMMA ReturnedHome ==
    ASSUME TypeOK, HomeInv, now' \in Nat, request' = request,
           phase \in {"inFlight", "collecting"},
           NEW response \in Responses, NEW after \in {"inFlight", "collecting", "done"},
           Returned(response, after)
    PROVE  HomeInv'
<1>1. PICK free \in BOOLEAN, interval \in Intervals :
         IF WouldRetry(response, RetryInfo(response, free))
         THEN Resend(response, RetryInfo(response, free), interval)
         ELSE /\ phase' = after
              /\ context' = Counted(RetryInfo(response, free), Target(RetryInfo(response, free)),
                                    RetryInfo(response, free).mode)
              /\ UNCHANGED <<locationMode, location, last, wake>>
  BY DEF Returned
<1> DEFINE info == RetryInfo(response, free)
<1>2. info \in Context /\ (BuiltIn => info.target = context.target)
  BY RetryInfoType DEF TypeOK
<1>3. ~BuiltIn => info.target = None
  BY DEF RetryInfo, TypeOK, Context
<1> HIDE DEF info
<1>4. \A t, m : BuiltIn => Counted(info, t, m).target = t
  BY <1>2 DEF Counted, Context
<1>5. /\ BuiltIn' <=> BuiltIn
      /\ Unrestricted' <=> Unrestricted
      /\ Home' = Home
  BY DEF BuiltIn, Unrestricted, Home
<1>6. SUFFICES ASSUME ~Unrestricted
               PROVE  /\ phase' \in {"inFlight", "collecting"} =>
                            location' = Home /\ locationMode' = request.where
                      /\ phase' = "sleeping" => location' = Home
                      /\ BuiltIn => context'.target \in {None, Home}
  BY <1>5 DEF HomeInv
<1>7. /\ location = Home /\ locationMode = request.where
      /\ BuiltIn => context.target \in {None, Home}
      /\ request.where \in {"PRIMARY_ONLY", "SECONDARY_ONLY"}
  BY <1>6 DEF HomeInv, TypeOK, Request, RequestModes, Unrestricted
<1>8. NextLocation(location, locationMode) = Home
  BY <1>7 DEF NextLocation, Home
<1>9. Target(info) = Home
  BY <1>2, <1>3, <1>7, <1>8 DEF Target
<1>10. ~Leaves(response)
  BY <1>7 DEF Leaves, SecondaryMiss, Home
<1>11. RetryTarget(response, info) = Home
  BY <1>9, <1>10 DEF RetryTarget
<1>12. CASE WouldRetry(response, info)
  BY <1>1, <1>4, <1>11, <1>12 DEF Resend, info
<1>13. CASE ~WouldRetry(response, info)
  <2>1. /\ phase' = after /\ context' = Counted(info, Target(info), info.mode)
        /\ UNCHANGED <<locationMode, location>>
    BY <1>1, <1>13 DEF info
  <2>2. QED BY <1>4, <1>7, <1>9, <2>1
<1>14. QED BY <1>12, <1>13

(* An answer: how far the next attempt is from the others.                  *)
LEMMA ReturnedSpace ==
    ASSUME TypeOK, SpaceInv, now' \in Nat, now' >= now, request' = request,
           phase \in {"inFlight", "collecting"},
           NEW response \in Responses, NEW after \in {"inFlight", "collecting", "done"},
           after = phase \/ after = "done",
           phase = "collecting" => response \in {"ENOTFOUND", "expired"},
           Returned(response, after)
    PROVE  SpaceInv'
<1>1. PICK free \in BOOLEAN, interval \in Intervals :
         /\ attempts' = Ended(response, interval)
         /\ IF WouldRetry(response, RetryInfo(response, free))
            THEN Resend(response, RetryInfo(response, free), interval)
            ELSE phase' = after /\ UNCHANGED <<locationMode, location, last, wake>>
  BY DEF Returned
<1>2. /\ interval \in Nat /\ attempts \in Seq(Attempt) /\ now \in Nat
      /\ location \in Locations /\ last \in [Locations -> Nat \cup {Never}]
  BY IntervalsNat DEF TypeOK
<1>3. Spaced' /\ HomeInv'
  BY <1>1, <1>2, SpacedEnded, ReturnedHome DEF SpaceInv
<1>4. /\ Len(attempts') = Len(attempts) /\ Len(attempts) \in Nat
      /\ \A n \in 1..Len(attempts) :
            /\ attempts'[n].location = attempts[n].location
            /\ n # Len(attempts) \/ phase = "collecting" => attempts'[n] = attempts[n]
            /\ n = Len(attempts) /\ phase = "inFlight" =>
                  attempts'[n].end = now' /\ attempts'[n].gap = interval
  BY <1>1, <1>2, EndedParts
<1>5. \A n \in 1..Len(attempts) :
         attempts[n] \in Attempt /\ attempts[n].location \in Locations
  <2>1. \A n \in 1..Len(attempts) : attempts[n] \in Attempt
    BY <1>2
  <2>2. QED BY <2>1 DEF Attempt
<1>6. \A l \in Locations : last[l] <= now' /\ last[l] \in Int
  BY <1>2 DEF SpaceInv, ClockInv, Never
<1>7. phase = "inFlight" =>
         /\ Len(attempts) \in 1..Len(attempts) /\ attempts[Len(attempts)].location = location
  BY <1>2, <1>4 DEF SpaceInv, LastInv
<1>8. CASE WouldRetry(response, RetryInfo(response, free))
  <2> DEFINE info == RetryInfo(response, free)
             target == RetryTarget(response, info)
             delay == Delay(target, interval)
  <2>1. phase = "inFlight" /\ request.policy # "none"
    BY <1>8 DEF WouldRetry, MayResend, WithoutResponse
  <2>2. Resend(response, info, interval)
    BY <1>1, <1>8
  <2>3. /\ last' = [last EXCEPT ![location] = now'] /\ location' = target
        /\ phase' = "done" \/ (phase' = "sleeping" /\ wake' = now' + IF delay > 0 THEN delay ELSE 0)
    BY <2>2 DEF Resend
  <2>4. target \in Locations
    BY <1>2, RetryInfoType, TargetType DEF TypeOK
  <2> HIDE DEF target
  <2>5. \A l \in Locations : /\ last'[l] \in Int /\ last'[l] <= now'
                             /\ last'[l] = IF l = location THEN now' ELSE last[l]
    BY <1>2, <1>6, <2>3
  <2>6. \A m \in 1..Len(attempts) :
           attempts'[m].end \in Nat /\ attempts'[m].end <= last'[attempts[m].location]
    <3>1. SUFFICES ASSUME NEW m \in 1..Len(attempts)
                   PROVE  attempts'[m].end \in Nat
                          /\ attempts'[m].end <= last'[attempts[m].location]
      OBVIOUS
    <3>2. CASE m = Len(attempts)
      BY <1>2, <1>4, <1>5, <1>7, <2>1, <2>5, <3>2
    <3>3. CASE m # Len(attempts)
      <4>1. Over(m)
        BY <1>4, <2>1, <3>3 DEF Over
      <4>2. attempts[m].end \in Nat /\ attempts[m].end <= last[attempts[m].location]
        BY <4>1 DEF SpaceInv, LastInv
      <4>3. attempts'[m].end = attempts[m].end
        BY <1>4, <3>3
      <4>4. last[attempts[m].location] <= last'[attempts[m].location]
        BY <1>5, <1>6, <2>5
      <4>5. last[attempts[m].location] \in Int /\ last'[attempts[m].location] \in Int
        BY <1>5, <1>6, <2>5
      <4>6. QED BY <4>2, <4>3, <4>4, <4>5
    <3>4. QED BY <3>2, <3>3
  <2>7. LastInv'
    BY <1>4, <2>3, <2>6 DEF LastInv
  <2>8. phase' = "sleeping" => wake' \in Int /\ wake' >= now' /\ wake' >= now' + delay
    <3>1. delay \in Int
      BY <1>2, <2>4, <2>5 DEF Delay
    <3> HIDE DEF delay
    <3>2. QED BY <1>2, <2>3, <3>1
  <2>9. ClockInv'
    BY <2>1, <2>3, <2>5, <2>8 DEF ClockInv
  <2>10. WaitInv'
    <3>1. SUFFICES ASSUME phase' = "sleeping", NEW m \in 1..Len(attempts),
                          attempts[m].location = target
                   PROVE  attempts'[m].end + attempts'[Len(attempts)].gap <= wake'
      BY <1>4, <2>3 DEF WaitInv, FarEnough
    <3>2. attempts'[Len(attempts)].gap = interval
      BY <1>4, <1>7, <2>1
    <3>3. attempts'[m].end \in Nat /\ attempts'[m].end <= last'[target]
      BY <2>6, <3>1
    <3>4. last'[target] \in Int /\ last'[target] # Never
      BY <2>4, <2>5, <3>3 DEF Never
    <3>5. delay = interval - (now' - last'[target])
      BY <3>4 DEF Delay
    <3>6. QED BY <1>2, <2>8, <3>1, <3>2, <3>3, <3>4, <3>5
  <2>11. QED BY <1>3, <2>7, <2>9, <2>10 DEF SpaceInv
<1>9. CASE ~WouldRetry(response, RetryInfo(response, free))
  <2>1. phase' = after /\ UNCHANGED <<locationMode, location, last, wake>>
    BY <1>1, <1>9
  <2>2. ClockInv'
    BY <1>6, <2>1 DEF ClockInv
  <2>3. LastInv'
    <3>1. phase' = "inFlight" => phase = "inFlight"
      BY <2>1
    <3>2. \A m \in 1..Len(attempts) :
             Over(m)' => Over(m) /\ attempts'[m] = attempts[m]
      BY <1>4, <2>1 DEF Over
    <3>3. phase' = "inFlight" => attempts' # <<>> /\ attempts'[Len(attempts')].location = location'
      BY <1>4, <1>7, <2>1, <3>1
    <3>4. QED BY <1>4, <2>1, <3>2, <3>3 DEF SpaceInv, LastInv
  <2>4. WaitInv'
    <3>1. SUFFICES ASSUME phase' = "collecting", phase = "collecting",
                          NEW m \in 1..Len(attempts), attempts[m].location = location
                   PROVE  attempts'[m].end + attempts'[Len(attempts)].gap <= now'
      BY <1>4, <2>1 DEF WaitInv, FarEnough
    <3>2. attempts'[m] = attempts[m] /\ attempts'[Len(attempts)] = attempts[Len(attempts)]
      BY <1>4, <3>1
    <3>3. attempts[m].end + attempts[Len(attempts)].gap <= now
      BY <3>1 DEF SpaceInv, WaitInv, FarEnough
    <3>4. attempts[m].end \in Int /\ attempts[Len(attempts)].gap \in Int
      <4>1. m \in 1..Len(attempts) /\ Len(attempts) \in 1..Len(attempts)
        BY <1>4
      <4>2. QED BY <1>5, <4>1 DEF Attempt, Never
    <3>5. QED BY <1>2, <3>2, <3>3, <3>4
  <2>5. QED BY <1>3, <2>2, <2>3, <2>4 DEF SpaceInv
<1>10. QED BY <1>8, <1>9

(* Two requests to one location are as far apart as the policy wanted.      *)
THEOREM KeepsInterval == Spec => []Spaced
<1>1. Init => SpaceInv
  <2> SUFFICES ASSUME Init PROVE SpaceInv
    OBVIOUS
  <2>1. /\ attempts = <<>> /\ phase = "sleeping" /\ now = 0 /\ wake = 0
        /\ last = [l \in Locations |-> Never] /\ context.target = None
    BY DEF Init
  <2>2. QED
    BY <2>1 DEF SpaceInv, Spaced, HomeInv, ClockInv, LastInv, WaitInv, FarEnough, Over, Never
<1>2. TypeOK /\ SpaceInv /\ [Next]_vars => SpaceInv'
  <2> SUFFICES ASSUME TypeOK, SpaceInv, [Next]_vars PROVE SpaceInv'
    OBVIOUS
  <2>1. /\ now' \in Nat /\ now \in Nat /\ wake \in Nat /\ request' = request
        /\ attempts \in Seq(Attempt) /\ last \in [Locations -> Nat \cup {Never}]
        /\ location \in Locations /\ Len(attempts) \in Nat
        /\ Lateness \subseteq Nat /\ Latencies \subseteq Nat
    BY NowNat, SameRequest, RetryAssumption DEF TypeOK
  <2>2. /\ BuiltIn' <=> BuiltIn
        /\ Unrestricted' <=> Unrestricted
        /\ Home' = Home
    BY <2>1 DEF BuiltIn, Unrestricted, Home
  <2>3. \A l \in Locations : last[l] \in Int /\ last[l] <= now
    BY <2>1 DEF SpaceInv, ClockInv, Never
(* A request that is started where and when it may be.                      *)
  <2>4. ASSUME attempts' = Started(location), phase' = "inFlight", UNCHANGED <<location, last>>,
               now' >= now, FarEnough(location, now'),
               \A m \in 1..Len(attempts) :
                  attempts[m].end \in Nat /\ attempts[m].end <= last[attempts[m].location]
        PROVE  Spaced' /\ ClockInv' /\ LastInv' /\ WaitInv'
    <3>1. Spaced'
      BY <2>1, <2>4, SpacedStarted DEF SpaceInv
    <3>2. /\ Len(attempts') = Len(attempts) + 1
          /\ \A n \in 1..Len(attempts) : attempts'[n] = attempts[n]
          /\ attempts'[Len(attempts) + 1].location = location
      BY <2>1, <2>4, StartedType
    <3>3. ClockInv'
      BY <2>1, <2>3, <2>4 DEF ClockInv
    <3>4. attempts' # <<>> /\ attempts'[Len(attempts')].location = location'
      BY <2>1, <2>4, <3>2
    <3>5. \A m \in 1..Len(attempts') : Over(m)' => m \in 1..Len(attempts)
      BY <2>1, <2>4, <3>2 DEF Over
    <3>6. LastInv'
      BY <2>4, <3>2, <3>4, <3>5 DEF LastInv
    <3>7. QED BY <2>4, <3>1, <3>3, <3>6 DEF WaitInv
  <2>5. CASE Operation
    <3>1. /\ phase = "sleeping" /\ context' = context /\ last' = last
          /\ wake >= now /\ (attempts # <<>> => request.policy # "none")
      BY <2>5 DEF Operation, SpaceInv, ClockInv
    <3>2. now' >= now /\ (attempts # <<>> => now' >= wake)
      BY <2>1, <2>5, <3>1 DEF Operation
    <3>3. \A m \in 1..Len(attempts) :
             attempts[m].end \in Nat /\ attempts[m].end <= last[attempts[m].location]
      BY <3>1 DEF SpaceInv, LastInv, Over
    <3>4. FarEnough(location, now')
      <4>1. SUFFICES ASSUME NEW m \in 1..Len(attempts), attempts[m].location = location
                     PROVE  attempts[m].end + attempts[Len(attempts)].gap <= now'
        BY DEF FarEnough
      <4>2. attempts[m].end + attempts[Len(attempts)].gap <= wake
        BY <3>1, <4>1 DEF SpaceInv, WaitInv, FarEnough
      <4>3. attempts # <<>> /\ Len(attempts) \in 1..Len(attempts)
        BY <2>1, <4>1
      <4>4. attempts[Len(attempts)] \in Attempt /\ attempts[m].end \in Nat
        BY <2>1, <3>3, <4>1, <4>3
      <4>5. attempts[Len(attempts)].gap \in Nat
        BY <4>4 DEF Attempt
      <4>6. QED BY <2>1, <3>2, <4>2, <4>3, <4>4, <4>5
    <3>5. CASE LocationInvalid(locationMode)
      <4>1. phase' = "thrown" /\ UNCHANGED <<locationMode, location, attempts>>
        BY <2>5, <3>5 DEF Operation
      <4>2. QED
        BY <2>1, <2>2, <2>3, <3>1, <3>2, <4>1, SpacedSame
           DEF SpaceInv, HomeInv, ClockInv, LastInv, WaitInv, Over
    <3>6. CASE ~LocationInvalid(locationMode)
      <4> DEFINE valid == ValidLocation(location, locationMode)
      <4>1. location' = valid[1] /\ locationMode' = valid[2]
        BY <2>5, <3>6 DEF Operation
      <4>2. ~Unrestricted => location' = Home /\ locationMode' = request.where
        BY <4>1 DEF ValidLocation, ForcedLocation, Home, Unrestricted, TypeOK, Request, RequestModes
      <4>3. Unrestricted => location' = location
        BY <4>1 DEF ValidLocation, ForcedLocation, Unrestricted
      <4>4. attempts # <<>> => location' = location
        BY <3>1, <4>2, <4>3 DEF SpaceInv, HomeInv
      <4>5. HomeInv'
        <5>1. phase' # "sleeping"
          BY <2>1, <2>5, <3>6, OperationForms
        <5>2. QED BY <2>1, <2>2, <3>1, <4>2, <5>1 DEF SpaceInv, HomeInv
      <4>6. FarEnough(location', now')
        BY <2>1, <3>4, <4>4 DEF FarEnough
      <4>7. CASE UNCHANGED attempts /\ phase' # "inFlight" /\ phase' # "sleeping"
        <5>1. Spaced' /\ ClockInv'
          BY <2>1, <2>3, <3>1, <3>2, <4>7, SpacedSame DEF SpaceInv, ClockInv
        <5>2. LastInv'
          BY <3>1, <3>3, <4>7 DEF LastInv
        <5>3. WaitInv'
          BY <4>6, <4>7 DEF WaitInv, FarEnough
        <5>4. QED BY <4>5, <5>1, <5>2, <5>3 DEF SpaceInv
      <4>8. CASE phase' = "inFlight" /\ attempts' = Started(location')
        <5>1. location' \in Locations
          BY <2>1, <2>5, OperationForms
        <5>2. Spaced'
          BY <2>1, <4>6, <4>8, <5>1, SpacedStarted DEF SpaceInv
        <5>3. /\ Len(attempts') = Len(attempts) + 1
              /\ \A n \in 1..Len(attempts) : attempts'[n] = attempts[n]
              /\ attempts'[Len(attempts) + 1].location = location'
          BY <2>1, <4>8, <5>1, StartedType
        <5>4. ClockInv'
          BY <2>1, <2>3, <3>1, <3>2, <4>8 DEF ClockInv
        <5>5. attempts' # <<>> /\ attempts'[Len(attempts')].location = location'
          BY <2>1, <4>8, <5>1, <5>3, StartedType
        <5>6. \A m \in 1..Len(attempts') : Over(m)' => m \in 1..Len(attempts)
          BY <2>1, <4>8, <5>3 DEF Over
        <5>7. LastInv'
          BY <3>1, <3>3, <5>3, <5>5, <5>6 DEF LastInv
        <5>8. QED BY <4>5, <4>8, <5>2, <5>4, <5>7 DEF SpaceInv, WaitInv
      <4>9. QED BY <2>1, <2>5, <3>6, <4>7, <4>8, OperationForms DEF Operation
    <3>7. QED BY <3>5, <3>6
  <2>6. CASE StreamData
    <3>1. phase = "collecting" /\ now' >= now
      BY <2>1, <2>6 DEF StreamData
    <3>2. CASE Exceeded(now')
      BY <2>1, <2>6, <3>1, <3>2, ReturnedSpace DEF StreamData, Responses, WithoutResponse
    <3>3. CASE ~Exceeded(now')
      <4>1. UNCHANGED <<phase, locationMode, location, context, last, attempts>>
        BY <2>6, <3>3 DEF StreamData
      <4>2. Spaced' /\ HomeInv' /\ ClockInv'
        BY <2>1, <2>2, <2>3, <3>1, <4>1, SpacedSame DEF SpaceInv, HomeInv, ClockInv
      <4>3. LastInv'
        BY <3>1, <4>1 DEF SpaceInv, LastInv, Over
      <4>4. WaitInv'
        <5>1. SUFFICES ASSUME NEW m \in 1..Len(attempts), attempts[m].location = location
                       PROVE  attempts[m].end + attempts[Len(attempts)].gap <= now'
          BY <3>1, <4>1 DEF WaitInv, FarEnough
        <5>2. attempts[m].end + attempts[Len(attempts)].gap <= now /\ attempts[m].end \in Nat
          BY <3>1, <5>1 DEF SpaceInv, WaitInv, FarEnough, LastInv, Over
        <5>3. Len(attempts) \in 1..Len(attempts)
          BY <2>1, <5>1
        <5>4. attempts[Len(attempts)] \in Attempt
          BY <2>1, <5>3
        <5>5. attempts[Len(attempts)].gap \in Nat
          BY <5>4 DEF Attempt
        <5>6. QED BY <2>1, <3>1, <5>2, <5>5
      <4>5. QED BY <4>2, <4>3, <4>4 DEF SpaceInv
    <3>4. QED BY <3>2, <3>3
  <2>7. CASE StreamEnd
    <3>1. /\ phase = "collecting" /\ phase' = "inFlight" /\ now' = now
          /\ UNCHANGED <<locationMode, location, context, last>> /\ attempts' = Started(location)
      BY <2>7 DEF StreamEnd
    <3>2. FarEnough(location, now')
      BY <3>1 DEF SpaceInv, WaitInv
    <3>3. \A m \in 1..Len(attempts) :
             attempts[m].end \in Nat /\ attempts[m].end <= last[attempts[m].location]
      BY <3>1 DEF SpaceInv, LastInv, Over
    <3>4. Spaced' /\ ClockInv' /\ LastInv' /\ WaitInv'
      BY <2>1, <2>4, <3>1, <3>2, <3>3
    <3>5. HomeInv'
      BY <2>1, <2>2, <3>1 DEF SpaceInv, HomeInv
    <3>6. QED BY <3>4, <3>5 DEF SpaceInv
  <2>8. CASE StreamFails
    <3>1. \E after \in {"done", "inFlight"} :
             /\ after = phase \/ after = "done"
             /\ Returned("ENOTFOUND", after)
      BY <2>8 DEF StreamFails
    <3>2. phase \in {"collecting", "inFlight"} /\ now' >= now
      BY <2>1, <2>8 DEF StreamFails
    <3>3. QED BY <2>1, <3>1, <3>2, ReturnedSpace DEF Responses, WithoutResponse
  <2>9. CASE Respond
    <3>1. /\ phase = "inFlight" /\ now' >= now
          /\ \E response \in Responses : Returned(response, "done")
      BY <2>1, <2>9 DEF Respond
    <3>2. QED BY <2>1, <3>1, ReturnedSpace
  <2>10. CASE Stopped \/ UNCHANGED vars
    <3>1. UNCHANGED <<phase, now, wake, locationMode, location, context, last, attempts>>
      BY <2>10 DEF Stopped, vars
    <3>2. Spaced' /\ HomeInv' /\ ClockInv'
      BY <2>1, <2>2, <3>1, SpacedSame DEF SpaceInv, HomeInv, ClockInv
    <3>3. LastInv' /\ WaitInv'
      BY <3>1 DEF SpaceInv, LastInv, WaitInv, FarEnough, Over
    <3>4. QED BY <3>2, <3>3 DEF SpaceInv
  <2>11. QED BY <2>5, <2>6, <2>7, <2>8, <2>9, <2>10 DEF Next
<1>3. SpaceInv => Spaced
  BY DEF SpaceInv
<1>4. QED BY <1>1, <1>2, <1>3, TypeCorrect, PTL DEF Spec
=============================================================================
