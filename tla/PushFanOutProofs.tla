--------------------------- MODULE PushFanOutProofs ---------------------------
(***************************************************************************)
(* What holds of a push and its retries for any list of subscribers, any   *)
(* devices, providers, delays and answers.                                 *)
(***************************************************************************)
EXTENDS PushFanOut, FiniteSetTheorems, TLAPS

(***************************************************************************)
(* Types                                                                   *)
(***************************************************************************)
\* A lane of a typed state belongs to a call and to a provider.
LEMMA LaneFacts ==
    ASSUME PushTyped, NEW l \in DOMAIN lanes
    PROVE  /\ l[1] \in DOMAIN calls /\ l[2] \in Providers /\ l = <<l[1], l[2]>>
           /\ lanes[l] \in LaneRecords
BY DEF PushTyped

\* A step that only gives a lane another record keeps the types.
LEMMA LaneUpdate ==
    ASSUME PushTyped, NEW l \in DOMAIN lanes, NEW r \in LaneRecords,
           lanes' = [lanes EXCEPT ![l] = r], UNCHANGED <<request, calls, response>>
    PROVE  PushTyped'
BY DEF PushTyped, request

\* The results that are not about a device, and those that are.
LEMMA ResultTypes ==
    /\ Unnamed \in Results /\ Refused \in Results /\ Update \in Results /\ NoResult \in Results
    /\ \A d \in Pairs : Final(d) \in Results /\ Lost(d) \in Results
    /\ \A d \in Pairs, a \in Int : RetryError(d, a) \in Results
BY DEF Results, Unnamed, Refused, Update, NoResult, Final, Lost, RetryError

\* Whatever a push service answers is a result.
LEMMA AnswerTypes ==
    ASSUME NEW p \in Providers, NEW d \in Pairs
    PROVE  Answers(p, d) \subseteq Results
<1>1. Asked[p] \subseteq Int
  BY PushAssumption
<1>2. /\ FcmAnswers(p, d) \subseteq Results /\ WebpushAnswers(p, d) \subseteq Results
      /\ AdmAnswers(p, d) \subseteq Results /\ ApnsErrors(p, d) \subseteq Results
  BY <1>1, ResultTypes DEF FcmAnswers, WebpushAnswers, AdmAnswers, ApnsErrors
<1>3. TypeOf[p] \in Types
  BY PushAssumption
<1> QED
  BY <1>2, <1>3 DEF Answers, Types

LEMMA NewLaneType == NewLane \in LaneRecords
BY ResultTypes DEF NewLane, LaneRecords

LEMMA NewCallType ==
    ASSUME NEW pc \in {"sleeping", "handing", "waiting", "done"}, NEW delay \in Nat
    PROVE  NewCall(pc, delay) \in CallRecords
BY DEF NewCall, CallRecords

LEMMA InitType == Init => PushTyped
<1> SUFFICES ASSUME Init PROVE PushTyped
  OBVIOUS
<1>1. <<provider, device, wanted>> \in Scenarios
  BY PushAssumption DEF Init
<1>2. /\ calls \in [DOMAIN calls -> CallRecords] /\ DOMAIN calls = {Request}
      /\ lanes \in [DOMAIN lanes -> LaneRecords] /\ DOMAIN lanes = {}
  BY NewCallType DEF Init
<1> QED
  BY <1>1, <1>2 DEF Init, PushTyped

\* The steps of a lane's sender and of its workers keep the types.
LEMMA SenderStepType ==
    ASSUME PushTyped, NEW l \in DOMAIN lanes, NEW d, NEW a \in Results,
           \/ Starts(l) \/ Refuses(l) \/ Announces(l) \/ StartsWorker(l)
           \/ EndsReading(l) \/ Closes(l) \/ SenderReports(l) \/ WorkerReports(l, d, a)
    PROVE  PushTyped'
<1> DEFINE r == lanes[l]
<1>1. r \in LaneRecords /\ l[2] \in Providers /\ TypeIs(l) \in Types
  BY LaneFacts, PushAssumption DEF TypeIs
<1>2. CASE Starts(l)
  <2> DEFINE n == [r EXCEPT !.sender = "reading"]
  <2>1. lanes' = [lanes EXCEPT ![l] = n]
    BY <1>2 DEF Starts
  <2>2. n \in LaneRecords
    BY <1>1 DEF LaneRecords
  <2> HIDE DEF n
  <2> QED
    BY <1>2, <2>1, <2>2, LaneUpdate DEF Starts
<1>3. CASE Refuses(l)
  <2> DEFINE n == [r EXCEPT !.sender = "refused", !.holding = Refused,
                            !.drainer = TypeIs(l) # "adm"]
  <2>1. lanes' = [lanes EXCEPT ![l] = n]
    BY <1>3 DEF Refuses
  <2>2. n \in LaneRecords
    BY <1>1, ResultTypes DEF LaneRecords
  <2> HIDE DEF n
  <2> QED
    BY <1>3, <2>1, <2>2, LaneUpdate DEF Refuses
<1>4. CASE Announces(l)
  <2> DEFINE n == [r EXCEPT !.sender = "announced", !.holding = Update]
  <2>1. lanes' = [lanes EXCEPT ![l] = n]
    BY <1>4 DEF Announces
  <2>2. n \in LaneRecords
    BY <1>1, ResultTypes DEF LaneRecords
  <2> HIDE DEF n
  <2> QED
    BY <1>4, <2>1, <2>2, LaneUpdate DEF Announces
<1>5. CASE StartsWorker(l)
  <2> DEFINE n == [r EXCEPT !.work = @ \cup {r.inHand}, !.inHand = None]
  <2>1. lanes' = [lanes EXCEPT ![l] = n]
    BY <1>5 DEF StartsWorker
  <2>2. n \in LaneRecords
    BY <1>1, <1>5 DEF LaneRecords, StartsWorker
  <2> HIDE DEF n
  <2> QED
    BY <1>5, <2>1, <2>2, LaneUpdate DEF StartsWorker
<1>6. CASE EndsReading(l)
  <2> DEFINE n == IF TypeIs(l) = "apns"
                  THEN [r EXCEPT !.sender = "errors", !.processor = "starting"]
                  ELSE [r EXCEPT !.sender = "waiting"]
  <2>1. lanes' = [lanes EXCEPT ![l] = n]
    BY <1>6 DEF EndsReading
  <2>2. n \in LaneRecords
    BY <1>1 DEF LaneRecords
  <2> HIDE DEF n
  <2> QED
    BY <1>6, <2>1, <2>2, LaneUpdate DEF EndsReading
<1>7. CASE Closes(l)
  <2> DEFINE n == [r EXCEPT !.sender = "done"]
  <2>1. lanes' = [lanes EXCEPT ![l] = n]
    BY <1>7 DEF Closes
  <2>2. n \in LaneRecords
    BY <1>1 DEF LaneRecords
  <2> HIDE DEF n
  <2> QED
    BY <1>7, <2>1, <2>2, LaneUpdate DEF Closes
<1>8. CASE SenderReports(l)
  <2> DEFINE n == [r EXCEPT !.holding = NoResult, !.handling = r.holding,
                            !.sender = IF @ # "refused" THEN @
                                       ELSE IF TypeIs(l) = "adm" THEN "draining" ELSE "done"]
  <2>1. lanes' = [lanes EXCEPT ![l] = n]
    BY <1>8 DEF SenderReports
  <2>2. n \in LaneRecords
    BY <1>1, ResultTypes DEF LaneRecords
  <2> HIDE DEF n
  <2> QED
    BY <1>8, <2>1, <2>2, LaneUpdate DEF SenderReports
<1>9. CASE WorkerReports(l, d, a)
  <2> DEFINE n == [r EXCEPT !.work = @ \ {d}, !.handling = a]
  <2>1. lanes' = [lanes EXCEPT ![l] = n]
    BY <1>9 DEF WorkerReports
  <2>2. n \in LaneRecords
    BY <1>1 DEF LaneRecords
  <2> HIDE DEF n
  <2> QED
    BY <1>9, <2>1, <2>2, LaneUpdate DEF WorkerReports
<1> QED
  BY <1>2, <1>3, <1>4, <1>5, <1>6, <1>7, <1>8, <1>9

\* The steps of sendRequests and of what waits for it keep the types.
LEMMA ProcessorStepType ==
    ASSUME PushTyped, NEW l \in DOMAIN lanes, NEW d, NEW a \in Results,
           \/ ProcessorRefuses(l) \/ ProcessorOwes(l) \/ ProcessorStarts(l) \/ ProbeEnds(l)
           \/ ProcessorEnds(l) \/ EndsResponses(l) \/ ProcessorProbes(l, d) \/ Builds(l, d)
           \/ CannotBuild(l, d) \/ ApnsFails(l, d, a) \/ ApnsResponds(l, d) \/ NextResponse(l, d)
    PROVE  PushTyped'
<1> DEFINE r == lanes[l]
<1>1. r \in LaneRecords /\ l[2] \in Providers /\ TypeIs(l) \in Types
  BY LaneFacts, PushAssumption DEF TypeIs
<1>2. CASE ProcessorRefuses(l)
  <2> DEFINE n == [r EXCEPT !.processor = "refusing", !.batch = {},
                            !.owed = Cardinality(r.batch)]
  <2>1. lanes' = [lanes EXCEPT ![l] = n]
    BY <1>2 DEF ProcessorRefuses
  <2>2. Cardinality(r.batch) \in Nat
    BY <1>1, PushAssumption, FS_Subset, FS_CardinalityType DEF LaneRecords
  <2>3. n \in LaneRecords
    BY <1>1, <2>2 DEF LaneRecords
  <2> HIDE DEF n
  <2> QED
    BY <1>2, <2>1, <2>3, LaneUpdate DEF ProcessorRefuses
<1>3. CASE ProcessorOwes(l)
  <2> DEFINE n == [r EXCEPT !.owed = @ - 1, !.holding = Unnamed]
  <2>1. lanes' = [lanes EXCEPT ![l] = n]
    BY <1>3 DEF ProcessorOwes
  <2>2. n \in LaneRecords
    BY <1>1, <1>3, ResultTypes DEF LaneRecords, ProcessorOwes
  <2> HIDE DEF n
  <2> QED
    BY <1>3, <2>1, <2>2, LaneUpdate DEF ProcessorOwes
<1>4. CASE ProcessorStarts(l)
  <2> DEFINE n == [r EXCEPT !.processor = "building"]
  <2>1. lanes' = [lanes EXCEPT ![l] = n]
    BY <1>4 DEF ProcessorStarts
  <2>2. n \in LaneRecords
    BY <1>1 DEF LaneRecords
  <2> HIDE DEF n
  <2> QED
    BY <1>4, <2>1, <2>2, LaneUpdate DEF ProcessorStarts
<1>5. CASE ProbeEnds(l)
  <2> DEFINE n == [r EXCEPT !.processor = "building"]
  <2>1. lanes' = [lanes EXCEPT ![l] = n]
    BY <1>5 DEF ProbeEnds
  <2>2. n \in LaneRecords
    BY <1>1 DEF LaneRecords
  <2> HIDE DEF n
  <2> QED
    BY <1>5, <2>1, <2>2, LaneUpdate DEF ProbeEnds
<1>6. CASE ProcessorEnds(l)
  <2> DEFINE n == [r EXCEPT !.processor = "done", !.sender = "responses"]
  <2>1. lanes' = [lanes EXCEPT ![l] = n]
    BY <1>6 DEF ProcessorEnds
  <2>2. n \in LaneRecords
    BY <1>1 DEF LaneRecords
  <2> HIDE DEF n
  <2> QED
    BY <1>6, <2>1, <2>2, LaneUpdate DEF ProcessorEnds
<1>7. CASE EndsResponses(l)
  <2> DEFINE n == [r EXCEPT !.sender = "done"]
  <2>1. lanes' = [lanes EXCEPT ![l] = n]
    BY <1>7 DEF EndsResponses
  <2>2. n \in LaneRecords
    BY <1>1 DEF LaneRecords
  <2> HIDE DEF n
  <2> QED
    BY <1>7, <2>1, <2>2, LaneUpdate DEF EndsResponses
<1>8. CASE ProcessorProbes(l, d)
  <2> DEFINE n == [r EXCEPT !.processor = "probing", !.batch = @ \ {d}, !.work = {d}]
  <2>1. lanes' = [lanes EXCEPT ![l] = n]
    BY <1>8 DEF ProcessorProbes
  <2>2. n \in LaneRecords
    BY <1>1, <1>8 DEF LaneRecords, ProcessorProbes
  <2> HIDE DEF n
  <2> QED
    BY <1>8, <2>1, <2>2, LaneUpdate DEF ProcessorProbes
<1>9. CASE Builds(l, d)
  <2> DEFINE n == [r EXCEPT !.batch = @ \ {d}, !.work = @ \cup {d}]
  <2>1. lanes' = [lanes EXCEPT ![l] = n]
    BY <1>9 DEF Builds
  <2>2. n \in LaneRecords
    BY <1>1, <1>9 DEF LaneRecords, Builds
  <2> HIDE DEF n
  <2> QED
    BY <1>9, <2>1, <2>2, LaneUpdate DEF Builds
<1>10. CASE CannotBuild(l, d)
  <2> DEFINE n == [r EXCEPT !.batch = @ \ {d}, !.holding = Final(d)]
  <2>1. lanes' = [lanes EXCEPT ![l] = n]
    BY <1>10 DEF CannotBuild
  <2>2. n \in LaneRecords
    BY <1>1, <1>10, ResultTypes DEF LaneRecords, CannotBuild
  <2> HIDE DEF n
  <2> QED
    BY <1>10, <2>1, <2>2, LaneUpdate DEF CannotBuild
<1>11. CASE ApnsFails(l, d, a)
  <2> DEFINE n == [r EXCEPT !.work = @ \ {d}, !.holding = a]
  <2>1. lanes' = [lanes EXCEPT ![l] = n]
    BY <1>11 DEF ApnsFails
  <2>2. n \in LaneRecords
    BY <1>1 DEF LaneRecords
  <2> HIDE DEF n
  <2> QED
    BY <1>11, <2>1, <2>2, LaneUpdate DEF ApnsFails
<1>12. CASE ApnsResponds(l, d)
  <2> DEFINE n == [r EXCEPT !.work = @ \ {d}, !.buffered = @ \cup {d}]
  <2>1. lanes' = [lanes EXCEPT ![l] = n]
    BY <1>12 DEF ApnsResponds
  <2>2. n \in LaneRecords
    BY <1>1, <1>12 DEF LaneRecords, ApnsResponds
  <2> HIDE DEF n
  <2> QED
    BY <1>12, <2>1, <2>2, LaneUpdate DEF ApnsResponds
<1>13. CASE NextResponse(l, d)
  <2> DEFINE n == [r EXCEPT !.buffered = @ \ {d}, !.holding = Final(d)]
  <2>1. lanes' = [lanes EXCEPT ![l] = n]
    BY <1>13 DEF NextResponse
  <2>2. n \in LaneRecords
    BY <1>1, <1>13, ResultTypes DEF LaneRecords, NextResponse
  <2> HIDE DEF n
  <2> QED
    BY <1>13, <2>1, <2>2, LaneUpdate DEF NextResponse
<1> QED
  BY <1>2, <1>3, <1>4, <1>5, <1>6, <1>7, <1>8, <1>9, <1>10, <1>11, <1>12, <1>13

\* The delays a retry may be given.
LEMMA DelayFacts ==
    ASSUME NEW x \in Nat, NEW asked \in Int
    PROVE  /\ After(x, asked) \in Nat /\ After(x, asked) > Second /\ After(x, asked) >= x
           /\ RetryCeiling(asked) \in Nat /\ RetryCeiling(asked) <= MaxRequested
BY PushAssumption DEF After, RetryCeiling, Requested, AtLeast, AtMost

\* fixRetryError adds at most one call, the next retry of the device, and that
\* one's delay has doubled at least and is not above the longest one accepted.
LEMMA RetryFacts ==
    ASSUME PushTyped, NEW c \in DOMAIN calls, NEW d \in Pairs, NEW asked \in Int,
           NEW f, f = FixRetryError(c, d, asked)
    PROVE  \/ f = calls
           \/ \E x \in Nat :
                 /\ f = Put(calls, <<d, c[2] + 1>>, NewCall("sleeping", x))
                 /\ x > Second /\ x >= 2 * calls[c].delay /\ x <= MaxRequested
<1> DEFINE x == After(2 * calls[c].delay, asked)
<1>1. 2 * calls[c].delay \in Nat
  BY DEF PushTyped, CallRecords
<1>2. /\ x \in Nat /\ x > Second /\ x >= 2 * calls[c].delay
      /\ RetryCeiling(asked) \in Nat /\ RetryCeiling(asked) <= MaxRequested
  BY <1>1, DelayFacts
<1>3. MaxRequested \in Nat
  BY PushAssumption
<1> HIDE DEF x
<1>4. CASE x > RetryCeiling(asked)
  BY <1>4 DEF FixRetryError, x
<1>5. CASE ~(x > RetryCeiling(asked))
  <2>1. f = Put(calls, <<d, c[2] + 1>>, NewCall("sleeping", x))
    BY <1>5 DEF FixRetryError, x
  <2>2. x <= MaxRequested
    BY <1>2, <1>3, <1>5
  <2> QED
    BY <1>2, <2>1, <2>2
<1> QED
  BY <1>4, <1>5

LEMMA CollectsType ==
    ASSUME PushTyped, NEW l \in DOMAIN lanes, Collects(l)
    PROVE  PushTyped'
<1> DEFINE h == lanes[l].handling
           r == RetryTransientConnectionError(h)
<1>1. l[1] \in DOMAIN calls /\ l[2] \in Providers /\ lanes[l] \in LaneRecords
  BY LaneFacts
<1>2. h \in Results /\ h # NoResult
  BY <1>1 DEF LaneRecords, Collects
<1>3. r \in Results /\ (r.what \in {"final", "retry"} => r.dev \in Pairs) /\ r.asked \in Int
  BY <1>2, ResultTypes
  DEF RetryTransientConnectionError, Results, RetryError, Unnamed, Refused, Update, NoResult
<1>4. lanes' \in [DOMAIN lanes -> LaneRecords] /\ DOMAIN lanes' = DOMAIN lanes
  <2> DEFINE n == [lanes[l] EXCEPT !.handling = NoResult]
  <2>1. lanes' = [lanes EXCEPT ![l] = n]
    BY DEF Collects
  <2>2. n \in LaneRecords
    BY <1>1, ResultTypes DEF LaneRecords
  <2> HIDE DEF n
  <2> QED
    BY <2>1, <2>2 DEF PushTyped
<1> HIDE DEF r
<1>5. /\ calls' \in [DOMAIN calls' -> CallRecords]
      /\ DOMAIN calls \subseteq DOMAIN calls'
      /\ DOMAIN calls' \subseteq {Request} \cup (Pairs \X (Nat \ {0}))
  <2>1. calls' = calls \/ (r.what = "retry" /\ calls' = FixRetryError(l[1], r.dev, r.asked))
    BY DEF Collects, r
  <2>2. CASE calls' = calls
    BY <2>2 DEF PushTyped
  <2>3. CASE r.what = "retry" /\ calls' = FixRetryError(l[1], r.dev, r.asked) /\ calls' # calls
    <3>1. PICK x \in Nat :
             calls' = Put(calls, <<r.dev, l[1][2] + 1>>, NewCall("sleeping", x))
      BY <1>1, <1>3, <2>3, RetryFacts
    <3>2. NewCall("sleeping", x) \in CallRecords
      BY NewCallType
    <3>3. <<r.dev, l[1][2] + 1>> \in Pairs \X (Nat \ {0})
      <4>1. l[1][2] \in Nat
        BY <1>1 DEF PushTyped, Request
      <4> QED
        BY <1>3, <2>3, <4>1
    <3>4. calls \in [DOMAIN calls -> CallRecords]
      BY DEF PushTyped
    <3> HIDE DEF h
    <3>5. /\ calls' \in [DOMAIN calls' -> CallRecords]
          /\ DOMAIN calls' = DOMAIN calls \cup {<<r.dev, l[1][2] + 1>>}
      BY <3>1, <3>2, <3>4 DEF Put
    <3> QED
      BY <3>3, <3>5 DEF PushTyped
  <2> QED
    BY <2>1, <2>2, <2>3
<1>6. response' = response \/ response' = AddDetails(r, l[2])
  BY DEF Collects, Report, r
<1>7. response' \in [named : [Pairs -> Nat], unnamed : [Providers -> Nat],
                     refused : SUBSET Providers, subs : SUBSET Entries,
                     notSubscribed : SUBSET Devices]
  <2>1. CASE response' = response
    BY <2>1 DEF PushTyped
  <2>2. CASE response' = AddDetails(r, l[2])
    <3>1. CASE r.what \in {"final", "retry"}
      <4> DEFINE n == [response.named EXCEPT ![r.dev] = @ + 1]
      <4>1. response' = [response EXCEPT !.named = n]
        BY <2>2, <3>1 DEF AddDetails
      <4>2. n \in [Pairs -> Nat]
        BY <1>3, <3>1 DEF PushTyped
      <4> HIDE DEF n
      <4> QED
        BY <4>1, <4>2 DEF PushTyped
    <3>2. CASE r.what = "unnamed"
      <4> DEFINE n == [response.unnamed EXCEPT ![l[2]] = @ + 1]
      <4>1. response' = [response EXCEPT !.unnamed = n]
        BY <2>2, <3>2 DEF AddDetails
      <4>2. n \in [Providers -> Nat]
        BY <1>1 DEF PushTyped
      <4> HIDE DEF n
      <4> QED
        BY <4>1, <4>2 DEF PushTyped
    <3>3. CASE r.what = "refused"
      BY <1>1, <2>2, <3>3 DEF AddDetails, PushTyped
    <3>4. CASE r.what \notin {"final", "retry", "unnamed", "refused"}
      BY <2>2, <3>4 DEF AddDetails, PushTyped
    <3> QED
      BY <3>1, <3>2, <3>3, <3>4
  <2> QED
    BY <1>6, <2>1, <2>2
<1>8. UNCHANGED request
  BY DEF Collects
<1> QED
  BY <1>4, <1>5, <1>7, <1>8 DEF PushTyped, request

(***************************************************************************)
(* The steps of the caller                                                 *)
(***************************************************************************)
\* The request itself never sleeps, so that a call that wakes up has a device.
Awake == Request \in DOMAIN calls /\ calls[Request].pc # "sleeping"

\* The scenario of a typed state gives every device a provider.
LEMMA ProviderFacts ==
    ASSUME PushTyped
    PROVE  /\ provider \in [Pairs -> Providers] /\ device \in [Pairs -> Devices]
           /\ wanted \subseteq Devices
BY PushAssumption DEF PushTyped

\* A step that gives a call another record, and may add a lane to it.
LEMMA CallUpdate ==
    ASSUME PushTyped, NEW c \in DOMAIN calls, NEW r \in CallRecords,
           calls' = [calls EXCEPT ![c] = r], UNCHANGED <<request, response>>,
           \/ lanes' = lanes
           \/ \E p \in Providers : lanes' = Put(lanes, LaneOf(c, p), NewLane)
    PROVE  PushTyped'
<1>1. /\ calls' \in [DOMAIN calls -> CallRecords] /\ DOMAIN calls' = DOMAIN calls
      /\ DOMAIN calls \subseteq {Request} \cup (Pairs \X (Nat \ {0}))
  BY DEF PushTyped
<1>2. /\ lanes' \in [DOMAIN lanes' -> LaneRecords]
      /\ DOMAIN lanes' \subseteq (DOMAIN calls) \X Providers
  <2>1. /\ lanes \in [DOMAIN lanes -> LaneRecords]
        /\ DOMAIN lanes \subseteq (DOMAIN calls) \X Providers
    BY DEF PushTyped
  <2>2. CASE lanes' = lanes
    BY <2>1, <2>2
  <2>3. ASSUME NEW p \in Providers, lanes' = Put(lanes, LaneOf(c, p), NewLane)
        PROVE  /\ lanes' \in [DOMAIN lanes' -> LaneRecords]
               /\ DOMAIN lanes' \subseteq (DOMAIN calls) \X Providers
    <3>1. /\ lanes' \in [DOMAIN lanes' -> LaneRecords]
          /\ DOMAIN lanes' = DOMAIN lanes \cup {LaneOf(c, p)}
      BY <2>1, <2>3, NewLaneType DEF Put
    <3> QED
      BY <2>1, <3>1 DEF LaneOf
  <2> QED
    BY <2>2, <2>3
<1> QED
  BY <1>1, <1>2 DEF PushTyped, request

LEMMA CallStepType ==
    ASSUME PushTyped, Awake, NEW c \in DOMAIN calls, CallStep(c)
    PROVE  PushTyped'
<1>1. calls[c] \in CallRecords /\ provider \in [Pairs -> Providers] /\ wanted \subseteq Devices
  BY ProviderFacts DEF PushTyped
<1>2. ASSUME NEW d \in calls[c].todo, Offer(c, d)
      PROVE  PushTyped'
  <2> DEFINE n == [calls[c] EXCEPT !.offer = d, !.todo = @ \ {d}]
  <2>1. calls' = [calls EXCEPT ![c] = n]
    BY <1>2 DEF Offer
  <2>2. n \in CallRecords /\ provider[d] \in Providers
    BY <1>1, <1>2 DEF CallRecords
  <2> HIDE DEF n
  <2>3. \/ lanes' = lanes
        \/ \E p \in Providers : lanes' = Put(lanes, LaneOf(c, p), NewLane)
    BY <1>2, <2>2 DEF Offer
  <2> QED
    BY <1>2, <2>1, <2>2, <2>3, CallUpdate DEF Offer
<1>3. CASE Finish(c)
  <2> DEFINE n == [calls[c] EXCEPT !.pc = "waiting"]
  <2>1. calls' = [calls EXCEPT ![c] = n]
    BY <1>3 DEF Finish
  <2>2. n \in CallRecords
    BY <1>1 DEF CallRecords
  <2> HIDE DEF n
  <2>3. calls' \in [DOMAIN calls -> CallRecords] /\ DOMAIN calls' = DOMAIN calls
    BY <2>1, <2>2 DEF PushTyped
  <2>4. lanes' \in [DOMAIN lanes -> LaneRecords] /\ DOMAIN lanes' = DOMAIN lanes
    <3>1. ASSUME NEW r \in LaneRecords PROVE [r EXCEPT !.queue = "closed"] \in LaneRecords
      BY DEF LaneRecords
    <3> QED
      BY <1>3, <3>1 DEF Finish, PushTyped
  <2>5. response' \in [named : [Pairs -> Nat], unnamed : [Providers -> Nat],
                       refused : SUBSET Providers, subs : SUBSET Entries,
                       notSubscribed : SUBSET Devices]
    <3>1. wanted \ {device[x] : x \in found} \subseteq Devices
      BY <1>1
    <3> QED
      BY <1>3, <3>1 DEF Finish, PushTyped
  <2>6. UNCHANGED request
    BY <1>3 DEF Finish
  <2> QED
    BY <2>3, <2>4, <2>5, <2>6 DEF PushTyped, request
<1>4. CASE Return(c)
  <2> DEFINE n == [calls[c] EXCEPT !.pc = "done"]
  <2>1. calls' = [calls EXCEPT ![c] = n]
    BY <1>4 DEF Return
  <2>2. n \in CallRecords
    BY <1>1 DEF CallRecords
  <2> HIDE DEF n
  <2> QED
    BY <1>4, <2>1, <2>2, CallUpdate DEF Return
<1>5. CASE Wake(c)
  <2>1. c[1] \in Pairs
    BY <1>5 DEF Wake, Awake, PushTyped
  <2> DEFINE n == [calls[c] EXCEPT !.pc = "handing", !.offer = c[1]]
  <2>2. calls' = [calls EXCEPT ![c] = n]
    BY <1>5 DEF Wake
  <2>3. n \in CallRecords /\ provider[c[1]] \in Providers
    BY <1>1, <2>1 DEF CallRecords
  <2> HIDE DEF n
  <2> QED
    BY <1>5, <2>2, <2>3, CallUpdate DEF Wake
<1> QED
  BY <1>2, <1>3, <1>4, <1>5 DEF CallStep

LEMMA LookUpType ==
    ASSUME PushTyped, Awake, LookUp
    PROVE  PushTyped'
<1>1. ASSUME NEW s \in subs, NEW failed \in BOOLEAN, LookupNothing(s, failed)
      PROVE  PushTyped'
  BY <1>1 DEF LookupNothing, PushTyped
<1>2. ASSUME NEW s \in subs, NEW here \in SUBSET Candidates(s),
             NEW orphans \in SUBSET ByName(here), Lookup(s, here, orphans)
      PROVE  PushTyped'
  <2>1. here \subseteq Pairs
    BY DEF Candidates
  <2> DEFINE n == [calls[Request] EXCEPT !.todo = here \ orphans]
             m == [d \in Pairs |-> IF d \in orphans THEN response.named[d] + 1
                                     ELSE response.named[d]]
  <2>2. calls' = [calls EXCEPT ![Request] = n]
    BY <1>2 DEF Lookup
  <2>3. calls[Request] \in CallRecords
    BY DEF PushTyped, Awake
  <2>4. n \in CallRecords
    BY <2>1, <2>3 DEF CallRecords
  <2>5. response' = [response EXCEPT !.named = m]
    BY <1>2 DEF Lookup
  <2>6. m \in [Pairs -> Nat]
    BY DEF PushTyped
  <2> HIDE DEF n, m
  <2>7. calls' \in [DOMAIN calls -> CallRecords] /\ DOMAIN calls' = DOMAIN calls
    BY <2>2, <2>4 DEF PushTyped
  <2>8. response' \in [named : [Pairs -> Nat], unnamed : [Providers -> Nat],
                       refused : SUBSET Providers, subs : SUBSET Entries,
                       notSubscribed : SUBSET Devices]
    BY <2>5, <2>6 DEF PushTyped
  <2>9. UNCHANGED <<provider, device, wanted, lookupFailed, lanes>> /\ subs' \subseteq subs
        /\ found' = found \cup here
    BY <1>2 DEF Lookup
  <2> QED
    BY <2>1, <2>7, <2>8, <2>9 DEF PushTyped
<1> QED
  BY <1>1, <1>2 DEF LookUp

\* A device that changes hands leaves its call and may enter its lane.
LEMMA HandoverType ==
    ASSUME PushTyped, NEW c \in DOMAIN calls, NEW l \in DOMAIN lanes, Handover(c, l)
    PROVE  PushTyped'
<1> DEFINE d == calls[c].offer
           r == lanes[l]
           n == [calls[c] EXCEPT !.offer = None]
<1>1. r \in LaneRecords /\ calls[c] \in CallRecords
  BY LaneFacts DEF PushTyped
<1>2. Meets(c, l) /\ Handed(c) /\ UNCHANGED <<request, response>>
  BY DEF Handover, Discard, Rejects, Takes
<1>3. d \in Pairs
  BY <1>1, <1>2 DEF Meets, CallRecords
<1>4. calls' = [calls EXCEPT ![c] = n] /\ n \in CallRecords
  BY <1>1, <1>2 DEF Handed, CallRecords
<1>5. \E m \in LaneRecords : lanes' = [lanes EXCEPT ![l] = m]
  <2>1. CASE Discard(c, l)
    <3>1. lanes' = [lanes EXCEPT ![l] = r]
      BY <2>1 DEF Discard, PushTyped
    <3> QED
      BY <1>1, <3>1
  <2>2. CASE Rejects(c, l)
    <3>1. lanes' = [lanes EXCEPT ![l] = [r EXCEPT !.holding = Final(d)]]
      BY <2>2 DEF Rejects
    <3>2. [r EXCEPT !.holding = Final(d)] \in LaneRecords
      BY <1>1, <1>3, ResultTypes DEF LaneRecords
    <3> QED
      BY <3>1, <3>2
  <2>3. CASE Takes(c, l)
    <3>1. \/ lanes' = [lanes EXCEPT ![l] = [r EXCEPT !.batch = @ \cup {d}]]
          \/ lanes' = [lanes EXCEPT ![l] = [r EXCEPT !.work = @ \cup {d}]]
          \/ lanes' = [lanes EXCEPT ![l] = [r EXCEPT !.inHand = d]]
      BY <2>3 DEF Takes
    <3>2. /\ [r EXCEPT !.batch = @ \cup {d}] \in LaneRecords
          /\ [r EXCEPT !.work = @ \cup {d}] \in LaneRecords
          /\ [r EXCEPT !.inHand = d] \in LaneRecords
      BY <1>1, <1>3 DEF LaneRecords
    <3> QED
      BY <3>1, <3>2
  <2> QED
    BY <2>1, <2>2, <2>3 DEF Handover
<1> HIDE DEF n
<1> QED
  BY <1>2, <1>4, <1>5 DEF PushTyped, request

\* A step of a lane is one of the lemmas above.
LEMMA LaneStepType ==
    ASSUME PushTyped, NEW l \in DOMAIN lanes, LaneStep(l) \/ ProcessorStep(l)
    PROVE  PushTyped'
<1>1. /\ lanes[l].work \subseteq Pairs /\ lanes[l].batch \subseteq Pairs
      /\ lanes[l].buffered \subseteq Pairs /\ l[2] \in Providers
  BY LaneFacts DEF LaneRecords
<1>2. \A d \in Pairs : Answers(l[2], d) \subseteq Results
  BY <1>1, AnswerTypes
<1>3. CASE LaneStep(l)
  <2>1. CASE Collects(l)
    BY <2>1, CollectsType
  <2>2. CASE \E d \in lanes[l].work : \E r \in Answers(l[2], d) : WorkerReports(l, d, r)
    BY <1>1, <1>2, <2>2, SenderStepType
  <2>3. CASE \/ Starts(l) \/ Refuses(l) \/ Announces(l) \/ StartsWorker(l)
             \/ EndsReading(l) \/ Closes(l) \/ SenderReports(l)
    BY <2>3, ResultTypes, SenderStepType
  <2> QED
    BY <1>3, <2>1, <2>2, <2>3 DEF LaneStep
<1>4. CASE ProcessorStep(l)
  <2>1. ASSUME NEW d, NEW a \in Results,
               \/ ProcessorRefuses(l) \/ ProcessorOwes(l) \/ ProcessorStarts(l) \/ ProbeEnds(l)
               \/ ProcessorEnds(l) \/ EndsResponses(l) \/ ProcessorProbes(l, d)
               \/ Builds(l, d) \/ CannotBuild(l, d) \/ ApnsFails(l, d, a)
               \/ ApnsResponds(l, d) \/ NextResponse(l, d)
        PROVE  PushTyped'
    BY <2>1, ProcessorStepType
  <2>2. NoResult \in Results
    BY ResultTypes
  <2> QED
    BY <1>1, <1>2, <1>4, <2>1, <2>2 DEF ProcessorStep
<1> QED
  BY <1>3, <1>4

(***************************************************************************)
(* How the calls of pushImpl develop                                       *)
(***************************************************************************)
\* No call is forgotten, none is put to sleep and none gets another delay.
SameCalls ==
    /\ DOMAIN calls' = DOMAIN calls
    /\ \A c \in DOMAIN calls :
          /\ calls'[c].delay = calls[c].delay
          /\ calls'[c].pc = "sleeping" => calls[c].pc = "sleeping"

\* A retry is added whose delay is at least twice that of the call it comes from.
RetryAdded ==
    \E c \in DOMAIN calls, d \in Pairs, x \in Nat :
        /\ calls' = Put(calls, <<d, c[2] + 1>>, NewCall("sleeping", x))
        /\ x > Second /\ x >= 2 * calls[c].delay /\ x <= MaxRequested

\* A step that gives one call another record with the same delay.
LEMMA OneCallMoves ==
    ASSUME PushTyped, NEW c \in DOMAIN calls, NEW r,
           calls' = [calls EXCEPT ![c] = r], r.delay = calls[c].delay,
           r.pc = "sleeping" => calls[c].pc = "sleeping"
    PROVE  SameCalls
BY DEF PushTyped, SameCalls

\* Only a collector adds a call, and only the retry of a device.
LEMMA CallsMove ==
    ASSUME PushTyped, Awake, Step
    PROVE  SameCalls \/ RetryAdded
<1>1. CASE calls' = calls
  BY <1>1 DEF SameCalls
<1>2. CASE LookUp
  <2>1. CASE \E s \in subs, failed \in BOOLEAN : LookupNothing(s, failed)
    BY <1>1, <2>1 DEF LookupNothing
  <2>2. CASE \E s \in subs : \E here \in (SUBSET Candidates(s)) \ {{}} :
                \E orphans \in SUBSET ByName(here) : Lookup(s, here, orphans)
    <3>1. PICK t : calls' = [calls EXCEPT ![Request].todo = t]
      BY <2>2 DEF Lookup
    <3>2. calls[Request] \in CallRecords /\ Request \in DOMAIN calls
      BY DEF PushTyped, Awake
    <3> DEFINE n == [calls[Request] EXCEPT !.todo = t]
    <3>3. calls' = [calls EXCEPT ![Request] = n]
      BY <3>1
    <3>4. n.delay = calls[Request].delay /\ n.pc = calls[Request].pc
      BY <3>2 DEF CallRecords
    <3> HIDE DEF n
    <3> QED
      BY <3>2, <3>3, <3>4, OneCallMoves
  <2> QED
    BY <1>2, <2>1, <2>2 DEF LookUp
<1>3. ASSUME NEW c \in DOMAIN calls, CallStep(c)
      PROVE  SameCalls
  <2> DEFINE r == calls[c]
  <2>1. r \in CallRecords
    BY DEF PushTyped
  <2>2. ASSUME NEW d \in r.todo, Offer(c, d) PROVE SameCalls
    <3> DEFINE n == [r EXCEPT !.offer = d, !.todo = @ \ {d}]
    <3>1. calls' = [calls EXCEPT ![c] = n]
      BY <2>2 DEF Offer
    <3>2. n.delay = r.delay /\ n.pc = r.pc
      BY <2>1 DEF CallRecords
    <3> HIDE DEF n
    <3> QED
      BY <3>1, <3>2, OneCallMoves
  <2>3. CASE Finish(c)
    <3> DEFINE n == [r EXCEPT !.pc = "waiting"]
    <3>1. calls' = [calls EXCEPT ![c] = n]
      BY <2>3 DEF Finish
    <3>2. n.delay = r.delay /\ n.pc = "waiting"
      BY <2>1 DEF CallRecords
    <3> HIDE DEF n
    <3> QED
      BY <3>1, <3>2, OneCallMoves
  <2>4. CASE Return(c)
    <3> DEFINE n == [r EXCEPT !.pc = "done"]
    <3>1. calls' = [calls EXCEPT ![c] = n]
      BY <2>4 DEF Return
    <3>2. n.delay = r.delay /\ n.pc = "done"
      BY <2>1 DEF CallRecords
    <3> HIDE DEF n
    <3> QED
      BY <3>1, <3>2, OneCallMoves
  <2>5. CASE Wake(c)
    <3> DEFINE n == [r EXCEPT !.pc = "handing", !.offer = c[1]]
    <3>1. calls' = [calls EXCEPT ![c] = n]
      BY <2>5 DEF Wake
    <3>2. n.delay = r.delay /\ n.pc = "handing"
      BY <2>1 DEF CallRecords
    <3> HIDE DEF n
    <3> QED
      BY <3>1, <3>2, OneCallMoves
  <2> QED
    BY <1>3, <2>2, <2>3, <2>4, <2>5 DEF CallStep
<1>4. ASSUME NEW l \in DOMAIN lanes, Handover(l[1], l)
      PROVE  SameCalls
  <2> DEFINE c == l[1]
             n == [calls[c] EXCEPT !.offer = None]
  <2>1. c \in DOMAIN calls
    BY LaneFacts
  <2>2. calls[c] \in CallRecords
    BY <2>1 DEF PushTyped
  <2>3. calls' = [calls EXCEPT ![c] = n]
    BY <1>4 DEF Handover, Discard, Rejects, Takes, Handed
  <2>4. n.delay = calls[c].delay /\ n.pc = calls[c].pc
    BY <2>2 DEF CallRecords
  <2> HIDE DEF n
  <2> QED
    BY <2>1, <2>3, <2>4, OneCallMoves
<1>5. ASSUME NEW l \in DOMAIN lanes, Collects(l)
      PROVE  SameCalls \/ RetryAdded
  <2> DEFINE r == RetryTransientConnectionError(lanes[l].handling)
  <2>1. l[1] \in DOMAIN calls /\ lanes[l] \in LaneRecords
    BY LaneFacts
  <2>2. r.what = "retry" => r.dev \in Pairs /\ r.asked \in Int
    BY <2>1
    DEF LaneRecords, RetryTransientConnectionError, Results, RetryError, Unnamed, Refused,
        Update, NoResult
  <2>3. calls' = IF r.what = "retry" THEN FixRetryError(l[1], r.dev, r.asked) ELSE calls
    BY <1>5 DEF Collects
  <2> HIDE DEF r
  <2>4. CASE r.what = "retry" /\ calls' # calls
    <3>1. \E x \in Nat :
             /\ calls' = Put(calls, <<r.dev, l[1][2] + 1>>, NewCall("sleeping", x))
             /\ x > Second /\ x >= 2 * calls[l[1]].delay /\ x <= MaxRequested
      BY <2>1, <2>2, <2>3, <2>4, RetryFacts
    <3> QED
      BY <2>1, <2>2, <2>4, <3>1 DEF RetryAdded
  <2> QED
    BY <1>1, <2>3, <2>4
<1>6. ASSUME NEW l \in DOMAIN lanes, LaneStep(l) \/ ProcessorStep(l), ~Collects(l)
      PROVE  calls' = calls
  BY <1>6
  DEF LaneStep, ProcessorStep, Starts, Refuses, Announces, StartsWorker, EndsReading, Closes,
      SenderReports, WorkerReports, ProcessorRefuses, ProcessorOwes, ProcessorStarts, ProbeEnds,
      ProcessorEnds, EndsResponses, ProcessorProbes, Builds, CannotBuild, ApnsFails,
      ApnsResponds, NextResponse
<1> QED
  BY <1>1, <1>2, <1>3, <1>4, <1>5, <1>6 DEF Step

LEMMA AwakeStep ==
    ASSUME PushTyped, Awake, Step
    PROVE  Awake'
<1>1. CASE SameCalls
  BY <1>1 DEF SameCalls, Awake
<1>2. CASE RetryAdded
  <2>1. PICK c \in DOMAIN calls, d \in Pairs, x \in Nat :
           calls' = Put(calls, <<d, c[2] + 1>>, NewCall("sleeping", x))
    BY <1>2 DEF RetryAdded
  <2>2. c[2] \in Nat
    BY DEF PushTyped, Request
  <2>3. Request # <<d, c[2] + 1>>
    BY <2>2 DEF Request
  <2> QED
    BY <2>1, <2>3 DEF Awake, Put, Request
<1> QED
  BY <1>1, <1>2, CallsMove

LEMMA TypesStep ==
    ASSUME PushTyped, Awake, [Step]_push
    PROVE  PushTyped' /\ Awake'
<1>1. CASE UNCHANGED push
  BY <1>1 DEF push, PushTyped, Awake
<1>2. CASE Step
  <2>1. ASSUME NEW l \in DOMAIN lanes, Handover(l[1], l) PROVE PushTyped'
    BY <2>1, LaneFacts, HandoverType
  <2>2. PushTyped'
    BY <1>2, <2>1, LookUpType, CallStepType, LaneStepType DEF Step
  <2> QED
    BY <1>2, <2>2, AwakeStep
<1> QED
  BY <1>1, <1>2

UpTyped == up \in BOOLEAN

\* A worker that panics changes nothing else.
LEMMA NextIsStep == [Next]_vars => [Step]_push
BY DEF Next, vars, AdmPanics

LEMMA InitAwake == Init => Awake
BY DEF Init, Awake, NewCall

\* Whatever the pairs, the providers, their answers and the interleaving, the
\* calls of pushImpl, the lanes and the response keep their types.
THEOREM PushTypes == Spec => []TypeOK
<1>1. Init => PushTyped /\ Awake /\ UpTyped
  BY InitType, InitAwake DEF Init, UpTyped
<1>2. PushTyped /\ Awake /\ [Step]_push => PushTyped' /\ Awake'
  BY TypesStep
<1>3. UpTyped /\ [Next]_vars => UpTyped'
  BY DEF UpTyped, Next, vars, AdmPanics
<1>4. PushTyped /\ UpTyped => TypeOK
  BY DEF TypeOK, UpTyped
<1> QED
  BY <1>1, <1>2, <1>3, <1>4, NextIsStep, PTL DEF Spec

(***************************************************************************)
(* Retries                                                                 *)
(***************************************************************************)
LEMMA RetriesStep ==
    ASSUME PushTyped, Awake, RetriesBounded, [Step]_push
    PROVE  RetriesBounded'
<1>1. CASE UNCHANGED push
  BY <1>1 DEF push, RetriesBounded
<1>2. CASE SameCalls
  BY <1>2 DEF SameCalls, RetriesBounded
<1>3. CASE RetryAdded
  <2>1. PICK c \in DOMAIN calls, d \in Pairs, x \in Nat :
           /\ calls' = Put(calls, <<d, c[2] + 1>>, NewCall("sleeping", x))
           /\ x > Second /\ x >= 2 * calls[c].delay /\ x <= MaxRequested
    BY <1>3 DEF RetryAdded
  <2> DEFINE k == c[2]
             s == Second + 1
             y == calls[c].delay
  <2>2. k \in Nat /\ y \in Nat /\ Second \in Nat /\ s \in Nat
    BY PushAssumption DEF PushTyped, Request, CallRecords
  <2>3. k * s <= y
    BY DEF RetriesBounded
  <2>4. x >= s /\ x >= 2 * y
    BY <2>1, <2>2
  <2> HIDE DEF k, s, y
  <2>5. (k + 1) * s = k * s + s /\ k * s \in Nat
    BY <2>2
  <2>6. (k + 1) * s <= x
    <3>1. CASE k = 0
      BY <2>2, <2>4, <2>5, <3>1
    <3>2. CASE k # 0
      <4>1. k * s >= s
        BY <2>2, <3>2
      <4> QED
        BY <2>2, <2>3, <2>4, <2>5, <4>1
    <3> QED
      BY <3>1, <3>2
  <2>7. calls'[<<d, c[2] + 1>>].delay = x
    BY <2>1 DEF Put, NewCall
  <2>8. \A e \in DOMAIN calls' : e # <<d, c[2] + 1>> =>
           e \in DOMAIN calls /\ calls'[e] = calls[e]
    BY <2>1 DEF Put
  <2>9. ASSUME NEW e \in DOMAIN calls'
        PROVE  e[2] * (Second + 1) <= calls'[e].delay /\ calls'[e].delay <= MaxRequested
    <3>1. CASE e = <<d, c[2] + 1>>
      <4>1. e[2] = k + 1
        BY <3>1 DEF k
      <4> QED
        BY <2>1, <2>6, <2>7, <3>1, <4>1 DEF s
    <3>2. CASE e # <<d, c[2] + 1>>
      BY <2>8, <3>2 DEF RetriesBounded
    <3> QED
      BY <3>1, <3>2
  <2> QED
    BY <2>9 DEF RetriesBounded
<1> QED
  BY <1>1, <1>2, <1>3, CallsMove

\* However a push service answers, and whatever delays it asks for, the k-th
\* retry waits more than k seconds and never longer than maxRequestedRetryDelay:
\* a push is retried a bounded number of times.
THEOREM RetriesAreBounded == Spec => []RetriesBounded
<1>1. Init => PushTyped /\ Awake /\ RetriesBounded
  <2>1. Init => RetriesBounded
    BY PushAssumption DEF Init, RetriesBounded, Request, NewCall
  <2> QED
    BY <2>1, InitType, InitAwake
<1>2. PushTyped /\ Awake /\ RetriesBounded /\ [Step]_push
         => PushTyped' /\ Awake' /\ RetriesBounded'
  BY TypesStep, RetriesStep
<1> QED
  BY <1>1, <1>2, NextIsStep, PTL DEF Spec

(***************************************************************************)
(* What a lane holds                                                       *)
(***************************************************************************)
\* The goroutines of lane r have the notification for d.
InLane(r, d) ==
    \/ r.inHand = d \/ r.holding.dev = d \/ d \in r.batch \/ d \in r.work
    \/ d \in r.buffered \/ r.handling.dev = d

\* Only one of them has it.
Once(r, d) ==
    /\ r.inHand = d => /\ r.holding.dev # d /\ d \notin r.batch /\ d \notin r.work
                       /\ d \notin r.buffered /\ r.handling.dev # d
    /\ r.holding.dev = d => /\ d \notin r.batch /\ d \notin r.work
                            /\ d \notin r.buffered /\ r.handling.dev # d
    /\ d \in r.batch => d \notin r.work /\ d \notin r.buffered /\ r.handling.dev # d
    /\ d \in r.work => d \notin r.buffered /\ r.handling.dev # d
    /\ d \in r.buffered => r.handling.dev # d

\* What the sender and the processor of a lane of type t hold at each point.
Orderly(t, r) ==
    /\ r.sender \in {"starting", "announced", "refused", "draining", "waiting"} =>
          r.inHand = None /\ r.batch = {} /\ r.processor = "off"
    /\ r.sender \in {"starting", "announced", "refused", "draining"} => r.work = {}
    /\ r.sender \in {"starting", "draining", "waiting"} => r.holding = NoResult
    /\ r.sender = "reading" => r.processor = "off"
    /\ r.sender = "reading" /\ t = "apns" => r.inHand = None /\ r.work = {}
    /\ r.sender = "reading" /\ t # "apns" => r.batch = {}
    /\ r.sender = "waiting" => t # "apns"
    /\ r.sender \in {"errors", "responses"} => r.inHand = None /\ t = "apns"
    /\ r.sender = "errors" => r.processor \in {"starting", "refusing", "probing", "building"}
    /\ r.sender = "responses" => r.processor = "done"
    /\ r.sender = "done" =>
          /\ r.inHand = None /\ r.holding = NoResult /\ r.processor \in {"off", "done"}
          /\ r.work = {} /\ r.batch = {} /\ r.buffered = {}
    /\ r.processor = "off" => r.buffered = {}
    /\ r.processor = "starting" => r.work = {}
    /\ r.processor = "refusing" => r.batch = {} /\ r.work = {}
    /\ r.processor = "done" => r.batch = {} /\ r.work = {}
    /\ r.processor # "refusing" => r.owed = 0

\* The provider is refused: by a sender that discards devices, and in a result
\* on its way to the response.
Refusing(r) == r.drainer \/ r.sender \in {"refused", "draining"}
RefusalIn(r) == r.holding = Refused \/ r.handling = Refused

\* The answers on their way to the response that name no device.
One(b) == IF b THEN 1 ELSE 0
Blank(r) == r.owed + One(r.holding = Unnamed) + One(r.handling = Unnamed)

\* A lane goes on: it takes no device in, and for those it loses without a
\* name (D) it owes as many answers more.
Moves(t, r, n) ==
    /\ n \in LaneRecords /\ n.queue = r.queue /\ Orderly(t, n)
    /\ \A d \in Pairs : Once(n, d)
    /\ RefusalIn(r) => RefusalIn(n)
    /\ Refusing(n) => Refusing(r) \/ RefusalIn(n)
    /\ \E D \in SUBSET Pairs :
          /\ \A d \in D : InLane(r, d)
          /\ \A d \in Pairs : InLane(n, d) <=> InLane(r, d) /\ d \notin D
          /\ Blank(n) = Blank(r) + Cardinality(D)

\* The results tell a device, or that there is none.
LEMMA ResultFacts ==
    /\ NoResult.dev \notin Pairs /\ Unnamed.dev \notin Pairs
    /\ Refused.dev \notin Pairs /\ Update.dev \notin Pairs
    /\ NoResult # Unnamed /\ NoResult # Refused /\ Unnamed # Refused
    /\ Update # Unnamed /\ Update # Refused /\ Update # NoResult
    /\ \A d \in Pairs : /\ Final(d).dev = d /\ Final(d) # Unnamed
                          /\ Final(d) # Refused /\ Final(d) # NoResult
BY PushAssumption DEF NoResult, Unnamed, Refused, Update, Final

\* A service answers about the device; only apns may leave out its name.
LEMMA AnswerFacts ==
    ASSUME NEW p \in Providers, NEW d \in Pairs, NEW a \in Answers(p, d)
    PROVE  /\ a # NoResult /\ a # Refused
           /\ (a.dev = d /\ a # Unnamed) \/ (a = Unnamed /\ TypeOf[p] = "apns")
<1>1. TypeOf[p] \in Types
  BY PushAssumption
<1>2. ASSUME NEW x
      PROVE  /\ RetryError(d, x).dev = d /\ RetryError(d, x).what = "retry"
             /\ Final(d).dev = d /\ Final(d).what = "final"
             /\ Lost(d).dev = d /\ Lost(d).what = "lost"
  BY DEF RetryError, Final, Lost
<1>3. /\ Unnamed.what = "unnamed" /\ NoResult.what = "none" /\ Refused.what = "refused"
  BY DEF Unnamed, NoResult, Refused
<1>4. CASE TypeOf[p] = "apns"
  BY <1>2, <1>3, <1>4 DEF Answers, ApnsErrors
<1>5. CASE TypeOf[p] # "apns"
  <2>1. \/ a = Final(d) \/ a = Lost(d) \/ \E x : a = RetryError(d, x)
    BY <1>1, <1>5 DEF Answers, FcmAnswers, WebpushAnswers, AdmAnswers, Types
  <2> QED
    BY <1>2, <1>3, <2>1
<1> QED
  BY <1>4, <1>5

LEMMA BlankType ==
    ASSUME NEW r \in LaneRecords
    PROVE  Blank(r) \in Nat
BY DEF Blank, One, LaneRecords

\* A step that loses no device.
LEMMA LosesNone ==
    ASSUME NEW t, NEW r \in LaneRecords, NEW n \in LaneRecords, n.queue = r.queue,
           Orderly(t, n), \A d \in Pairs : Once(n, d),
           RefusalIn(r) => RefusalIn(n), Refusing(n) => Refusing(r) \/ RefusalIn(n),
           \A d \in Pairs : InLane(n, d) <=> InLane(r, d), Blank(n) = Blank(r)
    PROVE  Moves(t, r, n)
<1>1. Blank(n) = Blank(r) + Cardinality({})
  BY BlankType, FS_EmptySet
<1> QED
  BY <1>1 DEF Moves

\* A step of the control only.
LEMMA ControlMoves ==
    ASSUME NEW t, NEW r \in LaneRecords, NEW n \in LaneRecords,
           \A d \in Pairs : Once(r, d), n.queue = r.queue, Orderly(t, n),
           n.inHand = r.inHand, n.holding = r.holding, n.batch = r.batch, n.work = r.work,
           n.buffered = r.buffered, n.owed = r.owed, n.handling = r.handling,
           n.drainer = r.drainer, n.sender = r.sender \/ n.sender \notin {"refused", "draining"}
    PROVE  Moves(t, r, n)
<1>1. \A d \in Pairs : Once(n, d) /\ (InLane(n, d) <=> InLane(r, d))
  BY DEF Once, InLane
<1>2. Blank(n) = Blank(r)
  BY DEF Blank
<1>3. (RefusalIn(r) => RefusalIn(n)) /\ (Refusing(n) => Refusing(r))
  BY DEF RefusalIn, Refusing
<1> QED
  BY <1>1, <1>2, <1>3, LosesNone


LanesOrderly ==
    \A l \in DOMAIN lanes :
        Orderly(TypeIs(l), lanes[l]) /\ \A d \in Pairs : Once(lanes[l], d)

\* How a step of lane l shows.
LaneMoves(l) ==
    \E n : lanes' = [lanes EXCEPT ![l] = n] /\ Moves(TypeIs(l), lanes[l], n)

LEMMA ControlSteps ==
    ASSUME PushTyped, LanesOrderly, NEW l \in DOMAIN lanes,
           \/ Starts(l) \/ EndsReading(l) \/ Closes(l) \/ ProcessorStarts(l) \/ ProbeEnds(l)
           \/ ProcessorEnds(l) \/ EndsResponses(l)
    PROVE  LaneMoves(l)
<1> DEFINE r == lanes[l]
           t == TypeIs(l)
<1>1. r \in LaneRecords /\ l[2] \in Providers /\ t \in Types
  BY LaneFacts, PushAssumption DEF TypeIs
<1>2. Orderly(t, r) /\ \A x \in Pairs : Once(r, x)
  BY DEF LanesOrderly
<1> HIDE DEF r, t
<1>3. CASE Starts(l)
  <2> DEFINE n == [r EXCEPT !.sender = "reading"]
  <2>1. lanes' = [lanes EXCEPT ![l] = n]
    BY <1>3 DEF Starts, r
  <2>2. /\ n.queue = r.queue /\ n.sender = "reading" /\ n.inHand = r.inHand
        /\ n.holding = r.holding /\ n.batch = r.batch /\ n.work = r.work
        /\ n.buffered = r.buffered /\ n.processor = r.processor /\ n.owed = r.owed
        /\ n.drainer = r.drainer /\ n.handling = r.handling
    BY <1>1 DEF LaneRecords
  <2>3. n \in LaneRecords
    BY <1>1 DEF LaneRecords
  <2> HIDE DEF n
  <2>4. Orderly(t, n)
    BY <1>1, <1>2, <1>3, <2>2 DEF Orderly, Starts, Free, Listens, r
  <2>5. Moves(t, r, n)
    BY <1>1, <1>2, <2>2, <2>3, <2>4, ControlMoves
  <2> QED
    BY <2>1, <2>5 DEF LaneMoves, r, t
<1>4. CASE Closes(l)
  <2> DEFINE n == [r EXCEPT !.sender = "done"]
  <2>1. lanes' = [lanes EXCEPT ![l] = n]
    BY <1>4 DEF Closes, r
  <2>2. /\ n.queue = r.queue /\ n.sender = "done" /\ n.inHand = r.inHand
        /\ n.holding = r.holding /\ n.batch = r.batch /\ n.work = r.work
        /\ n.buffered = r.buffered /\ n.processor = r.processor /\ n.owed = r.owed
        /\ n.drainer = r.drainer /\ n.handling = r.handling
    BY <1>1 DEF LaneRecords
  <2>3. n \in LaneRecords
    BY <1>1 DEF LaneRecords
  <2> HIDE DEF n
  <2>4. Orderly(t, n)
    BY <1>1, <1>2, <1>4, <2>2 DEF Orderly, Closes, Free, Listens, r
  <2>5. Moves(t, r, n)
    BY <1>1, <1>2, <2>2, <2>3, <2>4, ControlMoves
  <2> QED
    BY <2>1, <2>5 DEF LaneMoves, r, t
<1>5. CASE ProcessorStarts(l)
  <2> DEFINE n == [r EXCEPT !.processor = "building"]
  <2>1. lanes' = [lanes EXCEPT ![l] = n]
    BY <1>5 DEF ProcessorStarts, r
  <2>2. /\ n.queue = r.queue /\ n.sender = r.sender /\ n.inHand = r.inHand
        /\ n.holding = r.holding /\ n.batch = r.batch /\ n.work = r.work
        /\ n.buffered = r.buffered /\ n.processor = "building" /\ n.owed = r.owed
        /\ n.drainer = r.drainer /\ n.handling = r.handling
    BY <1>1 DEF LaneRecords
  <2>3. n \in LaneRecords
    BY <1>1 DEF LaneRecords
  <2> HIDE DEF n
  <2>4. Orderly(t, n)
    BY <1>1, <1>2, <1>5, <2>2 DEF Orderly, ProcessorStarts, Free, Listens, r
  <2>5. Moves(t, r, n)
    BY <1>1, <1>2, <2>2, <2>3, <2>4, ControlMoves
  <2> QED
    BY <2>1, <2>5 DEF LaneMoves, r, t
<1>6. CASE ProbeEnds(l)
  <2> DEFINE n == [r EXCEPT !.processor = "building"]
  <2>1. lanes' = [lanes EXCEPT ![l] = n]
    BY <1>6 DEF ProbeEnds, r
  <2>2. /\ n.queue = r.queue /\ n.sender = r.sender /\ n.inHand = r.inHand
        /\ n.holding = r.holding /\ n.batch = r.batch /\ n.work = r.work
        /\ n.buffered = r.buffered /\ n.processor = "building" /\ n.owed = r.owed
        /\ n.drainer = r.drainer /\ n.handling = r.handling
    BY <1>1 DEF LaneRecords
  <2>3. n \in LaneRecords
    BY <1>1 DEF LaneRecords
  <2> HIDE DEF n
  <2>4. Orderly(t, n)
    BY <1>1, <1>2, <1>6, <2>2 DEF Orderly, ProbeEnds, Free, Listens, r
  <2>5. Moves(t, r, n)
    BY <1>1, <1>2, <2>2, <2>3, <2>4, ControlMoves
  <2> QED
    BY <2>1, <2>5 DEF LaneMoves, r, t
<1>7. CASE ProcessorEnds(l)
  <2> DEFINE n == [r EXCEPT !.processor = "done", !.sender = "responses"]
  <2>1. lanes' = [lanes EXCEPT ![l] = n]
    BY <1>7 DEF ProcessorEnds, r
  <2>2. /\ n.queue = r.queue /\ n.sender = "responses" /\ n.inHand = r.inHand
        /\ n.holding = r.holding /\ n.batch = r.batch /\ n.work = r.work
        /\ n.buffered = r.buffered /\ n.processor = "done" /\ n.owed = r.owed
        /\ n.drainer = r.drainer /\ n.handling = r.handling
    BY <1>1 DEF LaneRecords
  <2>3. n \in LaneRecords
    BY <1>1 DEF LaneRecords
  <2> HIDE DEF n
  <2>4. Orderly(t, n)
    BY <1>1, <1>2, <1>7, <2>2 DEF Orderly, ProcessorEnds, Free, Listens, r
  <2>5. Moves(t, r, n)
    BY <1>1, <1>2, <2>2, <2>3, <2>4, ControlMoves
  <2> QED
    BY <2>1, <2>5 DEF LaneMoves, r, t
<1>8. CASE EndsResponses(l)
  <2> DEFINE n == [r EXCEPT !.sender = "done"]
  <2>1. lanes' = [lanes EXCEPT ![l] = n]
    BY <1>8 DEF EndsResponses, r
  <2>2. /\ n.queue = r.queue /\ n.sender = "done" /\ n.inHand = r.inHand
        /\ n.holding = r.holding /\ n.batch = r.batch /\ n.work = r.work
        /\ n.buffered = r.buffered /\ n.processor = r.processor /\ n.owed = r.owed
        /\ n.drainer = r.drainer /\ n.handling = r.handling
    BY <1>1 DEF LaneRecords
  <2>3. n \in LaneRecords
    BY <1>1 DEF LaneRecords
  <2> HIDE DEF n
  <2>4. Orderly(t, n)
    BY <1>1, <1>2, <1>8, <2>2 DEF Orderly, EndsResponses, Free, Listens, r
  <2>5. Moves(t, r, n)
    BY <1>1, <1>2, <2>2, <2>3, <2>4, ControlMoves
  <2> QED
    BY <2>1, <2>5 DEF LaneMoves, r, t
<1>9. CASE EndsReading(l) /\ t = "apns"
  <2> DEFINE n == [r EXCEPT !.sender = "errors", !.processor = "starting"]
  <2>1. lanes' = [lanes EXCEPT ![l] = n]
    BY <1>9 DEF EndsReading, r, t
  <2>2. /\ n.queue = r.queue /\ n.sender = "errors" /\ n.inHand = r.inHand
        /\ n.holding = r.holding /\ n.batch = r.batch /\ n.work = r.work
        /\ n.buffered = r.buffered /\ n.processor = "starting" /\ n.owed = r.owed
        /\ n.drainer = r.drainer /\ n.handling = r.handling
    BY <1>1 DEF LaneRecords
  <2>3. n \in LaneRecords
    BY <1>1 DEF LaneRecords
  <2> HIDE DEF n
  <2>4. Orderly(t, n)
    BY <1>1, <1>2, <1>9, <2>2 DEF Orderly, EndsReading, Free, Listens, r
  <2>5. Moves(t, r, n)
    BY <1>1, <1>2, <2>2, <2>3, <2>4, ControlMoves
  <2> QED
    BY <2>1, <2>5 DEF LaneMoves, r, t
<1>10. CASE EndsReading(l) /\ t # "apns"
  <2> DEFINE n == [r EXCEPT !.sender = "waiting"]
  <2>1. lanes' = [lanes EXCEPT ![l] = n]
    BY <1>10 DEF EndsReading, r, t
  <2>2. /\ n.queue = r.queue /\ n.sender = "waiting" /\ n.inHand = r.inHand
        /\ n.holding = r.holding /\ n.batch = r.batch /\ n.work = r.work
        /\ n.buffered = r.buffered /\ n.processor = r.processor /\ n.owed = r.owed
        /\ n.drainer = r.drainer /\ n.handling = r.handling
    BY <1>1 DEF LaneRecords
  <2>3. n \in LaneRecords
    BY <1>1 DEF LaneRecords
  <2> HIDE DEF n
  <2>4. Orderly(t, n)
    BY <1>1, <1>2, <1>10, <2>2 DEF Orderly, EndsReading, Free, Listens, r
  <2>5. Moves(t, r, n)
    BY <1>1, <1>2, <2>2, <2>3, <2>4, ControlMoves
  <2> QED
    BY <2>1, <2>5 DEF LaneMoves, r, t
<1> QED
  BY <1>3, <1>4, <1>5, <1>6, <1>7, <1>8, <1>9, <1>10

LEMMA SenderSteps ==
    ASSUME PushTyped, LanesOrderly, NEW l \in DOMAIN lanes,
           Refuses(l) \/ Announces(l) \/ StartsWorker(l) \/ SenderReports(l) \/ ProcessorOwes(l)
    PROVE  LaneMoves(l)
<1> DEFINE r == lanes[l]
           t == TypeIs(l)
<1>1. r \in LaneRecords /\ l[2] \in Providers /\ t \in Types
  BY LaneFacts, PushAssumption DEF TypeIs
<1>2. Orderly(t, r) /\ \A x \in Pairs : Once(r, x)
  BY DEF LanesOrderly
<1> HIDE DEF r, t
<1>3. CASE Refuses(l)
  <2> DEFINE n == [r EXCEPT !.sender = "refused", !.holding = Refused, !.drainer = t # "adm"]
  <2>1. lanes' = [lanes EXCEPT ![l] = n]
    BY <1>1, <1>3 DEF Refuses, r, t
  <2>2. /\ n.queue = r.queue /\ n.sender = "refused" /\ n.inHand = r.inHand
        /\ n.holding = Refused /\ n.batch = r.batch /\ n.work = r.work
        /\ n.buffered = r.buffered /\ n.processor = r.processor /\ n.owed = r.owed
        /\ n.drainer = (t # "adm") /\ n.handling = r.handling
    BY <1>1 DEF LaneRecords
  <2>3. n \in LaneRecords
    BY <1>1, <1>3, ResultTypes DEF LaneRecords, Refuses, r
  <2> HIDE DEF n
  <2>4. Orderly(t, n)
    BY <1>1, <1>2, <1>3, <2>2 DEF Orderly, Refuses, Free, Listens, r, t
  <2>5. \A x \in Pairs : Once(n, x) /\ (InLane(n, x) <=> InLane(r, x))
    BY <1>1, <1>2, <1>3, <2>2, ResultFacts DEF Once, InLane, Orderly, LaneRecords, Refuses, Free, Listens, r, t
  <2>6. Blank(n) = Blank(r)
    BY <1>1, <1>2, <1>3, <2>2, ResultFacts DEF Blank, One, Orderly, Refuses, Free, Listens, LaneRecords, r, t
  <2>7. (RefusalIn(r) => RefusalIn(n)) /\ (Refusing(n) => Refusing(r) \/ RefusalIn(n))
    BY <1>1, <1>2, <1>3, <2>2, ResultFacts DEF RefusalIn, Refusing, Orderly, Refuses, Free, Listens, r, t
  <2>8. Moves(t, r, n)
    BY <1>1, <2>2, <2>3, <2>4, <2>5, <2>6, <2>7, LosesNone
  <2> QED
    BY <2>1, <2>8 DEF LaneMoves, r, t
<1>4. CASE Announces(l)
  <2> DEFINE n == [r EXCEPT !.sender = "announced", !.holding = Update]
  <2>1. lanes' = [lanes EXCEPT ![l] = n]
    BY <1>1, <1>4 DEF Announces, r, t
  <2>2. /\ n.queue = r.queue /\ n.sender = "announced" /\ n.inHand = r.inHand
        /\ n.holding = Update /\ n.batch = r.batch /\ n.work = r.work
        /\ n.buffered = r.buffered /\ n.processor = r.processor /\ n.owed = r.owed
        /\ n.drainer = r.drainer /\ n.handling = r.handling
    BY <1>1 DEF LaneRecords
  <2>3. n \in LaneRecords
    BY <1>1, <1>4, ResultTypes DEF LaneRecords, Announces, r
  <2> HIDE DEF n
  <2>4. Orderly(t, n)
    BY <1>1, <1>2, <1>4, <2>2 DEF Orderly, Announces, Free, Listens, r, t
  <2>5. \A x \in Pairs : Once(n, x) /\ (InLane(n, x) <=> InLane(r, x))
    BY <1>1, <1>2, <1>4, <2>2, ResultFacts DEF Once, InLane, Orderly, LaneRecords, Announces, Free, Listens, r, t
  <2>6. Blank(n) = Blank(r)
    BY <1>1, <1>2, <1>4, <2>2, ResultFacts DEF Blank, One, Orderly, Announces, Free, Listens, LaneRecords, r, t
  <2>7. (RefusalIn(r) => RefusalIn(n)) /\ (Refusing(n) => Refusing(r) \/ RefusalIn(n))
    BY <1>1, <1>2, <1>4, <2>2, ResultFacts DEF RefusalIn, Refusing, Orderly, Announces, Free, Listens, r, t
  <2>8. Moves(t, r, n)
    BY <1>1, <2>2, <2>3, <2>4, <2>5, <2>6, <2>7, LosesNone
  <2> QED
    BY <2>1, <2>8 DEF LaneMoves, r, t
<1>5. CASE StartsWorker(l)
  <2> DEFINE n == [r EXCEPT !.work = r.work \cup {r.inHand}, !.inHand = None]
  <2>1. lanes' = [lanes EXCEPT ![l] = n]
    BY <1>1, <1>5 DEF StartsWorker, r, t
  <2>2. /\ n.queue = r.queue /\ n.sender = r.sender /\ n.inHand = None
        /\ n.holding = r.holding /\ n.batch = r.batch
        /\ n.work = r.work \cup {r.inHand} /\ n.buffered = r.buffered
        /\ n.processor = r.processor /\ n.owed = r.owed /\ n.drainer = r.drainer
        /\ n.handling = r.handling
    BY <1>1 DEF LaneRecords
  <2>3. n \in LaneRecords
    BY <1>1, <1>5, ResultTypes DEF LaneRecords, StartsWorker, r
  <2> HIDE DEF n
  <2>0. r.sender = "reading" /\ t # "apns" /\ r.processor = "off" /\ r.inHand # None
    BY <1>1, <1>2, <1>5 DEF Orderly, StartsWorker, LaneRecords, r
  <2>4. Orderly(t, n)
    BY <1>1, <1>2, <1>5, <2>2, <2>0 DEF Orderly, StartsWorker, Free, Listens, r, t
  <2>5. \A x \in Pairs : Once(n, x) /\ (InLane(n, x) <=> InLane(r, x))
    BY <1>1, <1>2, <2>2, <2>0, PushAssumption DEF Once, InLane, LaneRecords
  <2>6. Blank(n) = Blank(r)
    BY <1>1, <1>2, <1>5, <2>2, ResultFacts DEF Blank, One, Orderly, StartsWorker, Free, Listens, LaneRecords, r, t
  <2>7. (RefusalIn(r) => RefusalIn(n)) /\ (Refusing(n) => Refusing(r) \/ RefusalIn(n))
    BY <1>1, <1>2, <1>5, <2>2, ResultFacts DEF RefusalIn, Refusing, Orderly, StartsWorker, Free, Listens, r, t
  <2>8. Moves(t, r, n)
    BY <1>1, <2>2, <2>3, <2>4, <2>5, <2>6, <2>7, LosesNone
  <2> QED
    BY <2>1, <2>8 DEF LaneMoves, r, t
<1>6. CASE SenderReports(l) /\ r.sender # "refused"
  <2> DEFINE n == [r EXCEPT !.holding = NoResult, !.handling = r.holding]
  <2>1. lanes' = [lanes EXCEPT ![l] = n]
    BY <1>1, <1>6 DEF SenderReports, r, t
  <2>2. /\ n.queue = r.queue /\ n.sender = r.sender /\ n.inHand = r.inHand
        /\ n.holding = NoResult /\ n.batch = r.batch /\ n.work = r.work
        /\ n.buffered = r.buffered /\ n.processor = r.processor /\ n.owed = r.owed
        /\ n.drainer = r.drainer /\ n.handling = r.holding
    BY <1>1 DEF LaneRecords
  <2>3. n \in LaneRecords
    BY <1>1, <1>6, ResultTypes DEF LaneRecords, SenderReports, r
  <2> HIDE DEF n
  <2>4. Orderly(t, n)
    BY <1>1, <1>2, <1>6, <2>2 DEF Orderly, SenderReports, Free, Listens, r, t
  <2>5. \A x \in Pairs : Once(n, x) /\ (InLane(n, x) <=> InLane(r, x))
    BY <1>1, <1>2, <1>6, <2>2, ResultFacts DEF Once, InLane, Orderly, LaneRecords, SenderReports, Free, Listens, r, t
  <2>6. Blank(n) = Blank(r)
    BY <1>1, <1>2, <1>6, <2>2, ResultFacts DEF Blank, One, Orderly, SenderReports, Free, Listens, LaneRecords, r, t
  <2>7. (RefusalIn(r) => RefusalIn(n)) /\ (Refusing(n) => Refusing(r) \/ RefusalIn(n))
    BY <1>1, <1>2, <1>6, <2>2, ResultFacts DEF RefusalIn, Refusing, Orderly, SenderReports, Free, Listens, r, t
  <2>8. Moves(t, r, n)
    BY <1>1, <2>2, <2>3, <2>4, <2>5, <2>6, <2>7, LosesNone
  <2> QED
    BY <2>1, <2>8 DEF LaneMoves, r, t
<1>7. CASE SenderReports(l) /\ r.sender = "refused"
  <2> DEFINE n == [r EXCEPT !.holding = NoResult, !.handling = r.holding, !.sender = IF t = "adm" THEN "draining" ELSE "done"]
  <2>1. lanes' = [lanes EXCEPT ![l] = n]
    BY <1>1, <1>7 DEF SenderReports, r, t
  <2>2. /\ n.queue = r.queue /\ n.sender = IF t = "adm" THEN "draining" ELSE "done"
        /\ n.inHand = r.inHand /\ n.holding = NoResult /\ n.batch = r.batch
        /\ n.work = r.work /\ n.buffered = r.buffered /\ n.processor = r.processor
        /\ n.owed = r.owed /\ n.drainer = r.drainer /\ n.handling = r.holding
    BY <1>1 DEF LaneRecords
  <2>3. n \in LaneRecords
    BY <1>1, <1>7, ResultTypes DEF LaneRecords, SenderReports, r
  <2> HIDE DEF n
  <2>4. Orderly(t, n)
    BY <1>1, <1>2, <1>7, <2>2 DEF Orderly, SenderReports, Free, Listens, r, t
  <2>5. \A x \in Pairs : Once(n, x) /\ (InLane(n, x) <=> InLane(r, x))
    BY <1>1, <1>2, <1>7, <2>2, ResultFacts DEF Once, InLane, Orderly, LaneRecords, SenderReports, Free, Listens, r, t
  <2>6. Blank(n) = Blank(r)
    BY <1>1, <1>2, <1>7, <2>2, ResultFacts DEF Blank, One, Orderly, SenderReports, Free, Listens, LaneRecords, r, t
  <2>7. (RefusalIn(r) => RefusalIn(n)) /\ (Refusing(n) => Refusing(r) \/ RefusalIn(n))
    BY <1>1, <1>2, <1>7, <2>2, ResultFacts DEF RefusalIn, Refusing, Orderly, SenderReports, Free, Listens, r, t
  <2>8. Moves(t, r, n)
    BY <1>1, <2>2, <2>3, <2>4, <2>5, <2>6, <2>7, LosesNone
  <2> QED
    BY <2>1, <2>8 DEF LaneMoves, r, t
<1>8. CASE ProcessorOwes(l)
  <2> DEFINE n == [r EXCEPT !.owed = r.owed - 1, !.holding = Unnamed]
  <2>1. lanes' = [lanes EXCEPT ![l] = n]
    BY <1>1, <1>8 DEF ProcessorOwes, r, t
  <2>2. /\ n.queue = r.queue /\ n.sender = r.sender /\ n.inHand = r.inHand
        /\ n.holding = Unnamed /\ n.batch = r.batch /\ n.work = r.work
        /\ n.buffered = r.buffered /\ n.processor = r.processor
        /\ n.owed = r.owed - 1 /\ n.drainer = r.drainer /\ n.handling = r.handling
    BY <1>1 DEF LaneRecords
  <2>3. n \in LaneRecords
    BY <1>1, <1>8, ResultTypes DEF LaneRecords, ProcessorOwes, r
  <2> HIDE DEF n
  <2>4. Orderly(t, n)
    BY <1>1, <1>2, <1>8, <2>2 DEF Orderly, ProcessorOwes, Free, Listens, r, t
  <2>5. \A x \in Pairs : Once(n, x) /\ (InLane(n, x) <=> InLane(r, x))
    BY <1>1, <1>2, <1>8, <2>2, ResultFacts DEF Once, InLane, Orderly, LaneRecords, ProcessorOwes, Free, Listens, r, t
  <2>6. Blank(n) = Blank(r)
    BY <1>1, <1>2, <1>8, <2>2, ResultFacts DEF Blank, One, Orderly, ProcessorOwes, Free, Listens, LaneRecords, r, t
  <2>7. (RefusalIn(r) => RefusalIn(n)) /\ (Refusing(n) => Refusing(r) \/ RefusalIn(n))
    BY <1>1, <1>2, <1>8, <2>2, ResultFacts DEF RefusalIn, Refusing, Orderly, ProcessorOwes, Free, Listens, r, t
  <2>8. Moves(t, r, n)
    BY <1>1, <2>2, <2>3, <2>4, <2>5, <2>6, <2>7, LosesNone
  <2> QED
    BY <2>1, <2>8 DEF LaneMoves, r, t
<1> QED
  BY <1>3, <1>4, <1>5, <1>6, <1>7, <1>8

LEMMA DeviceSteps ==
    ASSUME PushTyped, LanesOrderly, NEW l \in DOMAIN lanes, NEW d \in Pairs,
           \/ ProcessorProbes(l, d) \/ Builds(l, d) \/ CannotBuild(l, d) \/ ApnsResponds(l, d)
           \/ NextResponse(l, d)
    PROVE  LaneMoves(l)
<1> DEFINE r == lanes[l]
           t == TypeIs(l)
<1>1. r \in LaneRecords /\ l[2] \in Providers /\ t \in Types
  BY LaneFacts, PushAssumption DEF TypeIs
<1>2. Orderly(t, r) /\ \A x \in Pairs : Once(r, x)
  BY DEF LanesOrderly
<1> HIDE DEF r, t
<1>3. CASE ProcessorProbes(l, d)
  <2> DEFINE n == [r EXCEPT !.processor = "probing", !.batch = r.batch \ {d}, !.work = {d}]
  <2>1. lanes' = [lanes EXCEPT ![l] = n]
    BY <1>1, <1>3 DEF ProcessorProbes, r, t
  <2>2. /\ n.queue = r.queue /\ n.sender = r.sender /\ n.inHand = r.inHand
        /\ n.holding = r.holding /\ n.batch = r.batch \ {d} /\ n.work = {d}
        /\ n.buffered = r.buffered /\ n.processor = "probing" /\ n.owed = r.owed
        /\ n.drainer = r.drainer /\ n.handling = r.handling
    BY <1>1 DEF LaneRecords
  <2>3. n \in LaneRecords
    BY <1>1, <1>3, ResultTypes DEF LaneRecords, ProcessorProbes, r
  <2> HIDE DEF n
  <2>4. Orderly(t, n)
    BY <1>1, <1>2, <1>3, <2>2 DEF Orderly, ProcessorProbes, Free, Listens, r, t
  <2>5. \A x \in Pairs : Once(n, x) /\ (InLane(n, x) <=> InLane(r, x))
    BY <1>1, <1>2, <1>3, <2>2, ResultFacts DEF Once, InLane, Orderly, LaneRecords, ProcessorProbes, Free, Listens, r, t
  <2>6. Blank(n) = Blank(r)
    BY <1>1, <1>2, <1>3, <2>2, ResultFacts DEF Blank, One, Orderly, ProcessorProbes, Free, Listens, LaneRecords, r, t
  <2>7. (RefusalIn(r) => RefusalIn(n)) /\ (Refusing(n) => Refusing(r) \/ RefusalIn(n))
    BY <1>1, <1>2, <1>3, <2>2, ResultFacts DEF RefusalIn, Refusing, Orderly, ProcessorProbes, Free, Listens, r, t
  <2>8. Moves(t, r, n)
    BY <1>1, <2>2, <2>3, <2>4, <2>5, <2>6, <2>7, LosesNone
  <2> QED
    BY <2>1, <2>8 DEF LaneMoves, r, t
<1>4. CASE Builds(l, d)
  <2> DEFINE n == [r EXCEPT !.batch = r.batch \ {d}, !.work = r.work \cup {d}]
  <2>1. lanes' = [lanes EXCEPT ![l] = n]
    BY <1>1, <1>4 DEF Builds, r, t
  <2>2. /\ n.queue = r.queue /\ n.sender = r.sender /\ n.inHand = r.inHand
        /\ n.holding = r.holding /\ n.batch = r.batch \ {d}
        /\ n.work = r.work \cup {d} /\ n.buffered = r.buffered
        /\ n.processor = r.processor /\ n.owed = r.owed /\ n.drainer = r.drainer
        /\ n.handling = r.handling
    BY <1>1 DEF LaneRecords
  <2>3. n \in LaneRecords
    BY <1>1, <1>4, ResultTypes DEF LaneRecords, Builds, r
  <2> HIDE DEF n
  <2>4. Orderly(t, n)
    BY <1>1, <1>2, <1>4, <2>2 DEF Orderly, Builds, Free, Listens, r, t
  <2>5. \A x \in Pairs : Once(n, x) /\ (InLane(n, x) <=> InLane(r, x))
    BY <1>1, <1>2, <1>4, <2>2, ResultFacts DEF Once, InLane, Orderly, LaneRecords, Builds, Free, Listens, r, t
  <2>6. Blank(n) = Blank(r)
    BY <1>1, <1>2, <1>4, <2>2, ResultFacts DEF Blank, One, Orderly, Builds, Free, Listens, LaneRecords, r, t
  <2>7. (RefusalIn(r) => RefusalIn(n)) /\ (Refusing(n) => Refusing(r) \/ RefusalIn(n))
    BY <1>1, <1>2, <1>4, <2>2, ResultFacts DEF RefusalIn, Refusing, Orderly, Builds, Free, Listens, r, t
  <2>8. Moves(t, r, n)
    BY <1>1, <2>2, <2>3, <2>4, <2>5, <2>6, <2>7, LosesNone
  <2> QED
    BY <2>1, <2>8 DEF LaneMoves, r, t
<1>5. CASE CannotBuild(l, d)
  <2> DEFINE n == [r EXCEPT !.batch = r.batch \ {d}, !.holding = Final(d)]
  <2>1. lanes' = [lanes EXCEPT ![l] = n]
    BY <1>1, <1>5 DEF CannotBuild, r, t
  <2>2. /\ n.queue = r.queue /\ n.sender = r.sender /\ n.inHand = r.inHand
        /\ n.holding = Final(d) /\ n.batch = r.batch \ {d} /\ n.work = r.work
        /\ n.buffered = r.buffered /\ n.processor = r.processor /\ n.owed = r.owed
        /\ n.drainer = r.drainer /\ n.handling = r.handling
    BY <1>1 DEF LaneRecords
  <2>3. n \in LaneRecords
    BY <1>1, <1>5, ResultTypes DEF LaneRecords, CannotBuild, r
  <2> HIDE DEF n
  <2>4. Orderly(t, n)
    BY <1>1, <1>2, <1>5, <2>2 DEF Orderly, CannotBuild, Free, Listens, r, t
  <2>5. \A x \in Pairs : Once(n, x) /\ (InLane(n, x) <=> InLane(r, x))
    BY <1>1, <1>2, <1>5, <2>2, ResultFacts DEF Once, InLane, Orderly, LaneRecords, CannotBuild, Free, Listens, r, t
  <2>6. Blank(n) = Blank(r)
    BY <1>1, <1>2, <1>5, <2>2, ResultFacts DEF Blank, One, Orderly, CannotBuild, Free, Listens, LaneRecords, r, t
  <2>7. (RefusalIn(r) => RefusalIn(n)) /\ (Refusing(n) => Refusing(r) \/ RefusalIn(n))
    BY <1>1, <1>2, <1>5, <2>2, ResultFacts DEF RefusalIn, Refusing, Orderly, CannotBuild, Free, Listens, r, t
  <2>8. Moves(t, r, n)
    BY <1>1, <2>2, <2>3, <2>4, <2>5, <2>6, <2>7, LosesNone
  <2> QED
    BY <2>1, <2>8 DEF LaneMoves, r, t
<1>6. CASE ApnsResponds(l, d)
  <2> DEFINE n == [r EXCEPT !.work = r.work \ {d}, !.buffered = r.buffered \cup {d}]
  <2>1. lanes' = [lanes EXCEPT ![l] = n]
    BY <1>1, <1>6 DEF ApnsResponds, r, t
  <2>2. /\ n.queue = r.queue /\ n.sender = r.sender /\ n.inHand = r.inHand
        /\ n.holding = r.holding /\ n.batch = r.batch /\ n.work = r.work \ {d}
        /\ n.buffered = r.buffered \cup {d} /\ n.processor = r.processor
        /\ n.owed = r.owed /\ n.drainer = r.drainer /\ n.handling = r.handling
    BY <1>1 DEF LaneRecords
  <2>3. n \in LaneRecords
    BY <1>1, <1>6, ResultTypes DEF LaneRecords, ApnsResponds, r
  <2> HIDE DEF n
  <2>0. r.sender = "errors" /\ t = "apns" /\ r.processor \in {"probing", "building"} /\ d \in r.work
    BY <1>1, <1>2, <1>6 DEF Orderly, ApnsResponds, LaneRecords, r, t
  <2>4. Orderly(t, n)
    BY <1>1, <1>2, <1>6, <2>2, <2>0 DEF Orderly, ApnsResponds, Free, Listens, r, t
  <2>5. \A x \in Pairs : Once(n, x) /\ (InLane(n, x) <=> InLane(r, x))
    BY <1>1, <1>2, <1>6, <2>2, <2>0, ResultFacts DEF Once, InLane, Orderly, LaneRecords, ApnsResponds, Free, Listens, r, t
  <2>6. Blank(n) = Blank(r)
    BY <1>1, <1>2, <1>6, <2>2, ResultFacts DEF Blank, One, Orderly, ApnsResponds, Free, Listens, LaneRecords, r, t
  <2>7. (RefusalIn(r) => RefusalIn(n)) /\ (Refusing(n) => Refusing(r) \/ RefusalIn(n))
    BY <1>1, <1>2, <1>6, <2>2, ResultFacts DEF RefusalIn, Refusing, Orderly, ApnsResponds, Free, Listens, r, t
  <2>8. Moves(t, r, n)
    BY <1>1, <2>2, <2>3, <2>4, <2>5, <2>6, <2>7, LosesNone
  <2> QED
    BY <2>1, <2>8 DEF LaneMoves, r, t
<1>7. CASE NextResponse(l, d)
  <2> DEFINE n == [r EXCEPT !.buffered = r.buffered \ {d}, !.holding = Final(d)]
  <2>1. lanes' = [lanes EXCEPT ![l] = n]
    BY <1>1, <1>7 DEF NextResponse, r, t
  <2>2. /\ n.queue = r.queue /\ n.sender = r.sender /\ n.inHand = r.inHand
        /\ n.holding = Final(d) /\ n.batch = r.batch /\ n.work = r.work
        /\ n.buffered = r.buffered \ {d} /\ n.processor = r.processor
        /\ n.owed = r.owed /\ n.drainer = r.drainer /\ n.handling = r.handling
    BY <1>1 DEF LaneRecords
  <2>3. n \in LaneRecords
    BY <1>1, <1>7, ResultTypes DEF LaneRecords, NextResponse, r
  <2> HIDE DEF n
  <2>4. Orderly(t, n)
    BY <1>1, <1>2, <1>7, <2>2 DEF Orderly, NextResponse, Free, Listens, r, t
  <2>5. \A x \in Pairs : Once(n, x) /\ (InLane(n, x) <=> InLane(r, x))
    BY <1>1, <1>2, <1>7, <2>2, ResultFacts DEF Once, InLane, Orderly, LaneRecords, NextResponse, Free, Listens, r, t
  <2>6. Blank(n) = Blank(r)
    BY <1>1, <1>2, <1>7, <2>2, ResultFacts DEF Blank, One, Orderly, NextResponse, Free, Listens, LaneRecords, r, t
  <2>7. (RefusalIn(r) => RefusalIn(n)) /\ (Refusing(n) => Refusing(r) \/ RefusalIn(n))
    BY <1>1, <1>2, <1>7, <2>2, ResultFacts DEF RefusalIn, Refusing, Orderly, NextResponse, Free, Listens, r, t
  <2>8. Moves(t, r, n)
    BY <1>1, <2>2, <2>3, <2>4, <2>5, <2>6, <2>7, LosesNone
  <2> QED
    BY <2>1, <2>8 DEF LaneMoves, r, t
<1> QED
  BY <1>3, <1>4, <1>5, <1>6, <1>7

LEMMA AnswerSteps ==
    ASSUME PushTyped, LanesOrderly, NEW l \in DOMAIN lanes, NEW d \in Pairs, NEW a \in Answers(l[2], d),
           WorkerReports(l, d, a) \/ ApnsFails(l, d, a)
    PROVE  LaneMoves(l)
<1> DEFINE r == lanes[l]
           t == TypeIs(l)
<1>1. r \in LaneRecords /\ l[2] \in Providers /\ t \in Types
  BY LaneFacts, PushAssumption DEF TypeIs
<1>2. Orderly(t, r) /\ \A x \in Pairs : Once(r, x)
  BY DEF LanesOrderly
<1> HIDE DEF r, t
<1>3. /\ a \in Results /\ a # NoResult /\ a # Refused
      /\ (a.dev = d /\ a # Unnamed) \/ (a = Unnamed /\ t = "apns")
  BY <1>1, AnswerTypes, AnswerFacts DEF t, TypeIs
<1>4. CASE WorkerReports(l, d, a)
  <2> DEFINE n == [r EXCEPT !.work = r.work \ {d}, !.handling = a]
  <2>1. lanes' = [lanes EXCEPT ![l] = n]
    BY <1>1, <1>4 DEF WorkerReports, r, t
  <2>2. /\ n.queue = r.queue /\ n.sender = r.sender /\ n.inHand = r.inHand
        /\ n.holding = r.holding /\ n.batch = r.batch /\ n.work = r.work \ {d}
        /\ n.buffered = r.buffered /\ n.processor = r.processor /\ n.owed = r.owed
        /\ n.drainer = r.drainer /\ n.handling = a
    BY <1>1 DEF LaneRecords
  <2>3. n \in LaneRecords
    BY <1>1, <1>4, ResultTypes, <1>3 DEF LaneRecords, WorkerReports, r
  <2> HIDE DEF n
  <2>4. Orderly(t, n)
    BY <1>1, <1>2, <1>4, <2>2 DEF Orderly, WorkerReports, Free, Listens, r, t
  <2>5. \A x \in Pairs : Once(n, x) /\ (InLane(n, x) <=> InLane(r, x))
    BY <1>1, <1>2, <1>4, <2>2, ResultFacts, <1>3 DEF Once, InLane, Orderly, LaneRecords, WorkerReports, Free, Listens, r, t
  <2>6. Blank(n) = Blank(r)
    BY <1>1, <1>2, <1>4, <2>2, ResultFacts, <1>3 DEF Blank, One, Orderly, WorkerReports, Free, Listens, LaneRecords, r, t
  <2>7. (RefusalIn(r) => RefusalIn(n)) /\ (Refusing(n) => Refusing(r) \/ RefusalIn(n))
    BY <1>1, <1>2, <1>4, <2>2, ResultFacts, <1>3 DEF RefusalIn, Refusing, Orderly, WorkerReports, Free, Listens, r, t
  <2>8. Moves(t, r, n)
    BY <1>1, <2>2, <2>3, <2>4, <2>5, <2>6, <2>7, LosesNone
  <2> QED
    BY <2>1, <2>8 DEF LaneMoves, r, t
<1>5. CASE ApnsFails(l, d, a) /\ a # Unnamed
  <2> DEFINE n == [r EXCEPT !.work = r.work \ {d}, !.holding = a]
  <2>1. lanes' = [lanes EXCEPT ![l] = n]
    BY <1>1, <1>5 DEF ApnsFails, r, t
  <2>2. /\ n.queue = r.queue /\ n.sender = r.sender /\ n.inHand = r.inHand
        /\ n.holding = a /\ n.batch = r.batch /\ n.work = r.work \ {d}
        /\ n.buffered = r.buffered /\ n.processor = r.processor /\ n.owed = r.owed
        /\ n.drainer = r.drainer /\ n.handling = r.handling
    BY <1>1 DEF LaneRecords
  <2>3. n \in LaneRecords
    BY <1>1, <1>5, ResultTypes, <1>3 DEF LaneRecords, ApnsFails, r
  <2> HIDE DEF n
  <2>4. Orderly(t, n)
    BY <1>1, <1>2, <1>5, <2>2 DEF Orderly, ApnsFails, Free, Listens, r, t
  <2>5. \A x \in Pairs : Once(n, x) /\ (InLane(n, x) <=> InLane(r, x))
    BY <1>1, <1>2, <1>5, <2>2, ResultFacts, <1>3 DEF Once, InLane, Orderly, LaneRecords, ApnsFails, Free, Listens, r, t
  <2>6. Blank(n) = Blank(r)
    BY <1>1, <1>2, <1>5, <2>2, ResultFacts, <1>3 DEF Blank, One, Orderly, ApnsFails, Free, Listens, LaneRecords, r, t
  <2>7. (RefusalIn(r) => RefusalIn(n)) /\ (Refusing(n) => Refusing(r) \/ RefusalIn(n))
    BY <1>1, <1>2, <1>5, <2>2, ResultFacts, <1>3 DEF RefusalIn, Refusing, Orderly, ApnsFails, Free, Listens, r, t
  <2>8. Moves(t, r, n)
    BY <1>1, <2>2, <2>3, <2>4, <2>5, <2>6, <2>7, LosesNone
  <2> QED
    BY <2>1, <2>8 DEF LaneMoves, r, t
<1>6. CASE ApnsFails(l, d, a) /\ a = Unnamed
  <2> DEFINE n == [r EXCEPT !.work = r.work \ {d}, !.holding = a]
  <2>1. lanes' = [lanes EXCEPT ![l] = n]
    BY <1>1, <1>6 DEF ApnsFails, r, t
  <2>2. /\ n.queue = r.queue /\ n.sender = r.sender /\ n.inHand = r.inHand
        /\ n.holding = a /\ n.batch = r.batch /\ n.work = r.work \ {d}
        /\ n.buffered = r.buffered /\ n.processor = r.processor /\ n.owed = r.owed
        /\ n.drainer = r.drainer /\ n.handling = r.handling
    BY <1>1 DEF LaneRecords
  <2>3. n \in LaneRecords
    BY <1>1, <1>6, ResultTypes, <1>3 DEF LaneRecords, ApnsFails, r
  <2> HIDE DEF n
  <2>4. Orderly(t, n)
    BY <1>1, <1>2, <1>6, <2>2 DEF Orderly, ApnsFails, Free, Listens, r, t
  <2>5. \A x \in Pairs : Once(n, x) /\ (InLane(n, x) <=> InLane(r, x) /\ x \notin {d})
    BY <1>1, <1>2, <1>6, <2>2, ResultFacts, <1>3 DEF Once, InLane, Orderly, LaneRecords, ApnsFails, Free, Listens, r, t
  <2>6. Blank(n) = Blank(r) + Cardinality({d})
    <3>1. Cardinality({d}) = 1
      BY FS_Singleton
    <3> QED
      BY <1>1, <1>6, <2>2, <3>1, ResultFacts DEF Blank, One, ApnsFails, Listens, LaneRecords, r
  <2>7. (RefusalIn(r) => RefusalIn(n)) /\ (Refusing(n) => Refusing(r) \/ RefusalIn(n))
    BY <1>1, <1>6, <2>2, ResultFacts DEF RefusalIn, Refusing, ApnsFails, Listens, r
  <2>8. \A x \in {d} : InLane(r, x)
    BY <1>6 DEF ApnsFails, InLane, r
  <2>9. Moves(t, r, n)
    BY <2>2, <2>3, <2>4, <2>5, <2>6, <2>7, <2>8 DEF Moves
  <2> QED
    BY <2>1, <2>9 DEF LaneMoves, r, t
<1> QED
  BY <1>4, <1>5, <1>6

LEMMA RefusesStep ==
    ASSUME PushTyped, LanesOrderly, NEW l \in DOMAIN lanes, ProcessorRefuses(l)
    PROVE  LaneMoves(l)
<1> DEFINE r == lanes[l]
           t == TypeIs(l)
<1>1. r \in LaneRecords /\ l[2] \in Providers /\ t \in Types
  BY LaneFacts, PushAssumption DEF TypeIs
<1>2. Orderly(t, r) /\ \A x \in Pairs : Once(r, x)
  BY DEF LanesOrderly
<1> HIDE DEF r, t
<1> DEFINE n == [r EXCEPT !.processor = "refusing", !.batch = {}, !.owed = Cardinality(r.batch)]
<1>3. lanes' = [lanes EXCEPT ![l] = n]
  BY DEF ProcessorRefuses, r
<1>4. /\ n.queue = r.queue /\ n.sender = r.sender /\ n.inHand = r.inHand
      /\ n.holding = r.holding /\ n.batch = {} /\ n.work = r.work
      /\ n.buffered = r.buffered /\ n.processor = "refusing"
      /\ n.owed = Cardinality(r.batch) /\ n.drainer = r.drainer
      /\ n.handling = r.handling
  BY <1>1 DEF LaneRecords
<1>5. Cardinality(r.batch) \in Nat
  BY <1>1, PushAssumption, FS_Subset, FS_CardinalityType DEF LaneRecords
<1>6. n \in LaneRecords
  BY <1>1, <1>5 DEF LaneRecords
<1> HIDE DEF n
<1>7. Orderly(t, n)
  BY <1>1, <1>2, <1>4 DEF Orderly, ProcessorRefuses, r
<1>8. \A x \in Pairs : Once(n, x) /\ (InLane(n, x) <=> InLane(r, x) /\ x \notin r.batch)
  BY <1>1, <1>2, <1>4 DEF Once, InLane
<1>9. Blank(n) = Blank(r) + Cardinality(r.batch)
  BY <1>1, <1>2, <1>4, <1>5 DEF Blank, One, Orderly, ProcessorRefuses, LaneRecords, r
<1>10. (RefusalIn(r) => RefusalIn(n)) /\ (Refusing(n) => Refusing(r))
  BY <1>4 DEF RefusalIn, Refusing
<1>11. r.batch \in SUBSET Pairs /\ \A x \in r.batch : InLane(r, x)
  BY <1>1 DEF LaneRecords, InLane
<1>12. Moves(t, r, n)
  BY <1>4, <1>6, <1>7, <1>8, <1>9, <1>10, <1>11 DEF Moves
<1> QED
  BY <1>3, <1>12 DEF LaneMoves, r, t

\* Whatever a lane does on its own, it takes no device in.
LEMMA LaneStepMoves ==
    ASSUME PushTyped, LanesOrderly, NEW l \in DOMAIN lanes, LaneStep(l) \/ ProcessorStep(l), ~Collects(l)
    PROVE  LaneMoves(l) /\ UNCHANGED <<request, calls, response>>
<1>1. /\ lanes[l].work \subseteq Pairs /\ lanes[l].batch \subseteq Pairs
      /\ lanes[l].buffered \subseteq Pairs
  BY LaneFacts DEF LaneRecords
<1>2. UNCHANGED <<request, calls, response>>
  BY DEF LaneStep, ProcessorStep, Starts, Refuses, Announces, StartsWorker, EndsReading, Closes,
      SenderReports, WorkerReports, ProcessorRefuses, ProcessorOwes, ProcessorStarts, ProbeEnds,
      ProcessorEnds, EndsResponses, ProcessorProbes, Builds, CannotBuild, ApnsFails,
      ApnsResponds, NextResponse
<1> SUFFICES LaneMoves(l)
  BY <1>2
<1>3. CASE LaneStep(l)
  <2>1. CASE \E d \in lanes[l].work : \E a \in Answers(l[2], d) : WorkerReports(l, d, a)
    BY <1>1, <2>1, AnswerSteps
  <2>2. CASE \/ Starts(l) \/ Refuses(l) \/ Announces(l) \/ StartsWorker(l)
             \/ EndsReading(l) \/ Closes(l) \/ SenderReports(l)
    BY <2>2, ControlSteps, SenderSteps
  <2> QED
    BY <1>3, <2>1, <2>2 DEF LaneStep
<1>4. CASE ProcessorStep(l)
  <2>1. CASE \/ ProcessorRefuses(l) \/ ProcessorOwes(l) \/ ProcessorStarts(l) \/ ProbeEnds(l)
             \/ ProcessorEnds(l) \/ EndsResponses(l)
    BY <2>1, ControlSteps, SenderSteps, RefusesStep
  <2>2. CASE \E d \in lanes[l].batch : ProcessorProbes(l, d) \/ Builds(l, d) \/ CannotBuild(l, d)
    BY <1>1, <2>2, DeviceSteps
  <2>3. CASE \/ \E d \in lanes[l].work : ApnsResponds(l, d)
             \/ \E d \in lanes[l].buffered : NextResponse(l, d)
    BY <1>1, <2>3, DeviceSteps
  <2>4. CASE \E d \in lanes[l].work : \E a \in Answers(l[2], d) : ApnsFails(l, d, a)
    BY <1>1, <2>4, AnswerSteps
  <2> QED
    BY <1>4, <2>1, <2>2, <2>3, <2>4 DEF ProcessorStep
<1> QED
  BY <1>3, <1>4

\* A lane takes d in from the call.
TakesIn(t, r, n, d) ==
    /\ n \in LaneRecords /\ n.queue = r.queue /\ Orderly(t, n)
    /\ \A x \in Pairs : Once(n, x)
    /\ RefusalIn(r) => RefusalIn(n)
    /\ Refusing(n) => Refusing(r)
    /\ \A x \in Pairs : InLane(n, x) <=> InLane(r, x) \/ x = d
    /\ Blank(n) = Blank(r)

LEMMA HandoverMoves ==
    ASSUME PushTyped, LanesOrderly, NEW l \in DOMAIN lanes, NEW c \in DOMAIN calls,
           NEW d, d = calls[c].offer, Rejects(c, l) \/ Takes(c, l),
           ~InLane(lanes[l], d)
    PROVE  /\ d \in Pairs
           /\ \E n : lanes' = [lanes EXCEPT ![l] = n] /\ TakesIn(TypeIs(l), lanes[l], n, d)
<1> DEFINE r == lanes[l]
           t == TypeIs(l)
<1>1. r \in LaneRecords /\ l[2] \in Providers /\ t \in Types
  BY LaneFacts, PushAssumption DEF TypeIs
<1>2. Orderly(t, r) /\ \A x \in Pairs : Once(r, x)
  BY DEF LanesOrderly
<1>3. d \in Pairs
  BY DEF Rejects, Takes, Meets, PushTyped, CallRecords
<1>4. r.sender = "reading" /\ r.inHand = None /\ r.holding = NoResult /\ ~InLane(r, d)
  BY DEF Rejects, Takes, Free
<1>5. SUFFICES \E n : lanes' = [lanes EXCEPT ![l] = n] /\ TakesIn(t, r, n, d)
  BY <1>3
<1>6. d # None
  BY <1>3, PushAssumption
<1>7. CASE Rejects(c, l)
  <2> DEFINE n == [r EXCEPT !.holding = Final(d)]
  <2>1. lanes' = [lanes EXCEPT ![l] = n]
    BY <1>7 DEF Rejects
  <2>2. /\ n.queue = r.queue /\ n.sender = r.sender /\ n.inHand = r.inHand
        /\ n.holding = Final(d) /\ n.batch = r.batch /\ n.work = r.work
        /\ n.buffered = r.buffered /\ n.processor = r.processor /\ n.owed = r.owed
        /\ n.drainer = r.drainer /\ n.handling = r.handling
    BY <1>1 DEF LaneRecords
  <2>3. n \in LaneRecords
    BY <1>1, <1>3, ResultTypes DEF LaneRecords
  <2> HIDE DEF n, r, t
  <2>4. Orderly(t, n)
    BY <1>2, <1>4, <2>2 DEF Orderly
  <2>5. \A x \in Pairs : Once(n, x) /\ (InLane(n, x) <=> InLane(r, x) \/ x = d)
    BY <1>2, <1>3, <1>4, <2>2, ResultFacts DEF Once, InLane
  <2>6. Blank(n) = Blank(r)
    BY <1>3, <1>4, <2>2, ResultFacts DEF Blank, One
  <2>7. (RefusalIn(r) => RefusalIn(n)) /\ (Refusing(n) => Refusing(r))
    BY <1>4, <2>2, ResultFacts DEF RefusalIn, Refusing
  <2> QED
    BY <2>1, <2>2, <2>3, <2>4, <2>5, <2>6, <2>7 DEF TakesIn
<1>8. CASE Takes(c, l)
  <2>1. \/ t = "apns" /\ lanes' = [lanes EXCEPT ![l] = [r EXCEPT !.batch = r.batch \cup {d}]]
        \/ t # "apns" /\ lanes' = [lanes EXCEPT ![l] = [r EXCEPT !.work = r.work \cup {d}]]
        \/ t # "apns" /\ lanes' = [lanes EXCEPT ![l] = [r EXCEPT !.inHand = d]]
    BY <1>8 DEF Takes
  <2>2. CASE t = "apns" /\ lanes' = [lanes EXCEPT ![l] = [r EXCEPT !.batch = r.batch \cup {d}]]
    <3> DEFINE n == [r EXCEPT !.batch = r.batch \cup {d}]
    <3>1. /\ n.queue = r.queue /\ n.sender = r.sender /\ n.inHand = r.inHand
          /\ n.holding = r.holding /\ n.batch = r.batch \cup {d} /\ n.work = r.work
          /\ n.buffered = r.buffered /\ n.processor = r.processor /\ n.owed = r.owed
          /\ n.drainer = r.drainer /\ n.handling = r.handling
      BY <1>1 DEF LaneRecords
    <3>2. n \in LaneRecords
      BY <1>1, <1>3 DEF LaneRecords
    <3>3. lanes' = [lanes EXCEPT ![l] = n]
      BY <2>2
    <3> HIDE DEF n, r, t
    <3>4. Orderly(t, n)
      BY <1>2, <1>4, <2>2, <3>1 DEF Orderly
    <3>5. \A x \in Pairs : Once(n, x) /\ (InLane(n, x) <=> InLane(r, x) \/ x = d)
      BY <1>2, <1>3, <1>4, <3>1 DEF Once, InLane
    <3>6. Blank(n) = Blank(r) /\ (RefusalIn(r) => RefusalIn(n)) /\ (Refusing(n) => Refusing(r))
      BY <3>1 DEF Blank, RefusalIn, Refusing
    <3> QED
      BY <3>1, <3>2, <3>3, <3>4, <3>5, <3>6 DEF TakesIn
  <2>3. CASE t # "apns" /\ lanes' = [lanes EXCEPT ![l] = [r EXCEPT !.work = r.work \cup {d}]]
    <3> DEFINE n == [r EXCEPT !.work = r.work \cup {d}]
    <3>1. /\ n.queue = r.queue /\ n.sender = r.sender /\ n.inHand = r.inHand
          /\ n.holding = r.holding /\ n.batch = r.batch /\ n.work = r.work \cup {d}
          /\ n.buffered = r.buffered /\ n.processor = r.processor /\ n.owed = r.owed
          /\ n.drainer = r.drainer /\ n.handling = r.handling
      BY <1>1 DEF LaneRecords
    <3>2. n \in LaneRecords
      BY <1>1, <1>3 DEF LaneRecords
    <3>3. lanes' = [lanes EXCEPT ![l] = n]
      BY <2>3
    <3> HIDE DEF n, r, t
    <3>4. Orderly(t, n)
      BY <1>2, <1>4, <2>3, <3>1 DEF Orderly
    <3>5. \A x \in Pairs : Once(n, x) /\ (InLane(n, x) <=> InLane(r, x) \/ x = d)
      BY <1>2, <1>3, <1>4, <3>1 DEF Once, InLane
    <3>6. Blank(n) = Blank(r) /\ (RefusalIn(r) => RefusalIn(n)) /\ (Refusing(n) => Refusing(r))
      BY <3>1 DEF Blank, RefusalIn, Refusing
    <3> QED
      BY <3>1, <3>2, <3>3, <3>4, <3>5, <3>6 DEF TakesIn
  <2>4. CASE t # "apns" /\ lanes' = [lanes EXCEPT ![l] = [r EXCEPT !.inHand = d]]
    <3> DEFINE n == [r EXCEPT !.inHand = d]
    <3>1. /\ n.queue = r.queue /\ n.sender = r.sender /\ n.inHand = d
          /\ n.holding = r.holding /\ n.batch = r.batch /\ n.work = r.work
          /\ n.buffered = r.buffered /\ n.processor = r.processor /\ n.owed = r.owed
          /\ n.drainer = r.drainer /\ n.handling = r.handling
      BY <1>1 DEF LaneRecords
    <3>2. n \in LaneRecords
      BY <1>1, <1>3 DEF LaneRecords
    <3>3. lanes' = [lanes EXCEPT ![l] = n]
      BY <2>4
    <3> HIDE DEF n, r, t
    <3>4. Orderly(t, n)
      BY <1>2, <1>4, <2>4, <3>1 DEF Orderly
    <3>5. \A x \in Pairs : Once(n, x) /\ (InLane(n, x) <=> InLane(r, x) \/ x = d)
      BY <1>2, <1>3, <1>4, <1>6, <3>1, PushAssumption DEF Once, InLane
    <3>6. Blank(n) = Blank(r) /\ (RefusalIn(r) => RefusalIn(n)) /\ (Refusing(n) => Refusing(r))
      BY <3>1 DEF Blank, RefusalIn, Refusing
    <3> QED
      BY <3>1, <3>2, <3>3, <3>4, <3>5, <3>6 DEF TakesIn
  <2> QED
    BY <2>1, <2>2, <2>3, <2>4
<1> QED
  BY <1>7, <1>8

\* The collector is done with a result.
LEMMA CollectorMoves ==
    ASSUME PushTyped, LanesOrderly, NEW l \in DOMAIN lanes, Collects(l)
    PROVE  LET r == lanes[l]
               n == [r EXCEPT !.handling = NoResult]
           IN /\ lanes' = [lanes EXCEPT ![l] = n] /\ n.queue = r.queue
              /\ Orderly(TypeIs(l), n) /\ \A d \in Pairs : Once(n, d)
              /\ \A d \in Pairs : InLane(n, d) <=> InLane(r, d) /\ r.handling.dev # d
              /\ r.handling.dev \in Pairs => InLane(r, r.handling.dev)
              /\ Blank(n) = Blank(r) - One(r.handling = Unnamed)
              /\ Blank(r) \in Nat
              /\ RefusalIn(r) => RefusalIn(n) \/ r.handling = Refused
              /\ Refusing(n) => Refusing(r)
<1> DEFINE r == lanes[l]
           t == TypeIs(l)
           n == [r EXCEPT !.handling = NoResult]
<1>1. r \in LaneRecords
  BY LaneFacts
<1>2. Orderly(t, r) /\ \A x \in Pairs : Once(r, x)
  BY DEF LanesOrderly
<1>3. lanes' = [lanes EXCEPT ![l] = n]
  BY DEF Collects
<1>4. /\ n.queue = r.queue /\ n.sender = r.sender /\ n.inHand = r.inHand
      /\ n.holding = r.holding /\ n.batch = r.batch /\ n.work = r.work
      /\ n.buffered = r.buffered /\ n.processor = r.processor /\ n.owed = r.owed
      /\ n.drainer = r.drainer /\ n.handling = NoResult
  BY <1>1 DEF LaneRecords
<1> HIDE DEF n, r, t
<1>5. Orderly(t, n)
  BY <1>2, <1>4 DEF Orderly
<1>6. \A x \in Pairs : Once(n, x) /\ (InLane(n, x) <=> InLane(r, x) /\ r.handling.dev # x)
  BY <1>2, <1>4, ResultFacts DEF Once, InLane
<1>7. Blank(n) = Blank(r) - One(r.handling = Unnamed) /\ Blank(r) \in Nat
  BY <1>1, <1>4, ResultFacts DEF Blank, One, LaneRecords
<1>8. /\ RefusalIn(r) => RefusalIn(n) \/ r.handling = Refused
      /\ Refusing(n) => Refusing(r)
      /\ r.handling.dev \in Pairs => InLane(r, r.handling.dev)
  BY <1>4, ResultFacts DEF RefusalIn, Refusing, InLane
<1> QED
  BY <1>3, <1>4, <1>5, <1>6, <1>7, <1>8 DEF r, t, n

(***************************************************************************)
(* Where the notification for a device is                                  *)
(***************************************************************************)
\* A call has it when the device is among its pairs, is being handed over, or is
\* the one whose retry sleeps.
Has(r, c, d) == d \in r.todo \/ r.offer = d \/ (r.pc = "sleeping" /\ c[1] = d)
At(c, d) == Has(calls[c], c, d)
In(l, d) == InLane(lanes[l], d)

\* The calls and their lanes: what is offered has a lane that is open, and a
\* call that sleeps has none.
CallsOrderly ==
    \A c \in DOMAIN calls :
        /\ calls[c].offer # None =>
              /\ LaneOf(c, provider[calls[c].offer]) \in DOMAIN lanes
              /\ calls[c].offer \notin calls[c].todo
        /\ calls[c].pc # "handing" => calls[c].todo = {} /\ calls[c].offer = None
        /\ calls[c].pc = "sleeping" => \A l \in DOMAIN lanes : l[1] # c
        /\ calls[c].pc = "handing" => \A l \in DOMAIN lanes : l[1] = c => lanes[l].queue = "open"

\* A device is in one place, in the last of its calls.
OneAtATime ==
    \A d \in Pairs :
        /\ \A a, b \in DOMAIN calls : At(a, d) /\ At(b, d) => a = b
        /\ \A a \in DOMAIN calls, l \in DOMAIN lanes : At(a, d) => ~In(l, d)
        /\ \A l, m \in DOMAIN lanes : In(l, d) /\ In(m, d) => l = m
        /\ \A c \in DOMAIN calls : c[1] = d =>
              /\ \A a \in DOMAIN calls : At(a, d) => c[2] <= a[2]
              /\ \A l \in DOMAIN lanes : In(l, d) => c[2] <= l[1][2]

LEMMA CallChanges ==
    ASSUME PushTyped, NEW c \in DOMAIN calls, NEW n, calls' = [calls EXCEPT ![c] = n]
    PROVE  /\ DOMAIN calls' = DOMAIN calls /\ calls'[c] = n
           /\ \A a \in DOMAIN calls \ {c} : calls'[a] = calls[a]
           /\ \A d : At(c, d)' <=> Has(n, c, d)
           /\ \A a \in DOMAIN calls \ {c} : \A d : At(a, d)' <=> At(a, d)
BY DEF PushTyped, At, Has

LEMMA LaneChanges ==
    ASSUME PushTyped, NEW l \in DOMAIN lanes, NEW n, lanes' = [lanes EXCEPT ![l] = n]
    PROVE  /\ DOMAIN lanes' = DOMAIN lanes /\ lanes'[l] = n
           /\ \A m \in DOMAIN lanes \ {l} : lanes'[m] = lanes[m]
           /\ \A d : In(l, d)' <=> InLane(n, d)
           /\ \A m \in DOMAIN lanes \ {l} : \A d : In(m, d)' <=> In(m, d)
BY DEF PushTyped, In, InLane

LEMMA LaneAdded ==
    ASSUME PushTyped, NEW l, l \notin DOMAIN lanes, lanes' = Put(lanes, l, NewLane)
    PROVE  /\ DOMAIN lanes' = DOMAIN lanes \cup {l} /\ lanes'[l] = NewLane
           /\ \A m \in DOMAIN lanes : lanes'[m] = lanes[m]
           /\ \A d \in Pairs : ~In(l, d)'
           /\ \A m \in DOMAIN lanes : \A d : In(m, d)' <=> In(m, d)
<1>1. /\ DOMAIN lanes' = DOMAIN lanes \cup {l} /\ lanes'[l] = NewLane
      /\ \A m \in DOMAIN lanes : lanes'[m] = lanes[m]
  BY DEF Put, PushTyped
<1>2. ASSUME NEW d \in Pairs PROVE ~InLane(NewLane, d)
  BY ResultFacts, PushAssumption DEF InLane, NewLane
<1> QED
  BY <1>1, <1>2 DEF In, InLane

LEMMA CallsSame ==
    ASSUME UNCHANGED calls
    PROVE  DOMAIN calls' = DOMAIN calls /\ \A c, d : At(c, d)' <=> At(c, d)
BY DEF At, Has

LEMMA LanesSame ==
    ASSUME UNCHANGED lanes
    PROVE  DOMAIN lanes' = DOMAIN lanes /\ \A l, d : In(l, d)' <=> In(l, d)
BY DEF In, InLane

\* A new lane is orderly and empty.
LEMMA NewLaneFacts ==
    /\ \A t : Orderly(t, NewLane)
    /\ \A d \in Pairs : Once(NewLane, d) /\ ~InLane(NewLane, d)
    /\ Blank(NewLane) = 0 /\ ~Refusing(NewLane) /\ ~RefusalIn(NewLane) /\ NewLane.queue = "open"
<1>1. /\ NewLane.queue = "open" /\ NewLane.sender = "starting" /\ NewLane.inHand = None
      /\ NewLane.holding = NoResult /\ NewLane.batch = {} /\ NewLane.work = {}
      /\ NewLane.buffered = {} /\ NewLane.processor = "off" /\ NewLane.owed = 0
      /\ NewLane.drainer = FALSE /\ NewLane.handling = NoResult
  BY DEF NewLane
<1>2. \A t : Orderly(t, NewLane)
  BY <1>1 DEF Orderly
<1>3. \A d \in Pairs : Once(NewLane, d) /\ ~InLane(NewLane, d)
  BY <1>1, ResultFacts, PushAssumption DEF Once, InLane
<1>4. Blank(NewLane) = 0 /\ ~Refusing(NewLane) /\ ~RefusalIn(NewLane)
  BY <1>1, ResultFacts DEF Blank, One, Refusing, RefusalIn
<1> QED
  BY <1>1, <1>2, <1>3, <1>4

\* No notification changes its place, or its call.
Stay ==
    /\ DOMAIN calls' = DOMAIN calls
    /\ \A c \in DOMAIN calls, d \in Pairs : At(c, d)' <=> At(c, d)
    /\ DOMAIN lanes \subseteq DOMAIN lanes'
    /\ \A l \in DOMAIN lanes', d \in Pairs : In(l, d)' <=> l \in DOMAIN lanes /\ In(l, d)

LEMMA CallStepStays ==
    ASSUME PushTyped, Awake, CallsOrderly, NEW c \in DOMAIN calls, CallStep(c)
    PROVE  Stay
<1>1. calls[c] \in CallRecords
  BY DEF PushTyped
<1>2. ASSUME NEW d0 \in calls[c].todo, Offer(c, d0) PROVE Stay
  <2> DEFINE n == [calls[c] EXCEPT !.offer = d0, !.todo = @ \ {d0}]
             l == LaneOf(c, provider[d0])
  <2>1. calls' = [calls EXCEPT ![c] = n] /\ calls[c].pc = "handing" /\ calls[c].offer = None
    BY <1>2 DEF Offer
  <2>2. n.offer = d0 /\ n.todo = calls[c].todo \ {d0} /\ n.pc = calls[c].pc
    BY <1>1 DEF CallRecords
  <2> HIDE DEF n
  <2>3. \A d \in Pairs : Has(n, c, d) <=> At(c, d)
    BY <1>2, <2>1, <2>2, PushAssumption DEF Has, At
  <2>4. lanes' = lanes \/ (l \notin DOMAIN lanes /\ lanes' = Put(lanes, l, NewLane))
    BY <1>2 DEF Offer
  <2> HIDE DEF l
  <2>5. /\ DOMAIN calls' = DOMAIN calls
        /\ \A a \in DOMAIN calls, d \in Pairs : At(a, d)' <=> At(a, d)
    BY <2>1, <2>3, CallChanges
  <2> QED
    BY <2>4, <2>5, LaneAdded, LanesSame DEF Stay
<1>3. CASE Finish(c)
  <2> DEFINE n == [calls[c] EXCEPT !.pc = "waiting"]
  <2>1. calls' = [calls EXCEPT ![c] = n] /\ calls[c].pc = "handing"
    BY <1>3 DEF Finish, AtRest
  <2>2. n.offer = calls[c].offer /\ n.todo = calls[c].todo /\ n.pc = "waiting"
    BY <1>1 DEF CallRecords
  <2> HIDE DEF n
  <2>3. \A d \in Pairs : Has(n, c, d) <=> At(c, d)
    BY <2>1, <2>2 DEF Has, At
  <2>4. ASSUME NEW l \in DOMAIN lanes, NEW d \in Pairs PROVE In(l, d)' <=> In(l, d)
    <3>1. lanes[l] \in LaneRecords
      BY DEF PushTyped
    <3>2. lanes'[l] = lanes[l] \/ lanes'[l] = [lanes[l] EXCEPT !.queue = "closed"]
      BY <1>3 DEF Finish
    <3> QED
      BY <3>1, <3>2 DEF In, InLane, LaneRecords
  <2>5. DOMAIN lanes' = DOMAIN lanes
    BY <1>3 DEF Finish
  <2> QED
    BY <2>1, <2>3, <2>4, <2>5, CallChanges DEF Stay
<1>4. CASE Return(c)
  <2> DEFINE n == [calls[c] EXCEPT !.pc = "done"]
  <2>1. calls' = [calls EXCEPT ![c] = n] /\ calls[c].pc = "waiting" /\ lanes' = lanes
    BY <1>4 DEF Return
  <2>2. n.offer = calls[c].offer /\ n.todo = calls[c].todo /\ n.pc = "done"
    BY <1>1 DEF CallRecords
  <2> HIDE DEF n
  <2>3. \A d \in Pairs : Has(n, c, d) <=> At(c, d)
    BY <2>1, <2>2 DEF Has, At
  <2> QED
    BY <2>1, <2>3, CallChanges, LanesSame DEF Stay
<1>5. CASE Wake(c)
  <2> DEFINE n == [calls[c] EXCEPT !.pc = "handing", !.offer = c[1]]
             l == LaneOf(c, provider[c[1]])
  <2>1. /\ calls' = [calls EXCEPT ![c] = n] /\ calls[c].pc = "sleeping"
        /\ lanes' = Put(lanes, l, NewLane)
    BY <1>5 DEF Wake
  <2>2. n.offer = c[1] /\ n.todo = calls[c].todo /\ n.pc = "handing"
    BY <1>1 DEF CallRecords
  <2>3. l \notin DOMAIN lanes /\ calls[c].todo = {} /\ calls[c].offer = None
    BY <2>1 DEF CallsOrderly, LaneOf
  <2> HIDE DEF n, l
  <2>4. \A d \in Pairs : Has(n, c, d) <=> At(c, d)
    BY <2>1, <2>2, <2>3, PushAssumption DEF Has, At
  <2>5. /\ DOMAIN calls' = DOMAIN calls
        /\ \A a \in DOMAIN calls, d \in Pairs : At(a, d)' <=> At(a, d)
    BY <2>1, <2>4, CallChanges
  <2>6. l \notin DOMAIN lanes /\ lanes' = Put(lanes, l, NewLane)
    BY <2>1, <2>3
  <2>7. /\ DOMAIN lanes \subseteq DOMAIN lanes'
        /\ \A m \in DOMAIN lanes', d \in Pairs : In(m, d)' <=> m \in DOMAIN lanes /\ In(m, d)
    BY <2>6, LaneAdded
  <2> QED
    BY <2>5, <2>7 DEF Stay
<1> QED
  BY <1>2, <1>3, <1>4, <1>5 DEF CallStep

\* What is known of the devices that were found, and of those that were not.
Founded ==
    /\ \A d \in found : EntryOf[d] \notin subs
    /\ \A d \in Pairs, c \in DOMAIN calls : At(c, d) \/ c[1] = d => d \in found
    /\ \A d \in Pairs, l \in DOMAIN lanes : In(l, d) => d \in found /\ provider[d] = l[2]
    /\ \A d \in Pairs : response.named[d] > 0 => d \in found
    /\ calls[Request].pc = "handing" => response.notSubscribed = {}
    /\ calls[Request].pc # "handing" => subs = {}
    /\ \A d \in found : device[d] \notin response.notSubscribed
    /\ \A s \in Entries : \/ s \in subs \/ s \in response.subs
                              \/ \E d \in found : EntryOf[d] = s

\* No notification comes to a place it was not in.
Shrink ==
    /\ DOMAIN calls' = DOMAIN calls
    /\ \A c \in DOMAIN calls, d \in Pairs : At(c, d)' => At(c, d)
    /\ \A l \in DOMAIN lanes', d \in Pairs : In(l, d)' => l \in DOMAIN lanes /\ In(l, d)

LEMMA ShrinkOne ==
    ASSUME OneAtATime, Shrink
    PROVE  OneAtATime'
<1> SUFFICES ASSUME NEW d \in Pairs
             PROVE  /\ \A a, b \in DOMAIN calls' : At(a, d)' /\ At(b, d)' => a = b
                    /\ \A a \in DOMAIN calls', l \in DOMAIN lanes' : At(a, d)' => ~In(l, d)'
                    /\ \A l, m \in DOMAIN lanes' : In(l, d)' /\ In(m, d)' => l = m
                    /\ \A c \in DOMAIN calls' : c[1] = d =>
                          /\ \A a \in DOMAIN calls' : At(a, d)' => c[2] <= a[2]
                          /\ \A l \in DOMAIN lanes' : In(l, d)' => c[2] <= l[1][2]
  BY DEF OneAtATime
<1> QED
  BY DEF OneAtATime, Shrink

\* The request finds the devices H of a subscriber.
LEMMA LookupPlaces ==
    ASSUME PushTyped, Awake, NEW s \in subs, NEW here \in SUBSET Candidates(s),
           NEW orphans \in SUBSET here, Lookup(s, here, orphans)
    PROVE  /\ DOMAIN calls' = DOMAIN calls /\ UNCHANGED lanes
           /\ \A c \in DOMAIN calls \ {Request} : \A d : At(c, d)' <=> At(c, d)
           /\ \A d \in Pairs : ~At(Request, d) /\ (At(Request, d)' <=> d \in here \ orphans)
           /\ calls'[Request].pc = "handing" /\ calls[Request].pc = "handing"
           /\ calls'[Request].offer = None
           /\ \A c \in DOMAIN calls \ {Request} : calls'[c] = calls[c]
<1> DEFINE n == [calls[Request] EXCEPT !.todo = here \ orphans]
<1>1. calls[Request] \in CallRecords /\ Request \in DOMAIN calls
  BY DEF PushTyped, Awake
<1>2. /\ calls' = [calls EXCEPT ![Request] = n] /\ UNCHANGED lanes
      /\ calls[Request].pc = "handing" /\ calls[Request].todo = {} /\ calls[Request].offer = None
  BY DEF Lookup, AtRest
<1>3. n.pc = "handing" /\ n.offer = None /\ n.todo = here \ orphans
  BY <1>1, <1>2 DEF CallRecords
<1> HIDE DEF n
<1>4. \A d \in Pairs : ~At(Request, d) /\ (Has(n, Request, d) <=> d \in here \ orphans)
  BY <1>2, <1>3, PushAssumption DEF At, Has
<1> QED
  BY <1>1, <1>2, <1>3, <1>4, CallChanges

\* A device leaves the call that offers it.
LEMMA HandedPlaces ==
    ASSUME PushTyped, CallsOrderly, NEW c \in DOMAIN calls, calls[c].offer # None, Handed(c)
    PROVE  /\ DOMAIN calls' = DOMAIN calls
           /\ \A a \in DOMAIN calls \ {c} : \A d : At(a, d)' <=> At(a, d)
           /\ \A d \in Pairs : At(c, d)' <=> At(c, d) /\ d # calls[c].offer
           /\ calls[c].offer \in Pairs /\ At(c, calls[c].offer)
           /\ calls[c].pc = "handing" /\ calls'[c].pc = "handing" /\ calls'[c].offer = None
           /\ \A a \in DOMAIN calls \ {c} : calls'[a] = calls[a]
<1> DEFINE n == [calls[c] EXCEPT !.offer = None]
<1>1. calls[c] \in CallRecords
  BY DEF PushTyped
<1>2. calls' = [calls EXCEPT ![c] = n]
  BY DEF Handed
<1>3. n.pc = calls[c].pc /\ n.offer = None /\ n.todo = calls[c].todo
  BY <1>1 DEF CallRecords
<1>4. calls[c].pc = "handing" /\ calls[c].offer \notin calls[c].todo /\ calls[c].offer \in Pairs
  BY <1>1 DEF CallsOrderly, CallRecords
<1> HIDE DEF n
<1>5. \A d \in Pairs : Has(n, c, d) <=> At(c, d) /\ d # calls[c].offer
  BY <1>3, <1>4, PushAssumption DEF At, Has
<1>6. At(c, calls[c].offer)
  BY DEF At, Has
<1> QED
  BY <1>2, <1>3, <1>4, <1>5, <1>6, CallChanges

\* A collector adds at most the retry of the device it was told about.
LEMMA CollectedCalls ==
    ASSUME PushTyped, NEW l \in DOMAIN lanes, Collects(l)
    PROVE  \/ UNCHANGED calls
           \/ \E x \in Nat : LET d == lanes[l].handling.dev IN
                 /\ lanes[l].handling.what \in {"retry", "lost"} /\ d \in Pairs
                 /\ calls' = Put(calls, <<d, l[1][2] + 1>>, NewCall("sleeping", x))
<1> DEFINE h == lanes[l].handling
           r == RetryTransientConnectionError(h)
<1>1. l[1] \in DOMAIN calls /\ lanes[l] \in LaneRecords
  BY LaneFacts
<1>2. r.what = "retry" => /\ r.dev = h.dev /\ h.what \in {"retry", "lost"}
                          /\ r.dev \in Pairs /\ r.asked \in Int
  BY <1>1
  DEF LaneRecords, RetryTransientConnectionError, Results, RetryError, Unnamed, Refused,
      Update, NoResult
<1>3. calls' = IF r.what = "retry" THEN FixRetryError(l[1], r.dev, r.asked) ELSE calls
  BY DEF Collects
<1> HIDE DEF r, h
<1>4. CASE r.what = "retry" /\ calls' # calls
  <2>1. \E x \in Nat : calls' = Put(calls, <<r.dev, l[1][2] + 1>>, NewCall("sleeping", x))
    BY <1>1, <1>2, <1>3, <1>4, RetryFacts
  <2> QED
    BY <1>2, <1>4, <2>1 DEF h
<1> QED
  BY <1>3, <1>4

(***************************************************************************)
(* Every lane and every call stays orderly                                 *)
(***************************************************************************)
\* Which lanes there are after a step, and what becomes of each.
LEMMA LanesStep ==
    ASSUME PushTyped, Awake, LanesOrderly, CallsOrderly, OneAtATime, Step
    PROVE  LanesOrderly'
<1>1. ASSUME UNCHANGED lanes PROVE LanesOrderly'
  BY <1>1 DEF LanesOrderly, TypeIs
<1>2. ASSUME NEW l \in DOMAIN lanes, NEW n, lanes' = [lanes EXCEPT ![l] = n],
             Orderly(TypeIs(l), n), \A d \in Pairs : Once(n, d)
      PROVE  LanesOrderly'
  BY <1>2, LaneChanges DEF LanesOrderly, TypeIs
<1>3. ASSUME NEW l, l \notin DOMAIN lanes, lanes' = Put(lanes, l, NewLane)
      PROVE  LanesOrderly'
  BY <1>3, LaneAdded, NewLaneFacts DEF LanesOrderly, TypeIs
<1>4. CASE LookUp
  BY <1>1, <1>4 DEF LookUp, LookupNothing, Lookup
<1>5. ASSUME NEW c \in DOMAIN calls, CallStep(c) PROVE LanesOrderly'
  <2>1. CASE \E d \in calls[c].todo : Offer(c, d)
    BY <1>1, <1>3, <2>1 DEF Offer
  <2>2. CASE Finish(c)
    <3>1. DOMAIN lanes' = DOMAIN lanes
      BY <2>2 DEF Finish
    <3>2. ASSUME NEW l \in DOMAIN lanes
          PROVE  Orderly(TypeIs(l), lanes'[l]) /\ \A d \in Pairs : Once(lanes'[l], d)
      <4>1. lanes'[l] = lanes[l] \/ lanes'[l] = [lanes[l] EXCEPT !.queue = "closed"]
        BY <2>2 DEF Finish
      <4>2. lanes[l] \in LaneRecords
        BY DEF PushTyped
      <4>3. Orderly(TypeIs(l), lanes[l]) /\ \A d \in Pairs : Once(lanes[l], d)
        BY DEF LanesOrderly
      <4> DEFINE n == [lanes[l] EXCEPT !.queue = "closed"]
      <4>4. /\ n.sender = lanes[l].sender /\ n.inHand = lanes[l].inHand
            /\ n.holding = lanes[l].holding /\ n.batch = lanes[l].batch
            /\ n.work = lanes[l].work /\ n.buffered = lanes[l].buffered
            /\ n.processor = lanes[l].processor /\ n.owed = lanes[l].owed
            /\ n.drainer = lanes[l].drainer /\ n.handling = lanes[l].handling
        BY <4>2 DEF LaneRecords
      <4> HIDE DEF n
      <4>5. Orderly(TypeIs(l), n)
        BY <4>3, <4>4 DEF Orderly
      <4>6. \A d \in Pairs : Once(n, d)
        BY <4>3, <4>4 DEF Once
      <4> QED
        BY <4>1, <4>3, <4>5, <4>6 DEF n
    <3> QED
      BY <3>1, <3>2 DEF LanesOrderly, TypeIs
  <2>3. CASE Return(c)
    BY <1>1, <2>3 DEF Return
  <2>4. CASE Wake(c)
    <3>1. LaneOf(c, provider[c[1]]) \notin DOMAIN lanes
      BY <2>4 DEF Wake, CallsOrderly, LaneOf
    <3> QED
      BY <1>3, <2>4, <3>1 DEF Wake
  <2> QED
    BY <1>5, <2>1, <2>2, <2>3, <2>4 DEF CallStep
<1>6. ASSUME NEW l \in DOMAIN lanes, Handover(l[1], l) PROVE LanesOrderly'
  <2>1. CASE Discard(l[1], l)
    BY <1>1, <2>1 DEF Discard
  <2>2. CASE Rejects(l[1], l) \/ Takes(l[1], l)
    <3> DEFINE d == calls[l[1]].offer
    <3>1. l[1] \in DOMAIN calls /\ d # None
      BY <2>2, LaneFacts DEF Rejects, Takes, Meets
    <3>2. At(l[1], d) /\ d \in Pairs
      BY <3>1, PushAssumption DEF At, Has, PushTyped, CallRecords
    <3>3. ~InLane(lanes[l], d)
      BY <3>1, <3>2 DEF OneAtATime, In
    <3> HIDE DEF d
    <3>4. PICK n : lanes' = [lanes EXCEPT ![l] = n] /\ TakesIn(TypeIs(l), lanes[l], n, d)
      BY <2>2, <3>1, <3>3, HandoverMoves DEF d
    <3> QED
      BY <1>2, <3>4 DEF TakesIn
  <2> QED
    BY <1>6, <2>1, <2>2 DEF Handover
<1>7. ASSUME NEW l \in DOMAIN lanes, Collects(l) PROVE LanesOrderly'
  BY <1>2, <1>7, CollectorMoves
<1>8. ASSUME NEW l \in DOMAIN lanes, LaneStep(l) \/ ProcessorStep(l), ~Collects(l) PROVE LanesOrderly'
  <2>1. LaneMoves(l)
    BY <1>8, LaneStepMoves
  <2> QED
    BY <1>2, <2>1 DEF LaneMoves, Moves
<1> QED
  BY <1>4, <1>5, <1>6, <1>7, <1>8 DEF Step

\* A step of the lanes that leaves the calls alone.
LEMMA CallsOrderlyLane ==
    ASSUME PushTyped, CallsOrderly, UNCHANGED <<calls, provider>>, NEW l \in DOMAIN lanes, NEW n,
           lanes' = [lanes EXCEPT ![l] = n], n.queue = lanes[l].queue
    PROVE  CallsOrderly'
<1>1. /\ DOMAIN lanes' = DOMAIN lanes
      /\ \A m \in DOMAIN lanes : lanes'[m].queue = lanes[m].queue
  BY LaneChanges
<1> QED
  BY <1>1 DEF CallsOrderly

\* The scenario of a request never changes.
LEMMA ProviderSame ==
    ASSUME PushTyped, LanesOrderly, Step
    PROVE  provider' = provider /\ device' = device /\ wanted' = wanted
<1>1. CASE LookUp
  BY <1>1 DEF LookUp, LookupNothing, Lookup
<1>2. CASE \E c \in DOMAIN calls : CallStep(c)
  BY <1>2 DEF CallStep, Offer, Finish, Return, Wake, request
<1>3. CASE \E l \in DOMAIN lanes : Handover(l[1], l)
  BY <1>3 DEF Handover, Discard, Rejects, Takes, request
<1>4. CASE \E l \in DOMAIN lanes : Collects(l)
  BY <1>4 DEF Collects, request
<1>5. ASSUME NEW l \in DOMAIN lanes, LaneStep(l) \/ ProcessorStep(l), ~Collects(l)
      PROVE  provider' = provider /\ device' = device /\ wanted' = wanted
  BY <1>5, LaneStepMoves DEF request
<1> QED
  BY <1>1, <1>2, <1>3, <1>4, <1>5 DEF Step

LEMMA CallsStep ==
    ASSUME PushTyped, Awake, LanesOrderly, CallsOrderly, OneAtATime, Step
    PROVE  CallsOrderly'
<1>0. provider' = provider
  BY ProviderSame
<1>1. CASE LookUp
  <2>1. CASE UNCHANGED <<calls, lanes>>
    BY <1>0, <2>1 DEF CallsOrderly
  <2>2. ASSUME NEW s \in subs, NEW here \in SUBSET Candidates(s), NEW orphans \in SUBSET here,
               Lookup(s, here, orphans)
        PROVE  CallsOrderly'
    <3>1. /\ DOMAIN calls' = DOMAIN calls /\ UNCHANGED lanes
          /\ calls'[Request].pc = "handing" /\ calls[Request].pc = "handing"
          /\ calls'[Request].offer = None
          /\ \A c \in DOMAIN calls \ {Request} : calls'[c] = calls[c]
      BY <2>2, LookupPlaces
    <3> QED
      BY <1>0, <3>1 DEF CallsOrderly
  <2> QED
    BY <1>1, <2>1, <2>2 DEF LookUp, LookupNothing, ByName
<1>2. ASSUME NEW c \in DOMAIN calls, NEW d \in calls[c].todo, Offer(c, d) PROVE CallsOrderly'
  <2> DEFINE n == [calls[c] EXCEPT !.offer = d, !.todo = @ \ {d}]
             l == LaneOf(c, provider[d])
  <2>1. calls[c] \in CallRecords
    BY DEF PushTyped
  <2>2. calls' = [calls EXCEPT ![c] = n] /\ calls[c].pc = "handing"
    BY <1>2 DEF Offer
  <2>3. n.offer = d /\ n.todo = calls[c].todo \ {d} /\ n.pc = "handing"
    BY <2>1, <2>2 DEF CallRecords
  <2> HIDE DEF n
  <2>4. \/ lanes' = lanes /\ l \in DOMAIN lanes
        \/ l \notin DOMAIN lanes /\ lanes' = Put(lanes, l, NewLane)
    BY <1>2 DEF Offer
  <2>5. l[1] = c
    BY DEF LaneOf
  <2> HIDE DEF l
  <2>6. /\ DOMAIN lanes' = DOMAIN lanes \cup {l}
        /\ \A m \in DOMAIN lanes : lanes'[m] = lanes[m]
        /\ l \notin DOMAIN lanes => lanes'[l].queue = "open"
    BY <2>4, LaneAdded, NewLaneFacts
  <2>7. /\ DOMAIN calls' = DOMAIN calls /\ calls'[c] = n
        /\ \A a \in DOMAIN calls \ {c} : calls'[a] = calls[a]
    BY <2>2, CallChanges
  <2>8. ASSUME NEW a \in DOMAIN calls, a # c
        PROVE  /\ calls[a].offer # None =>
                     /\ LaneOf(a, provider[calls[a].offer]) \in DOMAIN lanes'
                     /\ calls[a].offer \notin calls[a].todo
               /\ calls[a].pc # "handing" => calls[a].todo = {} /\ calls[a].offer = None
               /\ calls[a].pc = "sleeping" => \A m \in DOMAIN lanes' : m[1] # a
               /\ calls[a].pc = "handing" =>
                     \A m \in DOMAIN lanes' : m[1] = a => lanes'[m].queue = "open"
    BY <2>5, <2>6, <2>8 DEF CallsOrderly
  <2>9. \A m \in DOMAIN lanes' : m[1] = c => lanes'[m].queue = "open"
    BY <2>2, <2>6 DEF CallsOrderly
  <2>10. LaneOf(c, provider[d]) \in DOMAIN lanes'
    BY <2>6 DEF l
  <2> QED
    BY <1>0, <2>3, <2>7, <2>8, <2>9, <2>10 DEF CallsOrderly
<1>3. ASSUME NEW c \in DOMAIN calls, Finish(c) PROVE CallsOrderly'
  <2> DEFINE n == [calls[c] EXCEPT !.pc = "waiting"]
  <2>1. calls[c] \in CallRecords
    BY DEF PushTyped
  <2>2. calls' = [calls EXCEPT ![c] = n] /\ calls[c].todo = {} /\ calls[c].offer = None
    BY <1>3 DEF Finish, AtRest
  <2>3. n.offer = None /\ n.todo = {} /\ n.pc = "waiting"
    BY <2>1, <2>2 DEF CallRecords
  <2> HIDE DEF n
  <2>4. DOMAIN lanes' = DOMAIN lanes /\ \A m \in DOMAIN lanes : m[1] # c => lanes'[m] = lanes[m]
    BY <1>3 DEF Finish
  <2>5. /\ DOMAIN calls' = DOMAIN calls /\ calls'[c] = n
        /\ \A a \in DOMAIN calls \ {c} : calls'[a] = calls[a]
    BY <2>2, CallChanges
  <2> QED
    BY <1>0, <2>3, <2>4, <2>5 DEF CallsOrderly
<1>4. ASSUME NEW c \in DOMAIN calls, Return(c) PROVE CallsOrderly'
  <2> DEFINE n == [calls[c] EXCEPT !.pc = "done"]
  <2>1. calls[c] \in CallRecords
    BY DEF PushTyped
  <2>2. calls' = [calls EXCEPT ![c] = n] /\ calls[c].pc = "waiting" /\ lanes' = lanes
    BY <1>4 DEF Return
  <2>3. n.offer = calls[c].offer /\ n.todo = calls[c].todo /\ n.pc = "done"
    BY <2>1, <2>2 DEF CallRecords
  <2> HIDE DEF n
  <2>4. /\ DOMAIN calls' = DOMAIN calls /\ calls'[c] = n
        /\ \A a \in DOMAIN calls \ {c} : calls'[a] = calls[a]
    BY <2>2, CallChanges
  <2> QED
    BY <1>0, <2>2, <2>3, <2>4 DEF CallsOrderly
<1>5. ASSUME NEW c \in DOMAIN calls, Wake(c) PROVE CallsOrderly'
  <2> DEFINE n == [calls[c] EXCEPT !.pc = "handing", !.offer = c[1]]
             l == LaneOf(c, provider[c[1]])
  <2>1. calls[c] \in CallRecords
    BY DEF PushTyped
  <2>2. /\ calls' = [calls EXCEPT ![c] = n] /\ calls[c].pc = "sleeping"
        /\ lanes' = Put(lanes, l, NewLane)
    BY <1>5 DEF Wake
  <2>3. /\ calls[c].todo = {} /\ \A m \in DOMAIN lanes : m[1] # c
    BY <2>2 DEF CallsOrderly
  <2>4. n.offer = c[1] /\ n.todo = {} /\ n.pc = "handing"
    BY <2>1, <2>3 DEF CallRecords
  <2>5. l[1] = c /\ l \notin DOMAIN lanes
    BY <2>3 DEF LaneOf
  <2> HIDE DEF n
  <2>6. /\ DOMAIN lanes' = DOMAIN lanes \cup {l} /\ lanes'[l] = NewLane
        /\ \A m \in DOMAIN lanes : lanes'[m] = lanes[m]
    BY <2>2, <2>5, LaneAdded
  <2>7. lanes'[l].queue = "open" /\ LaneOf(c, provider[c[1]]) \in DOMAIN lanes'
    BY <2>6, NewLaneFacts
  <2> HIDE DEF l
  <2>8. /\ DOMAIN calls' = DOMAIN calls /\ calls'[c] = n
        /\ \A a \in DOMAIN calls \ {c} : calls'[a] = calls[a]
    BY <2>2, CallChanges
  <2>9. ASSUME NEW a \in DOMAIN calls, a # c
        PROVE  /\ calls[a].offer # None =>
                     /\ LaneOf(a, provider[calls[a].offer]) \in DOMAIN lanes'
                     /\ calls[a].offer \notin calls[a].todo
               /\ calls[a].pc # "handing" => calls[a].todo = {} /\ calls[a].offer = None
               /\ calls[a].pc = "sleeping" => \A m \in DOMAIN lanes' : m[1] # a
               /\ calls[a].pc = "handing" =>
                     \A m \in DOMAIN lanes' : m[1] = a => lanes'[m].queue = "open"
    BY <2>5, <2>6, <2>9 DEF CallsOrderly
  <2>10. \A m \in DOMAIN lanes' : m[1] = c => lanes'[m].queue = "open"
    BY <2>3, <2>6, <2>7
  <2> QED
    BY <1>0, <2>4, <2>7, <2>8, <2>9, <2>10 DEF CallsOrderly
<1>6. ASSUME NEW l \in DOMAIN lanes, Handover(l[1], l) PROVE CallsOrderly'
  <2> DEFINE c == l[1]
             d == calls[c].offer
  <2>1. c \in DOMAIN calls /\ d # None /\ Handed(c)
    BY <1>6, LaneFacts DEF Handover, Discard, Rejects, Takes, Meets
  <2>2. /\ DOMAIN calls' = DOMAIN calls /\ d \in Pairs /\ At(c, d)
        /\ calls[c].pc = "handing" /\ calls'[c].pc = "handing" /\ calls'[c].offer = None
        /\ \A a \in DOMAIN calls \ {c} : calls'[a] = calls[a]
    BY <2>1, HandedPlaces
  <2>3. DOMAIN lanes' = DOMAIN lanes /\ \A m \in DOMAIN lanes : lanes'[m].queue = lanes[m].queue
    <3>1. CASE Discard(c, l)
      BY <3>1 DEF Discard
    <3>2. CASE Rejects(c, l) \/ Takes(c, l)
      <4>1. ~InLane(lanes[l], d)
        BY <2>1, <2>2 DEF OneAtATime, In
      <4> HIDE DEF d
      <4>2. PICK n : lanes' = [lanes EXCEPT ![l] = n] /\ TakesIn(TypeIs(l), lanes[l], n, d)
        BY <2>1, <3>2, <4>1, HandoverMoves DEF d
      <4> QED
        BY <4>2, LaneChanges DEF TakesIn
    <3> QED
      BY <1>6, <3>1, <3>2 DEF Handover
  <2> HIDE DEF c, d
  <2> QED
    BY <1>0, <2>1, <2>2, <2>3 DEF CallsOrderly
<1>7. ASSUME NEW l \in DOMAIN lanes, Collects(l) PROVE CallsOrderly'
  <2>1. /\ DOMAIN lanes' = DOMAIN lanes
        /\ \A m \in DOMAIN lanes : lanes'[m].queue = lanes[m].queue
    BY <1>7, CollectorMoves, LaneChanges
  <2>2. CASE UNCHANGED calls
    BY <1>0, <2>1, <2>2 DEF CallsOrderly
  <2>3. CASE ~UNCHANGED calls
    <3> DEFINE d == lanes[l].handling.dev
               c == <<d, l[1][2] + 1>>
    <3>1. PICK x \in Nat : calls' = Put(calls, c, NewCall("sleeping", x)) /\ d \in Pairs
      BY <1>7, <2>3, CollectedCalls
    <3>2. c \notin DOMAIN calls
      <4>1. In(l, d)
        BY <3>1 DEF In, InLane
      <4>2. l[1] \in DOMAIN calls /\ l[1][2] \in Nat
        BY LaneFacts DEF PushTyped, Request
      <4>3. c[1] = d /\ c[2] = l[1][2] + 1
        OBVIOUS
      <4> HIDE DEF c, d
      <4> QED
        BY <3>1, <4>1, <4>2, <4>3 DEF OneAtATime
    <3>3. \A m \in DOMAIN lanes : m[1] # c
      BY <3>2, LaneFacts
    <3> HIDE DEF c
    <3>4. /\ DOMAIN calls' = DOMAIN calls \cup {c} /\ calls'[c] = NewCall("sleeping", x)
          /\ \A a \in DOMAIN calls : calls'[a] = calls[a]
      BY <3>1, <3>2 DEF Put
    <3>5. calls'[c].pc = "sleeping" /\ calls'[c].todo = {} /\ calls'[c].offer = None
      BY <3>4 DEF NewCall
    <3> QED
      BY <1>0, <2>1, <3>3, <3>4, <3>5 DEF CallsOrderly
  <2> QED
    BY <2>2, <2>3
<1>8. ASSUME NEW l \in DOMAIN lanes, LaneStep(l) \/ ProcessorStep(l), ~Collects(l) PROVE CallsOrderly'
  <2>1. LaneMoves(l) /\ UNCHANGED calls
    BY <1>8, LaneStepMoves
  <2> QED
    BY <1>0, <2>1, CallsOrderlyLane DEF LaneMoves, Moves
<1> QED
  BY <1>1, <1>2, <1>3, <1>4, <1>5, <1>6, <1>7, <1>8 DEF Step, CallStep

LEMMA OneStep ==
    ASSUME PushTyped, Awake, LanesOrderly, CallsOrderly, OneAtATime, Founded, Step
    PROVE  OneAtATime'
<1>1. CASE LookUp
  <2>1. CASE UNCHANGED <<calls, lanes>>
    <3>1. Shrink
      BY <2>1, CallsSame, LanesSame DEF Shrink
    <3> QED
      BY <3>1, ShrinkOne
  <2>2. ASSUME NEW s \in subs, NEW here \in SUBSET Candidates(s), NEW orphans \in SUBSET here,
               Lookup(s, here, orphans)
        PROVE  OneAtATime'
    <3>1. /\ DOMAIN calls' = DOMAIN calls /\ UNCHANGED lanes
          /\ \A c \in DOMAIN calls \ {Request} : \A d : At(c, d)' <=> At(c, d)
          /\ \A d \in Pairs : ~At(Request, d) /\ (At(Request, d)' <=> d \in here \ orphans)
      BY <2>2, LookupPlaces
    <3>2. DOMAIN lanes' = DOMAIN lanes /\ \A l, d : In(l, d)' <=> In(l, d)
      BY <3>1, LanesSame
    <3>3. ASSUME NEW d \in here
          PROVE  /\ \A c \in DOMAIN calls : ~At(c, d) /\ c[1] # d
                 /\ \A l \in DOMAIN lanes : ~In(l, d)
      BY <3>3 DEF Candidates, Founded
    <3> SUFFICES ASSUME NEW d \in Pairs
                 PROVE  /\ \A a, b \in DOMAIN calls : At(a, d)' /\ At(b, d)' => a = b
                        /\ \A a \in DOMAIN calls, l \in DOMAIN lanes : At(a, d)' => ~In(l, d)
                        /\ \A l, m \in DOMAIN lanes : In(l, d) /\ In(m, d) => l = m
                        /\ \A c \in DOMAIN calls : c[1] = d =>
                              /\ \A a \in DOMAIN calls : At(a, d)' => c[2] <= a[2]
                              /\ \A l \in DOMAIN lanes : In(l, d) => c[2] <= l[1][2]
      BY <3>1, <3>2 DEF OneAtATime
    <3>4. CASE d \in here
      BY <3>1, <3>3, <3>4
    <3>5. CASE d \notin here
      <4>1. \A c \in DOMAIN calls : At(c, d)' => At(c, d)
        BY <3>1, <3>5
      <4> QED
        BY <4>1 DEF OneAtATime
    <3> QED
      BY <3>4, <3>5
  <2> QED
    BY <1>1, <2>1, <2>2 DEF LookUp, LookupNothing, ByName
<1>2. ASSUME NEW c \in DOMAIN calls, CallStep(c) PROVE OneAtATime'
  <2>1. Shrink
    BY <1>2, CallStepStays DEF Stay, Shrink
  <2> QED
    BY <2>1, ShrinkOne
<1>3. ASSUME NEW l \in DOMAIN lanes, Handover(l[1], l) PROVE OneAtATime'
  <2> DEFINE c == l[1]
             d == calls[c].offer
  <2>1. c \in DOMAIN calls /\ d # None /\ Handed(c)
    BY <1>3, LaneFacts DEF Handover, Discard, Rejects, Takes, Meets
  <2>2. /\ DOMAIN calls' = DOMAIN calls /\ d \in Pairs /\ At(c, d)
        /\ \A a \in DOMAIN calls \ {c} : \A x : At(a, x)' <=> At(a, x)
        /\ \A x \in Pairs : At(c, x)' <=> At(c, x) /\ x # d
    BY <2>1, HandedPlaces
  <2>3. CASE Discard(c, l)
    <3>1. lanes' = lanes
      BY <2>3 DEF Discard
    <3>2. Shrink
      BY <2>2, <3>1, LanesSame DEF Shrink
    <3> QED
      BY <3>2, ShrinkOne
  <2>4. CASE Rejects(c, l) \/ Takes(c, l)
    <3>1. ~InLane(lanes[l], d)
      BY <2>1, <2>2 DEF OneAtATime, In
    <3>2. l[1] = c
      OBVIOUS
    <3> HIDE DEF d
    <3>3. PICK n : lanes' = [lanes EXCEPT ![l] = n] /\ TakesIn(TypeIs(l), lanes[l], n, d)
      BY <2>1, <2>4, <3>1, HandoverMoves DEF d
    <3> HIDE DEF c
    <3>4. /\ DOMAIN lanes' = DOMAIN lanes
          /\ \A m \in DOMAIN lanes, x \in Pairs : In(m, x)' <=> In(m, x) \/ (m = l /\ x = d)
      BY <3>3, LaneChanges DEF TakesIn, In
    <3>5. \A a \in DOMAIN calls, x \in Pairs : At(a, x)' <=> At(a, x) /\ ~(a = c /\ x = d)
      BY <2>2
    <3> SUFFICES ASSUME NEW x \in Pairs
                 PROVE  /\ \A a, b \in DOMAIN calls : At(a, x)' /\ At(b, x)' => a = b
                        /\ \A a \in DOMAIN calls, m \in DOMAIN lanes : At(a, x)' => ~In(m, x)'
                        /\ \A k, m \in DOMAIN lanes : In(k, x)' /\ In(m, x)' => k = m
                        /\ \A b \in DOMAIN calls : b[1] = x =>
                              /\ \A a \in DOMAIN calls : At(a, x)' => b[2] <= a[2]
                              /\ \A m \in DOMAIN lanes : In(m, x)' => b[2] <= m[1][2]
      BY <2>2, <3>4 DEF OneAtATime
    <3>6. CASE x # d
      <4>1. \A a \in DOMAIN calls : At(a, x)' <=> At(a, x)
        BY <3>5, <3>6
      <4>2. \A m \in DOMAIN lanes : In(m, x)' <=> In(m, x)
        BY <3>4, <3>6
      <4> QED
        BY <4>1, <4>2 DEF OneAtATime
    <3>7. CASE x = d
      <4>1. \A a \in DOMAIN calls : ~At(a, x)'
        BY <2>1, <2>2, <3>5, <3>7 DEF OneAtATime
      <4>2. \A m \in DOMAIN lanes : In(m, x)' <=> m = l
        BY <2>1, <2>2, <3>4, <3>7 DEF OneAtATime
      <4>3. \A b \in DOMAIN calls : b[1] = x => b[2] <= l[1][2]
        BY <2>1, <2>2, <3>2, <3>7 DEF OneAtATime
      <4> QED
        BY <4>1, <4>2, <4>3
    <3> QED
      BY <3>6, <3>7
  <2> QED
    BY <1>3, <2>3, <2>4 DEF Handover
<1>4. ASSUME NEW l \in DOMAIN lanes, Collects(l) PROVE OneAtATime'
  <2> DEFINE d == lanes[l].handling.dev
  <2>1. /\ DOMAIN lanes' = DOMAIN lanes
        /\ \A m \in DOMAIN lanes, x \in Pairs : In(m, x)' <=> In(m, x) /\ ~(m = l /\ x = d)
    <3> DEFINE n == [lanes[l] EXCEPT !.handling = NoResult]
    <3>1. /\ lanes' = [lanes EXCEPT ![l] = n]
          /\ \A x \in Pairs : InLane(n, x) <=> InLane(lanes[l], x) /\ lanes[l].handling.dev # x
      BY <1>4, CollectorMoves
    <3> HIDE DEF n
    <3> QED
      BY <3>1, LaneChanges DEF In
  <2>2. CASE UNCHANGED calls
    <3>1. Shrink
      BY <2>1, <2>2, CallsSame DEF Shrink
    <3> QED
      BY <3>1, ShrinkOne
  <2>3. CASE ~UNCHANGED calls
    <3>0. PICK c : c = <<d, l[1][2] + 1>>
      OBVIOUS
    <3>1. PICK y \in Nat : calls' = Put(calls, c, NewCall("sleeping", y)) /\ d \in Pairs
      BY <1>4, <2>3, <3>0, CollectedCalls
    <3>2. In(l, d)
      BY <3>1 DEF In, InLane
    <3>3. l[1] \in DOMAIN calls /\ l[1][2] \in Nat
      BY LaneFacts DEF PushTyped, Request
    <3>4. c[1] = d /\ c[2] = l[1][2] + 1
      BY <3>0
    <3> HIDE DEF d
    <3>5. \A b \in DOMAIN calls : b[1] = d => b[2] <= l[1][2]
      BY <3>1, <3>2 DEF OneAtATime
    <3>6. c \notin DOMAIN calls
      BY <3>3, <3>4, <3>5
    <3>7. /\ DOMAIN calls' = DOMAIN calls \cup {c} /\ calls'[c] = NewCall("sleeping", y)
          /\ \A a \in DOMAIN calls : calls'[a] = calls[a]
      BY <3>1, <3>6 DEF Put
    <3>8. calls'[c].pc = "sleeping" /\ calls'[c].todo = {} /\ calls'[c].offer = None
      BY <3>7 DEF NewCall
    <3>9. \A x \in Pairs : At(c, x)' <=> x = d
      BY <3>4, <3>8, PushAssumption DEF At, Has
    <3>10. \A a \in DOMAIN calls, x \in Pairs : At(a, x)' <=> At(a, x)
      BY <3>7 DEF At, Has
    <3> SUFFICES ASSUME NEW x \in Pairs
                 PROVE  /\ \A a, b \in DOMAIN calls' : At(a, x)' /\ At(b, x)' => a = b
                        /\ \A a \in DOMAIN calls', m \in DOMAIN lanes : At(a, x)' => ~In(m, x)'
                        /\ \A k, m \in DOMAIN lanes : In(k, x)' /\ In(m, x)' => k = m
                        /\ \A b \in DOMAIN calls' : b[1] = x =>
                              /\ \A a \in DOMAIN calls' : At(a, x)' => b[2] <= a[2]
                              /\ \A m \in DOMAIN lanes : In(m, x)' => b[2] <= m[1][2]
      BY <2>1 DEF OneAtATime
    <3>11. CASE x # d
      <4>1. ~At(c, x)' /\ \A a \in DOMAIN calls : At(a, x)' <=> At(a, x)
        BY <3>9, <3>10, <3>11
      <4>2. \A m \in DOMAIN lanes : In(m, x)' <=> In(m, x)
        BY <2>1, <3>11
      <4>3. c[1] # x
        BY <3>4, <3>11
      <4> QED
        BY <3>7, <4>1, <4>2, <4>3 DEF OneAtATime
    <3>12. CASE x = d
      <4>1. \A m \in DOMAIN lanes : ~In(m, x)'
        BY <2>1, <3>1, <3>2, <3>12 DEF OneAtATime
      <4>2. \A a \in DOMAIN calls : ~At(a, x)'
        BY <3>1, <3>2, <3>10, <3>12 DEF OneAtATime
      <4>3. \A b \in DOMAIN calls' : b[1] = x => b[2] <= c[2]
        <5>1. ASSUME NEW b \in DOMAIN calls, b[1] = d PROVE b[2] <= c[2]
          <6>1. b[2] \in Nat
            BY DEF PushTyped, Request
          <6> QED
            BY <3>3, <3>4, <3>5, <5>1, <6>1
        <5>2. c[2] <= c[2]
          BY <3>3, <3>4
        <5> QED
          BY <3>7, <3>12, <5>1, <5>2
      <4> QED
        BY <3>7, <4>1, <4>2, <4>3
    <3> QED
      BY <3>11, <3>12
  <2> QED
    BY <2>2, <2>3
<1>5. ASSUME NEW l \in DOMAIN lanes, LaneStep(l) \/ ProcessorStep(l), ~Collects(l) PROVE OneAtATime'
  <2>1. LaneMoves(l) /\ UNCHANGED calls
    BY <1>5, LaneStepMoves
  <2>2. PICK n : lanes' = [lanes EXCEPT ![l] = n] /\ Moves(TypeIs(l), lanes[l], n)
    BY <2>1 DEF LaneMoves
  <2>3. \A d \in Pairs : InLane(n, d) => InLane(lanes[l], d)
    BY <2>2 DEF Moves
  <2>4. Shrink
    BY <2>1, <2>2, <2>3, CallsSame, LaneChanges DEF Shrink, In
  <2> QED
    BY <2>4, ShrinkOne
<1> QED
  BY <1>1, <1>2, <1>3, <1>4, <1>5 DEF Step

(***************************************************************************)
(* What the response says                                                  *)
(***************************************************************************)
\* What a collector adds to the response.
LEMMA ReportFacts ==
    ASSUME PushTyped, NEW l \in DOMAIN lanes, Collects(l), NEW h, h = lanes[l].handling
    PROVE  /\ UNCHANGED request
           /\ response'.subs = response.subs
           /\ response'.notSubscribed = response.notSubscribed
           /\ \A d \in Pairs : response'.named[d] =
                 response.named[d] + One(l[1] = Request /\ h.dev = d)
           /\ \A p \in Providers : response'.unnamed[p] =
                 response.unnamed[p] + One(l[1] = Request /\ h = Unnamed /\ p = l[2])
           /\ response'.refused =
                 response.refused \cup {p \in {l[2]} : l[1] = Request /\ h = Refused}
<1> DEFINE r == RetryTransientConnectionError(h)
<1>1. h \in Results /\ l[2] \in Providers
  BY LaneFacts DEF LaneRecords
<1>2. /\ UNCHANGED request
      /\ response' = Report(l[1], r, l[2])
  BY DEF Collects
<1>3. /\ response \in [named : [Pairs -> Nat], unnamed : [Providers -> Nat],
                       refused : SUBSET Providers, subs : SUBSET Entries,
                       notSubscribed : SUBSET Devices]
  BY DEF PushTyped
<1>4. CASE l[1] # Request
  BY <1>2, <1>3, <1>4 DEF Report, One
<1>5. CASE l[1] = Request
  <2>0. response' = AddDetails(r, l[2])
    BY <1>2, <1>5 DEF Report
  <2>1. CASE h.dev \in Pairs
    <3>1. r.what \in {"final", "retry"} /\ r.dev = h.dev /\ h # Unnamed /\ h # Refused
      BY <1>1, <2>1, ResultFacts
      DEF RetryTransientConnectionError, Results, RetryError, Unnamed, Refused, Update, NoResult
    <3> HIDE DEF r
    <3>2. response' = [response EXCEPT !.named[r.dev] = @ + 1]
      BY <2>0, <3>1 DEF AddDetails
    <3>3. /\ response'.subs = response.subs /\ response'.unnamed = response.unnamed
          /\ response'.notSubscribed = response.notSubscribed
          /\ response'.refused = response.refused
          /\ response'.named = [response.named EXCEPT ![r.dev] = response.named[r.dev] + 1]
      BY <1>3, <3>2
    <3>4. \A d \in Pairs : response'.named[d] = response.named[d] + One(h.dev = d)
      <4>1. response.named \in [Pairs -> Nat]
        BY <1>3
      <4> QED
        BY <2>1, <3>1, <3>3, <4>1 DEF One
    <3>5. \A p \in Providers : response'.unnamed[p] = response.unnamed[p] + 0
      BY <1>3, <3>3
    <3> QED
      BY <1>2, <1>5, <3>1, <3>3, <3>4, <3>5 DEF One
  <2>2. CASE h.dev \notin Pairs
    <3>1. h \in {Unnamed, Refused, Update, NoResult}
      BY <1>1, <2>2 DEF Results
    <3>2. r = h
      BY <3>1 DEF RetryTransientConnectionError, Unnamed, Refused, Update, NoResult
    <3> HIDE DEF r
    <3>3. \A d \in Pairs : h.dev # d
      BY <2>2
    <3>4. CASE h = Unnamed
      <4>1. response' = [response EXCEPT !.unnamed[l[2]] = @ + 1]
        BY <2>0, <3>2, <3>4 DEF AddDetails, Unnamed
      <4>2. /\ response'.subs = response.subs /\ response'.named = response.named
            /\ response'.notSubscribed = response.notSubscribed
            /\ response'.refused = response.refused
            /\ response'.unnamed = [response.unnamed EXCEPT ![l[2]] = response.unnamed[l[2]] + 1]
        BY <1>3, <4>1
      <4>3. h # Refused
        BY <3>4, ResultFacts
      <4> QED
        BY <1>1, <1>2, <1>3, <1>5, <3>3, <3>4, <4>2, <4>3 DEF One
    <3>5. CASE h = Refused
      <4>1. response' = [response EXCEPT !.refused = @ \cup {l[2]}]
        BY <2>0, <3>2, <3>5 DEF AddDetails, Refused
      <4>2. /\ response'.subs = response.subs /\ response'.named = response.named
            /\ response'.notSubscribed = response.notSubscribed
            /\ response'.refused = response.refused \cup {l[2]}
            /\ response'.unnamed = response.unnamed
        BY <1>3, <4>1
      <4>3. h # Unnamed
        BY <3>5, ResultFacts
      <4> QED
        BY <1>1, <1>2, <1>3, <1>5, <3>3, <3>5, <4>2, <4>3 DEF One
    <3>6. CASE h \in {Update, NoResult}
      <4>1. response' = response
        BY <2>0, <3>2, <3>6 DEF AddDetails, Update, NoResult
      <4>2. h # Unnamed /\ h # Refused
        BY <3>6, ResultFacts
      <4> QED
        BY <1>1, <1>2, <1>3, <3>3, <4>1, <4>2 DEF One
    <3> QED
      BY <3>1, <3>4, <3>5, <3>6
  <2> QED
    BY <2>1, <2>2
<1> QED
  BY <1>4, <1>5

\* The calls' own steps: which of them touches the response.
LEMMA CallStepFacts ==
    ASSUME PushTyped, Awake, NEW c \in DOMAIN calls, CallStep(c)
    PROVE  /\ UNCHANGED request
           /\ UNCHANGED response \/
                 /\ c = Request /\ Finish(c) /\ UNCHANGED <<response.named, response.unnamed>>
                 /\ UNCHANGED <<response.refused, response.subs>>
                 /\ response'.notSubscribed = wanted \ {device[x] : x \in found}
           /\ \/ calls'[Request].pc = calls[Request].pc
              \/ calls'[Request].pc # "handing" /\ c = Request /\ Finish(c) /\ subs = {}
              \/ calls[Request].pc # "handing" /\ calls'[Request].pc # "handing"
<1>1. Request \in DOMAIN calls /\ calls[Request].pc # "sleeping" /\ calls[Request] \in CallRecords
  BY DEF Awake, PushTyped
<1>2. ASSUME NEW d \in calls[c].todo, Offer(c, d)
      PROVE  UNCHANGED <<request, response>> /\ calls'[Request].pc = calls[Request].pc
  <2>1. calls[c] \in CallRecords
    BY DEF PushTyped
  <2> QED
    BY <1>1, <1>2, <2>1 DEF Offer, CallRecords, PushTyped
<1>3. CASE Finish(c)
  <2>1. UNCHANGED request
    BY <1>3 DEF Finish
  <2>2. CASE c = Request
    <3>1. /\ calls' = [calls EXCEPT ![c].pc = "waiting"] /\ subs = {}
      BY <1>3, <2>2 DEF Finish
    <3>2. calls'[Request].pc = "waiting"
      BY <1>1, <2>2, <3>1 DEF PushTyped, CallRecords
    <3>3. CASE response' = response
      BY <1>3, <2>1, <2>2, <3>1, <3>2, <3>3
    <3>4. CASE response' = [response EXCEPT !.notSubscribed = wanted \ {device[x] : x \in found}]
      <4>1. /\ UNCHANGED <<response.named, response.unnamed>>
            /\ UNCHANGED <<response.refused, response.subs>>
            /\ response'.notSubscribed = wanted \ {device[x] : x \in found}
        BY <3>4 DEF PushTyped
      <4> QED
        BY <1>3, <2>1, <2>2, <3>1, <3>2, <4>1
    <3> QED
      BY <1>3, <3>3, <3>4 DEF Finish
  <2>3. CASE c # Request
    BY <1>1, <1>3, <2>1, <2>3 DEF Finish, PushTyped
  <2> QED
    BY <2>2, <2>3
<1>4. CASE Return(c)
  <2>1. calls' = [calls EXCEPT ![c].pc = "done"] /\ calls[c].pc = "waiting"
        /\ UNCHANGED <<request, response>>
    BY <1>4 DEF Return
  <2>2. CASE c = Request
    BY <1>1, <2>1, <2>2 DEF PushTyped, CallRecords
  <2>3. CASE c # Request
    BY <1>1, <2>1, <2>3 DEF PushTyped
  <2> QED
    BY <2>2, <2>3
<1>5. CASE Wake(c)
  <2>1. c # Request
    BY <1>1, <1>5 DEF Wake
  <2> QED
    BY <1>1, <1>5, <2>1 DEF Wake, PushTyped
<1> QED
  BY <1>2, <1>3, <1>4, <1>5 DEF CallStep

LEMMA FoundedStep ==
    ASSUME PushTyped, Awake, LanesOrderly, CallsOrderly, OneAtATime, Founded, Step
    PROVE  Founded'
<1>0. provider' = provider /\ device' = device /\ Request \in DOMAIN calls
  BY ProviderSame DEF Awake
<1>1. ASSUME NEW s \in subs, NEW failed \in BOOLEAN, LookupNothing(s, failed) PROVE Founded'
  <2>1. /\ subs' = subs \ {s} /\ UNCHANGED <<found, calls, lanes>>
        /\ response' = [response EXCEPT !.subs = response.subs \cup {s}]
    BY <1>1 DEF LookupNothing
  <2>2. /\ response'.named = response.named /\ response'.notSubscribed = response.notSubscribed
        /\ response'.subs = response.subs \cup {s}
    BY <2>1 DEF PushTyped
  <2> QED
    BY <1>0, <2>1, <2>2, CallsSame, LanesSame DEF Founded
<1>2. ASSUME NEW s \in subs, NEW here \in SUBSET Candidates(s), here # {},
             NEW orphans \in SUBSET here, Lookup(s, here, orphans)
      PROVE  Founded'
  <2>1. /\ DOMAIN calls' = DOMAIN calls /\ UNCHANGED lanes
        /\ \A c \in DOMAIN calls \ {Request} : \A d : At(c, d)' <=> At(c, d)
        /\ \A d \in Pairs : ~At(Request, d) /\ (At(Request, d)' <=> d \in here \ orphans)
        /\ calls'[Request].pc = "handing" /\ calls[Request].pc = "handing"
    BY <1>2, LookupPlaces
  <2>2. DOMAIN lanes' = DOMAIN lanes /\ \A l, d : In(l, d)' <=> In(l, d)
    BY <2>1, LanesSame
  <2>3. /\ subs' = subs \ {s} /\ found' = found \cup here
        /\ response' = [response EXCEPT !.named =
                           [d \in Pairs |-> IF d \in orphans THEN response.named[d] + 1
                                              ELSE response.named[d]]]
    BY <1>2 DEF Lookup
  <2>4. /\ response'.notSubscribed = response.notSubscribed /\ response'.subs = response.subs
        /\ \A d \in Pairs : d \in here \/ response'.named[d] = response.named[d]
    BY <2>3 DEF PushTyped
  <2>5. \A d \in here : d \in Pairs /\ EntryOf[d] = s
    BY DEF Candidates
  <2>6. \A d \in found' : EntryOf[d] \notin subs'
    BY <2>3, <2>5 DEF Founded
  <2>7. \A d \in Pairs, c \in DOMAIN calls' : At(c, d)' \/ c[1] = d => d \in found'
    BY <2>1, <2>3 DEF Founded
  <2>8. \A d \in Pairs, l \in DOMAIN lanes' : In(l, d)' => d \in found' /\ provider[d] = l[2]
    BY <2>2, <2>3 DEF Founded
  <2>9. \A d \in Pairs : response'.named[d] > 0 => d \in found'
    BY <2>3, <2>4 DEF Founded
  <2>10. response'.notSubscribed = {}
    BY <2>1, <2>4 DEF Founded
  <2>11. ASSUME NEW z \in Entries
         PROVE  \/ z \in subs' \/ z \in response'.subs
                \/ \E d \in found' : EntryOf[d] = z
    BY <1>2, <2>3, <2>4, <2>5 DEF Founded
  <2> QED
    BY <1>0, <2>1, <2>6, <2>7, <2>8, <2>9, <2>10, <2>11 DEF Founded
<1>3. ASSUME NEW c \in DOMAIN calls, CallStep(c) PROVE Founded'
  <2>1. Stay
    BY <1>3, CallStepStays
  <2>2. /\ UNCHANGED request
        /\ UNCHANGED response \/
              /\ c = Request /\ Finish(c) /\ UNCHANGED <<response.named, response.unnamed>>
              /\ UNCHANGED <<response.refused, response.subs>>
              /\ response'.notSubscribed = wanted \ {device[x] : x \in found}
        /\ \/ calls'[Request].pc = calls[Request].pc
           \/ calls'[Request].pc # "handing" /\ c = Request /\ Finish(c) /\ subs = {}
           \/ calls[Request].pc # "handing" /\ calls'[Request].pc # "handing"
    BY <1>3, CallStepFacts
  <2>3. UNCHANGED <<subs, found>>
    BY <2>2 DEF request
  <2>4. /\ \A d \in found' : EntryOf[d] \notin subs'
        /\ \A d \in Pairs, a \in DOMAIN calls' : At(a, d)' \/ a[1] = d => d \in found'
        /\ \A d \in Pairs, l \in DOMAIN lanes' : In(l, d)' => d \in found' /\ provider[d] = l[2]
    BY <2>1, <2>3 DEF Founded, Stay
  <2>5. response'.named = response.named /\ response'.subs = response.subs
    BY <2>2
  <2>6. /\ \A d \in Pairs : response'.named[d] > 0 => d \in found'
        /\ \A s \in Entries : \/ s \in subs' \/ s \in response'.subs
                                  \/ \E d \in found' : EntryOf[d] = s
    BY <2>3, <2>5 DEF Founded
  <2>7. \A d \in found' : device[d] \notin response'.notSubscribed
    BY <2>2, <2>3 DEF Founded
  <2>8. Finish(Request) => calls'[Request].pc = "waiting"
    <3>1. calls[Request] \in CallRecords
      BY <1>0 DEF PushTyped
    <3> QED
      BY <1>0, <3>1 DEF Finish, CallRecords, PushTyped
  <2>9. /\ calls'[Request].pc = "handing" => response'.notSubscribed = {}
        /\ calls'[Request].pc # "handing" => subs' = {}
    BY <2>2, <2>3, <2>8 DEF Founded
  <2> QED
    BY <1>0, <2>4, <2>6, <2>7, <2>9 DEF Founded
<1>4. ASSUME NEW l \in DOMAIN lanes, Handover(l[1], l) PROVE Founded'
  <2> DEFINE c == l[1]
             d == calls[c].offer
  <2>1. /\ c \in DOMAIN calls /\ d # None /\ Handed(c) /\ UNCHANGED <<request, response>>
        /\ l = LaneOf(c, provider[d])
    BY <1>4, LaneFacts DEF Handover, Discard, Rejects, Takes, Meets
  <2>2. /\ DOMAIN calls' = DOMAIN calls /\ d \in Pairs /\ At(c, d)
        /\ \A a \in DOMAIN calls \ {c} : \A x : At(a, x)' <=> At(a, x)
        /\ \A x \in Pairs : At(c, x)' <=> At(c, x) /\ x # d
        /\ calls[c].pc = "handing" /\ calls'[c].pc = "handing"
        /\ \A a \in DOMAIN calls \ {c} : calls'[a] = calls[a]
    BY <2>1, HandedPlaces
  <2>3. l[2] = provider[d]
    BY <2>1 DEF LaneOf
  <2>4. /\ DOMAIN lanes' = DOMAIN lanes
        /\ \A m \in DOMAIN lanes, x \in Pairs : In(m, x)' => In(m, x) \/ (m = l /\ x = d)
    <3>1. CASE Discard(c, l)
      <4>1. lanes' = lanes
        BY <3>1 DEF Discard
      <4> QED
        BY <4>1, LanesSame
    <3>2. CASE Rejects(c, l) \/ Takes(c, l)
      <4>1. ~InLane(lanes[l], d)
        BY <2>1, <2>2 DEF OneAtATime, In
      <4> HIDE DEF d
      <4>2. PICK n : lanes' = [lanes EXCEPT ![l] = n] /\ TakesIn(TypeIs(l), lanes[l], n, d)
        BY <2>1, <3>2, <4>1, HandoverMoves DEF d
      <4> QED
        BY <4>2, LaneChanges DEF TakesIn, In
    <3> QED
      BY <1>4, <3>1, <3>2 DEF Handover
  <2>5. UNCHANGED <<subs, found, response>> /\ calls'[Request].pc = calls[Request].pc
    BY <1>0, <2>1, <2>2 DEF request
  <2> HIDE DEF c, d
  <2>6. d \in found
    BY <2>1, <2>2 DEF Founded
  <2>7. \A x \in Pairs, a \in DOMAIN calls : At(a, x)' => At(a, x)
    BY <2>2
  <2>8. \A x \in Pairs, a \in DOMAIN calls' : At(a, x)' \/ a[1] = x => x \in found'
    BY <2>2, <2>5, <2>7 DEF Founded
  <2>9. \A x \in Pairs, m \in DOMAIN lanes' : In(m, x)' => x \in found' /\ provider[x] = m[2]
    BY <2>3, <2>4, <2>5, <2>6 DEF Founded
  <2> QED
    BY <1>0, <2>5, <2>8, <2>9 DEF Founded
<1>5. ASSUME NEW l \in DOMAIN lanes, Collects(l) PROVE Founded'
  <2> DEFINE h == lanes[l].handling
             d == h.dev
             n == [lanes[l] EXCEPT !.handling = NoResult]
  <2>1. /\ UNCHANGED request
        /\ response'.subs = response.subs /\ response'.notSubscribed = response.notSubscribed
        /\ \A x \in Pairs : response'.named[x] =
              response.named[x] + One(l[1] = Request /\ h.dev = x)
    BY <1>5, ReportFacts
  <2>2. /\ lanes' = [lanes EXCEPT ![l] = n]
        /\ \A x \in Pairs : InLane(n, x) => InLane(lanes[l], x)
        /\ d \in Pairs => In(l, d)
    BY <1>5, CollectorMoves DEF In
  <2>3. UNCHANGED <<subs, found>>
    BY <2>1 DEF request
  <2> HIDE DEF h, n
  <2>4. /\ DOMAIN lanes' = DOMAIN lanes
        /\ \A m \in DOMAIN lanes, x \in Pairs : In(m, x)' => In(m, x)
    BY <2>2, LaneChanges DEF In
  <2>5. /\ DOMAIN calls \subseteq DOMAIN calls'
        /\ \A a \in DOMAIN calls : calls'[a] = calls[a]
        /\ \A a \in DOMAIN calls' \ DOMAIN calls :
              a[1] = d /\ d \in Pairs /\ \A x \in Pairs : At(a, x)' => x = d
    <3>1. CASE UNCHANGED calls
      BY <3>1
    <3>2. CASE ~UNCHANGED calls
      <4>0. PICK c : c = <<d, l[1][2] + 1>>
        OBVIOUS
      <4>1. PICK y \in Nat : calls' = Put(calls, c, NewCall("sleeping", y)) /\ d \in Pairs
        BY <1>5, <3>2, <4>0, CollectedCalls DEF h
      <4>2. l[1] \in DOMAIN calls /\ l[1][2] \in Nat
        BY LaneFacts DEF PushTyped, Request
      <4>3. c[1] = d /\ c[2] = l[1][2] + 1
        BY <4>0
      <4>4. c \notin DOMAIN calls
        BY <2>2, <4>1, <4>2, <4>3 DEF OneAtATime
      <4>5. /\ DOMAIN calls' = DOMAIN calls \cup {c} /\ calls'[c] = NewCall("sleeping", y)
            /\ \A a \in DOMAIN calls : calls'[a] = calls[a]
        BY <4>1, <4>4 DEF Put
      <4>6. calls'[c].pc = "sleeping" /\ calls'[c].todo = {} /\ calls'[c].offer = None
        BY <4>5 DEF NewCall
      <4>7. \A x \in Pairs : At(c, x)' => x = d
        BY <4>3, <4>6, PushAssumption DEF At, Has
      <4> QED
        BY <4>1, <4>3, <4>5, <4>7
    <3> QED
      BY <3>1, <3>2
  <2>6. \A a \in DOMAIN calls, x \in Pairs : At(a, x)' <=> At(a, x)
    BY <2>5 DEF At, Has
  <2>7. d \in Pairs => d \in found
    BY <2>2 DEF Founded
  <2>8. \A x \in Pairs, a \in DOMAIN calls' : At(a, x)' \/ a[1] = x => x \in found'
    BY <2>3, <2>5, <2>6, <2>7 DEF Founded
  <2>9. \A x \in Pairs, m \in DOMAIN lanes' : In(m, x)' => x \in found' /\ provider[x] = m[2]
    BY <2>3, <2>4 DEF Founded
  <2>10. \A x \in Pairs : response'.named[x] > 0 => x \in found'
    <3>1. ASSUME NEW x \in Pairs, response'.named[x] > 0 PROVE x \in found'
      <4>1. response.named[x] \in Nat
        BY DEF PushTyped
      <4>2. response'.named[x] = response.named[x] + One(l[1] = Request /\ d = x)
        BY <2>1
      <4>3. response.named[x] > 0 \/ d = x
        BY <3>1, <4>1, <4>2 DEF One
      <4> QED
        BY <2>3, <2>7, <4>3 DEF Founded
    <3> QED
      BY <3>1
  <2> QED
    BY <1>0, <2>1, <2>3, <2>5, <2>8, <2>9, <2>10 DEF Founded
<1>6. ASSUME NEW l \in DOMAIN lanes, LaneStep(l) \/ ProcessorStep(l), ~Collects(l) PROVE Founded'
  <2>1. LaneMoves(l) /\ UNCHANGED <<request, calls, response>>
    BY <1>6, LaneStepMoves
  <2>2. PICK n : lanes' = [lanes EXCEPT ![l] = n] /\ Moves(TypeIs(l), lanes[l], n)
    BY <2>1 DEF LaneMoves
  <2>3. \A d \in Pairs : InLane(n, d) => InLane(lanes[l], d)
    BY <2>2 DEF Moves
  <2>4. /\ DOMAIN lanes' = DOMAIN lanes
        /\ \A m \in DOMAIN lanes, x \in Pairs : In(m, x)' => In(m, x)
    BY <2>2, <2>3, LaneChanges DEF In
  <2>5. UNCHANGED <<subs, found, calls, response>>
    BY <2>1 DEF request
  <2> QED
    BY <1>0, <2>4, <2>5, CallsSame DEF Founded
<1>7. CASE LookUp
  <2>1. ASSUME NEW s \in subs, NEW here \in (SUBSET Candidates(s)) \ {{}},
               NEW orphans \in SUBSET ByName(here), Lookup(s, here, orphans)
        PROVE  Founded'
    <3>1. here \in SUBSET Candidates(s) /\ here # {} /\ orphans \in SUBSET here
      BY DEF ByName
    <3> QED
      BY <1>2, <2>1, <3>1
  <2> QED
    BY <1>1, <1>7, <2>1 DEF LookUp
<1> QED
  BY <1>3, <1>4, <1>5, <1>6, <1>7 DEF Step

(***************************************************************************)
(* What holds of every push                                                *)
(***************************************************************************)
Pushing ==
    PushTyped /\ Awake /\ LanesOrderly /\ CallsOrderly /\ OneAtATime /\ Founded

LEMMA InitPushing == Init => Pushing
<1> SUFFICES ASSUME Init PROVE Pushing
  OBVIOUS
<1>1. PushTyped /\ Awake
  BY InitType, InitAwake
<1>2. /\ DOMAIN calls = {Request} /\ calls[Request] = NewCall("handing", 0) /\ DOMAIN lanes = {}
  BY DEF Init
<1>3. /\ calls[Request].pc = "handing" /\ calls[Request].todo = {}
      /\ calls[Request].offer = None
  BY <1>2 DEF NewCall
<1>4. \A d \in Pairs : ~At(Request, d) /\ Request[1] # d
  BY <1>3, PushAssumption DEF At, Has, Request
<1>5. LanesOrderly /\ CallsOrderly /\ OneAtATime
  BY <1>2, <1>3, <1>4 DEF LanesOrderly, CallsOrderly, OneAtATime
<1>6. /\ subs = Entries /\ found = {} /\ response.notSubscribed = {}
      /\ \A d \in Pairs : response.named[d] = 0
  BY DEF Init
<1>7. Founded
  BY <1>2, <1>3, <1>4, <1>6 DEF Founded
<1> QED
  BY <1>1, <1>5, <1>7 DEF Pushing

LEMMA PushingSame ==
    ASSUME Pushing, UNCHANGED push
    PROVE  Pushing'
<1>1. UNCHANGED <<provider, device, wanted, subs, lookupFailed, found, calls, lanes, response>>
  BY DEF push
<1>2. PushTyped' /\ Awake'
  BY <1>1, TypesStep DEF Pushing, push
<1>3. (\A c, d : At(c, d)' <=> At(c, d)) /\ (\A l, d : In(l, d)' <=> In(l, d))
  BY <1>1, CallsSame, LanesSame
<1>4. LanesOrderly' /\ CallsOrderly'
  BY <1>1 DEF Pushing, LanesOrderly, CallsOrderly, TypeIs
<1>5. OneAtATime' /\ Founded'
  BY <1>1, <1>3 DEF Pushing, OneAtATime, Founded
<1> QED
  BY <1>2, <1>4, <1>5 DEF Pushing

LEMMA PushingStep ==
    ASSUME Pushing, [Step]_push
    PROVE  Pushing'
<1>1. CASE Step
  BY <1>1, TypesStep, LanesStep, CallsStep, OneStep, FoundedStep DEF Pushing
<1> QED
  BY <1>1, PushingSame

\* No goroutine of a push is left that could send on a channel already closed:
\* pushImpl closes dpQueue when it has nothing left to hand over, a sender closes
\* resQueue when its workers and its processor have ended.
THEOREM ChannelsSafe == Spec => []NoSendOnClosed
<1>1. Pushing => NoSendOnClosed
  <2> SUFFICES ASSUME Pushing PROVE NoSendOnClosed
    OBVIOUS
  <2>1. ASSUME NEW c \in DOMAIN calls, calls[c].offer # None
        PROVE  lanes[LaneOf(c, provider[calls[c].offer])].queue = "open"
    <3>1. calls[c].pc = "handing"
      BY <2>1 DEF Pushing, CallsOrderly
    <3>2. LaneOf(c, provider[calls[c].offer]) \in DOMAIN lanes
      BY <2>1 DEF Pushing, CallsOrderly
    <3>3. LaneOf(c, provider[calls[c].offer])[1] = c
      BY DEF LaneOf
    <3> QED
      BY <3>1, <3>2, <3>3 DEF Pushing, CallsOrderly
  <2>2. ASSUME NEW l \in DOMAIN lanes
        PROVE  /\ lanes[l].sender = "done" => Free(l) /\ lanes[l].work = {}
               /\ lanes[l].processor = "done" =>
                     lanes[l].batch = {} /\ lanes[l].work = {} /\ lanes[l].owed = 0
    BY DEF Pushing, LanesOrderly, Orderly, Free
  <2> QED
    BY <2>1, <2>2 DEF NoSendOnClosed
<1> QED
  BY <1>1, InitPushing, PushingStep, NextIsStep, PTL DEF Spec

\* A pair is worked on by one goroutine at a time: a device is sent the
\* notification by no more of them than there are entries in the list of
\* subscribers that match it, repeated and overlapping ones included, whatever
\* the probe, the error paths of a batch and the retries do.
THEOREM NoSecondCopy == Spec => []OneCopy
<1>1. Pushing => OneCopy
  <2> SUFFICES ASSUME Pushing, NEW d \in Pairs PROVE Cardinality(Places(d)) <= 1
    BY DEF OneCopy
  <2>1. ASSUME NEW u \in Places(d), NEW v \in Places(d) PROVE u = v
    <3>1. \/ \E c \in DOMAIN calls : u = <<"call", c>> /\ At(c, d)
          \/ \E l \in DOMAIN lanes : In(l, d) /\
                \/ u = <<"inHand", l>> /\ lanes[l].inHand = d
                \/ u = <<"holding", l>> /\ lanes[l].holding.dev = d
                \/ u = <<"batch", l>> /\ d \in lanes[l].batch
                \/ u = <<"work", l>> /\ d \in lanes[l].work
                \/ u = <<"buffered", l>> /\ d \in lanes[l].buffered
                \/ u = <<"handling", l>> /\ lanes[l].handling.dev = d
      BY DEF Places, At, Has, In, InLane
    <3>2. \/ \E c \in DOMAIN calls : v = <<"call", c>> /\ At(c, d)
          \/ \E l \in DOMAIN lanes : In(l, d) /\
                \/ v = <<"inHand", l>> /\ lanes[l].inHand = d
                \/ v = <<"holding", l>> /\ lanes[l].holding.dev = d
                \/ v = <<"batch", l>> /\ d \in lanes[l].batch
                \/ v = <<"work", l>> /\ d \in lanes[l].work
                \/ v = <<"buffered", l>> /\ d \in lanes[l].buffered
                \/ v = <<"handling", l>> /\ lanes[l].handling.dev = d
      BY DEF Places, At, Has, In, InLane
    <3>3. CASE \E c \in DOMAIN calls : u = <<"call", c>> /\ At(c, d)
      BY <3>2, <3>3 DEF Pushing, OneAtATime
    <3>4. ASSUME NEW l \in DOMAIN lanes, In(l, d),
                 \/ u = <<"inHand", l>> /\ lanes[l].inHand = d
                 \/ u = <<"holding", l>> /\ lanes[l].holding.dev = d
                 \/ u = <<"batch", l>> /\ d \in lanes[l].batch
                 \/ u = <<"work", l>> /\ d \in lanes[l].work
                 \/ u = <<"buffered", l>> /\ d \in lanes[l].buffered
                 \/ u = <<"handling", l>> /\ lanes[l].handling.dev = d
          PROVE  u = v
      <4>1. \A c \in DOMAIN calls : ~At(c, d)
        BY <3>4 DEF Pushing, OneAtATime
      <4>2. \A m \in DOMAIN lanes : In(m, d) => m = l
        BY <3>4 DEF Pushing, OneAtATime
      <4>3. Once(lanes[l], d)
        BY DEF Pushing, LanesOrderly
      <4>4. \/ v = <<"inHand", l>> /\ lanes[l].inHand = d
            \/ v = <<"holding", l>> /\ lanes[l].holding.dev = d
            \/ v = <<"batch", l>> /\ d \in lanes[l].batch
            \/ v = <<"work", l>> /\ d \in lanes[l].work
            \/ v = <<"buffered", l>> /\ d \in lanes[l].buffered
            \/ v = <<"handling", l>> /\ lanes[l].handling.dev = d
        BY <3>2, <4>1, <4>2
      <4> QED
        BY <3>4, <4>3, <4>4 DEF Once
    <3> QED
      BY <3>1, <3>3, <3>4
  <2>2. CASE Places(d) = {}
    BY <2>2, FS_EmptySet
  <2>3. ASSUME NEW u \in Places(d) PROVE Cardinality(Places(d)) <= 1
    <3>1. Places(d) = {u}
      BY <2>1
    <3>2. Cardinality({u}) = 1
      BY FS_Singleton
    <3> QED
      BY <3>1, <3>2
  <2> QED
    BY <2>2, <2>3
<1> QED
  BY <1>1, InitPushing, PushingStep, NextIsStep, PTL DEF Spec

(***************************************************************************)
(* What is still with the request, and what the response says of the rest  *)
(***************************************************************************)
\* The request itself, its call or its lane, has the notification for d.
Laned(p, d) == LaneOf(Request, p) \in DOMAIN lanes /\ In(LaneOf(Request, p), d)
InRequest(d) == At(Request, d) \/ Laned(provider[d], d)

LEMMA RequestLane ==
    ASSUME Pushing, NEW l \in DOMAIN lanes
    PROVE  /\ l = LaneOf(l[1], l[2]) /\ LaneOf(l[1], l[2])[2] = l[2]
           /\ \A p : l = LaneOf(Request, p) <=> l[1] = Request /\ l[2] = p
           /\ \A d \in Pairs : In(l, d) => provider[d] = l[2] /\ (l[1] = Request => InRequest(d))
<1>1. l \in (DOMAIN calls) \X Providers
  BY DEF Pushing, PushTyped
<1>2. l = <<l[1], l[2]>>
  BY <1>1
<1>3. \A p : l = LaneOf(Request, p) <=> l[1] = Request /\ l[2] = p
  BY <1>2 DEF LaneOf
<1>4. \A d \in Pairs : In(l, d) => provider[d] = l[2]
  BY DEF Pushing, Founded
<1> QED
  BY <1>2, <1>3, <1>4 DEF LaneOf, InRequest, Laned

LEMMA StaysInRequest ==
    ASSUME Pushing, Stay, provider' = provider
    PROVE  \A d \in Pairs : InRequest(d)' <=> InRequest(d)
<1> SUFFICES ASSUME NEW d \in Pairs PROVE InRequest(d)' <=> InRequest(d)
  OBVIOUS
<1> DEFINE L == LaneOf(Request, provider[d])
<1>1. At(Request, d)' <=> At(Request, d)
  BY DEF Stay, Pushing, Awake
<1>2. PICK m : m = L
  OBVIOUS
<1>3. m \in DOMAIN lanes' /\ In(m, d)' <=> m \in DOMAIN lanes /\ In(m, d)
  BY DEF Stay
<1>4. Laned(provider[d], d)' <=> m \in DOMAIN lanes' /\ In(m, d)'
  BY <1>2 DEF Laned, In
<1>5. Laned(provider[d], d) <=> m \in DOMAIN lanes /\ In(m, d)
  BY <1>2 DEF Laned
<1> QED
  BY <1>1, <1>3, <1>4, <1>5 DEF InRequest

\* The same, in the next state, of the lane m of d's provider.
LEMMA InRequestNext ==
    ASSUME provider' = provider, NEW d, NEW m, m = LaneOf(Request, provider[d])
    PROVE  /\ InRequest(d) <=> At(Request, d) \/ (m \in DOMAIN lanes /\ In(m, d))
           /\ InRequest(d)' <=> At(Request, d)' \/ (m \in DOMAIN lanes' /\ In(m, d)')
<1>1. Laned(provider[d], d)' <=> m \in DOMAIN lanes' /\ In(m, d)'
  BY DEF Laned, In
<1>2. Laned(provider[d], d) <=> m \in DOMAIN lanes /\ In(m, d)
  BY DEF Laned
<1> QED
  BY <1>1, <1>2 DEF InRequest

LEMMA LookupInRequest ==
    ASSUME Pushing, NEW s \in subs, NEW here \in SUBSET Candidates(s),
           NEW orphans \in SUBSET here, Lookup(s, here, orphans)
    PROVE  \A d \in Pairs :
              /\ d \in here => d \notin found /\ (InRequest(d)' <=> d \notin orphans)
              /\ d \notin here => (InRequest(d)' <=> InRequest(d))
<1>1. /\ UNCHANGED lanes
      /\ \A d \in Pairs : ~At(Request, d) /\ (At(Request, d)' <=> d \in here \ orphans)
  BY LookupPlaces DEF Pushing
<1>2. DOMAIN lanes' = DOMAIN lanes /\ \A l, d : In(l, d)' <=> In(l, d)
  BY <1>1, LanesSame
<1>3. provider' = provider
  BY DEF Lookup
<1> SUFFICES ASSUME NEW d \in Pairs
             PROVE  /\ d \in here => d \notin found /\ (InRequest(d)' <=> d \notin orphans)
                    /\ d \notin here => (InRequest(d)' <=> InRequest(d))
  OBVIOUS
<1>4. PICK m : m = LaneOf(Request, provider[d])
  OBVIOUS
<1>5. /\ InRequest(d) <=> At(Request, d) \/ (m \in DOMAIN lanes /\ In(m, d))
      /\ InRequest(d)' <=> At(Request, d)' \/ (m \in DOMAIN lanes' /\ In(m, d)')
  BY <1>3, <1>4, InRequestNext
<1>6. d \in here => d \notin found
  BY DEF Pushing, Founded, Candidates
<1>7. d \notin found => ~(m \in DOMAIN lanes /\ In(m, d))
  BY DEF Pushing, Founded
<1> QED
  BY <1>1, <1>2, <1>5, <1>6, <1>7

LEMMA HandoverInRequest ==
    ASSUME Pushing, NEW l \in DOMAIN lanes, NEW d, d = calls[l[1]].offer
    PROVE  /\ Handover(l[1], l) => /\ d \in Pairs /\ provider[d] = l[2]
                                   /\ UNCHANGED <<request, response>>
           /\ Discard(l[1], l) => /\ UNCHANGED lanes
                                  /\ \A x \in Pairs : InRequest(x)' <=>
                                        InRequest(x) /\ ~(l[1] = Request /\ x = d)
           /\ Rejects(l[1], l) \/ Takes(l[1], l) =>
                 /\ \E n : lanes' = [lanes EXCEPT ![l] = n] /\ TakesIn(TypeIs(l), lanes[l], n, d)
                 /\ \A x \in Pairs : InRequest(x)' <=> InRequest(x)
<1> SUFFICES ASSUME Handover(l[1], l)
             PROVE  /\ d \in Pairs /\ provider[d] = l[2] /\ UNCHANGED <<request, response>>
                    /\ Discard(l[1], l) => /\ UNCHANGED lanes
                                           /\ \A x \in Pairs : InRequest(x)' <=>
                                                 InRequest(x) /\ ~(l[1] = Request /\ x = d)
                    /\ Rejects(l[1], l) \/ Takes(l[1], l) =>
                          /\ \E n : lanes' = [lanes EXCEPT ![l] = n]
                                       /\ TakesIn(TypeIs(l), lanes[l], n, d)
                          /\ \A x \in Pairs : InRequest(x)' <=> InRequest(x)
  BY DEF Handover
<1> DEFINE c == l[1]
<1>1. /\ c \in DOMAIN calls /\ d # None /\ Handed(c) /\ UNCHANGED <<request, response>>
      /\ l = LaneOf(c, provider[d])
  BY LaneFacts DEF Handover, Discard, Rejects, Takes, Meets, Pushing
<1>2. /\ DOMAIN calls' = DOMAIN calls /\ d \in Pairs /\ At(c, d)
      /\ \A a \in DOMAIN calls \ {c} : \A x : At(a, x)' <=> At(a, x)
      /\ \A x \in Pairs : At(c, x)' <=> At(c, x) /\ x # d
  BY <1>1, HandedPlaces DEF Pushing
<1>3. /\ provider[d] = l[2] /\ provider' = provider /\ Request \in DOMAIN calls
      /\ l[1] = c
  BY <1>1 DEF LaneOf, request, Pushing, Awake
<1>4. /\ \A a \in DOMAIN calls : ~At(a, d) \/ a = c
      /\ \A m \in DOMAIN lanes : ~In(m, d)
  BY <1>1, <1>2 DEF Pushing, OneAtATime
<1> HIDE DEF c
<1>5. \A x \in Pairs : At(Request, x)' <=> At(Request, x) /\ ~(c = Request /\ x = d)
  BY <1>2, <1>3
<1>6. CASE Discard(l[1], l)
  <2>1. UNCHANGED lanes
    BY <1>6 DEF Discard
  <2>2. DOMAIN lanes' = DOMAIN lanes /\ \A m, x : In(m, x)' <=> In(m, x)
    BY <2>1, LanesSame
  <2>3. ASSUME NEW x \in Pairs
        PROVE  InRequest(x)' <=> InRequest(x) /\ ~(c = Request /\ x = d)
    <3>1. PICK m : m = LaneOf(Request, provider[x])
      OBVIOUS
    <3>2. /\ InRequest(x) <=> At(Request, x) \/ (m \in DOMAIN lanes /\ In(m, x))
          /\ InRequest(x)' <=> At(Request, x)' \/ (m \in DOMAIN lanes' /\ In(m, x)')
      BY <1>3, <3>1, InRequestNext
    <3> QED
      BY <1>4, <1>5, <2>2, <3>2
  <2>4. ~(Rejects(l[1], l) \/ Takes(l[1], l))
    <3>1. Rejects(l[1], l) \/ Takes(l[1], l) => lanes[l].sender = "reading" /\ ~In(l, d)
      BY <1>4 DEF Rejects, Takes
    <3>2. Rejects(l[1], l) \/ Takes(l[1], l) =>
             \E n : lanes' = [lanes EXCEPT ![l] = n] /\ TakesIn(TypeIs(l), lanes[l], n, d)
      BY <1>1, <1>3, <3>1, HandoverMoves DEF Pushing, In
    <3>3. Rejects(l[1], l) \/ Takes(l[1], l) => In(l, d)'
      BY <1>2, <3>2, LaneChanges DEF Pushing, TakesIn
    <3> QED
      BY <1>4, <2>2, <3>3
  <2> QED
    BY <1>1, <1>2, <1>3, <2>1, <2>3, <2>4
<1>7. CASE Rejects(l[1], l) \/ Takes(l[1], l)
  <2>1. ~InLane(lanes[l], d)
    BY <1>4 DEF In
  <2>2. PICK n : lanes' = [lanes EXCEPT ![l] = n] /\ TakesIn(TypeIs(l), lanes[l], n, d)
    BY <1>1, <1>3, <1>7, <2>1, HandoverMoves DEF Pushing
  <2>3. /\ DOMAIN lanes' = DOMAIN lanes
        /\ \A m \in DOMAIN lanes, x \in Pairs : In(m, x)' <=> In(m, x) \/ (m = l /\ x = d)
    BY <2>2, LaneChanges DEF TakesIn, In, Pushing
  <2>4. ASSUME NEW x \in Pairs
        PROVE  InRequest(x)' <=> InRequest(x)
    <3>1. PICK m : m = LaneOf(Request, provider[x])
      OBVIOUS
    <3>2. /\ InRequest(x) <=> At(Request, x) \/ (m \in DOMAIN lanes /\ In(m, x))
          /\ InRequest(x)' <=> At(Request, x)' \/ (m \in DOMAIN lanes' /\ In(m, x)')
      BY <1>3, <3>1, InRequestNext
    <3>3. CASE x # d
      BY <1>5, <2>3, <3>2, <3>3
    <3>4. CASE x = d /\ c = Request
      <4>1. m = l
        BY <1>1, <3>1, <3>4
      <4> QED
        BY <1>2, <2>3, <3>2, <3>4, <4>1
    <3>5. CASE x = d /\ c # Request
      <4>1. m # l
        BY <1>3, <3>1, <3>5 DEF LaneOf
      <4> QED
        BY <1>5, <2>3, <3>2, <3>5, <4>1
    <3> QED
      BY <3>3, <3>4, <3>5
  <2>5. ~Discard(l[1], l)
    BY <1>4, <1>2, <2>3, LanesSame DEF Discard
  <2> QED
    BY <1>1, <1>2, <1>3, <2>2, <2>4, <2>5
<1> QED
  BY <1>6, <1>7 DEF Handover

LEMMA CollectsInRequest ==
    ASSUME Pushing, NEW l \in DOMAIN lanes, Collects(l), NEW h, h = lanes[l].handling
    PROVE  /\ \A x \in Pairs : InRequest(x)' <=> InRequest(x) /\ ~(l[1] = Request /\ x = h.dev)
           /\ h.dev \in Pairs /\ l[1] = Request => InRequest(h.dev)
<1> DEFINE n == [lanes[l] EXCEPT !.handling = NoResult]
<1>1. /\ lanes' = [lanes EXCEPT ![l] = n]
      /\ \A x \in Pairs : InLane(n, x) <=> InLane(lanes[l], x) /\ h.dev # x
      /\ h.dev \in Pairs => In(l, h.dev)
  BY CollectorMoves DEF Pushing, In
<1> HIDE DEF n
<1>2. /\ DOMAIN lanes' = DOMAIN lanes
      /\ \A m \in DOMAIN lanes, x \in Pairs : In(m, x)' <=> In(m, x) /\ ~(m = l /\ x = h.dev)
  BY <1>1, LaneChanges DEF In, Pushing
<1>3. provider' = provider /\ Request \in DOMAIN calls
  BY DEF Collects, request, Pushing, Awake
<1>4. \A x : At(Request, x)' <=> At(Request, x)
  <2>1. CASE UNCHANGED calls
    BY <2>1, CallsSame
  <2>2. CASE ~UNCHANGED calls
    <3>1. PICK c : c = <<h.dev, l[1][2] + 1>>
      OBVIOUS
    <3>2. PICK y \in Nat : calls' = Put(calls, c, NewCall("sleeping", y)) /\ h.dev \in Pairs
      BY <2>2, <3>1, CollectedCalls DEF Pushing
    <3>3. c # Request
      BY <3>1, <3>2, PushAssumption DEF Request
    <3>4. calls'[Request] = calls[Request]
      BY <1>3, <3>2, <3>3 DEF Put
    <3> QED
      BY <3>4 DEF At, Has
  <2> QED
    BY <2>1, <2>2
<1>5. ASSUME NEW x \in Pairs
      PROVE  InRequest(x)' <=> InRequest(x) /\ ~(l[1] = Request /\ x = h.dev)
  <2>1. PICK m : m = LaneOf(Request, provider[x])
    OBVIOUS
  <2>2. /\ InRequest(x) <=> At(Request, x) \/ (m \in DOMAIN lanes /\ In(m, x))
        /\ InRequest(x)' <=> At(Request, x)' \/ (m \in DOMAIN lanes' /\ In(m, x)')
    BY <1>3, <2>1, InRequestNext
  <2>3. CASE x # h.dev \/ m # l
    <3>1. x = h.dev => provider[x] = l[2]
      BY <1>1, RequestLane
    <3>2. x = h.dev => l[1] # Request
      BY <2>1, <2>3, <3>1, RequestLane
    <3> QED
      BY <1>2, <1>4, <2>2, <2>3, <3>2
  <2>4. CASE x = h.dev /\ m = l
    <3>1. ~At(Request, x) /\ In(l, x)
      BY <1>1, <1>3, <2>4 DEF Pushing, OneAtATime
    <3>2. l[1] = Request
      BY <2>1, <2>4 DEF LaneOf
    <3> QED
      BY <1>2, <1>4, <2>2, <2>4, <3>1, <3>2
  <2> QED
    BY <2>3, <2>4
<1> QED
  BY <1>1, <1>5, RequestLane

\* A lane goes on: the request loses what its lane loses.
LEMMA MovesInRequest ==
    ASSUME Pushing, NEW l \in DOMAIN lanes, LaneStep(l) \/ ProcessorStep(l), ~Collects(l)
    PROVE  \E n, D :
              /\ UNCHANGED <<request, calls, response>>
              /\ lanes' = [lanes EXCEPT ![l] = n] /\ n \in LaneRecords
              /\ RefusalIn(lanes[l]) => RefusalIn(n)
              /\ Refusing(n) => Refusing(lanes[l]) \/ RefusalIn(n)
              /\ D \in SUBSET Pairs /\ \A d \in D : In(l, d)
              /\ Blank(n) = Blank(lanes[l]) + Cardinality(D)
              /\ \A x \in Pairs : InRequest(x)' <=> InRequest(x) /\ ~(l[1] = Request /\ x \in D)
<1>1. LaneMoves(l) /\ UNCHANGED <<request, calls, response>>
  BY LaneStepMoves DEF Pushing
<1>2. PICK n : lanes' = [lanes EXCEPT ![l] = n] /\ Moves(TypeIs(l), lanes[l], n)
  BY <1>1 DEF LaneMoves
<1>3. PICK D \in SUBSET Pairs :
          /\ \A d \in D : InLane(lanes[l], d)
          /\ \A d \in Pairs : InLane(n, d) <=> InLane(lanes[l], d) /\ d \notin D
          /\ Blank(n) = Blank(lanes[l]) + Cardinality(D)
  BY <1>2 DEF Moves
<1>4. \A d \in D : In(l, d)
  BY <1>3 DEF In
<1>5. /\ DOMAIN lanes' = DOMAIN lanes
      /\ \A m \in DOMAIN lanes, x \in Pairs : In(m, x)' <=> In(m, x) /\ ~(m = l /\ x \in D)
  BY <1>2, <1>3, LaneChanges DEF In, Pushing
<1>6. \A x : At(Request, x)' <=> At(Request, x)
  BY <1>1, CallsSame
<1>7. provider' = provider /\ Request \in DOMAIN calls
  BY <1>1 DEF request, Pushing, Awake
<1>8. ASSUME NEW x \in Pairs
      PROVE  InRequest(x)' <=> InRequest(x) /\ ~(l[1] = Request /\ x \in D)
  <2>1. PICK m : m = LaneOf(Request, provider[x])
    OBVIOUS
  <2>2. /\ InRequest(x) <=> At(Request, x) \/ (m \in DOMAIN lanes /\ In(m, x))
        /\ InRequest(x)' <=> At(Request, x)' \/ (m \in DOMAIN lanes' /\ In(m, x)')
    BY <1>7, <2>1, InRequestNext
  <2>3. CASE x \notin D \/ m # l
    <3>1. x \in D => provider[x] = l[2]
      BY <1>4, RequestLane
    <3>2. x \in D => l[1] # Request
      BY <2>1, <2>3, <3>1, RequestLane
    <3> QED
      BY <1>5, <1>6, <2>2, <2>3, <3>2
  <2>4. CASE x \in D /\ m = l
    <3>1. ~At(Request, x)
      BY <1>4, <1>7, <2>4 DEF Pushing, OneAtATime
    <3>2. l[1] = Request
      BY <2>1, <2>4 DEF LaneOf
    <3> QED
      BY <1>5, <1>6, <2>2, <2>4, <3>1, <3>2
  <2> QED
    BY <2>3, <2>4
<1> QED
  BY <1>1, <1>2, <1>3, <1>4, <1>8 DEF Moves

(***************************************************************************)
(* A device is named once                                                  *)
(***************************************************************************)
\* The response has named no device twice, and none the request still has.
NamedOnce ==
    \A d \in Pairs : response.named[d] <= 1 /\ (response.named[d] > 0 => ~InRequest(d))

LEMMA NamedStep ==
    ASSUME Pushing, NamedOnce, [Step]_push
    PROVE  NamedOnce'
<1>1. \A d \in Pairs : response.named[d] \in Nat
  BY DEF Pushing, PushTyped
<1>2. ASSUME \A d \in Pairs : response'.named[d] = response.named[d] /\ (InRequest(d)' => InRequest(d))
      PROVE  NamedOnce'
  BY <1>2 DEF NamedOnce
<1>3. CASE UNCHANGED push
  <2>1. UNCHANGED <<provider, calls, lanes, response>>
    BY <1>3 DEF push
  <2>2. Stay
    BY <2>1, CallsSame, LanesSame DEF Stay
  <2> QED
    BY <1>2, <2>1, <2>2, StaysInRequest
<1>4. ASSUME NEW s \in subs, NEW failed \in BOOLEAN, LookupNothing(s, failed) PROVE NamedOnce'
  <2>1. /\ UNCHANGED <<provider, calls, lanes>>
        /\ response' = [response EXCEPT !.subs = response.subs \cup {s}]
    BY <1>4 DEF LookupNothing
  <2>2. Stay
    BY <2>1, CallsSame, LanesSame DEF Stay
  <2>3. response'.named = response.named
    BY <2>1 DEF Pushing, PushTyped
  <2> QED
    BY <1>2, <2>1, <2>2, <2>3, StaysInRequest
<1>5. ASSUME NEW s \in subs, NEW here \in SUBSET Candidates(s), NEW orphans \in SUBSET here,
             Lookup(s, here, orphans)
      PROVE  NamedOnce'
  <2>1. response' = [response EXCEPT !.named =
                        [d \in Pairs |-> IF d \in orphans THEN response.named[d] + 1
                                           ELSE response.named[d]]]
    BY <1>5 DEF Lookup
  <2>2. \A d \in Pairs : response'.named[d] = IF d \in orphans THEN response.named[d] + 1
                                                ELSE response.named[d]
    BY <2>1 DEF Pushing, PushTyped
  <2>3. ASSUME NEW d \in Pairs
        PROVE  response'.named[d] <= 1 /\ (response'.named[d] > 0 => ~InRequest(d)')
    <3>1. CASE d \in here
      <4>1. d \notin found /\ (InRequest(d)' <=> d \notin orphans)
        BY <1>5, <3>1, LookupInRequest
      <4>2. response.named[d] = 0
        BY <1>1, <4>1 DEF Pushing, Founded
      <4> QED
        BY <2>2, <4>1, <4>2
    <3>2. CASE d \notin here
      <4>1. InRequest(d)' <=> InRequest(d)
        BY <1>5, <3>2, LookupInRequest
      <4> QED
        BY <2>2, <3>2, <4>1 DEF NamedOnce
    <3> QED
      BY <3>1, <3>2
  <2> QED
    BY <2>3 DEF NamedOnce
<1>6. ASSUME NEW c \in DOMAIN calls, CallStep(c) PROVE NamedOnce'
  <2>1. Stay /\ response'.named = response.named /\ provider' = provider
    BY <1>6, CallStepStays, CallStepFacts DEF Pushing, request
  <2> QED
    BY <1>2, <2>1, StaysInRequest
<1>7. ASSUME NEW l \in DOMAIN lanes, Handover(l[1], l) PROVE NamedOnce'
  <2>1. response' = response /\ \A d \in Pairs : InRequest(d)' => InRequest(d)
    BY <1>7, HandoverInRequest DEF Handover
  <2> QED
    BY <1>2, <2>1
<1>8. ASSUME NEW l \in DOMAIN lanes, Collects(l) PROVE NamedOnce'
  <2>1. PICK h : h = lanes[l].handling
    OBVIOUS
  <2>2. \A d \in Pairs : response'.named[d] = response.named[d] + One(l[1] = Request /\ h.dev = d)
    BY <1>8, <2>1, ReportFacts DEF Pushing
  <2>3. /\ \A x \in Pairs : InRequest(x)' <=> InRequest(x) /\ ~(l[1] = Request /\ x = h.dev)
        /\ h.dev \in Pairs /\ l[1] = Request => InRequest(h.dev)
    BY <1>8, <2>1, CollectsInRequest
  <2>4. ASSUME NEW d \in Pairs
        PROVE  response'.named[d] <= 1 /\ (response'.named[d] > 0 => ~InRequest(d)')
    <3>1. CASE l[1] = Request /\ h.dev = d
      <4>1. response.named[d] = 0
        BY <1>1, <2>3, <3>1 DEF NamedOnce
      <4> QED
        BY <2>2, <2>3, <3>1, <4>1 DEF One
    <3>2. CASE ~(l[1] = Request /\ h.dev = d)
      <4>1. response'.named[d] = response.named[d]
        BY <1>1, <2>2, <3>2 DEF One
      <4> QED
        BY <2>3, <4>1 DEF NamedOnce
    <3> QED
      BY <3>1, <3>2
  <2> QED
    BY <2>4 DEF NamedOnce
<1>9. ASSUME NEW l \in DOMAIN lanes, LaneStep(l) \/ ProcessorStep(l), ~Collects(l) PROVE NamedOnce'
  <2>1. response' = response /\ \A d \in Pairs : InRequest(d)' => InRequest(d)
    BY <1>9, MovesInRequest
  <2> QED
    BY <1>2, <2>1
<1>10. CASE LookUp
  <2>1. ASSUME NEW s \in subs, NEW here \in (SUBSET Candidates(s)) \ {{}},
               NEW orphans \in SUBSET ByName(here), Lookup(s, here, orphans)
        PROVE  NamedOnce'
    <3>1. here \in SUBSET Candidates(s) /\ orphans \in SUBSET here
      BY DEF ByName
    <3> QED
      BY <1>5, <2>1, <3>1
  <2> QED
    BY <1>4, <1>10, <2>1 DEF LookUp
<1> QED
  BY <1>3, <1>6, <1>7, <1>8, <1>9, <1>10 DEF Step

LEMMA InitNamed == Init => NamedOnce
<1> SUFFICES ASSUME Init PROVE NamedOnce
  OBVIOUS
<1>1. \A d \in Pairs : response.named[d] = 0
  BY DEF Init
<1> QED
  BY <1>1 DEF NamedOnce

\* The response reports a pair at most once, and no device both as answered and as
\* not subscribed, however the entries of the list overlap: a retry, which has its
\* own handler, adds nothing to it.
THEOREM NamedAtMostOnce == Spec => []ReportedOnce
<1>1. Pushing /\ NamedOnce => ReportedOnce
  <2> SUFFICES ASSUME Pushing, NamedOnce, NEW d \in Pairs
               PROVE  response.named[d] + (IF device[d] \in response.notSubscribed THEN 1 ELSE 0)
                        <= 1
    BY DEF ReportedOnce
  <2>1. response.named[d] \in Nat /\ response.named[d] <= 1
    BY DEF Pushing, PushTyped, NamedOnce
  <2>2. device[d] \in response.notSubscribed => response.named[d] = 0
    BY <2>1 DEF Pushing, Founded
  <2> QED
    BY <2>1, <2>2
<1>2. Init => Pushing /\ NamedOnce
  BY InitPushing, InitNamed
<1>3. Pushing /\ NamedOnce /\ [Step]_push => Pushing' /\ NamedOnce'
  BY PushingStep, NamedStep
<1> QED
  BY <1>1, <1>2, <1>3, NextIsStep, PTL DEF Spec

(***************************************************************************)
(* Nothing is lost: the accounts of a provider                             *)
(***************************************************************************)
\* The found devices of p that the request no longer has and has not named, the
\* answers without a name that are under way for them, and a refusal of p that
\* is in the response or on its way to it.
Unaccounted(p) ==
    {d \in found : provider[d] = p /\ response.named[d] = 0 /\ ~InRequest(d)}
BlankOf(p) ==
    IF LaneOf(Request, p) \in DOMAIN lanes THEN Blank(lanes[LaneOf(Request, p)]) ELSE 0
Shunned(p) == LaneOf(Request, p) \in DOMAIN lanes /\ Refusing(lanes[LaneOf(Request, p)])
Doomed(p) ==
    \/ p \in response.refused
    \/ LaneOf(Request, p) \in DOMAIN lanes /\ RefusalIn(lanes[LaneOf(Request, p)])

Balanced(p) ==
    /\ Shunned(p) => Doomed(p)
    /\ Doomed(p) \/ Cardinality(Unaccounted(p)) = response.unnamed[p] + BlankOf(p)
Accounted == \A p \in Providers : Balanced(p)

LEMMA BalanceKept ==
    ASSUME NEW p \in Providers, Balanced(p), Unaccounted(p)' = Unaccounted(p),
           response'.unnamed[p] + BlankOf(p)' = response.unnamed[p] + BlankOf(p),
           Doomed(p) => Doomed(p)', Shunned(p)' => Shunned(p) \/ Doomed(p)'
    PROVE  Balanced(p)'
<1>1. Shunned(p)' => Doomed(p)'
  BY DEF Balanced
<1>2. Doomed(p)' \/ Cardinality(Unaccounted(p)') = response'.unnamed[p] + BlankOf(p)'
  BY DEF Balanced
<1> QED
  BY <1>1, <1>2 DEF Balanced

LEMMA UnaccountedKept ==
    ASSUME NEW p, found' = found, provider' = provider,
           \A d \in found : provider[d] = p =>
              (response'.named[d] = 0 /\ ~InRequest(d)' <=> response.named[d] = 0 /\ ~InRequest(d))
    PROVE  Unaccounted(p)' = Unaccounted(p)
<1>1. \A d : d \in Unaccounted(p)' <=>
                d \in found' /\ provider'[d] = p /\ response'.named[d] = 0 /\ ~InRequest(d)'
  BY DEF Unaccounted
<1>2. \A d : d \in Unaccounted(p) <=>
                d \in found /\ provider[d] = p /\ response.named[d] = 0 /\ ~InRequest(d)
  BY DEF Unaccounted
<1> QED
  BY <1>1, <1>2

\* The calls' own steps start lanes and close queues.
LEMMA CallStepLanes ==
    ASSUME Pushing, NEW c \in DOMAIN calls, CallStep(c)
    PROVE  /\ \A l \in DOMAIN lanes :
                 /\ l \in DOMAIN lanes' /\ Blank(lanes'[l]) = Blank(lanes[l])
                 /\ Refusing(lanes'[l]) <=> Refusing(lanes[l])
                 /\ RefusalIn(lanes'[l]) <=> RefusalIn(lanes[l])
           /\ \A l \in DOMAIN lanes' \ DOMAIN lanes :
                 calls[c].pc \in {"handing", "sleeping"} /\ l[1] = c /\ lanes'[l] = NewLane
           /\ calls[c].pc \notin {"handing", "sleeping"} => lanes' = lanes
<1>1. CASE lanes' = lanes
  BY <1>1
<1>2. CASE Finish(c)
  <2>1. /\ DOMAIN lanes' = DOMAIN lanes /\ calls[c].pc = "handing"
        /\ \A l \in DOMAIN lanes :
              lanes'[l] = lanes[l] \/ lanes'[l] = [lanes[l] EXCEPT !.queue = "closed"]
    BY <1>2 DEF Finish, AtRest
  <2>2. ASSUME NEW r \in LaneRecords
        PROVE  LET n == [r EXCEPT !.queue = "closed"]
               IN /\ Blank(n) = Blank(r) /\ (Refusing(n) <=> Refusing(r))
                  /\ RefusalIn(n) <=> RefusalIn(r)
    BY DEF LaneRecords, Blank, Refusing, RefusalIn
  <2>3. \A l \in DOMAIN lanes : lanes[l] \in LaneRecords
    BY DEF Pushing, PushTyped
  <2> QED
    BY <2>1, <2>2, <2>3
<1>3. ASSUME NEW l, l[1] = c, l \notin DOMAIN lanes, lanes' = Put(lanes, l, NewLane),
             calls[c].pc \in {"handing", "sleeping"}
      PROVE  /\ \A m \in DOMAIN lanes :
                 /\ m \in DOMAIN lanes' /\ Blank(lanes'[m]) = Blank(lanes[m])
                 /\ Refusing(lanes'[m]) <=> Refusing(lanes[m])
                 /\ RefusalIn(lanes'[m]) <=> RefusalIn(lanes[m])
             /\ \A m \in DOMAIN lanes' \ DOMAIN lanes :
                 calls[c].pc \in {"handing", "sleeping"} /\ m[1] = c /\ lanes'[m] = NewLane
             /\ calls[c].pc \notin {"handing", "sleeping"} => lanes' = lanes
  BY <1>3, LaneAdded DEF Pushing
<1>4. ASSUME NEW d \in calls[c].todo, Offer(c, d), lanes' # lanes
      PROVE  \E l : /\ l[1] = c /\ l \notin DOMAIN lanes /\ lanes' = Put(lanes, l, NewLane)
                    /\ calls[c].pc \in {"handing", "sleeping"}
  BY <1>4 DEF Offer, LaneOf
<1>5. CASE Wake(c)
  <2>1. LaneOf(c, provider[c[1]]) \notin DOMAIN lanes /\ LaneOf(c, provider[c[1]])[1] = c
    BY <1>5 DEF Wake, Pushing, CallsOrderly, LaneOf
  <2> QED
    BY <1>3, <1>5, <2>1 DEF Wake
<1>6. CASE Return(c)
  BY <1>1, <1>6 DEF Return
<1> QED
  BY <1>1, <1>2, <1>3, <1>4, <1>5, <1>6 DEF CallStep

\* A step of a lane that is not p's changes nothing of p's.
LEMMA OtherLane ==
    ASSUME Pushing, NEW l \in DOMAIN lanes, NEW n, lanes' = [lanes EXCEPT ![l] = n], NEW p,
           l # LaneOf(Request, p), (p \in response'.refused) <=> (p \in response.refused)
    PROVE  /\ BlankOf(p)' = BlankOf(p) /\ (Shunned(p)' <=> Shunned(p))
           /\ Doomed(p)' <=> Doomed(p)
<1>1. PICK m : m = LaneOf(Request, p)
  OBVIOUS
<1>2. DOMAIN lanes' = DOMAIN lanes /\ (m \in DOMAIN lanes => lanes'[m] = lanes[m])
  BY <1>1, LaneChanges DEF Pushing
<1> QED
  BY <1>1, <1>2 DEF BlankOf, Shunned, Doomed

LEMMA ThisLane ==
    ASSUME Pushing, NEW l \in DOMAIN lanes, NEW n, lanes' = [lanes EXCEPT ![l] = n], NEW p,
           l = LaneOf(Request, p)
    PROVE  /\ BlankOf(p) = Blank(lanes[l]) /\ BlankOf(p)' = Blank(n)
           /\ Shunned(p) <=> Refusing(lanes[l])
           /\ Shunned(p)' <=> Refusing(n)
           /\ Doomed(p) <=> p \in response.refused \/ RefusalIn(lanes[l])
           /\ Doomed(p)' <=> p \in response'.refused \/ RefusalIn(n)
<1>1. DOMAIN lanes' = DOMAIN lanes /\ lanes'[l] = n
  BY LaneChanges DEF Pushing
<1> QED
  BY <1>1 DEF BlankOf, Shunned, Doomed

LEMMA LookUpAccounts ==
    ASSUME Pushing, NamedOnce, Accounted, LookUp
    PROVE  Accounted'
<1> SUFFICES ASSUME NEW p \in Providers PROVE Balanced(p)'
  BY DEF Accounted
<1>1. Balanced(p)
  BY DEF Accounted
<1>2. ASSUME NEW s \in subs, NEW failed \in BOOLEAN, LookupNothing(s, failed) PROVE Balanced(p)'
  <2>1. /\ UNCHANGED <<provider, found, calls, lanes>>
        /\ response' = [response EXCEPT !.subs = response.subs \cup {s}]
    BY <1>2 DEF LookupNothing
  <2>2. /\ response'.named = response.named /\ response'.unnamed = response.unnamed
        /\ response'.refused = response.refused
    BY <2>1 DEF Pushing, PushTyped
  <2>3. Stay
    BY <2>1, CallsSame, LanesSame DEF Stay
  <2>4. Unaccounted(p)' = Unaccounted(p)
    <3>1. \A d \in found : InRequest(d)' <=> InRequest(d)
      BY <2>1, <2>3, StaysInRequest DEF Pushing, PushTyped
    <3> QED
      BY <2>1, <2>2, <3>1, UnaccountedKept
  <2>5. /\ BlankOf(p)' = BlankOf(p) /\ (Shunned(p)' <=> Shunned(p)) /\ (Doomed(p)' <=> Doomed(p))
    BY <2>1, <2>2 DEF BlankOf, Shunned, Doomed
  <2> QED
    BY <1>1, <2>2, <2>4, <2>5, BalanceKept
<1>3. ASSUME NEW s \in subs, NEW here \in SUBSET Candidates(s), NEW orphans \in SUBSET here,
             Lookup(s, here, orphans)
      PROVE  Balanced(p)'
  <2>1. /\ UNCHANGED <<provider, lanes>> /\ found' = found \cup here
        /\ response' = [response EXCEPT !.named =
                           [d \in Pairs |-> IF d \in orphans THEN response.named[d] + 1
                                              ELSE response.named[d]]]
    BY <1>3 DEF Lookup
  <2>2. /\ response'.unnamed = response.unnamed /\ response'.refused = response.refused
        /\ \A d \in Pairs : response'.named[d] = IF d \in orphans THEN response.named[d] + 1
                                                   ELSE response.named[d]
    BY <2>1 DEF Pushing, PushTyped
  <2>3. here \subseteq Pairs /\ found \subseteq Pairs
        /\ \A d \in Pairs : response.named[d] \in Nat
    BY DEF Candidates, Pushing, PushTyped
  <2>4. \A d \in Pairs :
           /\ d \in here => d \notin found /\ (InRequest(d)' <=> d \notin orphans)
           /\ d \notin here => (InRequest(d)' <=> InRequest(d))
    BY <1>3, LookupInRequest
  <2>5. \A d : d \in Unaccounted(p)' <=> d \in Unaccounted(p)
    <3>1. ASSUME NEW d
          PROVE  /\ d \in Unaccounted(p)' <=>
                       d \in found' /\ provider'[d] = p /\ response'.named[d] = 0 /\ ~InRequest(d)'
                 /\ d \in Unaccounted(p) <=>
                       d \in found /\ provider[d] = p /\ response.named[d] = 0 /\ ~InRequest(d)
      BY DEF Unaccounted
    <3>2. ASSUME NEW d \in here PROVE d \notin Unaccounted(p)' /\ d \notin Unaccounted(p)
      <4>1. d \notin found /\ d \in Pairs /\ (InRequest(d)' <=> d \notin orphans)
        BY <2>3, <2>4
      <4>2. d \in orphans => response'.named[d] # 0
        BY <2>2, <2>3, <4>1
      <4> QED
        BY <3>1, <4>1, <4>2
    <3>3. ASSUME NEW d, d \notin here PROVE d \in Unaccounted(p)' <=> d \in Unaccounted(p)
      <4>1. d \in found' <=> d \in found
        BY <2>1, <3>3
      <4>2. d \in found => d \in Pairs
        BY <2>3
      <4>3. d \in found => response'.named[d] = response.named[d] /\ (InRequest(d)' <=> InRequest(d))
        BY <2>2, <2>4, <3>3, <4>2
      <4>4. provider' = provider
        BY <2>1
      <4> QED
        BY <3>1, <4>1, <4>3, <4>4
    <3> QED
      BY <3>2, <3>3
  <2>6. Unaccounted(p)' = Unaccounted(p)
    <3>1. Unaccounted(p)' \subseteq found' /\ Unaccounted(p) \subseteq found
      BY DEF Unaccounted
    <3> QED
      BY <2>5, <3>1
  <2>7. /\ BlankOf(p)' = BlankOf(p) /\ (Shunned(p)' <=> Shunned(p)) /\ (Doomed(p)' <=> Doomed(p))
    BY <2>1, <2>2 DEF BlankOf, Shunned, Doomed
  <2> QED
    BY <1>1, <2>2, <2>6, <2>7, BalanceKept
<1>4. ASSUME NEW s \in subs, NEW here \in (SUBSET Candidates(s)) \ {{}},
             NEW orphans \in SUBSET ByName(here), Lookup(s, here, orphans)
      PROVE  Balanced(p)'
  <2>1. here \in SUBSET Candidates(s) /\ orphans \in SUBSET here
    BY DEF ByName
  <2> QED
    BY <1>3, <1>4, <2>1
<1> QED
  BY <1>2, <1>4 DEF LookUp

LEMMA CallAccounts ==
    ASSUME Pushing, NamedOnce, Accounted, NEW c \in DOMAIN calls, CallStep(c)
    PROVE  Accounted'
<1> SUFFICES ASSUME NEW p \in Providers PROVE Balanced(p)'
  BY DEF Accounted
<1>1. Balanced(p)
  BY DEF Accounted
<1>2. /\ UNCHANGED request /\ response'.named = response.named
      /\ response'.unnamed = response.unnamed /\ response'.refused = response.refused
  BY CallStepFacts DEF Pushing
<1>3. Unaccounted(p)' = Unaccounted(p)
  <2>1. Stay /\ provider' = provider /\ found' = found
    BY <1>2, CallStepStays DEF Pushing, request
  <2>2. \A d \in found : InRequest(d)' <=> InRequest(d)
    BY <2>1, StaysInRequest DEF Pushing, PushTyped
  <2> QED
    BY <1>2, <2>1, <2>2, UnaccountedKept
<1>4. /\ \A l \in DOMAIN lanes :
            /\ l \in DOMAIN lanes' /\ Blank(lanes'[l]) = Blank(lanes[l])
            /\ Refusing(lanes'[l]) <=> Refusing(lanes[l])
            /\ RefusalIn(lanes'[l]) <=> RefusalIn(lanes[l])
      /\ \A l \in DOMAIN lanes' \ DOMAIN lanes : lanes'[l] = NewLane
  BY CallStepLanes
<1>5. PICK m : m = LaneOf(Request, p)
  OBVIOUS
<1>6. /\ BlankOf(p)' = BlankOf(p) /\ (Shunned(p)' <=> Shunned(p)) /\ (Doomed(p)' <=> Doomed(p))
  <2>1. CASE m \in DOMAIN lanes
    BY <1>2, <1>4, <1>5, <2>1 DEF BlankOf, Shunned, Doomed
  <2>2. CASE m \notin DOMAIN lanes /\ m \in DOMAIN lanes'
    BY <1>2, <1>4, <1>5, <2>2, NewLaneFacts DEF BlankOf, Shunned, Doomed
  <2>3. CASE m \notin DOMAIN lanes /\ m \notin DOMAIN lanes'
    BY <1>2, <1>5, <2>3 DEF BlankOf, Shunned, Doomed
  <2> QED
    BY <2>1, <2>2, <2>3
<1> QED
  BY <1>1, <1>2, <1>3, <1>6, BalanceKept

LEMMA HandoverAccounts ==
    ASSUME Pushing, NamedOnce, Accounted, NEW l \in DOMAIN lanes, Handover(l[1], l)
    PROVE  Accounted'
<1> SUFFICES ASSUME NEW p \in Providers PROVE Balanced(p)'
  BY DEF Accounted
<1>1. Balanced(p)
  BY DEF Accounted
<1>2. PICK d : d = calls[l[1]].offer
  OBVIOUS
<1>3. /\ d \in Pairs /\ provider[d] = l[2] /\ UNCHANGED <<request, response>>
  BY <1>2, HandoverInRequest
<1>4. /\ provider' = provider /\ found' = found /\ response' = response /\ found \subseteq Pairs
  BY <1>3 DEF request, Pushing, PushTyped
<1>5. CASE Discard(l[1], l)
  <2>1. /\ UNCHANGED lanes
        /\ \A x \in Pairs : InRequest(x)' <=> InRequest(x) /\ ~(l[1] = Request /\ x = d)
    BY <1>2, <1>5, HandoverInRequest
  <2>2. /\ BlankOf(p)' = BlankOf(p) /\ (Shunned(p)' <=> Shunned(p)) /\ (Doomed(p)' <=> Doomed(p))
    BY <1>4, <2>1 DEF BlankOf, Shunned, Doomed
  <2>3. CASE l[1] = Request /\ l[2] = p
    <3>1. l = LaneOf(Request, p)
      BY <2>3, RequestLane
    <3>2. Shunned(p)
      BY <1>5, <3>1 DEF Discard, Shunned, Refusing
    <3> QED
      BY <1>1, <2>2, <3>2 DEF Balanced
  <2>4. CASE ~(l[1] = Request /\ l[2] = p)
    <3>1. \A x \in found : provider[x] = p => (InRequest(x)' <=> InRequest(x))
      BY <1>3, <1>4, <2>1, <2>4
    <3>2. Unaccounted(p)' = Unaccounted(p)
      BY <1>4, <3>1, UnaccountedKept
    <3> QED
      BY <1>1, <1>4, <2>2, <3>2, BalanceKept
  <2> QED
    BY <2>3, <2>4
<1>6. CASE Rejects(l[1], l) \/ Takes(l[1], l)
  <2>1. /\ \E n : lanes' = [lanes EXCEPT ![l] = n] /\ TakesIn(TypeIs(l), lanes[l], n, d)
        /\ \A x \in Pairs : InRequest(x)' <=> InRequest(x)
    BY <1>2, <1>6, HandoverInRequest
  <2>2. PICK n : lanes' = [lanes EXCEPT ![l] = n] /\ TakesIn(TypeIs(l), lanes[l], n, d)
    BY <2>1
  <2>3. Unaccounted(p)' = Unaccounted(p)
    BY <1>4, <2>1, UnaccountedKept
  <2>4. /\ BlankOf(p)' = BlankOf(p) /\ (Shunned(p)' => Shunned(p)) /\ (Doomed(p) => Doomed(p)')
    <3>1. CASE l = LaneOf(Request, p)
      <4>1. /\ BlankOf(p) = Blank(lanes[l]) /\ BlankOf(p)' = Blank(n)
            /\ Shunned(p) <=> Refusing(lanes[l])
            /\ Shunned(p)' <=> Refusing(n)
            /\ Doomed(p) <=> p \in response.refused \/ RefusalIn(lanes[l])
            /\ Doomed(p)' <=> p \in response'.refused \/ RefusalIn(n)
        BY <2>2, <3>1, ThisLane
      <4> QED
        BY <1>4, <2>2, <4>1 DEF TakesIn
    <3>2. CASE l # LaneOf(Request, p)
      BY <1>4, <2>2, <3>2, OtherLane
    <3> QED
      BY <3>1, <3>2
  <2> QED
    BY <1>1, <1>4, <2>3, <2>4, BalanceKept
<1> QED
  BY <1>5, <1>6 DEF Handover

LEMMA CollectorAccounts ==
    ASSUME Pushing, NamedOnce, Accounted, NEW l \in DOMAIN lanes, Collects(l)
    PROVE  Accounted'
<1> SUFFICES ASSUME NEW p \in Providers PROVE Balanced(p)'
  BY DEF Accounted
<1> DEFINE n == [lanes[l] EXCEPT !.handling = NoResult]
<1>1. Balanced(p)
  BY DEF Accounted
<1>2. PICK h : h = lanes[l].handling
  OBVIOUS
<1>3. /\ UNCHANGED request
      /\ \A d \in Pairs : response'.named[d] = response.named[d] + One(l[1] = Request /\ h.dev = d)
      /\ response'.unnamed[p] = response.unnamed[p] + One(l[1] = Request /\ h = Unnamed /\ p = l[2])
      /\ response'.refused = response.refused \cup {q \in {l[2]} : l[1] = Request /\ h = Refused}
  BY <1>2, ReportFacts DEF Pushing
<1>4. /\ \A x \in Pairs : InRequest(x)' <=> InRequest(x) /\ ~(l[1] = Request /\ x = h.dev)
      /\ h.dev \in Pairs /\ l[1] = Request => InRequest(h.dev)
  BY <1>2, CollectsInRequest
<1>5. /\ lanes' = [lanes EXCEPT ![l] = n]
      /\ Blank(n) = Blank(lanes[l]) - One(h = Unnamed) /\ Blank(lanes[l]) \in Nat
      /\ RefusalIn(lanes[l]) => RefusalIn(n) \/ h = Refused
      /\ Refusing(n) => Refusing(lanes[l])
  BY <1>2, CollectorMoves DEF Pushing
<1> HIDE DEF n
<1>6. /\ provider' = provider /\ found' = found /\ found \subseteq Pairs
      /\ \A d \in Pairs : response.named[d] \in Nat
      /\ response.unnamed[p] \in Nat
  BY <1>3 DEF request, Pushing, PushTyped
<1>7. Unaccounted(p)' = Unaccounted(p)
  <2>1. ASSUME NEW d \in found
        PROVE  response'.named[d] = 0 /\ ~InRequest(d)' <=> response.named[d] = 0 /\ ~InRequest(d)
    <3>1. d \in Pairs
      BY <1>6
    <3>2. CASE l[1] = Request /\ h.dev = d
      BY <1>3, <1>4, <1>6, <3>1, <3>2 DEF One
    <3>3. CASE ~(l[1] = Request /\ h.dev = d)
      BY <1>3, <1>4, <1>6, <3>1, <3>3 DEF One
    <3> QED
      BY <3>2, <3>3
  <2> QED
    BY <1>6, <2>1, UnaccountedKept
<1>8. CASE l = LaneOf(Request, p)
  <2>1. l[1] = Request /\ l[2] = p
    BY <1>8 DEF LaneOf
  <2>2. /\ BlankOf(p) = Blank(lanes[l]) /\ BlankOf(p)' = Blank(n)
        /\ Shunned(p) <=> Refusing(lanes[l])
        /\ Shunned(p)' <=> Refusing(n)
        /\ Doomed(p) <=> p \in response.refused \/ RefusalIn(lanes[l])
        /\ Doomed(p)' <=> p \in response'.refused \/ RefusalIn(n)
    BY <1>5, <1>8, ThisLane
  <2>3. response'.unnamed[p] + BlankOf(p)' = response.unnamed[p] + BlankOf(p)
    <3>1. response'.unnamed[p] = response.unnamed[p] + One(h = Unnamed)
      BY <1>3, <2>1
    <3>2. BlankOf(p)' = BlankOf(p) - One(h = Unnamed) /\ BlankOf(p) \in Nat
      BY <1>5, <2>2
    <3>3. One(h = Unnamed) \in Nat
      BY DEF One
    <3> QED
      BY <1>6, <3>1, <3>2, <3>3
  <2>4. Doomed(p) => Doomed(p)'
    BY <1>3, <1>5, <2>1, <2>2
  <2> QED
    BY <1>1, <1>5, <1>7, <2>2, <2>3, <2>4, BalanceKept
<1>9. CASE l # LaneOf(Request, p)
  <2>1. ~(l[1] = Request /\ l[2] = p)
    BY <1>9, RequestLane
  <2>2. /\ response'.unnamed[p] = response.unnamed[p]
        /\ (p \in response'.refused) <=> (p \in response.refused)
    BY <1>3, <1>6, <2>1 DEF One
  <2>3. /\ BlankOf(p)' = BlankOf(p) /\ (Shunned(p)' <=> Shunned(p)) /\ (Doomed(p)' <=> Doomed(p))
    BY <1>5, <1>9, <2>2, OtherLane
  <2> QED
    BY <1>1, <1>7, <2>2, <2>3, BalanceKept
<1> QED
  BY <1>8, <1>9

LEMMA LaneAccounts ==
    ASSUME Pushing, NamedOnce, Accounted, NEW l \in DOMAIN lanes,
           LaneStep(l) \/ ProcessorStep(l), ~Collects(l)
    PROVE  Accounted'
<1> SUFFICES ASSUME NEW p \in Providers PROVE Balanced(p)'
  BY DEF Accounted
<1>1. Balanced(p)
  BY DEF Accounted
<1>2. PICK n, D :
          /\ UNCHANGED <<request, calls, response>>
          /\ lanes' = [lanes EXCEPT ![l] = n] /\ n \in LaneRecords
          /\ RefusalIn(lanes[l]) => RefusalIn(n)
          /\ Refusing(n) => Refusing(lanes[l]) \/ RefusalIn(n)
          /\ D \in SUBSET Pairs /\ \A d \in D : In(l, d)
          /\ Blank(n) = Blank(lanes[l]) + Cardinality(D)
          /\ \A x \in Pairs : InRequest(x)' <=> InRequest(x) /\ ~(l[1] = Request /\ x \in D)
  BY MovesInRequest
<1>3. /\ provider' = provider /\ found' = found /\ response' = response
      /\ found \subseteq Pairs /\ IsFiniteSet(Pairs)
      /\ \A d \in Pairs : response.named[d] \in Nat
      /\ response.unnamed[p] \in Nat
  BY <1>2, PushAssumption DEF request, Pushing, PushTyped
<1>4. \A d \in D : d \in found /\ provider[d] = l[2] /\ (l[1] = Request => InRequest(d))
  BY <1>2, RequestLane DEF Pushing, Founded
<1>5. CASE l = LaneOf(Request, p)
  <2>1. l[1] = Request /\ l[2] = p
    BY <1>5 DEF LaneOf
  <2>2. /\ BlankOf(p) = Blank(lanes[l]) /\ BlankOf(p)' = Blank(n)
        /\ Shunned(p) <=> Refusing(lanes[l])
        /\ Shunned(p)' <=> Refusing(n)
        /\ Doomed(p) <=> p \in response.refused \/ RefusalIn(lanes[l])
        /\ Doomed(p)' <=> p \in response'.refused \/ RefusalIn(n)
    BY <1>2, <1>5, ThisLane
  <2>3. \A d \in D : response.named[d] = 0 /\ d \in found /\ provider[d] = p /\ InRequest(d)
    BY <1>2, <1>3, <1>4, <2>1 DEF NamedOnce
  <2>4. Unaccounted(p)' = Unaccounted(p) \cup D
    <3>1. ASSUME NEW d
          PROVE  /\ d \in Unaccounted(p)' <=>
                       d \in found' /\ provider'[d] = p /\ response'.named[d] = 0 /\ ~InRequest(d)'
                 /\ d \in Unaccounted(p) <=>
                       d \in found /\ provider[d] = p /\ response.named[d] = 0 /\ ~InRequest(d)
      BY DEF Unaccounted
    <3>2. ASSUME NEW d PROVE d \in Unaccounted(p)' <=> d \in Unaccounted(p) \cup D
      <4>1. d \in found => (InRequest(d)' <=> InRequest(d) /\ d \notin D)
        BY <1>2, <1>3, <2>1
      <4> QED
        BY <1>3, <2>3, <3>1, <4>1
    <3>3. Unaccounted(p)' \subseteq found' /\ Unaccounted(p) \subseteq found
      BY DEF Unaccounted
    <3> QED
      BY <1>2, <3>2, <3>3
  <2>5. Unaccounted(p) \cap D = {}
    BY <2>3 DEF Unaccounted
  <2>6. IsFiniteSet(Unaccounted(p)) /\ IsFiniteSet(D)
    <3>1. Unaccounted(p) \in SUBSET Pairs
      BY <1>3 DEF Unaccounted
    <3> QED
      BY <1>2, <1>3, <3>1, FS_Subset
  <2>7. /\ Cardinality(Unaccounted(p)') = Cardinality(Unaccounted(p)) + Cardinality(D)
        /\ Cardinality(Unaccounted(p)) \in Nat /\ Cardinality(D) \in Nat
    <3>1. Cardinality(Unaccounted(p)) \in Nat /\ Cardinality(D) \in Nat
      BY <2>6, FS_CardinalityType
    <3>2. Cardinality(Unaccounted(p) \cup D) =
             Cardinality(Unaccounted(p)) + Cardinality(D) - Cardinality(Unaccounted(p) \cap D)
      BY <2>6, FS_Union
    <3>3. Cardinality(Unaccounted(p) \cap D) = 0
      BY <2>5, FS_EmptySet
    <3> QED
      BY <2>4, <3>1, <3>2, <3>3
  <2>8. Blank(lanes[l]) \in Nat
    BY LaneFacts, BlankType DEF Pushing
  <2>9. Shunned(p)' => Doomed(p)'
    BY <1>1, <1>2, <1>3, <2>2 DEF Balanced
  <2>10. Doomed(p)' \/ Cardinality(Unaccounted(p)') = response'.unnamed[p] + BlankOf(p)'
    <3>1. CASE Doomed(p)
      BY <1>2, <1>3, <2>2, <3>1
    <3>2. CASE ~Doomed(p)
      <4>1. Cardinality(Unaccounted(p)) = response.unnamed[p] + Blank(lanes[l])
        BY <1>1, <2>2, <3>2 DEF Balanced
      <4>2. BlankOf(p)' = Blank(lanes[l]) + Cardinality(D) /\ response'.unnamed[p] = response.unnamed[p]
        BY <1>2, <1>3, <2>2
      <4> QED
        BY <1>3, <2>7, <2>8, <4>1, <4>2
    <3> QED
      BY <3>1, <3>2
  <2> QED
    BY <2>9, <2>10 DEF Balanced
<1>6. CASE l # LaneOf(Request, p)
  <2>1. ~(l[1] = Request /\ l[2] = p)
    BY <1>6, RequestLane
  <2>2. /\ BlankOf(p)' = BlankOf(p) /\ (Shunned(p)' <=> Shunned(p)) /\ (Doomed(p)' <=> Doomed(p))
    BY <1>2, <1>3, <1>6, OtherLane
  <2>3. \A d \in found : provider[d] = p => (InRequest(d)' <=> InRequest(d))
    BY <1>2, <1>3, <1>4, <2>1
  <2>4. Unaccounted(p)' = Unaccounted(p)
    BY <1>3, <2>3, UnaccountedKept
  <2> QED
    BY <1>1, <1>3, <2>2, <2>4, BalanceKept
<1> QED
  BY <1>5, <1>6

(***************************************************************************)
(* A request that has returned has nothing under way                       *)
(***************************************************************************)
Ended ==
    calls[Request].pc = "done" => \A l \in DOMAIN lanes : l[1] = Request => Collected(l)

\* A lane that has ended takes no step.
LEMMA EndedLane ==
    ASSUME Pushing, NEW l \in DOMAIN lanes, Collected(l)
    PROVE  ~LaneStep(l) /\ ~ProcessorStep(l)
<1>1. /\ lanes[l].sender = "done" /\ lanes[l].handling = NoResult /\ lanes[l].inHand = None
      /\ lanes[l].holding = NoResult /\ lanes[l].processor \in {"off", "done"}
      /\ lanes[l].work = {} /\ lanes[l].batch = {} /\ lanes[l].buffered = {}
  BY DEF Collected, Pushing, LanesOrderly, Orderly
<1>2. ~LaneStep(l)
  BY <1>1
  DEF LaneStep, Starts, Refuses, Announces, StartsWorker, EndsReading, Closes, SenderReports, Collects
<1>3. ~ProcessorStep(l)
  BY <1>1
  DEF ProcessorStep, ProcessorRefuses, ProcessorOwes, ProcessorStarts, ProbeEnds, ProcessorEnds,
      EndsResponses, Listens
<1> QED
  BY <1>2, <1>3

LEMMA EndedStep ==
    ASSUME Pushing, Ended, [Step]_push
    PROVE  Ended'
<1> SUFFICES ASSUME calls'[Request].pc = "done"
             PROVE  \A l \in DOMAIN lanes' : l[1] = Request => Collected(l)'
  BY DEF Ended
<1>1. ASSUME calls[Request].pc = "done", \A l \in DOMAIN lanes' : l[1] = Request =>
                l \in DOMAIN lanes /\ lanes'[l] = lanes[l]
      PROVE  \A l \in DOMAIN lanes' : l[1] = Request => Collected(l)'
  BY <1>1 DEF Ended, Collected
<1>2. Request \in DOMAIN calls /\ calls[Request] \in CallRecords
  BY DEF Pushing, Awake, PushTyped
<1>3. CASE UNCHANGED push \/ LookUp
  <2>1. CASE UNCHANGED <<calls, lanes>>
    BY <1>1, <2>1
  <2>2. ASSUME NEW s \in subs, NEW here \in (SUBSET Candidates(s)) \ {{}},
               NEW orphans \in SUBSET ByName(here), Lookup(s, here, orphans)
        PROVE  FALSE
    <3>1. here \in SUBSET Candidates(s) /\ orphans \in SUBSET here
      BY DEF ByName
    <3>2. calls'[Request].pc = "handing"
      BY <2>2, <3>1, LookupPlaces DEF Pushing
    <3> QED
      BY <3>2
  <2> QED
    BY <1>3, <2>1, <2>2 DEF push, LookUp, LookupNothing
<1>4. ASSUME NEW c \in DOMAIN calls, CallStep(c)
      PROVE  \A l \in DOMAIN lanes' : l[1] = Request => Collected(l)'
  <2>1. CASE Return(c) /\ c = Request
    BY <2>1 DEF Return, Collected
  <2>2. CASE ~(Return(c) /\ c = Request)
    <3>1. calls[Request].pc = "done"
      <4>1. ASSUME NEW d \in calls[c].todo, Offer(c, d) PROVE calls[Request].pc = "done"
        <5>1. calls[c] \in CallRecords
          BY DEF Pushing, PushTyped
        <5> QED
          BY <1>2, <4>1, <5>1 DEF Offer, Pushing, PushTyped, CallRecords
      <4>2. CASE Finish(c)
        BY <1>2, <4>2 DEF Finish, Pushing, PushTyped, CallRecords
      <4>3. CASE Return(c)
        BY <1>2, <2>2, <4>3 DEF Return, Pushing, PushTyped, CallRecords
      <4>4. CASE Wake(c)
        BY <1>2, <4>4 DEF Wake, Pushing, PushTyped, CallRecords
      <4> QED
        BY <1>4, <4>1, <4>2, <4>3, <4>4 DEF CallStep
    <3>2. ASSUME NEW l \in DOMAIN lanes', l[1] = Request
          PROVE  l \in DOMAIN lanes /\ lanes'[l] = lanes[l]
      <4>1. l \in DOMAIN lanes
        BY <1>4, <3>1, <3>2, CallStepLanes
      <4>2. CASE c = Request
        BY <1>4, <3>1, <4>1, <4>2, CallStepLanes
      <4>3. CASE c # Request
        <5>1. ASSUME NEW m, m[1] = c, m \notin DOMAIN lanes, lanes' = Put(lanes, m, NewLane)
              PROVE  lanes'[l] = lanes[l]
          BY <4>1, <5>1 DEF Put
        <5>2. ASSUME NEW d \in calls[c].todo, Offer(c, d) PROVE lanes'[l] = lanes[l]
          BY <5>1, <5>2 DEF Offer, LaneOf
        <5>3. CASE Finish(c)
          BY <3>2, <4>1, <4>3, <5>3 DEF Finish
        <5>4. CASE Return(c)
          BY <5>4 DEF Return
        <5>5. CASE Wake(c)
          <6>1. PICK m : m = LaneOf(c, provider[c[1]])
            OBVIOUS
          <6>2. m[1] = c /\ lanes' = Put(lanes, m, NewLane) /\ calls[c].pc = "sleeping"
            BY <5>5, <6>1 DEF Wake, LaneOf
          <6>3. m \notin DOMAIN lanes
            BY <6>2 DEF Pushing, CallsOrderly
          <6> QED
            BY <4>1, <5>1, <6>2, <6>3
        <5> QED
          BY <1>4, <4>1, <5>2, <5>3, <5>4, <5>5 DEF CallStep
      <4> QED
        BY <4>1, <4>2, <4>3
    <3> QED
      BY <1>1, <3>1, <3>2
  <2> QED
    BY <2>1, <2>2
<1>5. ASSUME NEW l \in DOMAIN lanes, Handover(l[1], l) \/ LaneStep(l) \/ ProcessorStep(l)
      PROVE  \A m \in DOMAIN lanes' : m[1] = Request => Collected(m)'
  <2>1. /\ DOMAIN lanes' = DOMAIN lanes
        /\ \A m \in DOMAIN lanes \ {l} : lanes'[m] = lanes[m]
    <3>1. CASE Discard(l[1], l)
      BY <3>1 DEF Discard
    <3>2. CASE Rejects(l[1], l) \/ Takes(l[1], l)
      <4>1. \E n, d : lanes' = [lanes EXCEPT ![l] = n] /\ TakesIn(TypeIs(l), lanes[l], n, d)
        BY <3>2, HandoverInRequest
      <4> QED
        BY <4>1, LaneChanges DEF Pushing
    <3>3. CASE Collects(l)
      BY <3>3 DEF Collects, Pushing, PushTyped
    <3>4. CASE (LaneStep(l) \/ ProcessorStep(l)) /\ ~Collects(l)
      <4>1. \E n : lanes' = [lanes EXCEPT ![l] = n]
        BY <3>4, LaneStepMoves DEF Pushing, LaneMoves
      <4> QED
        BY <4>1, LaneChanges DEF Pushing
    <3> QED
      BY <1>5, <3>1, <3>2, <3>3, <3>4 DEF Handover
  <2>2. calls[Request].pc = "done"
    <3>1. CASE Handover(l[1], l)
      <4>1. /\ l[1] \in DOMAIN calls /\ calls' = [calls EXCEPT ![l[1]].offer = None]
        BY <3>1, LaneFacts DEF Handover, Discard, Rejects, Takes, Handed, Pushing
      <4> QED
        BY <1>2, <4>1 DEF Pushing, PushTyped, CallRecords
    <3>2. CASE Collects(l)
      <4>1. CASE UNCHANGED calls
        BY <4>1
      <4>2. CASE ~UNCHANGED calls
        <5>1. PICK c : c = <<lanes[l].handling.dev, l[1][2] + 1>>
          OBVIOUS
        <5>2. PICK y \in Nat : /\ calls' = Put(calls, c, NewCall("sleeping", y))
                               /\ lanes[l].handling.dev \in Pairs
          BY <3>2, <4>2, <5>1, CollectedCalls DEF Pushing
        <5>3. c # Request
          BY <5>1, <5>2, PushAssumption DEF Request
        <5> QED
          BY <1>2, <5>2, <5>3 DEF Put
      <4> QED
        BY <4>1, <4>2
    <3>3. CASE (LaneStep(l) \/ ProcessorStep(l)) /\ ~Collects(l)
      BY <3>3, LaneStepMoves DEF Pushing
    <3> QED
      BY <1>5, <3>1, <3>2, <3>3
  <2>3. l[1] # Request
    <3>1. SUFFICES ASSUME l[1] = Request PROVE FALSE
      OBVIOUS
    <3>2. Collected(l)
      BY <2>2, <3>1 DEF Ended
    <3>3. ~Handover(l[1], l)
      BY <1>2, <2>2, <3>1 DEF Handover, Discard, Rejects, Takes, Meets, Pushing, CallsOrderly
    <3> QED
      BY <1>5, <3>2, <3>3, EndedLane
  <2> QED
    BY <1>1, <2>1, <2>2, <2>3
<1> QED
  BY <1>3, <1>4, <1>5 DEF Step

LEMMA AccountsStep ==
    ASSUME Pushing, NamedOnce, Accounted, [Step]_push
    PROVE  Accounted'
<1>1. CASE UNCHANGED push
  <2>1. UNCHANGED <<provider, found, calls, lanes, response>>
    BY <1>1 DEF push
  <2>2. Stay
    BY <2>1, CallsSame, LanesSame DEF Stay
  <2>3. \A d \in found : InRequest(d)' <=> InRequest(d)
    BY <2>1, <2>2, StaysInRequest DEF Pushing, PushTyped
  <2>4. ASSUME NEW p \in Providers PROVE Balanced(p)'
    <3>1. Unaccounted(p)' = Unaccounted(p)
      BY <2>1, <2>3, UnaccountedKept
    <3>2. /\ BlankOf(p)' = BlankOf(p) /\ (Shunned(p)' <=> Shunned(p)) /\ (Doomed(p)' <=> Doomed(p))
      BY <2>1 DEF BlankOf, Shunned, Doomed
    <3> QED
      BY <2>1, <3>1, <3>2, BalanceKept DEF Accounted
  <2> QED
    BY <2>4 DEF Accounted
<1> QED
  BY <1>1, LookUpAccounts, CallAccounts, HandoverAccounts, CollectorAccounts, LaneAccounts DEF Step

LEMMA InitAccounts == Init => Accounted /\ Ended
<1> SUFFICES ASSUME Init PROVE Accounted /\ Ended
  OBVIOUS
<1>1. /\ DOMAIN lanes = {} /\ found = {} /\ response.refused = {}
      /\ \A p \in Providers : response.unnamed[p] = 0
  BY DEF Init
<1>2. ASSUME NEW p \in Providers PROVE Balanced(p)
  <2>1. Unaccounted(p) = {}
    BY <1>1 DEF Unaccounted
  <2>2. Cardinality(Unaccounted(p)) = 0
    BY <2>1, FS_EmptySet
  <2> QED
    BY <1>1, <2>2 DEF Balanced, BlankOf, Shunned, Doomed
<1> QED
  BY <1>1, <1>2 DEF Accounted, Ended

\* When the request returns, its response accounts for every pair it found: a
\* provider's failure is in it, or there are as many answers as pairs, by name or
\* not, whichever of the error paths of the four service types was taken; an entry
\* of the list without a device is in it too.
THEOREM NoneIsLost == Spec => []NothingLost
<1>1. Pushing /\ NamedOnce /\ Accounted /\ Ended => NothingLost
  <2> SUFFICES ASSUME Pushing, NamedOnce, Accounted, Ended, calls[Request].pc = "done"
               PROVE  /\ \A p \in Providers :
                            LET mine == {d \in found : provider[d] = p}
                                answered == {d \in mine : response.named[d] > 0}
                            IN \/ p \in response.refused
                               \/ Cardinality(mine) = Cardinality(answered) + response.unnamed[p]
                      /\ \A s \in Entries :
                            s \in response.subs \/ \E d \in found : EntryOf[d] = s
    BY DEF NothingLost
  <2>1. \A s \in Entries : s \in response.subs \/ \E d \in found : EntryOf[d] = s
    BY DEF Pushing, Founded
  <2>2. /\ Request \in DOMAIN calls /\ IsFiniteSet(Pairs) /\ found \subseteq Pairs
        /\ \A d \in Pairs : response.named[d] \in Nat
        /\ \A p \in Providers : response.unnamed[p] \in Nat
    BY PushAssumption DEF Pushing, PushTyped, Awake
  <2>3. \A d \in Pairs : ~At(Request, d)
    BY <2>2, PushAssumption DEF At, Has, Pushing, CallsOrderly
  <2>4. ASSUME NEW l \in DOMAIN lanes, l[1] = Request
        PROVE  /\ Blank(lanes[l]) = 0 /\ ~RefusalIn(lanes[l])
               /\ \A d \in Pairs : ~In(l, d)
    <3>1. lanes[l].sender = "done" /\ lanes[l].handling = NoResult
      BY <2>4 DEF Ended, Collected
    <3>2. /\ lanes[l].inHand = None /\ lanes[l].holding = NoResult /\ lanes[l].owed = 0
          /\ lanes[l].work = {} /\ lanes[l].batch = {} /\ lanes[l].buffered = {}
      BY <3>1 DEF Pushing, LanesOrderly, Orderly
    <3> QED
      BY <3>1, <3>2, ResultFacts, PushAssumption DEF Blank, One, RefusalIn, In, InLane
  <2>5. ASSUME NEW p \in Providers
        PROVE  LET mine == {d \in found : provider[d] = p}
                   answered == {d \in mine : response.named[d] > 0}
               IN \/ p \in response.refused
                  \/ Cardinality(mine) = Cardinality(answered) + response.unnamed[p]
    <3> DEFINE mine == {d \in found : provider[d] = p}
               answered == {d \in mine : response.named[d] > 0}
    <3>1. LaneOf(Request, p)[1] = Request
      BY DEF LaneOf
    <3>2. BlankOf(p) = 0 /\ (Doomed(p) <=> p \in response.refused)
      BY <2>4, <3>1 DEF BlankOf, Doomed
    <3>3. \A d \in found : ~InRequest(d)
      <4>1. ASSUME NEW d \in found PROVE ~Laned(provider[d], d)
        <5>1. LaneOf(Request, provider[d])[1] = Request /\ d \in Pairs
          BY <2>2 DEF LaneOf
        <5> QED
          BY <2>4, <5>1 DEF Laned
      <4> QED
        BY <2>2, <2>3, <4>1 DEF InRequest
    <3>4. Unaccounted(p) = mine \ answered
      BY <2>2, <3>3 DEF Unaccounted
    <3>5. IsFiniteSet(mine) /\ mine \cap answered = answered /\ answered \in SUBSET mine
      <4>1. mine \in SUBSET Pairs
        BY <2>2
      <4> QED
        BY <2>2, <4>1, FS_Subset
    <3> HIDE DEF mine, answered
    <3>6. IsFiniteSet(answered) /\ Cardinality(answered) \in Nat /\ Cardinality(mine) \in Nat
      BY <3>5, FS_Subset, FS_CardinalityType
    <3>7. Cardinality(Unaccounted(p)) = Cardinality(mine) - Cardinality(answered)
      BY <3>4, <3>5, FS_Difference
    <3>8. p \in response.refused \/ Cardinality(Unaccounted(p)) = response.unnamed[p]
      BY <2>2, <3>2 DEF Accounted, Balanced
    <3>9. p \in response.refused \/ Cardinality(mine) = Cardinality(answered) + response.unnamed[p]
      BY <2>2, <3>6, <3>7, <3>8
    <3> QED
      BY <3>9 DEF mine, answered
  <2> QED
    BY <2>1, <2>5
<1>2. Init => Pushing /\ NamedOnce /\ Accounted /\ Ended
  BY InitPushing, InitNamed, InitAccounts
<1>3. Pushing /\ NamedOnce /\ Accounted /\ Ended /\ [Step]_push
         => Pushing' /\ NamedOnce' /\ Accounted' /\ Ended'
  BY PushingStep, NamedStep, AccountsStep, EndedStep
<1> QED
  BY <1>1, <1>2, <1>3, NextIsStep, PTL DEF Spec
=============================================================================
