------------------------------ MODULE PushFanOut ------------------------------
(***************************************************************************)
(* One /push and the retries it leaves behind (pushbackend.go, and the     *)
(* Push of each service type under srv/).                                  *)
(*                                                                         *)
(* A call of pushImpl hands every pair to the lane of its provider: a      *)
(* sender goroutine (the service type's Push) that reads dpQueue, the      *)
(* workers it starts, and a collector that reads resQueue and fills in the *)
(* response.  Both channels are unbuffered, so a message is one joint step *)
(* of the two goroutines, and whoever comes first waits.  A collector may  *)
(* leave a goroutine that sleeps and calls pushImpl again for one device.  *)
(***************************************************************************)
EXTENDS Integers, FiniteSets

CONSTANTS
    Pairs,            \* what the lookups may give: a pair for each entry of the list of
                      \* subscribers and device the entry matches
    EntryOf,          \* the entry each pair is found for
    Devices,
    Providers,
    TypeOf,           \* the push service type of each provider
    Scenarios,        \* the provider and the device of each pair, and the ids asked for
    Asked,            \* the delays, in seconds, each provider's service may ask for
    Second,           \* one second
    FirstDelay,       \* the first retry's delay, 5 seconds
    Ceiling,          \* the delay past which a push is abandoned, a minute
    MaxRequested,     \* maxRequestedRetryDelay
    Limit,            \* maxConcurrentPushes
    None

Types == {"fcm", "webpush", "adm", "apns"}

ASSUME PushAssumption ==
    /\ IsFiniteSet(Pairs) /\ None \notin Pairs
    /\ TypeOf \in [Providers -> Types]
    /\ Scenarios \subseteq [Pairs -> Providers] \X [Pairs -> Devices] \X SUBSET Devices
    /\ Asked \in [Providers -> SUBSET Int]
    /\ Second \in Nat /\ FirstDelay \in Nat /\ Ceiling \in Nat /\ MaxRequested \in Nat
    /\ Second < FirstDelay /\ FirstDelay <= Ceiling /\ Ceiling <= MaxRequested
    /\ Limit \in Nat \ {0}

Entries == {EntryOf[d] : d \in Pairs}

\* What a result says: about one device, about the provider without naming a
\* device ("unnamed"), that nothing can be sent to the provider ("refused"), or
\* that its record has a new token ("update").
Final(d) == [what |-> "final", dev |-> d, asked |-> 0]
Lost(d) == [what |-> "lost", dev |-> d, asked |-> 0]
RetryError(d, a) == [what |-> "retry", dev |-> d, asked |-> a]
Unnamed == [what |-> "unnamed", dev |-> None, asked |-> 0]
Refused == [what |-> "refused", dev |-> None, asked |-> 0]
Update == [what |-> "update", dev |-> None, asked |-> 0]
NoResult == [what |-> "none", dev |-> None, asked |-> 0]

\* A call of pushImpl: the request, or the k-th retry for a pair.
Request == <<None, 0>>
LaneOf(c, p) == <<c, p>>

VARIABLES
    provider,     \* the provider of each pair
    device,       \* its delivery point; the entries of the list may repeat or overlap, and
                  \* then several pairs have the same
    wanted,       \* dpNamesRequested; {} asks for every device
    subs,         \* the entries of the list the request has still to look up
    lookupFailed, \* of pushImpl
    found,        \* the pairs found so far
    calls,        \* every call of pushImpl so far
    lanes,        \* every lane so far
    response,     \* what the /push response reports
    up            \* the process runs

push == <<provider, device, wanted, subs, lookupFailed, found, calls, lanes, response>>
vars == <<push, up>>

NewCall(pc, delay) == [pc |-> pc, todo |-> {}, offer |-> None, delay |-> delay]

NewLane ==
    [queue |-> "open", sender |-> "starting", inHand |-> None, holding |-> NoResult,
     batch |-> {}, work |-> {}, buffered |-> {}, processor |-> "off", owed |-> 0,
     drainer |-> FALSE, handling |-> NoResult]

\* f with the value of x set to v, x being in its domain or not.
Put(f, x, v) == [y \in DOMAIN f \cup {x} |-> IF y = x THEN v ELSE f[y]]

Init ==
    /\ \E scenario \in Scenarios :
          provider = scenario[1] /\ device = scenario[2] /\ wanted = scenario[3]
    /\ subs = Entries
    /\ lookupFailed = FALSE
    /\ found = {}
    /\ calls = [c \in {Request} |-> NewCall("handing", 0)]
    /\ lanes = [l \in {} |-> NewLane]
    /\ response = [named |-> [d \in Pairs |-> 0], unnamed |-> [p \in Providers |-> 0],
                   refused |-> {}, subs |-> {}, notSubscribed |-> {}]
    /\ up = TRUE

request == <<provider, device, wanted, subs, lookupFailed, found>>
TypeIs(l) == TypeOf[l[2]]

Results ==
    [what : {"final", "lost", "retry"}, dev : Pairs, asked : Int]
    \cup {Unnamed, Refused, Update, NoResult}

CallRecords ==
    [pc : {"sleeping", "handing", "waiting", "done"}, todo : SUBSET Pairs,
     offer : Pairs \cup {None}, delay : Nat]

LaneRecords ==
    [queue : {"open", "closed"},
     sender : {"starting", "announced", "refused", "draining", "reading", "waiting",
               "errors", "responses", "done"},
     inHand : Pairs \cup {None}, holding : Results,
     batch : SUBSET Pairs, work : SUBSET Pairs, buffered : SUBSET Pairs,
     processor : {"off", "starting", "refusing", "probing", "building", "done"},
     owed : Nat, drainer : BOOLEAN, handling : Results]

PushTyped ==
    /\ <<provider, device, wanted>> \in Scenarios
    /\ subs \subseteq Entries
    /\ lookupFailed \in BOOLEAN
    /\ found \subseteq Pairs
    /\ calls \in [DOMAIN calls -> CallRecords]
    /\ DOMAIN calls \subseteq {Request} \cup (Pairs \X (Nat \ {0}))
    /\ lanes \in [DOMAIN lanes -> LaneRecords]
    /\ DOMAIN lanes \subseteq (DOMAIN calls) \X Providers
    /\ response \in [named : [Pairs -> Nat], unnamed : [Providers -> Nat],
                     refused : SUBSET Providers, subs : SUBSET Entries,
                     notSubscribed : SUBSET Devices]

TypeOK == PushTyped /\ up \in BOOLEAN

(***************************************************************************)
(* The caller: pushImpl, and the goroutine of fixRetryError that calls it  *)
(***************************************************************************)
AtRest(c) == calls[c].pc = "handing" /\ calls[c].offer = None /\ calls[c].todo = {}

\* The pairs of s the request asks for.
Candidates(s) == {d \in Pairs : EntryOf[d] = s /\ (wanted = {} \/ device[d] \in wanted)}

\* The database fails for an entry, or has no device for it.
LookupNothing(s, failed) ==
    /\ AtRest(Request) /\ s \in subs
    /\ subs' = subs \ {s}
    /\ lookupFailed' = (lookupFailed \/ failed)
    /\ response' = [response EXCEPT !.subs = @ \cup {s}]
    /\ UNCHANGED <<provider, device, wanted, found, calls, lanes>>

\* The database returns the pairs of s; a device asked for by name may come
\* without a provider, and is reported here.
Lookup(s, here, orphans) ==
    /\ AtRest(Request) /\ s \in subs
    /\ subs' = subs \ {s}
    /\ found' = found \cup here
    /\ calls' = [calls EXCEPT ![Request].todo = here \ orphans]
    /\ response' = [response EXCEPT !.named =
                       [d \in Pairs |-> IF d \in orphans THEN @[d] + 1 ELSE @[d]]]
    /\ UNCHANGED <<provider, device, wanted, lookupFailed, lanes>>

\* Those of the pairs whose device was asked for by name.
ByName(here) == {d \in here : device[d] \in wanted}

LookUp ==
    \E s \in subs :
        \/ \E failed \in BOOLEAN : LookupNothing(s, failed)
        \/ \E here \in (SUBSET Candidates(s)) \ {{}} :
              \E orphans \in SUBSET ByName(here) : Lookup(s, here, orphans)

\* pushImpl turns to the next pair: it starts the provider's lane if this call
\* has none, then blocks on dpQueue <- dp.
Offer(c, d) ==
    LET l == LaneOf(c, provider[d])
    IN /\ calls[c].pc = "handing" /\ calls[c].offer = None /\ d \in calls[c].todo
       /\ calls' = [calls EXCEPT ![c].offer = d, ![c].todo = @ \ {d}]
       /\ lanes' = IF l \in DOMAIN lanes THEN lanes ELSE Put(lanes, l, NewLane)
       /\ UNCHANGED <<request, response>>

\* Every pair is handed over: report the ids no subscriber has, close dpQueues.
Finish(c) ==
    /\ AtRest(c)
    /\ c = Request => subs = {}
    /\ calls' = [calls EXCEPT ![c].pc = "waiting"]
    /\ lanes' = [l \in DOMAIN lanes |->
                    IF l[1] = c THEN [lanes[l] EXCEPT !.queue = "closed"] ELSE lanes[l]]
    /\ response' = IF c = Request /\ ~lookupFailed
                   THEN [response EXCEPT !.notSubscribed = wanted \ {device[d] : d \in found}]
                   ELSE response
    /\ UNCHANGED request

(* Defect: the wait group counts the senders and not the collectors. *)
SenderEnded(l) == lanes[l].sender = "done"

\* A collector ends when resQueue is closed and its last result is handled.
Collected(l) == lanes[l].sender = "done" /\ lanes[l].handling = NoResult

\* wg.Wait: the senders and the collectors of the call have ended.
Return(c) ==
    /\ calls[c].pc = "waiting"
    /\ \A l \in DOMAIN lanes : l[1] = c => Collected(l)
    /\ calls' = [calls EXCEPT ![c].pc = "done"]
    /\ UNCHANGED <<request, lanes, response>>

\* The delay of a retry is over: pushImpl has one pair, and offers it at once.
Wake(c) ==
    /\ calls[c].pc = "sleeping"
    /\ calls' = [calls EXCEPT ![c].pc = "handing", ![c].offer = c[1]]
    /\ lanes' = Put(lanes, LaneOf(c, provider[c[1]]), NewLane)
    /\ UNCHANGED <<request, response>>

(***************************************************************************)
(* The sender: Push of the service type                                    *)
(***************************************************************************)
Free(l) == lanes[l].inHand = None /\ lanes[l].holding = NoResult

\* What the notification, the provider or ADM's token decide before any device
\* is read.  On a failure adm drains dpQueue itself, the others in a goroutine.
Starts(l) ==
    /\ lanes[l].sender \in {"starting", "announced"} /\ Free(l)
    /\ lanes' = [lanes EXCEPT ![l].sender = "reading"]
    /\ UNCHANGED <<request, calls, response>>

(* Defect: nobody reads dpQueue after a refusal. *)
RefusesAndLeaves(l) ==
    /\ lanes[l].sender \in {"starting", "announced"} /\ Free(l)
    /\ lanes' = [lanes EXCEPT ![l].sender = "refused", ![l].holding = Refused]
    /\ UNCHANGED <<request, calls, response>>

Refuses(l) ==
    /\ lanes[l].sender \in {"starting", "announced"} /\ Free(l)
    /\ lanes' = [lanes EXCEPT ![l].sender = "refused", ![l].holding = Refused,
                              ![l].drainer = TypeIs(l) # "adm"]
    /\ UNCHANGED <<request, calls, response>>

\* adm has a new token: the provider's record is to be updated.
Announces(l) ==
    /\ lanes[l].sender = "starting" /\ TypeIs(l) = "adm"
    /\ lanes' = [lanes EXCEPT ![l].sender = "announced", ![l].holding = Update]
    /\ UNCHANGED <<request, calls, response>>

\* The two ends of dpQueue meet: the call is free to go on.
Handed(c) == calls' = [calls EXCEPT ![c].offer = None]
Meets(c, l) == calls[c].offer # None /\ l = LaneOf(c, provider[calls[c].offer])

Discard(c, l) ==
    /\ Meets(c, l)
    /\ lanes[l].drainer \/ lanes[l].sender = "draining"
    /\ Handed(c)
    /\ UNCHANGED <<request, lanes, response>>

\* The device has no usable registration: fcm and apns answer at once.
Rejects(c, l) ==
    /\ Meets(c, l) /\ lanes[l].sender = "reading" /\ Free(l)
    /\ TypeIs(l) \in {"fcm", "apns"}
    /\ lanes' = [lanes EXCEPT ![l].holding = Final(calls[c].offer)]
    /\ Handed(c)
    /\ UNCHANGED <<request, response>>

\* The semaphore of fcm and webpush has a place; adm starts any number of workers.
HasPlace(l) == TypeIs(l) = "adm" \/ Cardinality(lanes[l].work) < Limit

\* The sender reads a device: apns adds it to the batch, the others give it a
\* worker, or wait for the semaphore with it.
Takes(c, l) ==
    /\ Meets(c, l) /\ lanes[l].sender = "reading" /\ Free(l)
    /\ LET d == calls[c].offer
       IN lanes' = CASE TypeIs(l) = "apns" -> [lanes EXCEPT ![l].batch = @ \cup {d}]
                     [] TypeIs(l) # "apns" /\ HasPlace(l) -> [lanes EXCEPT ![l].work = @ \cup {d}]
                     [] OTHER -> [lanes EXCEPT ![l].inHand = d]
    /\ Handed(c)
    /\ UNCHANGED <<request, response>>

StartsWorker(l) ==
    /\ lanes[l].inHand # None /\ HasPlace(l)
    /\ lanes' = [lanes EXCEPT ![l].work = @ \cup {lanes[l].inHand}, ![l].inHand = None]
    /\ UNCHANGED <<request, calls, response>>

\* dpQueue is closed: wait for the workers, or hand the batch to sendRequests.
EndsReading(l) ==
    /\ lanes[l].sender = "reading" /\ Free(l) /\ lanes[l].queue = "closed"
    /\ lanes' = IF TypeIs(l) = "apns"
                THEN [lanes EXCEPT ![l].sender = "errors", ![l].processor = "starting"]
                ELSE [lanes EXCEPT ![l].sender = "waiting"]
    /\ UNCHANGED <<request, calls, response>>

(* Defect: resQueue is closed without waiting for the workers. *)
ClosesEarly(l) ==
    /\ \/ lanes[l].sender = "waiting"
       \/ lanes[l].sender = "draining" /\ lanes[l].queue = "closed"
    /\ lanes' = [lanes EXCEPT ![l].sender = "done"]
    /\ UNCHANGED <<request, calls, response>>

\* wg.Wait of fcm, webpush and adm; adm's own draining; then close(resQueue).
Closes(l) ==
    /\ \/ lanes[l].sender = "waiting" /\ lanes[l].work = {}
       \/ lanes[l].sender = "draining" /\ lanes[l].queue = "closed"
    /\ lanes' = [lanes EXCEPT ![l].sender = "done"]
    /\ UNCHANGED <<request, calls, response>>

(***************************************************************************)
(* What a push service answers for one device                              *)
(***************************************************************************)
\* The seconds of a Retry-After times time.Second, a product that may wrap, or a
\* default: any integer.
FcmAnswers(p, d) == {Final(d), Lost(d)} \cup {RetryError(d, a) : a \in Asked[p]}
WebpushAnswers(p, d) == {Final(d), Lost(d)} \cup {RetryError(d, a) : a \in Asked[p]}
\* adm has no connection error to retry, and AdmPanics where it cannot build a
\* request.
AdmAnswers(p, d) == {Final(d)} \cup {RetryError(d, a) : a \in Asked[p]}
\* What apns reports as an error; success and a dead token are responses.  Its
\* delays are those of retryableReasons.
ApnsErrors(p, d) ==
    {Final(d), Lost(d), Unnamed} \cup {RetryError(d, a) : a \in {x \in Asked[p] : x > 0}}

Answers(p, d) ==
    CASE TypeOf[p] = "fcm" -> FcmAnswers(p, d)
      [] TypeOf[p] = "webpush" -> WebpushAnswers(p, d)
      [] TypeOf[p] = "adm" -> AdmAnswers(p, d)
      [] TypeOf[p] = "apns" -> ApnsErrors(p, d)

(***************************************************************************)
(* resQueue: a worker or the sender meets the collector                    *)
(***************************************************************************)
WorkerReports(l, d, r) ==
    /\ TypeIs(l) # "apns"
    /\ d \in lanes[l].work /\ lanes[l].handling = NoResult
    /\ r \in Answers(l[2], d)
    /\ lanes' = [lanes EXCEPT ![l].work = @ \ {d}, ![l].handling = r]
    /\ UNCHANGED <<request, calls, response>>

\* A sender that refused the push has nothing left to do: adm drains dpQueue, the
\* others return.
SenderReports(l) ==
    /\ lanes[l].holding # NoResult /\ lanes[l].handling = NoResult
    /\ lanes' = [lanes EXCEPT ![l].holding = NoResult, ![l].handling = lanes[l].holding,
                              ![l].sender = IF @ # "refused" THEN @
                                            ELSE IF TypeIs(l) = "adm" THEN "draining"
                                            ELSE "done"]
    /\ UNCHANGED <<request, calls, response>>

(***************************************************************************)
(* The APNs processor: sendRequests, for the batch of one lane             *)
(***************************************************************************)
\* An error goes over errChan, which the sender reads one at a time.
Listens(l) == lanes[l].sender = "errors" /\ lanes[l].holding = NoResult

\* The endpoint, the provider token or the client is refused: one error a device.
ProcessorRefuses(l) ==
    /\ lanes[l].processor = "starting"
    /\ lanes' = [lanes EXCEPT ![l].processor = "refusing", ![l].batch = {},
                              ![l].owed = Cardinality(lanes[l].batch)]
    /\ UNCHANGED <<request, calls, response>>

ProcessorOwes(l) ==
    /\ lanes[l].processor = "refusing" /\ lanes[l].owed > 0 /\ Listens(l)
    /\ lanes' = [lanes EXCEPT ![l].owed = @ - 1, ![l].holding = Unnamed]
    /\ UNCHANGED <<request, calls, response>>

ProcessorStarts(l) ==
    /\ lanes[l].processor = "starting"
    /\ lanes' = [lanes EXCEPT ![l].processor = "building"]
    /\ UNCHANGED <<request, calls, response>>

(* Defect: the loop over the batch starts at device 0 although it was the probe. *)
ProbesAgain(l, d) ==
    /\ lanes[l].processor = "starting"
    /\ d \in lanes[l].batch /\ Cardinality(lanes[l].batch) > 1
    /\ lanes' = [lanes EXCEPT ![l].processor = "probing", ![l].work = {d}]
    /\ UNCHANGED <<request, calls, response>>

\* The provider token is not yet known to be good, and this batch is the one to
\* ask: device 0 goes alone, and the others wait for its answer.
ProcessorProbes(l, d) ==
    /\ lanes[l].processor = "starting"
    /\ d \in lanes[l].batch /\ Cardinality(lanes[l].batch) > 1
    /\ lanes' = [lanes EXCEPT ![l].processor = "probing", ![l].batch = @ \ {d},
                              ![l].work = {d}]
    /\ UNCHANGED <<request, calls, response>>

\* The probe is answered, or could not be built and was reported as an error.
ProbeEnds(l) ==
    /\ lanes[l].processor = "probing" /\ lanes[l].work = {}
    /\ lanes' = [lanes EXCEPT ![l].processor = "building"]
    /\ UNCHANGED <<request, calls, response>>

Builds(l, d) ==
    /\ lanes[l].processor = "building" /\ d \in lanes[l].batch
    /\ lanes' = [lanes EXCEPT ![l].batch = @ \ {d}, ![l].work = @ \cup {d}]
    /\ UNCHANGED <<request, calls, response>>

\* No request can be built for the device: sendRequests itself reports it.
CannotBuild(l, d) ==
    /\ lanes[l].processor = "building" /\ d \in lanes[l].batch /\ Listens(l)
    /\ lanes' = [lanes EXCEPT ![l].batch = @ \ {d}, ![l].holding = Final(d)]
    /\ UNCHANGED <<request, calls, response>>

\* sendRequest has APNs' answer: an error, or a response into resChan's buffer.
ApnsFails(l, d, r) ==
    /\ TypeIs(l) = "apns" /\ d \in lanes[l].work /\ Listens(l)
    /\ r \in Answers(l[2], d)
    /\ lanes' = [lanes EXCEPT ![l].work = @ \ {d}, ![l].holding = r]
    /\ UNCHANGED <<request, calls, response>>

ApnsResponds(l, d) ==
    /\ TypeIs(l) = "apns" /\ d \in lanes[l].work
    /\ lanes' = [lanes EXCEPT ![l].work = @ \ {d}, ![l].buffered = @ \cup {d}]
    /\ UNCHANGED <<request, calls, response>>

\* wg.Wait, or the last error of a refused batch: both channels are closed, and
\* the sender turns to the responses.
ProcessorEnds(l) ==
    /\ Listens(l)
    /\ \/ lanes[l].processor = "building" /\ lanes[l].batch = {} /\ lanes[l].work = {}
       \/ lanes[l].processor = "refusing" /\ lanes[l].owed = 0
    /\ lanes' = [lanes EXCEPT ![l].processor = "done", ![l].sender = "responses"]
    /\ UNCHANGED <<request, calls, response>>

NextResponse(l, d) ==
    /\ lanes[l].sender = "responses" /\ Free(l) /\ d \in lanes[l].buffered
    /\ lanes' = [lanes EXCEPT ![l].buffered = @ \ {d}, ![l].holding = Final(d)]
    /\ UNCHANGED <<request, calls, response>>

EndsResponses(l) ==
    /\ lanes[l].sender = "responses" /\ Free(l) /\ lanes[l].buffered = {}
    /\ lanes' = [lanes EXCEPT ![l].sender = "done"]
    /\ UNCHANGED <<request, calls, response>>

(***************************************************************************)
(* The collector: collectResult and fixRetryError                          *)
(***************************************************************************)
AtLeast(a, b) == IF a > b THEN a ELSE b
AtMost(a, b) == IF a < b THEN a ELSE b

\* fixRetryError: the delay to wait, and the one past which the push is dropped.
Requested(asked) == AtMost(asked, MaxRequested)
After(after, asked) ==
    LET later == AtLeast(after, Requested(asked))
    IN IF later <= Second THEN FirstDelay ELSE later
RetryCeiling(asked) == AtLeast(Ceiling, Requested(asked))

(* Defect: a push is retried whatever the delay. *)
FixRetryErrorForever(c, d, asked) ==
    Put(calls, <<d, c[2] + 1>>, NewCall("sleeping", After(2 * calls[c].delay, asked)))

\* The calls after d's result asked for a retry, a dropped push included.
FixRetryError(c, d, asked) ==
    LET after == After(2 * calls[c].delay, asked)
    IN IF after > RetryCeiling(asked)
       THEN calls
       ELSE Put(calls, <<d, c[2] + 1>>, NewCall("sleeping", after))

\* Of the connection errors the transient ones become retries.
RetryTransientConnectionError(r) == IF r.what = "lost" THEN RetryError(r.dev, 0) ELSE r

\* AddDetailsToHandler for a result of provider p; what it says of an updated
\* provider is about no device.
AddDetails(r, p) ==
    CASE r.what \in {"final", "retry"} -> [response EXCEPT !.named[r.dev] = @ + 1]
      [] r.what = "unnamed" -> [response EXCEPT !.unnamed[p] = @ + 1]
      [] r.what = "refused" -> [response EXCEPT !.refused = @ \cup {p}]
      [] OTHER -> response

(* Defect: a retry is given the handler of the request. *)
ReportAlways(c, r, p) == AddDetails(r, p)

\* A retry has the handler that drops every detail.
Report(c, r, p) == IF c = Request THEN AddDetails(r, p) ELSE response

Collects(l) ==
    LET r == RetryTransientConnectionError(lanes[l].handling)
    IN /\ lanes[l].handling # NoResult
       /\ lanes' = [lanes EXCEPT ![l].handling = NoResult]
       /\ calls' = IF r.what = "retry" THEN FixRetryError(l[1], r.dev, r.asked) ELSE calls
       /\ response' = Report(l[1], r, l[2])
       /\ UNCHANGED request

CallStep(c) ==
    \/ \E d \in calls[c].todo : Offer(c, d)
    \/ Finish(c) \/ Return(c) \/ Wake(c)

Handover(c, l) == Discard(c, l) \/ Rejects(c, l) \/ Takes(c, l)

LaneStep(l) ==
    \/ Starts(l) \/ Refuses(l) \/ Announces(l) \/ StartsWorker(l) \/ EndsReading(l)
    \/ Closes(l) \/ SenderReports(l) \/ Collects(l)
    \/ \E d \in lanes[l].work : \E r \in Answers(l[2], d) : WorkerReports(l, d, r)

ProcessorStep(l) ==
    \/ ProcessorRefuses(l) \/ ProcessorOwes(l) \/ ProcessorStarts(l) \/ ProbeEnds(l)
    \/ ProcessorEnds(l) \/ EndsResponses(l)
    \/ \E d \in lanes[l].batch : ProcessorProbes(l, d) \/ Builds(l, d) \/ CannotBuild(l, d)
    \/ \E d \in lanes[l].work : ApnsResponds(l, d) \/ \E r \in Answers(l[2], d) : ApnsFails(l, d, r)
    \/ \E d \in lanes[l].buffered : NextResponse(l, d)

Step ==
    \/ LookUp
    \/ \E c \in DOMAIN calls : CallStep(c)
    \/ \E l \in DOMAIN lanes : Handover(l[1], l) \/ LaneStep(l) \/ ProcessorStep(l)

\* A registration id that makes no URL: admNewRequest returns neither a request
\* nor an error, and the worker that uses it ends the process.
AdmPanics(l) ==
    /\ TypeIs(l) = "adm" /\ lanes[l].work # {}
    /\ up' = FALSE
    /\ UNCHANGED push

Next ==
    /\ up
    /\ \/ Step /\ UNCHANGED up
       \/ \E l \in DOMAIN lanes : AdmPanics(l)

Spec == Init /\ [][Next]_vars

\* Every goroutine goes on while it can: a sleep ends by its timer, a request to
\* FCM, a Web Push service or APNs by the timeout of its client.  The client of
\* adm has none: that Amazon answers is assumed.
FairSpec == Spec /\ WF_vars(Next)

(***************************************************************************)
(* Properties                                                              *)
(***************************************************************************)
\* The places a notification for d can be in: about to be handed over, with a
\* goroutine of a lane, or waiting for its retry.
Places(d) ==
    {<<"call", c>> : c \in {x \in DOMAIN calls : \/ d \in calls[x].todo \/ calls[x].offer = d
                                                 \/ calls[x].pc = "sleeping" /\ x[1] = d}}
    \cup {<<"inHand", l>> : l \in {x \in DOMAIN lanes : lanes[x].inHand = d}}
    \cup {<<"holding", l>> : l \in {x \in DOMAIN lanes : lanes[x].holding.dev = d}}
    \cup {<<"batch", l>> : l \in {x \in DOMAIN lanes : d \in lanes[x].batch}}
    \cup {<<"work", l>> : l \in {x \in DOMAIN lanes : d \in lanes[x].work}}
    \cup {<<"buffered", l>> : l \in {x \in DOMAIN lanes : d \in lanes[x].buffered}}
    \cup {<<"handling", l>> : l \in {x \in DOMAIN lanes : lanes[x].handling.dev = d}}

\* A pair is worked on by one goroutine at a time: whatever the probe, the error
\* paths and the retries do, a device is never sent the notification by more
\* goroutines than there are entries in the list of subscribers that match it.
OneCopy == \A d \in Pairs : Cardinality(Places(d)) <= 1

\* The response reports a pair at most once, one whose retry has already failed or
\* succeeded while the response waits for slower ones included: a device is named
\* no more often than the list of subscribers matches it, and never both as
\* answered and as not subscribed.
ReportedOnce ==
    \A d \in Pairs :
        response.named[d] + (IF device[d] \in response.notSubscribed THEN 1 ELSE 0) <= 1

\* When the request returns, the response accounts for every pair it found: the
\* provider's failure is in it, or there are as many answers as pairs, by name
\* or not.  An entry of the list without a device is in it too.
NothingLost ==
    calls[Request].pc = "done" =>
        /\ \A p \in Providers :
              LET mine == {d \in found : provider[d] = p}
                  answered == {d \in mine : response.named[d] > 0}
              IN \/ p \in response.refused
                 \/ Cardinality(mine) = Cardinality(answered) + response.unnamed[p]
        /\ \A s \in Entries : s \in response.subs \/ \E d \in found : EntryOf[d] = s

\* No goroutine is left that could send on a channel already closed, which would
\* end the process: dpQueue, resQueue, and errChan and resChan of the processor.
NoSendOnClosed ==
    /\ \A c \in DOMAIN calls : calls[c].offer # None =>
          lanes[LaneOf(c, provider[calls[c].offer])].queue = "open"
    /\ \A l \in DOMAIN lanes :
          /\ lanes[l].sender = "done" => Free(l) /\ lanes[l].work = {}
          /\ lanes[l].processor = "done" =>
                lanes[l].batch = {} /\ lanes[l].work = {} /\ lanes[l].owed = 0

\* No delay exceeds what uniqush accepts, and the k-th retry waits k times more
\* than a second at least: whatever a push service answers, a push is retried
\* less than MaxRequested times, and the goroutines that hold it are bounded.
RetriesBounded ==
    \A c \in DOMAIN calls :
        c[2] * (Second + 1) <= calls[c].delay /\ calls[c].delay <= MaxRequested

\* Every goroutine a push starts comes to an end, the drainers and the retries
\* included: no one is left waiting on a channel, unless the process has ended.
Quiet ==
    /\ \A c \in DOMAIN calls : calls[c].pc = "done"
    /\ \A l \in DOMAIN lanes :
          /\ Collected(l) /\ lanes[l].queue = "closed"
          /\ lanes[l].processor \in {"off", "done"}

EverythingEnds == <>(Quiet \/ ~up)
=============================================================================
