----------------------------- MODULE ApnsToken -----------------------------
(***************************************************************************)
(* APNs provider tokens: the schedule on which uniqush signs them, the     *)
(* memory of a refused one, the probe that precedes a batch, and the       *)
(* fallback to the token before (src/srv/apns/http_api/token.go and the    *)
(* batch in processor.go), against APNs' own rules as the simulator of     *)
(* src/srv/apns/apnstest enforces them.                                    *)
(*                                                                         *)
(* A token is identified by its bucket: signing is deterministic, so every *)
(* process signs the same bytes for a bucket.  Time is counted in ticks;   *)
(* `now' is APNs' clock and a process's clock differs from it by Offset.   *)
(* A batch is done with the tokens it read within a tick: a request, its   *)
(* repetition and a wait for a probe are cut off after 20 s, 20 s and 30 s *)
(* and the intervals are 20 minutes and more.  What it read in one tick    *)
(* may reach APNs in the next.                                             *)
(***************************************************************************)
EXTENDS Integers, FiniteSets

CONSTANTS Processes,     \* uniqush processes that share a signing key
          Batches,       \* the pushes under way, each of one process
          ProcessOf,     \* the process of each batch
          Offset,        \* how far each process's clock is ahead of APNs'
          Lifetime,      \* tokenLifetime: how long APNs accepts a token
          Floor,         \* tokenMintFloor: how often APNs takes a new one
          Margin,        \* tokenSkewMargin
          Start, End,    \* the stretch of time that is looked at
          MaxBatches,    \* bound on the pushes in that time
          MaxLost,       \* bound on the exchanges that get lost
          MaxErrors      \* bound on APNs' errors before it takes the token

Interval == Lifetime - Floor - Margin    \* tokenRefreshInterval

ASSUME ConstantsAssumption ==
    /\ ProcessOf \in [Batches -> Processes]
    /\ Offset \in [Processes -> Int]
    /\ Lifetime \in Nat /\ Floor \in Nat /\ Margin \in Nat
    /\ 0 < Floor /\ Floor < Interval /\ Lifetime < 2 * Interval
    /\ Start \in Nat /\ End \in Nat /\ MaxBatches \in Nat
    /\ MaxLost \in Nat /\ MaxErrors \in Nat
    /\ \A p \in Processes : Start + Offset[p] >= Interval

None == -1               \* no bucket: the zero time.Time

Devices == {0, 1}        \* a batch has one device or two; 0 is the probe

VARIABLES
    now,         \* APNs' clock
    seen,        \* the buckets whose token APNs has taken
    mintedAt,    \* when APNs last took a new one, None before the first
    untaken,     \* buckets met with an error before their token was taken (history)
    signed,      \* process -> buckets in its cache of signed tokens
    signings,    \* process -> every bucket it has signed (history)
    resigned,    \* process -> the buckets signed more than once (history)
    refused,     \* process -> the bucket refused last, and when
    confirmed,   \* process -> the bucket APNs took from it last
    probing,     \* process -> buckets whose probe is in flight
    probed,      \* process -> finished probes that are remembered
    unanswered,  \* process -> buckets whose probe taught it nothing (history)
    started,     \* pushes so far
    lost,        \* exchanges lost so far
    errors,      \* such errors so far
    batch,       \* the pushes under way
    req          \* batch -> device -> its request

apnsVars == <<seen, mintedAt, untaken>>
signVars == <<signed, signings, resigned>>
tokenVars == <<signVars, refused, confirmed>>
probeVars == <<probing, probed, unanswered>>
bounds == <<started, lost, errors>>
vars == <<now, apnsVars, tokenVars, probeVars, bounds, batch, req>>

Phases == {"idle", "resolved", "probing", "waiting", "sending"}

IdleBatch == [pc |-> "idle", size |-> 1, signing |-> None, fallback |-> None,
              prober |-> FALSE, since |-> None, hits |-> 0, blind |-> FALSE,
              shunned |-> FALSE]

NoRequest == [st |-> "none", bucket |-> None, retry |-> FALSE,
              answer |-> "none"]

Buckets == Nat \cup {None}

BatchRecords ==
    [pc : Phases, size : {1, 2}, signing : Buckets, fallback : Buckets,
     prober : BOOLEAN, since : Buckets, hits : Nat, blind : BOOLEAN,
     shunned : BOOLEAN]

RequestRecords ==
    [st : {"none", "sent", "answered", "done"}, bucket : Buckets, retry : BOOLEAN,
     answer : {"none", "ok", "refused", "expired", "error"}]

TypeOK ==
    /\ now \in Nat /\ seen \subseteq Nat /\ mintedAt \in Buckets
    /\ untaken \subseteq Nat
    /\ signed \in [Processes -> SUBSET Nat]
    /\ signings \in [Processes -> SUBSET Nat]
    /\ resigned \in [Processes -> SUBSET Nat]
    /\ refused \in [Processes -> [bucket : Buckets, at : Int]]
    /\ confirmed \in [Processes -> Buckets]
    /\ probing \in [Processes -> SUBSET Nat]
    /\ probed \in [Processes -> SUBSET [bucket : Nat, at : Int]]
    /\ unanswered \in [Processes -> SUBSET Nat]
    /\ started \in 0 .. MaxBatches /\ lost \in 0 .. MaxLost
    /\ errors \in 0 .. MaxErrors
    /\ batch \in [Batches -> BatchRecords]
    /\ req \in [Batches -> [Devices -> RequestRecords]]

Init ==
    /\ now = Start /\ seen = {} /\ mintedAt = None /\ untaken = {}
    /\ signed = [p \in Processes |-> {}]
    /\ signings = [p \in Processes |-> {}]
    /\ resigned = [p \in Processes |-> {}]
    /\ refused = [p \in Processes |-> [bucket |-> None, at |-> 0]]
    /\ confirmed = [p \in Processes |-> None]
    /\ probing = [p \in Processes |-> {}]
    /\ probed = [p \in Processes |-> {}]
    /\ unanswered = [p \in Processes |-> {}]
    /\ started = 0 /\ lost = 0 /\ errors = 0
    /\ batch = [b \in Batches |-> IdleBatch]
    /\ req = [b \in Batches |-> [d \in Devices |-> NoRequest]]

-----------------------------------------------------------------------------
(* The token of a process, from its clock and what it remembers *)

Clock(p) == now + Offset[p]

issuedAtBucket(t) == t \div Interval
IssuedAt(k) == k * Interval

\* The refusal of bucket k is remembered for as long as APNs' floor lasts.
KnownRefused(p, k) ==
    refused[p].bucket = k /\ Clock(p) - refused[p].at < Floor

\* A mistake: the previous token is offered for the whole of the next bucket.
OfferedForTwoBuckets(p) ==
    LET k == issuedAtBucket(Clock(p)) - 1 IN
    IF KnownRefused(p, k) THEN None ELSE k

\* A mistake: the previous token is offered only while its own interval lasts.
OfferedForOneInterval(p) ==
    LET k == issuedAtBucket(Clock(p)) - 1 IN
    IF Clock(p) - IssuedAt(k) > Interval \/ KnownRefused(p, k) THEN None ELSE k

previousToken(p) ==
    LET k == issuedAtBucket(Clock(p)) - 1 IN
    IF Clock(p) - IssuedAt(k) >= Lifetime \/ KnownRefused(p, k) THEN None ELSE k

token(p) ==
    LET k == issuedAtBucket(Clock(p)) IN
    IF KnownRefused(p, k) /\ previousToken(p) # None THEN previousToken(p) ELSE k

\* A mistake: a cache of one slot.
OneSlot(cache, k) == {k}

\* The cache after a token of bucket k was asked for: pruneExpired runs when
\* one was signed.
tokenForBucket(cache, k) ==
    IF k \in cache THEN cache
    ELSE {j \in cache \cup {k} : IssuedAt(j) >= IssuedAt(k) - Lifetime}

\* What resolveTokens leaves in the cache: the token, then the one before.
Resolved(p) ==
    LET first == tokenForBucket(signed[p], token(p)) IN
    IF previousToken(p) = None THEN first
    ELSE tokenForBucket(first, previousToken(p))

\* The fallback is never the token that is being sent anyway.
FallbackOf(p) == IF previousToken(p) = token(p) THEN None ELSE previousToken(p)

\* The older token is passed over because a refusal of it is remembered (history).
Shunned(p) == KnownRefused(p, issuedAtBucket(Clock(p)) - 1)

\* The buckets it signs: those not found in the cache when asked for.
Signs(p) ==
    ({token(p)} \ signed[p])
      \cup ({previousToken(p)} \ (tokenForBucket(signed[p], token(p)) \cup {None}))

resolveTokens(p) ==
    /\ signed' = [signed EXCEPT ![p] = Resolved(p)]
    /\ signings' = [signings EXCEPT ![p] = @ \cup Signs(p)]
    /\ resigned' = [resigned EXCEPT ![p] = @ \cup (Signs(p) \cap signings[p])]

-----------------------------------------------------------------------------
(* A batch *)

Request(k) == [st |-> "sent", bucket |-> k, retry |-> FALSE,
               answer |-> "none"]

Send(b, devices, k) ==
    req' = [req EXCEPT ![b] =
              [d \in Devices |-> IF d \in devices THEN Request(k) ELSE @[d]]]

DevicesOf(b) == {d \in Devices : d < batch[b].size}

\* A batch reads its token and its fallback before it asks for a client.
StartBatch(b, size) ==
    LET p == ProcessOf[b] IN
    /\ batch[b].pc = "idle"
    /\ started < MaxBatches /\ started' = started + 1
    /\ resolveTokens(p)
    /\ batch' = [batch EXCEPT ![b] =
          [IdleBatch EXCEPT !.pc = "resolved", !.size = size, !.since = now,
                            !.signing = token(p), !.fallback = FallbackOf(p),
                            !.shunned = Shunned(p)]]
    /\ UNCHANGED <<now, apnsVars, refused, confirmed, probeVars, lost, errors, req>>

NeedsProbe(b) ==
    /\ confirmed[ProcessOf[b]] # batch[b].signing
    /\ batch[b].size > 1

\* The bucket is known to be good, or there is one device: all go out.
SendUnprobed(b) ==
    /\ batch[b].pc = "resolved" /\ ~NeedsProbe(b)
    /\ Send(b, DevicesOf(b), batch[b].signing)
    /\ batch' = [batch EXCEPT ![b].pc = "sending"]
    /\ UNCHANGED <<now, apnsVars, tokenVars, probeVars, bounds>>

\* Finished probes are remembered as long as the refusal they may have met.
Remembered(p) == {r \in probed[p] : Clock(p) - r.at < Floor}

claimProbe(b) ==
    LET p == ProcessOf[b]
        k == batch[b].signing
        known == k \in probing[p] \/ \E r \in Remembered(p) : r.bucket = k
    IN
    /\ batch[b].pc = "resolved" /\ NeedsProbe(b)
    /\ probed' = [probed EXCEPT ![p] = Remembered(p)]
    /\ \/ /\ known
          /\ batch' = [batch EXCEPT ![b].pc = "waiting"]
          /\ UNCHANGED <<probing, unanswered, req>>
       \/ /\ ~known
          /\ batch' = [batch EXCEPT ![b].pc = "probing", ![b].prober = TRUE]
          /\ probing' = [probing EXCEPT ![p] = @ \cup {k}]
          /\ unanswered' = [unanswered EXCEPT ![p] = @ \ {k}]
          /\ Send(b, {0}, k)
    /\ UNCHANGED <<now, apnsVars, tokenVars, bounds>>

\* finishProbe: the waiters of this bucket go on.
finishProbe(p, k) ==
    /\ probing' = [probing EXCEPT ![p] = @ \ {k}]
    /\ probed' = [probed EXCEPT ![p] =
                    IF k \in probing[p]
                    THEN @ \cup {[bucket |-> k, at |-> Clock(p)]} ELSE @]

\* A mistake: the devices that are left go out with the token read before.
SendsAsPlanned(b, blind) ==
    /\ Send(b, {d \in DevicesOf(b) : req[b][d].st = "none"}, batch[b].signing)
    /\ batch' = [batch EXCEPT ![b] = [@ EXCEPT !.pc = "sending",
                                               !.blind = batch[b].blind \/ blind]]
    /\ UNCHANGED signVars

\* After the probe, or the wait for one, the tokens are read again and the
\* devices that are left go out together.
SendTheRest(b, blind) ==
    LET p == ProcessOf[b] IN
    /\ resolveTokens(p)
    /\ Send(b, {d \in DevicesOf(b) : req[b][d].st = "none"}, token(p))
    /\ batch' = [batch EXCEPT ![b] =
          [@ EXCEPT !.pc = "sending", !.since = now, !.signing = token(p),
                    !.fallback = FallbackOf(p), !.shunned = Shunned(p),
                    !.blind = batch[b].blind \/ blind \/ token(p) > batch[b].signing]]

\* A mistake: the probe is published by the deferred call only.
PublishedByDeferOnly(b) ==
    LET p == ProcessOf[b] IN
    /\ batch[b].pc = "probing" /\ req[b][0].st = "done"
    /\ SendTheRest(b, batch[b].signing \in unanswered[p])
    /\ UNCHANGED <<now, apnsVars, refused, confirmed, probeVars, bounds>>

ProbeDone(b) ==
    LET p == ProcessOf[b]
        k == batch[b].signing IN
    /\ batch[b].pc = "probing" /\ req[b][0].st = "done"
    /\ finishProbe(p, k)
    /\ SendTheRest(b, k \in unanswered[p])
    /\ UNCHANGED <<now, apnsVars, refused, confirmed, unanswered, bounds>>

\* A waiter whose bucket has its answer.
Released(b) ==
    LET p == ProcessOf[b]
        k == batch[b].signing IN
    /\ batch[b].pc = "waiting" /\ k \notin probing[p]
    /\ SendTheRest(b, k \in unanswered[p])
    /\ UNCHANGED <<now, apnsVars, refused, confirmed, probeVars, bounds>>

\* probeWaitLimit: the waiter proceeds on whatever the cache says.
WaitExpires(b) ==
    /\ batch[b].pc = "waiting" /\ batch[b].signing \in probing[ProcessOf[b]]
    /\ SendTheRest(b, TRUE)
    /\ UNCHANGED <<now, apnsVars, refused, confirmed, probeVars, bounds>>

\* wg.Wait returns; the prober's deferred finishProbe reads signingBucket
\* again, which is the bucket of the last resolveTokens.  When that is no
\* longer the bucket it probed, the probe it ends is another batch's.
EndBatch(b) ==
    LET p == ProcessOf[b]
        k == batch[b].signing IN
    /\ batch[b].pc = "sending"
    /\ \A d \in DevicesOf(b) : req[b][d].st = "done"
    /\ IF batch[b].prober
       THEN /\ finishProbe(p, k)
            /\ unanswered' = [unanswered EXCEPT ![p] = @ \cup ({k} \cap probing[p])]
       ELSE UNCHANGED probeVars
    /\ batch' = [batch EXCEPT ![b] = IdleBatch]
    /\ req' = [req EXCEPT ![b] = [d \in Devices |-> NoRequest]]
    /\ UNCHANGED <<now, apnsVars, tokenVars, bounds>>

-----------------------------------------------------------------------------
(* APNs, as apnstest enforces its rules *)

\* What APNs may answer to the token of bucket k.  It may fail before it looks at
\* the token or find it invalid; then the age is judged; a token that was taken
\* before costs nothing; a new one must come Floor after the last (recordToken).
\* In the tick after the token's last its hour may or may not be over yet:
\* uniqush offers it until the hour is over and leaves no time for the way.
checkProviderToken(k) ==
    LET age == now - IssuedAt(k) IN
    (IF errors < MaxErrors THEN {"error"} ELSE {})
      \cup (IF age >= Lifetime THEN {"expired"} ELSE {})
      \cup (IF age > Lifetime THEN {}
            ELSE IF k \notin seen /\ mintedAt # None /\ now - mintedAt < Floor
                 THEN {"refused"} ELSE {"ok"})

Answer(b, d) ==
    LET k == req[b][d].bucket IN
    /\ req[b][d].st = "sent"
    /\ \E a \in checkProviderToken(k) :
          /\ req' = [req EXCEPT ![b][d].st = "answered", ![b][d].answer = a]
          /\ seen' = IF a = "ok" THEN seen \cup {k} ELSE seen
          /\ mintedAt' = IF a = "ok" /\ k \notin seen THEN now ELSE mintedAt
          /\ untaken' = IF a \in {"expired", "error"} THEN untaken \cup ({k} \ seen)
                        ELSE untaken
          /\ errors' = IF a = "error" THEN errors + 1 ELSE errors
    /\ UNCHANGED <<now, tokenVars, probeVars, batch, started, lost>>

-----------------------------------------------------------------------------
(* sendRequest *)

\* The goroutine of a request ends; of what it held it is still told whether it
\* had to repeat the request (history).
Done(b, d) ==
    req' = [req EXCEPT ![b][d].st = "done", ![b][d].bucket = None,
                       ![b][d].answer = "none"]

\* The request or its answer is lost: the device gets a transport error and
\* nothing is learnt about the token.
Lose(b, d) ==
    LET p == ProcessOf[b] IN
    /\ req[b][d].st \in {"sent", "answered"}
    /\ lost < MaxLost /\ lost' = lost + 1
    /\ Done(b, d)
    /\ unanswered' = IF batch[b].pc = "probing"
                     THEN [unanswered EXCEPT ![p] = @ \cup {batch[b].signing}]
                     ELSE unanswered
    /\ UNCHANGED <<now, apnsVars, tokenVars, probing, probed, started, errors, batch>>

\* TooManyProviderTokenUpdates with a fallback: the refusal is remembered and
\* the request repeated with the token before.
Retry(b, d) ==
    LET p == ProcessOf[b]
        r == req[b][d] IN
    /\ r.st = "answered" /\ r.answer = "refused"
    /\ ~r.retry /\ batch[b].fallback # None
    /\ refused' = [refused EXCEPT ![p] = [bucket |-> batch[b].signing,
                                          at |-> Clock(p)]]
    /\ req' = [req EXCEPT ![b][d] = [Request(batch[b].fallback)
                                        EXCEPT !.retry = TRUE]]
    /\ batch' = [batch EXCEPT ![b].hits = @ + 1]
    /\ UNCHANGED <<now, apnsVars, signVars, confirmed, probeVars, bounds>>

\* A refusal that leaves nothing to try: the device gets a RetryError, and what
\* was not tried again is not remembered as refused.
GiveUp(b, d) ==
    LET p == ProcessOf[b]
        r == req[b][d] IN
    /\ r.st = "answered" /\ r.answer = "refused"
    /\ r.retry \/ batch[b].fallback = None
    /\ Done(b, d)
    /\ batch' = [batch EXCEPT ![b].hits = @ + 1, ![b].blind = TRUE]
    /\ unanswered' = IF batch[b].pc = "probing" /\ ~r.retry
                     THEN [unanswered EXCEPT ![p] = @ \cup {batch[b].signing}]
                     ELSE unanswered
    /\ UNCHANGED <<now, apnsVars, tokenVars, probing, probed, bounds>>

\* A mistake: the bucket is confirmed although the fallback was taken.
ConfirmsTheRefused(b, d) ==
    LET p == ProcessOf[b] IN
    /\ req[b][d].st = "answered" /\ req[b][d].answer # "refused"
    /\ confirmed' = [confirmed EXCEPT ![p] = batch[b].signing]
    /\ Done(b, d)
    /\ UNCHANGED <<now, apnsVars, signVars, refused, probeVars, batch, bounds>>

\* Any other answer is taken to mean that APNs took the token it was sent.
noteAccepted(b, d) ==
    LET p == ProcessOf[b]
        r == req[b][d] IN
    /\ r.st = "answered" /\ r.answer # "refused"
    /\ confirmed' = [confirmed EXCEPT ![p] =
                       IF r.retry THEN batch[b].fallback ELSE batch[b].signing]
    /\ Done(b, d)
    /\ UNCHANGED <<now, apnsVars, signVars, refused, probeVars, batch, bounds>>

-----------------------------------------------------------------------------
\* Time passes, but a batch is done with the tokens it read, or reads them
\* again, within a tick.
Tick ==
    /\ now < End
    /\ \A b \in Batches : batch[b].pc # "idle" => batch[b].since = now
    /\ now' = now + 1
    /\ UNCHANGED <<apnsVars, tokenVars, probeVars, batch, req, bounds>>

\* The stretch of time is over and nothing is under way.
Over ==
    /\ now = End /\ \A b \in Batches : batch[b].pc = "idle"
    /\ UNCHANGED vars

BatchStep(b) ==
    \/ SendUnprobed(b) \/ claimProbe(b)
    \/ ProbeDone(b) \/ Released(b) \/ WaitExpires(b) \/ EndBatch(b)
    \/ \E d \in Devices :
          \/ Answer(b, d) \/ Lose(b, d)
          \/ Retry(b, d) \/ GiveUp(b, d) \/ noteAccepted(b, d)

Next ==
    \/ Tick \/ Over
    \/ \E b \in Batches : \/ \E size \in {1, 2} : StartBatch(b, size)
                          \/ BatchStep(b)

Spec == Init /\ [][Next]_vars

-----------------------------------------------------------------------------
(* Properties *)

\* When a batch read its tokens, by the clock of its process.
ReadAt(b) == batch[b].since + Offset[ProcessOf[b]]

\* APNs is sent an expired token only by a request that was on its way when the
\* hour ended: the token was read within the last tick of its hour, and it is
\* the older of the two, sent because a refusal of the current one was met or is
\* remembered.  The current bucket's token never expires, and previousToken stops
\* offering the older one in time but for the flight.  An expired token is
\* answered 403 and the push is dropped as a bad provider.
ExpiresOnTheWay ==
    \A b \in Batches, d \in Devices :
        req[b][d].st = "answered" /\ req[b][d].answer = "expired" =>
            /\ ReadAt(b) - IssuedAt(req[b][d].bucket) = Lifetime - 1
            /\ req[b][d].bucket = issuedAtBucket(ReadAt(b)) - 1
            /\ req[b][d].retry \/ batch[b].signing = req[b][d].bucket

\* A bucket counts as confirmed only when APNs has taken its token, or has met a
\* request with that very token with an error: after a fallback that is the
\* fallback's bucket, not the refused one.  Otherwise the probe is skipped for a
\* token APNs has just refused.
ConfirmedWasTaken ==
    \A p \in Processes :
        confirmed[p] # None => confirmed[p] \in seen \cup untaken

\* A batch whose bucket is not confirmed learns of a refusal from one request
\* of one batch, not from each of its devices, whatever the other batches of
\* the process do meanwhile; except when it went on blind: the probe was lost,
\* cut short or not waited for, there was nothing to fall back to, or a new
\* bucket had begun when the tokens were read again; when the token of a newer
\* bucket has been taken since; or when an error APNs met the bucket with was
\* taken for its consent.
NoHerd ==
    \A b \in Batches : batch[b].hits > 1 =>
        \/ batch[b].blind \/ \E k \in seen : k > batch[b].signing
        \/ batch[b].signing \in untaken

\* Whoever waits for a probe waits for a batch that is making one: a probe is
\* published before the prober's bucket changes under its deferred call.
NoStrandedProbe ==
    \A p \in Processes : \A k \in probing[p] :
        \E b \in Batches : /\ ProcessOf[b] = p /\ batch[b].pc = "probing"
                           /\ batch[b].signing = k

\* A refusal because of an older token leaves that token to fall back to:
\* it has been taken by APNs and is still offered when the floor clears.  The
\* exception is a batch whose process remembered, when the batch read its
\* tokens, a refusal of the older token itself, which nothing clears when APNs
\* takes that token after all.
FallbackWorks ==
    \A b \in Batches : \A d \in Devices :
        /\ req[b][d].st = "answered" /\ req[b][d].answer = "refused"
        /\ ~req[b][d].retry
        /\ \A k \in seen : k < req[b][d].bucket
        /\ ~batch[b].shunned
        => batch[b].fallback \in seen

\* The cache holds no more than the current bucket and the one before, for as
\* long as the process lives, and yet no bucket is signed a second time,
\* although every batch asks for two tokens and a refusal sends the process back
\* to the older one: the signer is not constant-time and relies on it.
CacheServes ==
    \A p \in Processes : Cardinality(signed[p]) <= 2 /\ resigned[p] = {}
=============================================================================
