# uniqush-push: a TLA+ model

uniqush-push is an HTTP daemon that stores the push subscriptions of other
services in redis and sends notifications to their devices through APNs, FCM,
ADM and Web Push. These modules model the parts of it that keep state or share
it, TLC checks them on small instances, and TLAPS proves the main properties for
every value of the constants. `PROJECT.json` maps every definition to the source
lines it models and lists runs, mutants, findings, hazards and theorems.

    cd tla
    tlc -config SubOneProcess.cfg MCSubscriptionStore     # a run
    tlapm SubscriptionStoreProofs.tla                     # a proof

## 1. The system and its parts

| component | state | operations | modelled in |
|---|---|---|---|
| subscription database (`db/pushdb.go`, `db/pushredisdb.go`) | per service: a record per device, a device set per subscriber, two indexes over them, a provider binding per device; `dblock` in each process | `/subscribe`, `/unsubscribe`, the read pass and cleanup of `/push`, removal of a gone device, `/subscriptions` | `SubscriptionStore` |
| provider database (same files) | per service: a set of provider names, a record per provider, the set of services | `/addpsp`, `/rmpsp`, `/rebuildserviceset`, write-back after a push, choice of a provider | `ProviderStore` |
| log of removed devices (`db/removed.go`, `restapi.go`) | a redis stream per service and its trim marker | append and trim in a script; `/removed` with a cursor | `RemovalLog`, `RemovalFeed` |
| subscriber index rebuild (`db/subscriber_index.go`) | staging keys, a built marker | clear, walk, stage, prune, rename, mark; mark an empty database at startup | `IndexRebuild` (extends `SubscriptionStore`) |
| consistency check and statistics (`db/consistency*.go`, `db/subscriber_index.go`) | the report of a walk | `/checkdb`, `/stats` | `ConsistencyCheck` (extends `SubscriptionStore`) |
| APNs client pool (`srv/apns/http_api/processor.go`) | clients by key, current key per provider, borrow counts, generation | `GetClient`, `release`, `retireSupersededClient`, `Finalize` | `ApnsClientCache` |
| APNs destinations (`srv/apns/push_service.go`, `srv/apns/common`) | a provider's endpoint, trust settings and credential revision in redis, the files they name | `/addpsp`, loading and checking a provider at each push, the TLS configuration of a client | `ApnsDestination` (extends `ApnsClientCache`) |
| APNs tokens (`http_api/token.go`) | per key: signed tokens, the last refusal, the last confirmation, probes | `token`, `previousToken`, `claimProbe`, `finishProbe`, `noteRefused`, `noteAccepted` | `ApnsToken` |
| APNs batch sender (`srv/apns/push_service.go`, `http_api`) | a batch, its wait group, `errChan` and `resChan` | `Push`, `sendRequests`, `sendRequest` | `PushFanOut`, its tokens in `ApnsToken` |
| push backend (`pushbackend.go`) | goroutines and channels of a push, retries, `errChan` | fan-out, `fixError`, `fixRetryError`, `Finalize` | `PushFanOut`, `Shutdown`; its database effects in the stores |
| REST API (`restapi.go`, `restapi_unix.go`) | the wait group of requests, the stop channel | handlers, `/stop`, SIGTERM | the database requests in their modules; `Shutdown` |
| ADM (`srv/adm.go`) | token per provider, held by `admPspLocker` | `Push`, `lockPsp`, `requestToken` | `PushFanOut`, `Shutdown` |
| FCM, Web Push (`srv/fcm`, `srv/webpush`) | the workers of a push, a semaphore | `Push`, answers to errors | `PushFanOut` |
| push service manager (`push/pushservicemngr.go`) | a registry filled at startup | hands over to the push service | in the modules above |
| metrics, log, configuration | counters | startup, output | not modelled |

How they interact. A request is a goroutine of one process. The handlers of
`restapi.go` call `pushBackEnd`, which calls `pushDatabaseOpts`; that takes
`dblock`, an RWMutex, and issues one redis command after another. `/push` reads
its devices under the read lock, releases it, sends through the push services,
and acts on each result (a gone device, an updated provider) in new calls to the
database, long after its read. The sending itself is goroutines and unbuffered
channels: `pushImpl` feeds one `dpQueue` per provider, the service type's `Push`
reads it and starts workers, their results go over `resQueue` to a collector, and
a collector that is told to retry leaves a goroutine which sleeps and then calls
`pushImpl` again. Several uniqush processes may share one redis
server; nothing but redis is common to them, and `dblock` does not reach across.
A process can stop, and a command can fail, between any two commands.

What is hard here, and therefore what the properties are about:

 - a request is several commands, and another process (or, where no lock is
   held, another request) can act between any two of them;
 - a value is read, the lock is given up, and the value is acted on later;
 - one of several writes fails;
 - a WATCH transaction is retried, and may lose every time;
 - a stream is trimmed between the reads of one answer;
 - a connection is built outside its lock while shutdown or a newer build runs;
 - goroutines wait for each other on channels without a buffer, some leave early,
   and a channel that is closed too soon ends the process;
 - a retry runs while the request it comes from is still waiting for others;
 - a rebuild replaces an index that requests keep writing to, and a check reads a
   database that changes under it, neither with a lock;
 - a credential is renewed under its old name while connections made of the old
   one are pooled, in use and being built;
 - batches cross the boundary of a token's validity together, and only one may ask
   Apple whether the new token is taken;
 - a server is stopped, perhaps twice, while requests arrive and retries sleep.

`hazards` in `PROJECT.json` lists each with its line and the properties on it.

## 2. The modules and the code

### DBLock

The `sync.RWMutex` of `pushDatabaseOpts`, one per process. `writer` and `readers`
say who holds it. Go lets a waiting writer hold off new readers; the model lets
new readers in, which allows more interleavings for safety and is made up for by
strong fairness in the liveness check.

### SubscriptionStore

One service. `record`, `deviceSet`, `index`, `typeSet` and `bound` are the redis
keys `delivery.point:`, `srv.sub-2-dp:`, `srv-2-sub:`, `srv.type-2-dp:` and
`srv.dp-2-psp:`. A worker is a request; `step` says which command it does next and
its other variables are the locals of the Go functions. Each redis command is one
action, each redis script too, since redis runs it whole:

| actions | code |
|---|---|
| `Subscribe`, `SetDeliveryPoint`, `AddToSubscriber`, `SetBinding` | `AddDeliveryPointToService` |
| `Unsubscribe`, `UnsubscribeAll`, `RemoveFromSubscriber`, `RemoveRecord`, `RemoveBinding` | `RemoveDeliveryPointFromService`, `RemoveAllDeliveryPointsFromService` |
| `Push`, `GetDeliveryPoint`, `Forget...` | `GetPushServiceProviderDeliveryPointPairs`, `forgetOrphanedDeliveryPoints` |
| `DeviceGone`, `DeviceChanged`, `RemoveUnchanged` | `RemoveDeliveryPointIfUnchanged`, called from `removeGoneDeliveryPoint` |
| `Query`, `QueryMGet`, `QueryClean`, `QueryCleanFails` | `GetSubscriptions` |
| `Abort` | any command failing, or the process stopping |

Abstractions. A record is one of `Values`: only whether two records are equal
matters. A device is named by its hash, so `Home` and `FixedSub` are functions of
it; they differ when a device was subscribed with a list of subscribers, whose
first name owns the device set while the whole list is in the fixed data
(`sub_two_processes` has such a device; section 3 says what becomes of it). Taking
a lock and the first read under it are one step. The names a wildcard matches are
read in one step. Scores of `srv-2-sub` are left out. The index is taken to be
built and no rebuild to be running, which is `IndexRebuild`'s subject. Reads go to the master, not to a replica.
`ModifyDeliveryPoint` is left out: no backend builds the result that leads to it.
`Debris` starts the database with what interrupted writes can have left.

### ProviderStore

The providers of one service: `records`, `members`, `listed` and `binding` are
`push.service.provider:`, `srv-2-psp:`, membership in `services{0}`, and
`srv.dp-2-psp:`. A WATCH is the set `dirty` of the workers whose key another
client has changed since; EXEC is `AddExec` where that did not happen and
`AddRetry` where it did. A command that leaves a set as it was does not disturb a
WATCH, as in redis. `Legacy` lets the database predate the rule of one provider
per type.

### RemovalLog, RemovalFeed

Stream ids only grow, entries are added at one end and trimmed from the other, so
the stream is the interval `first..last`. `Record` is `recordRemovedScript`. The
three commands of `/removed` (`XREVRANGE` for the newest entry, `XREAD`, the
marker) are three actions, with `Record` between them at will. `Query` takes any
cursor: the last one, an old one, one of another service. `Lost` loses an answer.
`RemovalFeed` is the promise: an answer is a part of the removals after the
cursor, and if it is not all of them up to the one whose cursor it hands out, it
says so. `NoSilentLoss` states that `RemovalLog` implements it, with
`recorded <- last`, `asked <- since`, `answer <- removed`.

### ApnsClientCache

Each action is one critical section of `clientsLock`. A build happens between
`TryBorrow` and the action that ends it, in any order with other builds, repointed
providers (another key of the same provider) and `Finalize`. `open` holds the
clients whose transport has idle connections; `Answered` makes one idle whenever a
batch is sending, and `CloseIdleConnections` empties it. Clients are numbered as
they are built.

### ApnsDestination

Extends the pool with what the keys stand for. A provider is the record of its
`VolatileData` entries that matter here; `cred` stands for its fixed data, hence its
name. `files` counts how often each credential file has been replaced (`Rotate`, an
operator's act), and a client's TLS configuration remembers which contents it was
made of. `AddPsp` is `/addpsp` up to its answer from the validation, `Store` its
write; `Load` is a push that reads the record, `Refuse` and `GetClient` the check at
the point of use and the lookup under `clientCacheKey`. `Stored` holds providers as
older versions wrote them: no revision, an inert `skipverify`, an endpoint that the
present configuration would refuse. `allowNonApple` is free at the start and does
not change. A URL is one of a few model values with three attributes, which is what
`ValidateEndpoint` tells apart. The files are read when `/addpsp` validates them and
when `createTLSConfig` builds, each in one step. A file that passes the validation of
`/addpsp` can be read when its digest is taken a moment later; in the code one that
cannot has an empty digest (`common/endpoint.go:473-484`), so that two registrations
which both met this would share a key. That case is left out.

### ApnsToken

A token is its bucket, because signing is deterministic. Each call that takes
`providerToken.mutex` is one action or part of one (`claimProbe`, `finishProbe`,
`noteAccepted`, `Retry` with its `noteRefused`, `resolveTokens`), and between them
other batches act, requests are answered or lost, and the clock advances. APNs is
`checkProviderToken`, translated from the simulator of `srv/apns/apnstest`: expired
after an hour, refused when another token was taken less than 20 minutes ago. It may
also answer an error, up to `MaxErrors` times, without having taken the token
(`InvalidProviderToken`, 5xx): the code credits the bucket for any reason but
`TooManyProviderTokenUpdates`. A batch has one device or two, the first of which
probes. Time is in ticks, and a tick has a length: a token that is an hour old by whole
ticks may or may not have expired when it arrives, and certainly has a tick later. A
batch ends at most one tick after the one in which it read its tokens, for its requests
are cut off after 20 seconds. `untaken` records the buckets that Apple met with an
error. Three more histories say what a batch knew. `blind`: it went on without an answer
to its probe, or had nothing to fall back to. `unanswered`: the buckets whose last probe taught the
process nothing, because it was lost, cut short, or refused with nothing to try instead
(such a refusal is not remembered). `shunned`: when the batch read its tokens, the
older one was passed over because a refusal of it was remembered.

### IndexRebuild

Extends `SubscriptionStore` by the staging keys, the marker and the rebuilds under
way. Of the requests that go on it needs only the two scripts (`Land`), since they
alone write what a rebuild reads or replaces. A SCAN comes to each key at a moment
of its own, more than once if it likes. `Fail` is a command that fails, a RENAME
whose source another rebuild has taken away, or the end of the process; the staging
keys stay as they are. `Prepare` and `PrepareMarks` are the DBSIZE and the marking of
a process that starts on an empty database, in two steps. The histories `late`,
`suspect`, `alone` and `spoiled` say for which devices, and since when, the code
itself gives up the promise.

### ConsistencyCheck

`/checkdb` and `/stats` as readers of `SubscriptionStore`'s keys and of a small
provider store of its own, whose `/addpsp` and `/rmpsp` are another process's. All
requests of `SubscriptionStore` go on meanwhile (`WriteSubscription`), the unlocked
cleanup of `/subscriptions` among them. `boundTo` is what a binding names:
`AddDeliveryPointToService` writes it anew with its last command, to the provider it chose
(`chosen`) when it read the records (`Resolve`). `swept` is what a `/subscriptions` has
taken out of the indexes since the reader began. Every
redis read is a step of the `phase` it belongs to. `ProviderProblems` to
`IndexProblems` define what is wrong with a database, kind by kind, as the comments
at the constants of `consistency.go` do; the passes compute the report from what they
read when they read it. The limit on findings listed per kind is left out: the
report also carries the full count.

### Shutdown

`ServeHTTP`'s wait group, `stop`, `Finalize` and the end of the process. A job is a
request or a retry of its push; `stopper` is where each call of `stop` is, one per
`/stop` request and one for SIGTERM. A push that reports on `errChan` (`"notice"`,
APNs with `uniqush.http2=0`) and one that waits for `admPspLocker` (`"adm"`) are the
two that can meet something that stops. Requests come again and again, also while stop
waits: the listener is closed after `Wait`, and open connections bring more until the
end. (A push that may be retried comes once, which bounds the retries.) `Panics` is Go: a panic of a handler is
recovered by `net/http`, one of any other goroutine ends the process. A wait group
that is used again before a waiter has woken panics in that waiter (`WaitReturns`).
The last `Done` is two steps, its decrement and the release of the waiters (`Release`);
an `Add` between them panics (`AddPanics`) before the handler has deferred its own `Done`
(`restapi.go:1096-1097`), so that the counter stays raised (`leaked`).
What the servers answer, and whether redis saves, is free.

### PushFanOut

One `/push` and its retries. The list of subscribers is taken as it was given
(`getSubscribersFromMap`): its entries may repeat (`alice,alice`) or overlap
(`alice,a*`). What is sent is a pair of an entry and a device the entry matches; `device`
may be the same for several pairs. `calls` holds every call of `pushImpl`: `Request`, or
`<<d, k>>` for the k-th retry of pair `d`. `lanes` holds, per call and provider,
the sender (`Push` of the service type), its workers, the collector and, for APNs,
`sendRequests`. A message over an unbuffered channel is one step of the two
goroutines that meet; a goroutine that waits is a disabled action.

| actions | code |
|---|---|
| `LookUp`, `Offer`, `Finish`, `Return` | `pushImpl`: the database's pairs, `dpQueue <- dp`, the close of the queues, `wg.Wait` |
| `Starts`, `Refuses`, `Announces`, `Discard`, `Rejects`, `Takes`, `StartsWorker`, `EndsReading`, `Closes` | `Push` of fcm, webpush, adm and apns |
| `WorkerReports`, `SenderReports` | `resQueue <- result` |
| `Processor...`, `ProbeEnds`, `Builds`, `CannotBuild`, `ApnsFails`, `ApnsResponds`, `NextResponse`, `EndsResponses` | `sendRequests`, `sendRequest`, and the reading of `errChan` and `resChan` |
| `Collects`, `FixRetryError`, `Wake` | `collectResult`, `fixRetryError` and the goroutine it leaves |

`Refuses` stands for everything that fails before a device is read (payload,
options, credentials, ADM's token); on it adm drains `dpQueue` itself and the
others leave a goroutine that does (`drainer`). `AdmPanics` is `admNewRequest` returning
neither a request nor an error, and `admSinglePush` using it (`srv/adm.go:318-341`): a
panic in a worker, which ends the process (`up`). Once the collector has taken the
last result it ends with its channel, so it has no state beside `handling`.

Abstractions. A result is about a device and final, a connection error, or a
retry with the delay asked for; or it is about the provider, with or without a
count per device. Whether a final result is a success, a rejection or a removal
does not matter here; the removal itself is `SubscriptionStore`'s `DeviceGone`. A
batch is a set, so that the probe is any of its devices. Whether a batch has to
probe depends on the token and is a free choice, and so is the answer of the
database: any of the candidates, some without a provider if they were asked for by
name. An error without a device is counted as such also where the response can
name the only device there is. Data of `uniqush.perdp.` is left out. Delays are
whole numbers; what a service may ask for is any integer, since the seconds of a
header are multiplied without a check.

## 3. The runs

| run | instance | shows |
|---|---|---|
| `sub_one_process` | 2 workers, 1 subscriber, 2 devices of 2 types, 2 contents, debris, failures | no request strands a name in a device set (`NoNewOrphan`), a push's cleanup spares what was re-subscribed (`PushSparesLive`) and leaves no orphan it found (`OrphansAreForgotten`), an unsubscribe of all leaves none (`AllMeansAll`), every request ends (`RequestsEnd`) |
| `sub_two_processes` | 2 workers in 2 processes, 2 subscribers, a list and a pattern, a device stored under one name and removed under another, debris, failures | the indexes agree with the device sets in every state (`IndexAgrees`); a removal asked for by a push service takes out only what the push read (`GoneSparesResubscribed`) |
| `sub_query_race` | 1 process | **violated**: `QuerySparesLive` |
| `prov_one_process` | 2 workers, 3 providers of 2 types, old data, failures | a provider name has its record, a service with providers is listed, re-subscribing does not move a device, no request is refused or skipped for want of a provider that is there (`NoFalseRefusal`) |
| `prov_two_processes` | 2 workers in 2 processes, 2 providers of one type, 2 attempts | never two providers of one type; every request ends, the losing `/addpsp` by giving up |
| `removal_log` | length 3, limit 2, 7 removals | the log implements `RemovalFeed`: no caller loses a removal without being told (`NoSilentLoss`); a polling caller catches up (`CatchesUp`) |
| `index_rebuild` | 2 subscribers with a device each, 2 rebuilds at a time, 3 in all, 1 script, failures | a marked database has a right index (`MarkedMeansRight`), but for what lands in the window the code names |
| `db_check` | 1 device, 4 providers (one unreadable) of 2 types, one device or provider damaged, 1 request that writes subscriptions and 1 that writes providers | `/checkdb` is exact about what was left alone (`ExactWhereQuiet`) and misses nothing that stayed wrong but for two cases of a binding (`FindsWhatStays`); the numbers of `/stats` are of what is there, and at most what a `/subscriptions` has just cleaned up (`StatsAddUp`) |
| `apns_clients` | 2 batches, 2 clients, 2 old providers, 2 kinds of `/addpsp`, 1 renewal of a certificate, 1 `Finalize` | no connection without an owner that will close it, before and after shutdown; a renewed certificate is used (`RotationTakesEffect`), a batch's trust settings are its own and Apple's certificate is verified (`TrustIsItsOwn`) |
| `apns_token` | 2 batches at a time, 3 in all, 2 devices, buckets of 5 ticks, floor 3, lifetime 9, 1 lost exchange, 1 error of Apple's | a token expires only on its way (`ExpiresOnTheWay`), none is confirmed by an answer to another (`ConfirmedWasTaken`), a refusal is learned once (`NoHerd`), waiters are released (`NoStrandedProbe`), there is something to fall back to (`FallbackWorks`), the cache is bounded and no bucket is signed twice (`CacheServes`) |
| `push_fan_out` | a list of 2 subscribers: the same device of both on one fcm provider, 2 devices on one apns provider, or on adm and webpush; semaphore of 1; a delay above and one below the accepted range | one goroutine at a time has the device of an entry (`OneCopy`); the response names it once per entry and misses none (`ReportedOnce`, `NothingLost`); no send on a closed channel (`NoSendOnClosed`); retries are bounded (`RetriesBounded`); every goroutine ends (`EverythingEnds`) |
| `stop` | subscriptions and ADM pushes that keep coming, an APNs push that reports and is retried once, `/stop` and SIGTERM | what was counted has finished when the process exits (`GracefulStop`) and is saved (`SavedBeforeExit`); one stop of a quiet server does not panic (`QuietStopIsClean`); a stop ends once requests stop coming (`StopEnds`) |

Deadlock is not checked in `push_fan_out` and `stop`, where the push or the process
ends (`EverythingEnds` and `StopEnds` say that nothing stops before that), nor in
`index_rebuild` and `db_check`, where the bounded requests and rebuilds run out.

### Where the code and its comments disagree

`sub_query_race` shows one disagreement as a counterexample: `/subscriptions` reads a
device set and the records without a lock, and then unsubscribes every name whose
record was missing. A `/subscribe` that completes in between keeps its record and
loses its place in the device set. `/push`, which cleans up in the same way, takes
the write lock and looks again.

The same modules show these under other values of their constants; the runs above
use values for which the promise is kept.

 - A wildcard push that finds an orphan removes it from the device set of the
   pattern, which does not exist (`db/pushdb.go:466`). The orphan stays; its binding
   is gone. (`OrphansAreForgotten` therefore speaks of pushes to a named subscriber.)
 - A device subscribed with `subscriber=alice,bob` is stored under `alice`
   (`restapi.go:345`) and removed under `alice,bob` (`pushbackend.go:386`): the record
   goes, `/removed` reports it, and the name stays in `alice`'s set until a push
   cleans it up. (`NoNewOrphan` with `FixedSub` different from `Home`; `sub_two_processes`
   has such a device, and its indexes stay right.)
 - `/rmpsp` in one process and `/addpsp` of the same provider in another leave a name
   without its record, which `db/pushdb.go:570-572` attributes to interrupted writes
   only; around the EXISTS and SREM of `/rmpsp` they can leave a service that has a
   provider out of `services{0}`. (`NoDangling`, `ServiceIsListed` with two
   processes; `prov_one_process` shows that one process is not exposed.)
 - A replacement by another process between the reads of one pass makes it find no
   provider, where `db/pushdb.go:544-545` says the read lock excludes that.
 - The margin of `token.go:66-81` covers the fallback until the floor has passed, but
   `previousToken` goes on offering the older token until it is an hour old by the
   process's own clock (`token.go:422`). A batch that reads it in the last moment, because
   a refusal of the current one was met or is remembered, reaches Apple when it has
   expired (`apnstest/auth.go:196`), with clocks that agree; the push is answered 403 and
   dropped as a bad provider. `ExpiresOnTheWay` says that nothing but the flight does
   this. With a clock behind Apple's (`Offset` of -1) it fails: the token is then
   offered for as long after its hour as the clock is behind.
 - `processor.go:874-877` says that any answer but a mint-floor refusal means that Apple
   took the token. `InvalidProviderToken` and the 5xx answers do not, and line 893 credits
   the bucket for them too. A bucket that Apple has never taken is then confirmed, and the
   next batch goes out in full without a probe. `ConfirmedWasTaken` and `NoHerd` except
   buckets that were met with such an error (`untaken`); what they exclude is that one
   is confirmed by the answer to another's token.
 - `consistency.go:218-224` says a concurrent write can at worst make `/checkdb` name
   a problem that has been fixed. An `/unsubscribe` between the SMEMBERS and the
   EXISTS makes it name an orphan that never was one; `ExactWhereQuiet` therefore
   speaks of what was not written meanwhile. It can also miss a problem: the walk that
   has loaded a provider, and then the one that took its place, takes the two for a tie
   and says nothing of a binding that disagreed with each. `FindsWhatStays` exempts this
   case; the attempt to prove the property without the exception is what showed it. And a
   binding that is stale because its provider is not there, and is then rewritten
   by a `/subscribe` to a provider that goes once the check has loaded it, is stale
   throughout and not named; the other exception.
 - `db/subscriber_index.go` counts subscribers and devices under the read lock, but the
   cleanup of `/subscriptions` (`db/pushredisdb.go:1278`, the lock commented out at
   `db/pushdb.go:851`) is not kept out by it: `/stats` may count a subscriber and then
   none of its devices. `StatsAddUp` bounds the numbers by what was cleaned up.
 - `docs/api.md:417` lets a `/push` name several subscribers and patterns. Nothing removes
   duplicates: with `alice,alice` or `alice,a*` a device of alice's is sent the
   notification once per entry and is in the response as often.

Further things the models make visible and the properties leave room for:

 - Two overlapping rebuilds share the staging keys, and the later clear empties what
   the earlier has staged: a partial index can be published and marked. The next
   rebuild that runs by itself repairs it.
 - An `/unsubscribe` of a device that is in its type's set but not in its
   subscriber's does not take it out of the former; only a rebuild does.
 - A memo of a refusal is not cleared when Apple takes the token after all; until it
   lapses the process does without a fallback it could use. `FallbackWorks` exempts
   a batch that read its tokens while the memo stood (`shunned`); the memo of that moment
   counts, not the one when the refusal arrives: with a floor of more than half an
   interval, as the code's 20 and 35 minutes, the memo may have lapsed or been replaced
   in between.
 - A batch that reads its tokens again after a boundary sends the rest
   with a token nobody has probed (`blind`). A prober that is refused and has nothing to
   fall back to leaves no memo, so its waiters learn nothing and are refused in turn. And a
   batch that is overtaken by a newer token at the end of its bucket may be refused on each of its
   devices. `NoHerd` names the three. It counts the refusals of a batch: two batches
   that both probed with one request each would satisfy it.
 - A second stop closes `errChan` twice. For `/stop` the server recovers the panic and
   the first stop goes on; for SIGTERM the process ends at once. The same happens when
   a request is counted between the last `Done` and the waking of `Wait`.
 - A retry that wakes after `errChan` is closed, for a provider with
   `uniqush.http2=0`, ends the process with a panic. A retry that still sleeps is forgotten.
 - `Done` precedes the flush of the response, so the last answers, `Stopped` among
   them, may be lost. The error of `FlushCache` is not looked at.
 - `/rebuildsubscriberindex`, `/checkdb` and the other uncounted requests are cut
   short by a stop.
 - ADM's HTTP client has no timeout: a token request that never ends holds up every
   ADM push, and with them the stop. `StopEnds` and `EverythingEnds` assume that Amazon
   answers.
 - An ADM request that cannot be built ends the process (`srv/adm.go:318-341`).
 - `stop` closes the listener only after `Wait` (`restapi.go:473-477`): under traffic in
   which some request is always being served the counter never reaches zero and the stop
   does not end. `StopEnds` asks that requests stop coming at some time. An `Add` that meets
   the last `Done` panics and leaves the counter raised, and then `Wait` never returns,
   whatever comes; `StopEnds` names it (`leaked`).

### Bounds, and why they are enough

Every property is about a conflict of two requests over one device, subscriber or
provider: two workers are the pair. `sub_one_process` has a second device so that
an unsubscribe of all and a cleanup take several turns; `sub_two_processes` has a
second subscriber so that removing the last device of one does not empty the
index, and a list that names him. Two contents make a changed record different from the one that was read.
Two attempts make `/addpsp` both retry and give up. A log of length 3 that
receives 7 removals is trimmed four times, so a cursor can fall behind the marker
by more than an answer holds. Two clients are a superseded one and its successor, or one built too late;
one `Finalize` has batches on both sides of it, and one renewal has clients made
before and after it. Three rebuilds, two at a time, are one that fails or overlaps
another and one that repairs; one script lands between any two of their commands. With a
lifetime of 9, a floor of 3 and a margin of 1 a bucket has 5 ticks, as 60, 20, 5 and 35
minutes have in the code; the stretch from 9 to 15 crosses two boundaries and reaches
the end of the first token's hour, and three
batches are one that presents the old token late, one that is refused and one that
learns from it. One error is enough to confirm a bucket falsely, and one lost exchange to
strand a probe. For a stop, one client of each kind that blocks on something
different, and two callers of `stop`; requests recur, so that their number is not bounded.
For `/checkdb`, one device has every kind of problem a device can have, alone or with its
subscriber, and a request of each kind writes while the check walks; the theorems cover
several devices.
Two devices on one provider share a lane, which is where a probe, a full semaphore
and a device held back occur; on two providers one of them is retried while the
other keeps the request waiting. With a second of 1, a first delay of 3, a ceiling of 4 and
a limit of 8, a push is dropped after the first retry, after the delay that a
service asked for, or after the limit.
The bounds on counters are `MaxRecorded`, `MaxClients`, `MaxFinalized`, `MaxRotations`,
`MaxRequests`, `MaxRebuilds`, `MaxBatches`, `MaxLost`, `MaxErrors`, `End` and `MaxRetries`; each is in the
guard of the action that counts. `MaxTorn` bounds the damage at the start, `Retried` the pushes
that are retried. The theorems of section 4 have none of these
restrictions on the size of the instance.

### Fairness

`SubscriptionStore!FairSpec` asks strong fairness of each worker's next step: a
goroutine keeps running and Go's mutexes are starvation free, so one that waits
for a lock that is free again and again gets it. `ProviderStore!FairSpec` needs
only weak fairness: once a request holds its lock it never waits again. No request
is obliged to arrive, and a failure never has to happen. `PushFanOut!FairSpec` asks only that
something goes on while anything can: requests to FCM, Web Push and APNs end by the
timeout of their clients, sleeps by their timers, and the Go scheduler runs what is ready. ADM's
client has no timeout; that Amazon answers is assumed. `RemovalLog!PollSpec` is fairness of the caller: it keeps asking, and
its answers are not lost for ever. `Shutdown!Spec` asks that some goroutine goes on
while any can: requests to push services and redis end, sleeps end, and a stop or a
request need not come. That requests stop coming is not assumed of the system: it is the
premise of `StopEnds`. `CatchesUp` is about callers that, from some time
on, continue from the cursor they were given.

## 4. The proofs

| theorem | assumptions beyond those of the constants | statement |
|---|---|---|
| `TypeCorrect` | | `Spec => []TypeOK` of SubscriptionStore |
| `IndexAlwaysAgrees` | | `Spec => []IndexAgrees`, any number of processes |
| `GoneRemovalIsSafe` | | `Spec => GoneSparesResubscribed`, any number of processes |
| `NoOrphansMade` | `SingleProcess`, `FixedSub = Home` | `Spec => NoNewOrphan` |
| `PushCleanupIsSafe` | `SingleProcess` | `Spec => PushSparesLive` |
| `AllAreRemoved` | `SingleProcess` | `Spec => []AllMeansAll` |
| `OrphansForgotten` | `SingleProcess` | `Spec => OrphansAreForgotten` |
| `RebuildTypes`, `MarkedIsRight` | | `RebuildSpec => []RebuildTypeOK`, `[]MarkedMeansRight`, any number of rebuilds |
| `CheckTypes`, `WhatStaysIsFound`, `QuietIsExact` | | `CheckSpec => []CheckTypeOK`, `[]FindsWhatStays`, `[]ExactWhereQuiet`, any number of processes |
| `StatsCountWhatIsThere` | `SingleProcess` | `CheckSpec => []StatsAddUp` |
| `ProviderTypes` | | `Spec => []TypeOK` of ProviderStore |
| `AtMostOnePerType` | `~Legacy` | `Spec => []OnePerType`, any number of processes |
| `NoneDangles`, `ListedWhileServing`, `BindingsStick`, `RefusalsAreTrue` | `SingleProcess` | `Spec => []NoDangling`, `[]ServiceIsListed`, `BindingSticks`, `NoFalseRefusal` |
| `LogTypes`, `MarkerExact`, `CursorsNotAhead` | | the log's invariants and cursors |
| `LogImplementsFeed` | | `Spec => Feed!Spec`, the refinement |
| `CacheTypes`, `NoConnectionLeaks`, `ShutdownLeavesNothing`, `OneClientPerProvider` | | the four invariants of ApnsClientCache |
| `PoolInUse` | | `DestSpec => Spec`: ApnsDestination uses the pool as ApnsClientCache allows |
| `DestTypes` | | `DestSpec => []DestTypeOK` of ApnsDestination |
| `RotationAlwaysTakesEffect`, `TrustIsAlwaysItsOwn`, `DestinationsAreAllowed` | | `DestSpec => []RotationTakesEffect`, `[]TrustIsItsOwn`, `[]OnlyWhereAllowed` |
| `TokenTypes`, `ProbesAreMade`, `CacheAlwaysServes` | | `Spec => []TypeOK` of ApnsToken, `[]NoStrandedProbe`, `[]CacheServes` |
| `NoneExpires` | `ClocksNotBehind` | `Spec => []ExpiresOnTheWay`, every lifetime, floor and margin |
| `ConfirmedTruly` | | `Spec => []ConfirmedWasTaken` |
| `FallbackAlwaysWorks`, `NoneHerds` | `ClocksAgree` | `Spec => []FallbackWorks`, `[]NoHerd`, every lifetime, floor and margin |
| `PushTypes` | | `Spec => []TypeOK` of PushFanOut |
| `RetriesAreBounded` | | `Spec => []RetriesBounded`, any delays asked for |
| `ChannelsSafe`, `NoSecondCopy`, `NamedAtMostOnce`, `NoneIsLost` | | `Spec => []NoSendOnClosed`, `[]OneCopy`, `[]ReportedOnce`, `[]NothingLost` |
| `StopTypes`, `StopIsGraceful`, `StopSaves`, `OneStopIsClean` | | the four invariants of Shutdown, any requests, stops and retries |

The arguments.

 - *SubscriptionStoreProofs.* `SharedInv` is `TypeOK`, `LocalsOK` (a worker at a
   step has the locals that step uses) and `IndexAgrees`. Only three scripts write the sets, and
   each updates device set and indexes together; `LocalsOK` is needed to know that
   the scripts get a device and the subscriber it belongs to. `LockedInv` adds, for
   one process, that a worker between the steps of a write holds the lock, and
   what each such step has already established (a `/subscribe` has stored its record
   before it adds the name; an unsubscribe has taken the name out before it deletes the record;
   a cleanup's second look still holds). Each property follows from
   it one action at a time. `NoOrphansMade` needs `FixedSub = Home`: a device that is removed under
   another name than it is stored under becomes an orphan. Both need `SingleProcess`: two processes can
   interleave an `/unsubscribe` with a `/subscribe`. `CleanupInv` adds for the other two
   that an unsubscribe of all still has every listed device before it (`StillListed`) and
   that a cleanup works on the subscriber its devices belong to (`CleansAtHome`).
   The last part is about `IndexRebuild`. `RebuildInv` says, of every device that is not
   `Doubtful` (a script has landed on it in the window of a rebuild that is publishing or has
   published), that the live indexes agree with its device set (`LiveRight`);
   that what a rebuild which is alone has staged agrees for all it has visited
   (`StagedRight`), and what it has renamed for all (`PublishedRight`). Overlapping rebuilds
   are not in the argument beyond making each other not alone: nothing is claimed of
   what they stage, which is all the code promises.
 - *ConsistencyCheckProofs.* `CheckInv` has three parts. `BaseInv`: the requests that write
   hold their locks, write where devices belong and bind a device to a provider of its type. `ReadTrue`: whatever the walk has at
   hand (providers loaded, names of a set, the key it has come to, the report) is still
   true of everything nobody has touched. `StayInv`, kind by kind: a problem that has
   stayed is named once the walk has passed its key, or the walk has at hand what it takes
   to name it. The last is needed because a problem is found in several reads, and it
   must survive any write that leaves the problem in place. All writes are first shown
   to change the keys of one device or one provider, and to mark them as touched
   (`Writes`), after which one lemma per part serves them all. `StatsInv` relates the numbers
   read so far to the indexes, out of which only a `/subscriptions` takes something while
   `/stats` holds the read lock: they are between the indexes as they are and those with
   what was swept.
 - *ProviderStoreProofs.* `ProviderInv` is `TypeOK`, `LocalsOK`, `OnePerType` and
   `WatchHolds`: while a worker is between its SMEMBERS and its EXEC and is not
   dirty, the set it read is the set in redis. With that, what EXEC writes is
   decided on the current members. No lock appears in the argument, so it holds
   across processes. For one process `ProcessInv` is `TypeOK`, `LocalsOK`, `LocksHeld` (who is
   at a step made under a lock holds it) and `Kept`: `NoDangling`, `ServiceIsListed`, and, for
   each request under way, that what it has read is what the store holds (`ReadsTruly`)
   and that a provider on its way out has left the set (`RemovesInOrder`). A step changes the store only under the write
   lock (`Apart`), so it disturbs no other request's readings. None of the four holds
   of two processes (section 3).
 - *RemovalLogProofs.* `LogInv` is `TypeOK`, `MarkerIsExact`, and `BatchIs`: what a
   reader holds at the marker is an interval that begins right after its cursor, or
   after entries which the marker already names. The order of the reads (marker
   last) is what makes that inductive.
 - *ApnsDestinationProofs*, first part, about the pool. `Inv` relates each count of borrows to the cardinality
   of the set of batches that hold the client (`Counted`), says that a held client
   is cached or retired (`HeldAccounted`), that numbers not yet built are unused
   (`Unbuilt`), that a client is cached under one key (`CachedOnce`), and adds the
   properties themselves. `NoLeak` alone is not inductive: a release closes the
   last use of a retired client only because the count is right.
   In the second part `DestInv` adds to the pool's `Inv` that every client in reach
   `Fits` the key it is used under: its trust settings are the key's, and its files are
   not older than the key's credential revision, which in turn is not older than the
   files as they were when the `/addpsp` began (`Recent`). That a client is shared
   safely is then a matter of the key alone. It needs `Unbuilt`: the number of a new
   client names none that is in use. `StorableAssumption` says that `Keys` contains the
   key of every provider that can be stored. `PoolInUse` carries the theorems about
   the pool over to `DestSpec`, which is what `apns_clients` checks.
 - *PushFanOutProofs.* `TypeOK` with `Awake` (the request itself never sleeps) is
   inductive: `Awake` is what gives a call that wakes up a device. `CallsMove` says
   that a step either keeps every call's delay or adds one retry, whose delay is
   above a second, twice that of the call it comes from at least, and not above
   the limit; `RetriesBounded` then follows, since `k` times more than a second,
   doubled, is at least `k + 1` times that for `k > 0`. The rest goes from the lane to
   the push. `Orderly` and `Once` say what the goroutines of a lane hold at each point of
   the sender and the processor, and that one of them only has a given device; every
   action of a lane is shown to `Move` it: it takes no device in, and whatever it loses without
   a name it owes an answer for. `Pushing` puts the lanes together: `LanesOrderly`,
   `CallsOrderly` (what is offered has an open lane, a call that sleeps has none),
   `OneAtATime` (a device is in one place, in the last of its calls) and `Founded`.
   `NoSendOnClosed` and `OneCopy` follow. `NamedOnce` adds that the response names nothing
   the request still has, which is why a retry that ends early cannot name a device
   again. `Accounted` is a balance per provider: the found devices that the request no longer has
   and has not named are as many as the answers without a name, in the response or on
   their way, unless the provider's refusal is. With `Ended` (a request that has returned
   has nothing under way) it gives `NothingLost`.
 - *ApnsTokenProofs.* `Types` and `Signed` (a batch under way has a token, and so has a
   request that is sent) carry the other two. `Serves` is the invariant of the cache: it holds
   neighbouring buckets only, and what was signed and dropped is older than the clock will
   ask for; two neighbours are two, and nothing is signed again. `Presents` says that a batch
   has read its tokens at most a tick ago and within their lifetime (`InTime`), and that a
   request carries one of them and was answered accordingly (`Asked`): what was not refused
   has been taken, or met with an error. `NoneExpires`
   needs `ClocksNotBehind`: a process whose clock is behind Apple's offers the older token too
   long (section 3), and is then told that it has expired. Nothing is assumed of a clock
   that is ahead, and `ConfirmedTruly` assumes nothing of any clock. `FallbackInv` is about what Apple has taken and why it refuses: the newest
   bucket was taken last, while it lasted (`MintOK`); a batch sends the token of the bucket
   in which it read it, or one that is known to Apple (`ReadOK`, `Fresh`); a
   refusal, and the memo of one, is on account of the token before, and then early in its bucket,
   or of a newer one (`RefusalOK`, `MemoOK`). `ClocksAgree` is what makes `MintOK` true: with two
   clocks that are apart, one process presents a new bucket while another still mints the
   old one. `HerdInv` adds what is known of a bucket by those who wait for its probe.
   `Told`: Apple has taken the token or a newer one, or met it with an error, the process has a memo of its
   refusal, its bucket began longer ago than the floor, or its probe taught nothing. Whoever
   waits for a probe that is not in flight, or finds a remembered one, has been told
   (`WaitersOK`, `RecordsOK`), and so has a prober whose request is done (`ProbersOK`). The
   difficulty is that the same bucket can be probed twice: a probe may be cut short by
   another batch's deferred `finishProbe`, and a third may claim it anew, which voids what
   `unanswered` says. `Registered` excludes that for a prober still at work: the record of the
   probe cut short is kept for as long as the floor lasts. `ReadsSecure` then shows that
   who has been told reads a token that is not refused on account of the one before, and `Calm`
   that a batch which is not blind has met one refusal at most, with its first device.
 - *ShutdownProofs.* `Inv` says that the counter is the number of requests being
   served, and one more after an `Add` that panicked (`Counted`), which needs a waiter
   that is then never released (`LeakedWaits`), that what is being served while a waiter
   wakes came after its release (`BusyCrossed`), that once a Wait has returned all of those came later
   (`BusyAreLate`), that only retries sleep (so that nothing uncounted turns into a
   request), that a closed `errChan` and an exited process are a stop's doing, and that
   a stop past `FlushCache` has left nothing unsaved but what came later. `GracefulStop`
   alone is not inductive: that a woken stop finds nothing being served depends on the
   count. Every step of a job is shown to `End` or to leave the count alone
   (`DoneEnds`, `QuietEnds`), after which one lemma serves them all (`JobKeepsInv`).

Only model-checked:

 - liveness (`RequestsEnd` of both stores, `CatchesUp`, `EverythingEnds`, `StopEnds`), which is
   outside the prover's reach;
 - `QuerySparesLive`, which is the one that fails.

The type invariants are not among the runs' properties. All of them are proved, and so is
every safety property that a run checks and that holds.

## 5. Not modelled, and why

 - Payloads, templates, validation of device tokens, encryption, HTTP framing:
   functions over strings and I/O without state of their own; the unit tests cover
   them.
 - Reads from a replica: each read could return an older record, and nothing in
   the code bounds how old.
 - The gap between the removal of a gone device and its entry in the log: the code
   accepts it and logs it.
 - Skew between the clocks of a process and of Apple: a constant of `ApnsToken`, zero
   in the run, for the reason given in section 3.
 - The map of a provider's volatile data that `admPspLocker` writes while workers may
   read it: an unsynchronised access has no outcome a model could enumerate but a
   crash of the process.
 - The start of the server (`listenUnix`'s handling of a stale socket) and the
   configuration: they run once, before there is anything to interleave with.
 - Metrics and logging: they change nothing that others read.
 - The examples and the test equipment, but for the rules of `srv/apns/apnstest` on
   provider tokens, which are the best statement of Apple's in the repository.

## 6. Plan

What is left, in order of weight:

 1. `ApnsToken` composed with the sender of `PushFanOut`, so that the probe there is no
    longer a free choice.
