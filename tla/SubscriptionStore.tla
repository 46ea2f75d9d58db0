-------------------------- MODULE SubscriptionStore --------------------------
(***************************************************************************)
(* The subscriptions of one service in redis, and the requests that read   *)
(* and write them: pushDatabaseOpts (db/pushdb.go) over PushRedisDB        *)
(* (db/pushredisdb.go).                                                    *)
(*                                                                         *)
(* A request is a worker (a goroutine) of one uniqush process.  Every      *)
(* redis command, and every redis script, is one step; between two steps   *)
(* any other worker of any process may take its own.  dblock, the RWMutex  *)
(* of pushDatabaseOpts, excludes only workers of the same process.         *)
(*                                                                         *)
(* Keys of different services are disjoint, so one service is modelled.    *)
(* Which provider serves a device is ProviderStore's subject: here a       *)
(* binding is only present or absent.                                      *)
(***************************************************************************)
EXTENDS DBLock

CONSTANTS
    SubKeys,    \* subscriber strings that can appear in a key
    Patterns,   \* those that contain "*": only /push accepts them
    Types,      \* push service types
    Devices,    \* delivery point names
    TypeOf,     \* deliveryPointTypeFromName
    Home,       \* the subscriber whose device set holds the device
    FixedSub,   \* FixedData["subscriber"] of the delivery point
    Values,     \* contents of a delivery point record
    Debris,     \* does the database hold what interrupted writes left
    NoRecord    \* redis nil

ASSUME StoreAssumption ==
    /\ ProcOf \in [Workers -> Procs]
    /\ Patterns \subseteq SubKeys
    /\ TypeOf \in [Devices -> Types]
    /\ Home \in [Devices -> SubKeys \ Patterns]
    /\ FixedSub \in [Devices -> SubKeys \ Patterns]
    /\ Debris \in BOOLEAN
    /\ NoRecord \notin Values
    /\ Nobody \notin Workers

VARIABLES
    record,     \* delivery.point:<device>
    deviceSet,  \* srv.sub-2-dp:<service>:<subscriber>
    index,      \* srv-2-sub:<service>, without the scores
    typeSet,    \* srv.type-2-dp:<service>:<type>
    bound,      \* devices with a srv.dp-2-psp:<service>:<device>
    step,       \* where each worker is
    sub,        \* the subscriber its request names
    value,      \* the contents its /subscribe stores
    all,        \* is it an /unsubscribe of every device
    dev,        \* the device it works on
    devs,       \* device names it has left to visit
    missing,    \* names its push found without a record
    pairs       \* what its push read of each device, NoRecord for nothing

store == <<record, deviceSet, index, typeSet, bound>>
request == <<sub, value, all>>
locals == <<sub, value, all, dev, devs, missing, pairs>>
vars  == <<record, deviceSet, index, typeSet, bound, writer, readers,
           step, sub, value, all, dev, devs, missing, pairs>>

Records == Values \cup {NoRecord}

Steps == { "idle",
           "sub.record", "sub.script", "sub.bind",
           "unsub.script", "unsub.record", "unsub.bind",
           "push.read", "push.lock", "push.check", "push.script", "push.bind",
           "push.send", "gone.script",
           "query.mget", "query.clean" }

Unread == [d \in Devices |-> NoRecord]

TypeOK ==
    /\ record \in [Devices -> Records]
    /\ deviceSet \in [SubKeys -> SUBSET Devices]
    /\ index \subseteq SubKeys
    /\ typeSet \in [Types -> SUBSET Devices]
    /\ bound \subseteq Devices
    /\ writer \in [Procs -> Workers \cup {Nobody}]
    /\ readers \in [Procs -> SUBSET Workers]
    /\ step \in [Workers -> Steps]
    /\ sub \in [Workers -> SubKeys \cup {Nobody}]
    /\ value \in [Workers -> Records]
    /\ all \in [Workers -> BOOLEAN]
    /\ dev \in [Workers -> Devices \cup {Nobody}]
    /\ devs \in [Workers -> SUBSET Devices]
    /\ missing \in [Workers -> SUBSET Devices]
    /\ pairs \in [Workers -> [Devices -> Records]]

(***************************************************************************)
(* A database earlier runs left behind: the indexes are built and agree,   *)
(* but where there is debris a record may be missing under a device set,   *)
(* or be in none, which is what an interrupted write or a second process   *)
(* leaves and /checkdb reports.                                            *)
(***************************************************************************)
Init ==
    /\ record \in [Devices -> Records]
    /\ \E S \in SUBSET Devices :
          /\ deviceSet = [s \in SubKeys |-> {d \in S : Home[d] = s}]
          /\ index = {Home[d] : d \in S}
          /\ typeSet = [t \in Types |-> {d \in S : TypeOf[d] = t}]
          /\ bound = S
          /\ Debris \/ \A d \in Devices : record[d] # NoRecord <=> d \in S
    /\ LockInit
    /\ step = [w \in Workers |-> "idle"]
    /\ sub = [w \in Workers |-> Nobody]
    /\ value = [w \in Workers |-> NoRecord]
    /\ all = [w \in Workers |-> FALSE]
    /\ dev = [w \in Workers |-> Nobody]
    /\ devs = [w \in Workers |-> {}]
    /\ missing = [w \in Workers |-> {}]
    /\ pairs = [w \in Workers |-> Unread]

-----------------------------------------------------------------------------
Goto(w, s) == step' = [step EXCEPT ![w] = s]

(* A request begins at step st with fresh locals, or is over. *)
Begin(w, st, s, d, v, a, D) ==
    /\ Goto(w, st)
    /\ sub' = [sub EXCEPT ![w] = s]
    /\ value' = [value EXCEPT ![w] = v]
    /\ all' = [all EXCEPT ![w] = a]
    /\ dev' = [dev EXCEPT ![w] = d]
    /\ devs' = [devs EXCEPT ![w] = D]
    /\ missing' = [missing EXCEPT ![w] = {}]
    /\ pairs' = [pairs EXCEPT ![w] = Unread]

Finish(w) == Begin(w, "idle", Nobody, Nobody, NoRecord, FALSE, {})

-----------------------------------------------------------------------------
(* The redis scripts *)

SubscribeScript(s, d) ==
    /\ deviceSet' = [deviceSet EXCEPT ![s] = @ \cup {d}]
    /\ index' = index \cup {s}
    /\ typeSet' = [typeSet EXCEPT ![TypeOf[d]] = @ \cup {d}]

(* Defect: SCARD is asked before the SREM. *)
UnsubscribeScriptEarlyCard(s, d) ==
    /\ deviceSet' = [deviceSet EXCEPT ![s] = @ \ {d}]
    /\ typeSet' = [typeSet EXCEPT ![TypeOf[d]] = @ \ {d}]
    /\ index' = IF deviceSet[s] = {} THEN index \ {s} ELSE index

UnsubscribeScript(s, d) ==
    /\ deviceSet' = [deviceSet EXCEPT ![s] = @ \ {d}]
    /\ typeSet' = IF d \in deviceSet[s]
                  THEN [typeSet EXCEPT ![TypeOf[d]] = @ \ {d}]
                  ELSE typeSet
    /\ index' = IF deviceSet[s] \subseteq {d} THEN index \ {s} ELSE index

(* Defect: the record is not compared. *)
RemoveScriptAlways(s, d, v) ==
    /\ record' = [record EXCEPT ![d] = NoRecord]
    /\ bound' = bound \ {d}
    /\ UnsubscribeScript(s, d)

(* Nothing changes unless the record still holds v. *)
RemoveUnchangedScript(s, d, v) ==
    IF record[d] # v
    THEN UNCHANGED store
    ELSE /\ record' = [record EXCEPT ![d] = NoRecord]
         /\ bound' = bound \ {d}
         /\ UnsubscribeScript(s, d)

-----------------------------------------------------------------------------
(* /subscribe: AddDeliveryPointToService *)

(* The lock is taken and a provider found; without one it returns an error. *)
Subscribe(w, d, v) ==
    /\ step[w] = "idle"
    /\ Lock(w)
    /\ Begin(w, "sub.record", Home[d], d, v, FALSE, {})
    /\ UNCHANGED store

SetDeliveryPoint(w) ==
    /\ step[w] = "sub.record"
    /\ record' = [record EXCEPT ![dev[w]] = value[w]]
    /\ Goto(w, "sub.script")
    /\ UNCHANGED <<deviceSet, index, typeSet, bound, locks, locals>>

AddToSubscriber(w) ==
    /\ step[w] = "sub.script"
    /\ SubscribeScript(sub[w], dev[w])
    /\ Goto(w, "sub.bind")
    /\ UNCHANGED <<record, bound, locks, locals>>

SetBinding(w) ==
    /\ step[w] = "sub.bind"
    /\ bound' = bound \cup {dev[w]}
    /\ Unlock(w)
    /\ Finish(w)
    /\ UNCHANGED <<record, deviceSet, index, typeSet>>

-----------------------------------------------------------------------------
(* /unsubscribe of one device (RemoveDeliveryPointFromService) or of all of *)
(* a subscriber's (RemoveAllDeliveryPointsFromService): the same two steps. *)

(* Defects: the write lock is not taken. *)
UnsubscribeUnlocked(w, d) ==
    /\ step[w] = "idle"
    /\ Begin(w, "unsub.script", Home[d], Nobody, NoRecord, FALSE, {d})
    /\ UNCHANGED <<store, locks>>

UnsubscribeAllUnlocked(w, s) ==
    /\ step[w] = "idle"
    /\ s \notin Patterns
    /\ deviceSet[s] # {}
    /\ Begin(w, "unsub.script", s, Nobody, NoRecord, TRUE, deviceSet[s])
    /\ UNCHANGED <<store, locks>>

Unsubscribe(w, d) ==
    /\ step[w] = "idle"
    /\ Lock(w)
    /\ Begin(w, "unsub.script", Home[d], Nobody, NoRecord, FALSE, {d})
    /\ UNCHANGED store

(* A pattern is refused; a subscriber with no devices is done at once. *)
UnsubscribeAll(w, s) ==
    /\ step[w] = "idle"
    /\ s \notin Patterns
    /\ deviceSet[s] # {}
    /\ Lock(w)
    /\ Begin(w, "unsub.script", s, Nobody, NoRecord, TRUE, deviceSet[s])
    /\ UNCHANGED store

RemoveFromSubscriber(w) ==
    /\ step[w] = "unsub.script"
    /\ \E d \in devs[w] :
          /\ UnsubscribeScript(sub[w], d)
          /\ dev' = [dev EXCEPT ![w] = d]
          /\ devs' = [devs EXCEPT ![w] = @ \ {d}]
    /\ Goto(w, "unsub.record")
    /\ UNCHANGED <<record, bound, locks, request, missing, pairs>>

RemoveRecord(w) ==
    /\ step[w] = "unsub.record"
    /\ record' = [record EXCEPT ![dev[w]] = NoRecord]
    /\ Goto(w, "unsub.bind")
    /\ UNCHANGED <<deviceSet, index, typeSet, bound, locks, locals>>

RemoveBinding(w) ==
    /\ step[w] = "unsub.bind"
    /\ bound' = bound \ {dev[w]}
    /\ \/ /\ devs[w] # {}
          /\ Goto(w, "unsub.script")
          /\ UNCHANGED <<locks, locals>>
       \/ /\ devs[w] = {}
          /\ Unlock(w)
          /\ Finish(w)
    /\ UNCHANGED <<record, deviceSet, index, typeSet>>

-----------------------------------------------------------------------------
(* /push: GetPushServiceProviderDeliveryPointPairs, which reads under RLock *)
(* and cleans up under Lock, and removeGoneDeliveryPoint.                   *)

Matched(s) == IF s \in Patterns THEN UNION {deviceSet[t] : t \in index}
              ELSE deviceSet[s]

(* The request may name some of the subscriber's devices only. *)
Push(w, s) ==
    /\ step[w] = "idle"
    /\ RLock(w)
    /\ \E D \in (SUBSET Matched(s)) \ {{}} :
          Begin(w, "push.read", s, Nobody, NoRecord, FALSE, D)
    /\ UNCHANGED store

(* A missing record is noted; the read lock goes after the last device. *)
GetDeliveryPoint(w) ==
    /\ step[w] = "push.read"
    /\ \E d \in devs[w] :
          /\ devs' = [devs EXCEPT ![w] = @ \ {d}]
          /\ missing' = [missing EXCEPT ![w] =
                            IF record[d] = NoRecord THEN @ \cup {d} ELSE @]
          /\ pairs' = [pairs EXCEPT ![w] = [@ EXCEPT ![d] = record[d]]]
    /\ IF devs'[w] # {}
       THEN UNCHANGED <<step, locks>>
       ELSE /\ Goto(w, IF missing'[w] # {} THEN "push.lock" ELSE "push.send")
            /\ RUnlock(w)
    /\ UNCHANGED <<store, request, dev>>

ForgetLock(w) ==
    /\ step[w] = "push.lock"
    /\ Lock(w)
    /\ Goto(w, "push.check")
    /\ UNCHANGED <<store, locals>>

(* On to the next orphan, or out of forgetOrphanedDeliveryPoints. *)
NextOrphan(w, d) ==
    /\ missing' = [missing EXCEPT ![w] = @ \ {d}]
    /\ IF missing'[w] # {}
       THEN Goto(w, "push.check") /\ UNCHANGED locks
       ELSE Goto(w, "push.send") /\ Unlock(w)

(* Re-subscribed since it was read: kept. *)
ForgetKeeps(w) ==
    /\ step[w] = "push.check"
    /\ \E d \in missing[w] : record[d] # NoRecord /\ NextOrphan(w, d)
    /\ UNCHANGED <<store, request, dev, devs, pairs>>

(* Defect: no second look at the record. *)
ForgetUnchecked(w) ==
    /\ step[w] = "push.check"
    /\ \E d \in missing[w] : dev' = [dev EXCEPT ![w] = d]
    /\ Goto(w, "push.script")
    /\ UNCHANGED <<store, locks, request, devs, missing, pairs>>

ForgetCheck(w) ==
    /\ step[w] = "push.check"
    /\ \E d \in missing[w] :
          /\ record[d] = NoRecord
          /\ dev' = [dev EXCEPT ![w] = d]
    /\ Goto(w, "push.script")
    /\ UNCHANGED <<store, locks, request, devs, missing, pairs>>

(* Defect: only the binding of the orphan is deleted. *)
ForgetBindingOnly(w) ==
    /\ step[w] = "push.script"
    /\ Goto(w, "push.bind")
    /\ UNCHANGED <<store, locks, locals>>

ForgetScript(w) ==
    /\ step[w] = "push.script"
    /\ UnsubscribeScript(sub[w], dev[w])
    /\ Goto(w, "push.bind")
    /\ UNCHANGED <<record, bound, locks, locals>>

ForgetBinding(w) ==
    /\ step[w] = "push.bind"
    /\ bound' = bound \ {dev[w]}
    /\ NextOrphan(w, dev[w])
    /\ UNCHANGED <<record, deviceSet, index, typeSet, request, dev, devs, pairs>>

(* A command of the cleanup fails: logged, and the cleanup goes on.  After *)
(* a failed script the binding is still deleted, if that succeeds.         *)
ForgetFails(w) ==
    /\ \/ /\ step[w] = "push.check"
          /\ \E d \in missing[w] : NextOrphan(w, d)
          /\ UNCHANGED bound
       \/ /\ step[w] = "push.script"
          /\ NextOrphan(w, dev[w])
          /\ bound' \in {bound, bound \ {dev[w]}}
       \/ /\ step[w] = "push.bind"
          /\ NextOrphan(w, dev[w])
          /\ UNCHANGED bound
    /\ UNCHANGED <<record, deviceSet, index, typeSet, request, dev, devs, pairs>>

Answered(w, d) == pairs' = [pairs EXCEPT ![w] = [@ EXCEPT ![d] = NoRecord]]

(* The push service says a device read above is gone: under the lock the    *)
(* record is read again, and compared with what the push read.              *)
DeviceGone(w, d) ==
    /\ step[w] = "push.send"
    /\ pairs[w][d] # NoRecord
    /\ record[d] = pairs[w][d]
    /\ Lock(w)
    /\ Goto(w, "gone.script")
    /\ dev' = [dev EXCEPT ![w] = d]
    /\ UNCHANGED <<store, request, devs, missing, pairs>>

(* errNotRemoved *)
DeviceChanged(w, d) ==
    /\ step[w] = "push.send"
    /\ pairs[w][d] # NoRecord
    /\ record[d] # pairs[w][d]
    /\ LockFree(w)
    /\ Answered(w, d)
    /\ UNCHANGED <<store, locks, step, request, dev, devs, missing>>

RemoveUnchanged(w) ==
    /\ step[w] = "gone.script"
    /\ RemoveUnchangedScript(FixedSub[dev[w]], dev[w], pairs[w][dev[w]])
    /\ Answered(w, dev[w])
    /\ Goto(w, "push.send")
    /\ Unlock(w)
    /\ UNCHANGED <<request, dev, devs, missing>>

PushDone(w) ==
    /\ step[w] = "push.send"
    /\ Finish(w)
    /\ UNCHANGED <<store, locks>>

-----------------------------------------------------------------------------
(* /subscriptions: GetSubscriptions, which takes no lock *)

Query(w, s) ==
    /\ step[w] = "idle"
    /\ s \notin Patterns
    /\ deviceSet[s] # {}
    /\ Begin(w, "query.mget", s, Nobody, NoRecord, FALSE, deviceSet[s])
    /\ UNCHANGED <<store, locks>>

QueryMGet(w) ==
    LET gone == {d \in devs[w] : record[d] = NoRecord} IN
    /\ step[w] = "query.mget"
    /\ \/ gone = {} /\ Finish(w)
       \/ /\ gone # {}
          /\ Goto(w, "query.clean")
          /\ devs' = [devs EXCEPT ![w] = gone]
          /\ UNCHANGED <<request, dev, missing, pairs>>
    /\ UNCHANGED <<store, locks>>

NextMissing(w, d) ==
    \/ devs[w] = {d} /\ Finish(w)
    \/ /\ devs[w] # {d}
       /\ devs' = [devs EXCEPT ![w] = @ \ {d}]
       /\ UNCHANGED <<step, request, dev, missing, pairs>>

QueryClean(w) ==
    /\ step[w] = "query.clean"
    /\ \E d \in devs[w] : UnsubscribeScript(sub[w], d) /\ NextMissing(w, d)
    /\ UNCHANGED <<record, bound, locks>>

(* The script fails: logged only. *)
QueryCleanFails(w) ==
    /\ step[w] = "query.clean"
    /\ \E d \in devs[w] : NextMissing(w, d)
    /\ UNCHANGED <<store, locks>>

-----------------------------------------------------------------------------
(* A redis command fails, or the process dies, and the request ends between *)
(* two commands: deferred unlocks run, or the locks vanish with the process. *)
Abort(w) ==
    /\ step[w] # "idle"
    /\ ReleaseAll(w)
    /\ Finish(w)
    /\ UNCHANGED store

Request(w) ==
    \/ \E d \in Devices, v \in Values : Subscribe(w, d, v)
    \/ \E d \in Devices : Unsubscribe(w, d)
    \/ \E s \in SubKeys : UnsubscribeAll(w, s)
    \/ \E s \in SubKeys : Push(w, s)
    \/ \E s \in SubKeys : Query(w, s)

Progress(w) ==
    \/ SetDeliveryPoint(w) \/ AddToSubscriber(w) \/ SetBinding(w)
    \/ RemoveFromSubscriber(w) \/ RemoveRecord(w) \/ RemoveBinding(w)
    \/ GetDeliveryPoint(w) \/ ForgetLock(w) \/ ForgetKeeps(w)
    \/ ForgetCheck(w) \/ ForgetScript(w) \/ ForgetBinding(w) \/ ForgetFails(w)
    \/ (\E d \in Devices : DeviceGone(w, d) \/ DeviceChanged(w, d))
    \/ RemoveUnchanged(w) \/ PushDone(w)
    \/ QueryMGet(w) \/ QueryClean(w) \/ QueryCleanFails(w)

Next == \E w \in Workers : Request(w) \/ Progress(w) \/ Abort(w)

Spec == Init /\ [][Next]_vars

(* The go runtime's mutexes are starvation free, and a goroutine with no   *)
(* lock to wait for keeps running.  No request is obliged to arrive.       *)
FairSpec == Spec /\ \A w \in Workers : SF_vars(Progress(w))

-----------------------------------------------------------------------------
(* Properties *)

(* A device name sits only in the device set of its own subscriber. *)
HomeOnly == \A s \in SubKeys : \A d \in deviceSet[s] : Home[d] = s

(***************************************************************************)
(* The two per-service indexes agree with the device sets, which are the   *)
(* source of truth, whatever the processes interleave and wherever they    *)
(* stop: a subscriber is in srv-2-sub exactly while it has a device, and   *)
(* srv.type-2-dp lists exactly the subscribed devices of the type.  A      *)
(* wildcard push and /stats read only the indexes.                         *)
(***************************************************************************)
IndexAgrees ==
    /\ HomeOnly
    /\ \A s \in SubKeys : s \in index <=> deviceSet[s] # {}
    /\ \A d \in Devices, t \in Types :
          d \in typeSet[t] <=> TypeOf[d] = t /\ d \in deviceSet[Home[d]]

(* A name in a subscriber's device set whose record is gone. *)
Orphan(d) == d \in deviceSet[Home[d]] /\ record[d] = NoRecord

(***************************************************************************)
(* With a single process no step makes an orphan: the order of the writes  *)
(* in /subscribe (record first) and /unsubscribe (record last), and the    *)
(* write lock around each, leave no window in which another request or a   *)
(* failure strands a name in a device set.                                 *)
(***************************************************************************)
NoNewOrphan == [][\A d \in Devices : Orphan(d)' => Orphan(d)]_vars

(* A finished subscription: in its device set, with a record, and with no   *)
(* /subscribe of it still on the way to the device set.                     *)
Live(d) ==
    /\ d \in deviceSet[Home[d]] /\ record[d] # NoRecord
    /\ \A w \in Workers : step[w] \in {"sub.record", "sub.script"}
                              => dev[w] # d

(* Device d loses a subscription that was whole. *)
TornDown(d) == Live(d) /\ d \notin deviceSet'[Home[d]]

(***************************************************************************)
(* The cleanup a /push does of the orphans it met never unsubscribes a     *)
(* device that has a record: one re-subscribed between the read pass and   *)
(* the cleanup is kept (forgetOrphanedDeliveryPoints re-checks).           *)
(***************************************************************************)
PushSparesLive ==
    [][\A w \in Workers :
          step[w] = "push.script" /\ step'[w] = "push.bind"
             => \A d \in Devices : ~TornDown(d)]_vars

(***************************************************************************)
(* The same promise for the cleanup /subscriptions does.                   *)
(***************************************************************************)
QuerySparesLive ==
    [][\A w \in Workers :
          step[w] = "query.clean" /\ devs'[w] # devs[w]
             => \A d \in Devices : ~TornDown(d)]_vars

(***************************************************************************)
(* A removal a push service asked for never takes out a device that was    *)
(* re-subscribed with other contents after the push read it, although the  *)
(* name is the same and another process can write between the GET and the  *)
(* script (RemoveDeliveryPointIfUnchanged).                                *)
(***************************************************************************)
GoneSparesResubscribed ==
    [][\A w \in Workers :
          step[w] = "gone.script" /\ step'[w] = "push.send"
             => \A d \in Devices :
                   TornDown(d) => d = dev[w] /\ record[d] = pairs[w][d]]_vars

(***************************************************************************)
(* A name whose record is gone is out of its device set once a push that   *)
(* met it has cleaned up, in a single process and for a push to a named    *)
(* subscriber; a wildcard push cleans up under the pattern instead.        *)
(***************************************************************************)
OrphansAreForgotten ==
    [][\A w \in Workers :
          step[w] = "push.bind" /\ step'[w] # "push.bind" /\ sub[w] \notin Patterns
             => \/ step'[w] = "idle"
                \/ \A d \in Devices : d = dev[w] => ~Orphan(d)']_vars

(***************************************************************************)
(* /unsubscribe of all devices leaves the subscriber with none when its    *)
(* last command is due, in a single process: no device subscribed while it *)
(* ran is left over.                                                       *)
(***************************************************************************)
AllMeansAll ==
    \A w \in Workers :
       step[w] = "unsub.bind" /\ all[w] /\ devs[w] = {}
          => deviceSet[sub[w]] = {}

(***************************************************************************)
(* Every request ends: the cleanup that waits for the write lock is never  *)
(* waiting for the read lock of its own request.                           *)
(***************************************************************************)
RequestsEnd == \A w \in Workers : step[w] # "idle" ~> step[w] = "idle"

=============================================================================
