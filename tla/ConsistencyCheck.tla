-------------------------- MODULE ConsistencyCheck --------------------------
(***************************************************************************)
(* The two requests that read a service's data as a whole while others     *)
(* write it: /checkdb (db/consistency_redis.go), which takes no lock, and  *)
(* /stats (db/subscriber_index.go), which takes the read lock.  Each redis *)
(* command is a step.  The subscriptions and the requests that write them  *)
(* are SubscriptionStore's; the provider records and the provider set are  *)
(* written here by another process's /addpsp and /rmpsp.                   *)
(*                                                                         *)
(* A walk of SCAN comes to every key at some moment of its own, in vain    *)
(* when the key is not there then, as in IndexRebuild.                     *)
(***************************************************************************)
EXTENDS SubscriptionStore, FiniteSets, Naturals

CONSTANTS
    Providers,    \* push service provider names
    TypeOfPsp,    \* the push service type of each
    FirstBound,   \* the provider that a device's binding names at first
    Unreadable,   \* providers whose record does not unserialize
    Counters,     \* devices with a delivery.point.counter key
    Reader,       \* the worker that /checkdb or /stats runs in
    MaxRequests,  \* bound on the requests that write, of each kind
    MaxTorn       \* bound on the devices, or providers, damaged at first

ASSUME CheckAssumption ==
    /\ TypeOfPsp \in [Providers -> Types]
    /\ FirstBound \in [Devices -> Providers]
    /\ Unreadable \subseteq Providers /\ Counters \subseteq Devices
    /\ Reader \in Workers /\ MaxRequests \in Nat /\ MaxTorn \in Nat
    /\ IsFiniteSet(Providers) /\ IsFiniteSet(SubKeys) /\ IsFiniteSet(Devices)
    /\ Providers \cap Types = {} /\ Devices \cap SubKeys = {}
    /\ Providers \cap (Devices \cup SubKeys) = {}
    /\ Nobody \notin Devices \cup SubKeys \cup Providers

VARIABLES
    boundTo,    \* what srv.dp-2-psp:<service>:<device> holds, for those bound
    chosen,     \* the provider each worker's /subscribe is to bind to
    psps,       \* push.service.provider:<name>
    pspSet,     \* srv-2-psp:<service>
    marker,     \* is subscriber.index:built there
    leaving,    \* providers whose /rmpsp is half done
    requests,   \* requests that write so far, by what they write
    phase,      \* where the reading request is
    left,       \* the keys its walk has yet to come to
    known,      \* the provider records it has loaded
    at,         \* the subscriber or device it is looking at
    names,      \* the device names it has read and not yet looked at
    found,      \* the problems of its report
    stats,      \* the numbers of its answer
    touched,    \* what has been written since it began (history)
    swept,      \* what /subscriptions took out of the indexes since (history)
    stays       \* problems that have been there since it began (history)

bindings == <<boundTo, chosen>>
providers == <<psps, pspSet, leaving>>
reading == <<phase, left, known, at, names, found, stats>>
history == <<touched, swept, stays>>
allVars == <<vars, bindings, providers, marker, requests, reading, history>>

Phases == {"idle", "providers", "services", "bindings", "sets", "indexed",
           "exists", "listed", "records", "owner", "marker", "subscribers",
           "devices", "types", "record", "counters", "done",
           "stats", "stats.providers", "stats.types", "stats.done"}

Kinds == {"duplicate_provider", "dangling_provider", "orphaned_provider",
          "stale_binding", "binding_disagrees", "orphaned_delivery_point",
          "unreferenced_delivery_point", "index_not_built",
          "missing_index_entry", "stale_index_entry", "leaked_counter"}

Written == {"subscriptions", "providers"}

Subjects == Providers \cup Types \cup Devices \cup SubKeys \cup {Nobody}

NoStats == [subscribers |-> 0, devices |-> [t \in Types |-> 0]]

CheckTypeOK ==
    /\ TypeOK
    /\ boundTo \in [Devices -> Providers]
    /\ chosen \in [Workers -> Providers \cup {Nobody}]
    /\ psps \subseteq Providers /\ pspSet \subseteq Providers
    /\ leaving \subseteq Providers
    /\ marker \in BOOLEAN /\ requests \in [Written -> 0 .. MaxRequests]
    /\ phase \in Phases
    /\ phase = "providers" => left \subseteq Providers
    /\ phase \in {"sets", "indexed", "exists", "listed", "subscribers", "devices"}
          => left \subseteq SubKeys
    /\ phase = "stats.types" => left \subseteq Types
    /\ phase \in {"bindings", "records", "owner", "types", "record"}
          => left \subseteq Devices
    /\ known \subseteq Providers
    /\ at \in Devices \cup SubKeys \cup {Nobody}
    /\ names \subseteq Devices
    /\ found \subseteq Kinds \X Subjects
    /\ stats \in [subscribers : Nat, devices : [Types -> Nat]]
    /\ touched \subseteq Subjects /\ swept \subseteq Devices \cup SubKeys
    /\ stays \subseteq Kinds \X Subjects

-----------------------------------------------------------------------------
(* What is wrong with the database at one moment *)

Readable == psps \ Unreadable

Kind(kind, subjects) == {kind} \X subjects

ProviderProblems ==
    Kind("dangling_provider", (pspSet \ Readable) \cup (psps \cap Unreadable))
    \cup Kind("orphaned_provider", Readable \ pspSet)
    \cup Kind("duplicate_provider",
              {t \in Types : \E p, q \in pspSet \cap Readable :
                                p # q /\ TypeOfPsp[p] = t /\ TypeOfPsp[q] = t})

(* The providers of a type, of those in P. *)
OfType(P, t) == {p \in P : TypeOfPsp[p] = t}

Disagrees(P, d) ==
    /\ boundTo[d] \in P
    /\ \E p \in P : OfType(P, TypeOf[d]) = {p} /\ p # boundTo[d]

BindingProblems ==
    Kind("stale_binding", {d \in bound : boundTo[d] \notin Readable})
    \cup Kind("binding_disagrees", {d \in bound : Disagrees(Readable, d)})

Subscribed == {d \in Devices : d \in deviceSet[Home[d]]}
HasRecord == {d \in Devices : record[d] # NoRecord}
InTypeSet == {d \in Devices : d \in typeSet[TypeOf[d]]}
WithDevices == {s \in SubKeys : deviceSet[s] # {}}

DeviceProblems ==
    Kind("orphaned_delivery_point", Subscribed \ HasRecord)
    \cup Kind("unreferenced_delivery_point",
              {d \in HasRecord : d \notin deviceSet[FixedSub[d]]})
    \cup Kind("leaked_counter", Counters)

IndexProblems ==
    Kind("index_not_built", IF marker THEN {} ELSE {Nobody})
    \cup Kind("missing_index_entry",
              (WithDevices \ index) \cup (Subscribed \ InTypeSet))
    \cup Kind("stale_index_entry",
              (index \ WithDevices) \cup (InTypeSet \ HasRecord))

Problems == ProviderProblems \cup BindingProblems \cup DeviceProblems
              \cup IndexProblems

(* Databases that earlier versions, interrupted writes and lost races left: *)
(* either the subscriptions are damaged or the providers.                   *)
CheckInit ==
    /\ \E S, T \in SUBSET Devices :
          /\ deviceSet = [s \in SubKeys |-> {d \in S : Home[d] = s}]
          /\ bound = S
          /\ index = {Home[d] : d \in T}
          /\ typeSet = [t \in Types |-> {d \in T : TypeOf[d] = t}]
          /\ \/ /\ record \in [Devices -> Records]
                /\ Cardinality((S \cup T \cup HasRecord)
                                  \ (S \cap T \cap HasRecord)) <= MaxTorn
                /\ psps = Providers /\ pspSet = Providers
                /\ marker = TRUE
             \/ /\ S = Devices /\ T = Devices
                /\ record \in [Devices -> Values]
                /\ psps \in SUBSET Providers /\ pspSet \in SUBSET Providers
                /\ Cardinality((psps \ pspSet) \cup (pspSet \ psps)) <= MaxTorn
                /\ marker = FALSE
    /\ LockInit
    /\ step = [w \in Workers |-> "idle"]
    /\ sub = [w \in Workers |-> Nobody]
    /\ value = [w \in Workers |-> NoRecord]
    /\ all = [w \in Workers |-> FALSE]
    /\ dev = [w \in Workers |-> Nobody]
    /\ devs = [w \in Workers |-> {}]
    /\ missing = [w \in Workers |-> {}]
    /\ pairs = [w \in Workers |-> Unread]
    /\ boundTo = FirstBound /\ chosen = [w \in Workers |-> Nobody]
    /\ leaving = {} /\ requests = [k \in Written |-> 0]
    /\ phase = "idle" /\ left = {} /\ known = {} /\ at = Nobody /\ names = {}
    /\ found = {} /\ stats = NoStats
    /\ touched = {} /\ swept = {} /\ stays = {}

-----------------------------------------------------------------------------
(* The writers *)

(* All that the database says of device d. *)
View(d) == <<record[d], d \in bound, deviceSet[Home[d]], Home[d] \in index,
             d \in typeSet[TypeOf[d]], boundTo[d]>>

(* The history of the request that is reading: X is written. *)
Touch(X) ==
    /\ touched' = IF phase = "idle" THEN {} ELSE touched \cup X
    /\ stays' = stays \cap Problems'

Asks(k) ==
    /\ requests[k] < MaxRequests
    /\ requests' = [requests EXCEPT ![k] = @ + 1]

(* resolveProviderForSubscribe, at the moment it reads the record of the    *)
(* provider p that it will choose: the set and the other records it reads   *)
(* before and after, and what makes it choose this one or refuse, are       *)
(* ProviderStore's.                                                         *)
Resolve(w) ==
    \E p \in OfType(Readable, TypeOf[dev'[w]]) : chosen' = [chosen EXCEPT ![w] = p]

(* What w's step takes out of the indexes, when it is a cleanup of          *)
(* /subscriptions, the only write that no lock keeps from a /stats.         *)
Sweep(w) ==
    swept' = IF phase # "idle" /\ step[w] = "query.clean"
             THEN swept \cup (index \ index')
                        \cup UNION {typeSet[t] \ typeSet'[t] : t \in Types}
             ELSE swept

(* A step of any request that SubscriptionStore has; the binding is written *)
(* with the last command of AddDeliveryPointToService.                      *)
WriteSubscription(w) ==
    /\ \/ /\ Asks("subscriptions") /\ Request(w)
          /\ IF step'[w] = "sub.record" THEN Resolve(w) ELSE UNCHANGED chosen
          /\ UNCHANGED boundTo
       \/ /\ Progress(w) /\ step[w] # "sub.bind"
          /\ UNCHANGED <<requests, bindings>>
       \/ /\ SetBinding(w)
          /\ boundTo' = [boundTo EXCEPT ![dev[w]] = chosen[w]]
          /\ chosen' = [chosen EXCEPT ![w] = Nobody]
          /\ UNCHANGED requests
       \/ /\ Abort(w)
          /\ chosen' = [chosen EXCEPT ![w] = Nobody]
          /\ UNCHANGED <<requests, boundTo>>
    /\ UNCHANGED <<providers, marker, reading>>
    /\ Touch({d \in Devices : View(d)' # View(d)})
    /\ Sweep(w)

(* /addpsp: the transaction, which drops the others of the type. *)
AddPsp(p) ==
    LET superseded == OfType(pspSet, TypeOfPsp[p]) \ {p} IN
    /\ Asks("providers") /\ p \notin Unreadable
    /\ psps' = (psps \ superseded) \cup {p}
    /\ pspSet' = (pspSet \ superseded) \cup {p}
    /\ UNCHANGED <<vars, bindings, leaving, marker, reading, swept>>
    /\ Touch({p} \cup superseded)

(* /rmpsp: out of the set first, then the record. *)
RemovePsp(p) ==
    /\ Asks("providers")
    /\ pspSet' = pspSet \ {p}
    /\ leaving' = leaving \cup {p}
    /\ UNCHANGED <<vars, bindings, psps, marker, reading, swept>>
    /\ Touch({p})

RemovePspRecord(p) ==
    /\ p \in leaving
    /\ psps' = psps \ {p}
    /\ leaving' = leaving \ {p}
    /\ UNCHANGED <<vars, bindings, pspSet, marker, requests, reading, swept>>
    /\ Touch({p})

-----------------------------------------------------------------------------
(* /checkdb *)

(* A step of the check reads one key and adds what it finds. *)
Reads(problems) ==
    /\ found' = found \cup problems
    /\ UNCHANGED <<vars, bindings, providers, marker, requests, stats, history>>

CheckConsistency ==
    /\ phase = "idle" /\ found = {}
    /\ phase' = "providers" /\ left' = Providers
    /\ touched' = {} /\ swept' = {} /\ stays' = Problems
    /\ UNCHANGED <<vars, bindings, providers, marker, requests, known, at, names, found,
                   stats>>

(* On to the next key of the walk, or to the next walk with its keys. *)
Walk(x, next, keys) ==
    /\ left' = IF left = {x} THEN keys ELSE left \ {x}
    /\ phase' = IF left = {x} THEN next ELSE phase

loadAllProviders(p) ==
    /\ phase = "providers" /\ p \in left
    /\ Walk(p, "services", {})
    /\ known' = known \cup ({p} \cap Readable)
    /\ Reads(Kind("dangling_provider", {p} \cap psps \cap Unreadable))
    /\ UNCHANGED <<at, names>>

(* Defect: the types that are shared are looked for among all records. *)
checkServiceProvidersByRecord ==
    /\ phase = "services"
    /\ phase' = "bindings" /\ left' = Devices
    /\ Reads(Kind("dangling_provider", pspSet \ known)
             \cup Kind("orphaned_provider", known \ pspSet)
             \cup Kind("duplicate_provider",
                       {t \in Types : Cardinality(OfType(known, t)) >= 2}))
    /\ UNCHANGED <<known, at, names>>

checkServiceProviders ==
    /\ phase = "services"
    /\ phase' = "bindings" /\ left' = Devices
    /\ Reads(Kind("dangling_provider", pspSet \ known)
             \cup Kind("orphaned_provider", known \ pspSet)
             \cup Kind("duplicate_provider",
                       {t \in Types :
                           Cardinality(OfType(pspSet \cap known, t)) >= 2}))
    /\ UNCHANGED <<known, at, names>>

checkDeliveryPointBindings(d) ==
    /\ phase = "bindings" /\ d \in left
    /\ Walk(d, "sets", SubKeys)
    /\ Reads(Kind("stale_binding",
                  {e \in {d} \cap bound : boundTo[e] \notin known})
             \cup Kind("binding_disagrees",
                       {e \in {d} \cap bound : Disagrees(known, e)}))
    /\ UNCHANGED <<known, at, names>>

(* checkSubscriberSets: SMEMBERS, then ZSCORE, then for each device EXISTS  *)
(* and SISMEMBER.                                                           *)
ReadSet(s) ==
    /\ phase = "sets" /\ s \in left
    /\ left' = left \ {s}
    /\ at' = s /\ names' = deviceSet[s]
    /\ phase' = IF deviceSet[s] = {} THEN "exists" ELSE "indexed"
    /\ Reads({})
    /\ UNCHANGED known

checkSubscriberIsIndexed ==
    /\ phase = "indexed" /\ phase' = "exists"
    /\ Reads(Kind("missing_index_entry", {at} \ index))
    /\ UNCHANGED <<left, known, at, names>>

CheckExists(d) ==
    /\ phase = "exists" /\ d \in names
    /\ at' = d /\ phase' = "listed"
    /\ Reads(Kind("orphaned_delivery_point", {d} \ HasRecord))
    /\ UNCHANGED <<left, known, names>>

CheckListed ==
    /\ phase = "listed" /\ phase' = "exists"
    /\ names' = names \ {at}
    /\ Reads(Kind("missing_index_entry", {at} \ InTypeSet))
    /\ UNCHANGED <<left, known, at>>

NextSet ==
    /\ phase = "exists" /\ names = {}
    /\ phase' = IF left = {} THEN "records" ELSE "sets"
    /\ left' = IF left = {} THEN Devices ELSE left
    /\ at' = Nobody
    /\ Reads({})
    /\ UNCHANGED <<known, names>>

(* checkDeliveryPointRecords: GET, then SISMEMBER. *)
ReadRecord(d) ==
    /\ phase = "records" /\ d \in left
    /\ left' = left \ {d}
    /\ at' = IF d \in HasRecord THEN d ELSE Nobody
    /\ phase' = "owner"
    /\ Reads({})
    /\ UNCHANGED <<known, names>>

CheckOwner ==
    /\ phase = "owner"
    /\ phase' = IF left = {} THEN "marker" ELSE "records"
    /\ at' = Nobody
    /\ Reads(Kind("unreferenced_delivery_point",
                  {d \in {at} \cap Devices : d \notin deviceSet[FixedSub[d]]}))
    /\ UNCHANGED <<left, known, names>>

checkSubscriberIndex ==
    /\ phase = "marker"
    /\ phase' = "subscribers" /\ left' = SubKeys
    /\ Reads(Kind("index_not_built", IF marker THEN {} ELSE {Nobody}))
    /\ UNCHANGED <<known, at, names>>

(* checkIndexedSubscribers: ZSCAN, then SCARD. *)
ScanSubscriber(s) ==
    /\ phase = "subscribers" /\ s \in left
    /\ left' = left \ {s}
    /\ at' = IF s \in index THEN s ELSE Nobody
    /\ phase' = "devices"
    /\ Reads({})
    /\ UNCHANGED <<known, names>>

(* Defect: the subscriber's devices are counted by its index entry. *)
CheckDevicesByIndex ==
    /\ phase = "devices"
    /\ phase' = IF left = {} THEN "types" ELSE "subscribers"
    /\ left' = IF left = {} THEN Devices ELSE left
    /\ at' = Nobody
    /\ Reads(Kind("stale_index_entry", ({at} \ {Nobody}) \ index))
    /\ UNCHANGED <<known, names>>

CheckDevices ==
    /\ phase = "devices"
    /\ phase' = IF left = {} THEN "types" ELSE "subscribers"
    /\ left' = IF left = {} THEN Devices ELSE left
    /\ at' = Nobody
    /\ Reads(Kind("stale_index_entry", ({at} \ {Nobody}) \ WithDevices))
    /\ UNCHANGED <<known, names>>

(* checkIndexedDeliveryPoints: SSCAN, then EXISTS. *)
ScanDevice(d) ==
    /\ phase = "types" /\ d \in left
    /\ left' = left \ {d}
    /\ at' = IF d \in InTypeSet THEN d ELSE Nobody
    /\ phase' = "record"
    /\ Reads({})
    /\ UNCHANGED <<known, names>>

CheckRecord ==
    /\ phase = "record"
    /\ phase' = IF left = {} THEN "counters" ELSE "types"
    /\ at' = Nobody
    /\ Reads(Kind("stale_index_entry", ({at} \ {Nobody}) \ HasRecord))
    /\ UNCHANGED <<left, known, names>>

(* Nothing writes counters, so their walk is one step. *)
checkCounters ==
    /\ phase = "counters" /\ phase' = "done"
    /\ Reads(Kind("leaked_counter", Counters))
    /\ UNCHANGED <<left, known, at, names>>

-----------------------------------------------------------------------------
(* /stats *)

(* Defect: the read lock is not taken. *)
SubscriberStatsUnlocked ==
    /\ phase = "idle" /\ found = {}
    /\ marker
    /\ phase' = "stats"
    /\ touched' = {} /\ swept' = {} /\ stays' = Problems
    /\ UNCHANGED <<vars, bindings, providers, marker, requests, left, known, at, names,
                   found, stats>>

SubscriberStats ==
    /\ phase = "idle" /\ found = {}
    /\ marker                     \* else ErrSubscriberIndexNotBuilt
    /\ RLock(Reader)
    /\ phase' = "stats"
    /\ touched' = {} /\ swept' = {} /\ stays' = Problems
    /\ UNCHANGED <<store, step, locals, bindings, providers, marker, requests, left,
                   known, at, names, found, stats>>

(* statsOfService: ZCARD *)
CountSubscribers ==
    /\ phase = "stats"
    /\ phase' = "stats.providers" /\ left' = {}
    /\ stats' = [stats EXCEPT !.subscribers = Cardinality(index)]
    /\ UNCHANGED <<vars, bindings, providers, marker, requests, known, at, names, found,
                   history>>

(* pushServiceTypesOfService: SMEMBERS, and a GET for each that names the   *)
(* type; a provider without a record counts for nothing.                    *)
TypesToCount ==
    /\ phase = "stats.providers"
    /\ left' = {TypeOfPsp[p] : p \in pspSet \cap Readable}
    /\ phase' = "stats.types"
    /\ UNCHANGED <<vars, bindings, providers, marker, requests, known, at, names, found,
                   stats, history>>

(* SCARD for each type *)
CountDevices(t) ==
    /\ phase = "stats.types" /\ t \in left
    /\ left' = left \ {t}
    /\ known' = known \cup OfType(Providers, t)
    /\ stats' = [stats EXCEPT !.devices[t] = Cardinality(typeSet[t])]
    /\ UNCHANGED <<vars, bindings, providers, marker, requests, phase, at, names, found,
                   history>>

AnswerStats ==
    /\ phase = "stats.types" /\ left = {}
    /\ phase' = "stats.done"
    /\ UNCHANGED <<vars, bindings, providers, marker, requests, left, known, at, names,
                   found, stats, history>>

(* The answer goes out; a deferred unlock gives the read lock back. *)
Answer ==
    /\ phase \in {"done", "stats.done"}
    /\ phase' = "idle" /\ left' = {} /\ known' = {} /\ at' = Nobody
    /\ names' = {} /\ found' = {} /\ stats' = NoStats
    /\ ReleaseAll(Reader)
    /\ touched' = {} /\ swept' = {} /\ stays' = {}
    /\ UNCHANGED <<store, step, locals, bindings, providers, marker, requests>>

Checking ==
    \/ CheckConsistency \/ checkServiceProviders \/ checkSubscriberIsIndexed
    \/ CheckListed \/ NextSet \/ CheckOwner \/ checkSubscriberIndex
    \/ CheckDevices \/ CheckRecord \/ checkCounters
    \/ \E p \in Providers : loadAllProviders(p)
    \/ \E s \in SubKeys : ReadSet(s) \/ ScanSubscriber(s)
    \/ \E d \in Devices : \/ checkDeliveryPointBindings(d) \/ CheckExists(d)
                          \/ ReadRecord(d) \/ ScanDevice(d)

Counting ==
    \/ SubscriberStats \/ CountSubscribers \/ TypesToCount \/ AnswerStats
    \/ \E t \in Types : CountDevices(t)

CheckNext ==
    \/ Checking \/ Counting \/ Answer
    \/ \E w \in Workers \ {Reader} : WriteSubscription(w)
    \/ \E p \in Providers : AddPsp(p) \/ RemovePsp(p) \/ RemovePspRecord(p)

CheckSpec == CheckInit /\ [][CheckNext]_allVars

-----------------------------------------------------------------------------
(* Properties *)

(* What a finding is about: all that is read to come to it. *)
Concerns(kind, x) ==
    {x} \cup {p \in Providers : kind = "duplicate_provider" /\ TypeOfPsp[p] = x}
        \cup {p \in Providers : /\ kind \in {"stale_binding", "binding_disagrees"}
                                /\ x \in Devices
                                /\ p = boundTo[x] \/ TypeOfPsp[p] = TypeOf[x]}
        \cup {d \in Devices : /\ kind \in {"missing_index_entry", "stale_index_entry"}
                              /\ Home[d] = x}

(***************************************************************************)
(* The report of /checkdb is exact about everything that was not written   *)
(* while it ran, although it takes no lock and reads in many steps: what   *)
(* it names is wrong and what is wrong is named.                           *)
(***************************************************************************)
ExactWhereQuiet ==
    phase = "done" =>
        \A f \in found \cup Problems :
            Concerns(f[1], f[2]) \cap touched = {} =>
                (f \in found <=> f \in Problems)

(***************************************************************************)
(* Also of what was written while it ran, /checkdb names every problem     *)
(* that was there throughout, with two exceptions.  A binding that         *)
(* disagrees, first with one provider of the type and then with the one    *)
(* that took its place: the check that has come to both takes them for a   *)
(* tie.  And a binding that is stale at first because its provider is not  *)
(* there, and then, after a /subscribe wrote it again                      *)
(* (AddDeliveryPointToService), because the new one has been removed since *)
(* the check loaded it.                                                    *)
(***************************************************************************)
FindsWhatStays ==
    phase = "done" =>
        \A f \in stays \ found :
            \/ /\ f[1] = "binding_disagrees"
               /\ touched \cap OfType(Providers, TypeOf[f[2]]) # {}
            \/ /\ f[1] = "stale_binding" /\ f[2] \in touched
               /\ touched \cap known # {}

(***************************************************************************)
(* The numbers of /stats, in a single process and where the index agrees   *)
(* with the device sets, are between what is there when it answers and     *)
(* that with what the cleanup of a /subscriptions, which takes no lock,    *)
(* has taken out of the index since it began; without one they are exact,  *)
(* whatever other writes are waiting or under way.                         *)
(***************************************************************************)
StatsAddUp ==
    phase = "stats.done" /\ IndexAgrees =>
        /\ stats.subscribers \in Cardinality(WithDevices) ..
              Cardinality(WithDevices \cup (swept \cap SubKeys))
        /\ \A p \in known :
              LET Typed(D) == {d \in Devices \cap D : TypeOf[d] = TypeOfPsp[p]}
              IN  stats.devices[TypeOfPsp[p]] \in
                     Cardinality(Typed(Subscribed)) ..
                        Cardinality(Typed(Subscribed \cup swept))
=============================================================================
