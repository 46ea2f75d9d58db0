----------------------- MODULE ConsistencyCheckProofs -----------------------
(***************************************************************************)
(* What the answers of /checkdb and /stats are worth although others write *)
(* while they read, for any number of workers, subscribers, devices and    *)
(* providers and for any number of writes.                                 *)
(***************************************************************************)
EXTENDS ConsistencyCheck, FiniteSetTheorems, TLAPS

-----------------------------------------------------------------------------
(* How far a check has come *)

Ended == {"counters", "done"}
FromTypes == {"types", "record"} \cup Ended
FromIndex == {"subscribers", "devices"} \cup FromTypes
FromMarker == {"marker"} \cup FromIndex
FromRecords == {"records", "owner"} \cup FromMarker
InSets == {"sets", "indexed", "exists", "listed"}
FromSets == InSets \cup FromRecords
FromBindings == {"bindings"} \cup FromSets
FromServices == {"services"} \cup FromBindings
CheckPhases == {"providers"} \cup FromServices
CountPhases == {"stats", "stats.providers", "stats.types", "stats.done"}

(* A walk that goes on in the phases of here has come to x. *)
ComeTo(here, after, x) == phase \in after \/ (phase \in here /\ x \notin left)

Loaded(p) == ComeTo({"providers"}, FromServices, p)
BindingRead(d) == ComeTo({"bindings"}, FromSets, d)
SetRead(s) == ComeTo(InSets, FromRecords, s)
RecordRead(d) == ComeTo({"records", "owner"}, FromMarker, d)
EntryRead(s) == ComeTo({"subscribers", "devices"}, FromTypes, s)
ListingRead(d) == ComeTo({"types", "record"}, Ended, d)

-----------------------------------------------------------------------------
(* The invariant *)

DevicesOf(s) == {d \in Devices : Home[d] = s}

(* A request's locals are set at the steps that use them. *)
LocalsOK ==
    \A w \in Workers :
       /\ step[w] # "idle" => sub[w] \in SubKeys
       /\ step[w] \in {"sub.record", "sub.script", "sub.bind", "unsub.record",
                        "unsub.bind", "push.script", "push.bind", "gone.script"}
             => dev[w] \in Devices
       /\ step[w] \in {"sub.record", "sub.script", "sub.bind"}
             => sub[w] = Home[dev[w]] /\ value[w] \in Values

(* A /subscribe is to bind its device to a provider of the device's type. *)
SubSteps == {"sub.record", "sub.script", "sub.bind"}

ChosenOK ==
    \A w \in Workers : step[w] \in SubSteps =>
       chosen[w] \in OfType(Providers, TypeOf[dev[w]])

(* The steps taken under dblock.Lock. *)
WriteSteps == { "sub.record", "sub.script", "sub.bind",
                "unsub.script", "unsub.record", "unsub.bind",
                "push.check", "push.script", "push.bind", "gone.script" }

LocksOK ==
    /\ step[Reader] = "idle"
    /\ \A w \in Workers : step[w] \in WriteSteps => writer[ProcOf[w]] = w
    /\ \A p \in Procs : writer[p] = Nobody \/ readers[p] = {}
    /\ phase \in CountPhases => Reader \in readers[ProcOf[Reader]]

(* Nothing is stored under a subscriber without devices of its own. *)
HomesOK == HomeOnly /\ \A s \in index : DevicesOf(s) # {}

(* What the reading request has at hand. *)
ReadOK ==
    /\ phase \in {"idle", "stats", "stats.providers"} => known = {}
    /\ phase \in CheckPhases =>
          known \cap Unreadable = {} /\ \A p \in known : Loaded(p)
    /\ phase \notin {"indexed", "exists", "listed"} => names = {}
    /\ phase = "listed" => at \in names
    /\ phase = "indexed" => at \in SubKeys
    /\ phase \in {"owner", "record"} => at \in Devices \cup {Nobody}
    /\ phase = "devices" => at \in SubKeys \cup {Nobody}

(* What the store and the requests on it keep. *)
StoreOK == TypeOK /\ LocalsOK /\ HomesOK

BaseInv == CheckTypeOK /\ StoreOK /\ LocksOK /\ ChosenOK /\ ReadOK

Quiet(kind, x) == Concerns(kind, x) \cap touched = {}

(* What was read is still so of all that has not been written. *)
KnownTrue ==
    \A p \in Providers \ touched : Loaded(p) => (p \in known <=> p \in Readable)

NamesTrue == phase \in CheckPhases => names \ touched \subseteq Subscribed

AtTrue ==
    /\ phase = "indexed" /\ DevicesOf(at) \cap touched = {} => at \in WithDevices
    /\ phase = "owner" /\ at \in Devices \ touched => at \in HasRecord
    /\ phase = "devices" /\ at \in SubKeys /\ DevicesOf(at) \cap touched = {}
          => at \in index
    /\ phase = "record" /\ at \in Devices \ touched => at \in InTypeSet

FoundTrue ==
    phase \in CheckPhases => \A f \in found : Quiet(f[1], f[2]) => f \in Problems

(* The problems that have stayed are there, with all that nobody touched. *)
StaysTrue ==
    /\ stays \subseteq Problems
    /\ phase \in CheckPhases => \A f \in Problems : Quiet(f[1], f[2]) => f \in stays

Stays(kind, x) == <<kind, x>> \in stays
Named(kind, x) == <<kind, x>> \in found

(* A problem that stays is named once the check has passed it, or the check *)
(* has at hand what it takes to name it.                                    *)
StayDangling ==
    \A p \in Providers : Stays("dangling_provider", p) =>
       /\ Loaded(p) => /\ p \notin known
                       /\ p \in psps \cap Unreadable => Named("dangling_provider", p)
       /\ phase \in FromBindings => Named("dangling_provider", p)

StayOrphaned ==
    \A p \in Providers : Stays("orphaned_provider", p) =>
       /\ Loaded(p) => p \in known
       /\ phase \in FromBindings => Named("orphaned_provider", p)

StayDuplicate ==
    \A t \in Types : Stays("duplicate_provider", t) =>
       /\ \A p \in OfType(pspSet \cap Readable, t) : Loaded(p) => p \in known
       /\ phase \in FromBindings => Named("duplicate_provider", t)

StayStaleBinding ==
    \A d \in Devices : Stays("stale_binding", d) =>
       /\ d \notin touched /\ Loaded(boundTo[d]) => boundTo[d] \notin known
       /\ BindingRead(d) => \/ Named("stale_binding", d)
                            \/ d \in touched /\ touched \cap known # {}

StayDisagrees ==
    \A d \in Devices : Stays("binding_disagrees", d) =>
       /\ Loaded(boundTo[d]) => boundTo[d] \in known
       /\ BindingRead(d) => \/ Named("binding_disagrees", d)
                            \/ touched \cap OfType(Providers, TypeOf[d]) # {}

StayOrphan ==
    \A d \in Devices : Stays("orphaned_delivery_point", d) /\ SetRead(Home[d]) =>
       /\ Named("orphaned_delivery_point", d) \/ d \in names
       /\ phase = "listed" /\ at = d => Named("orphaned_delivery_point", d)

StayUnlisted ==
    /\ \A s \in SubKeys : Stays("missing_index_entry", s) /\ SetRead(s) =>
          Named("missing_index_entry", s) \/ (phase = "indexed" /\ at = s)
    /\ \A d \in Devices : Stays("missing_index_entry", d) /\ SetRead(Home[d]) =>
          Named("missing_index_entry", d) \/ d \in names

StayUnreferenced ==
    \A d \in Devices : Stays("unreferenced_delivery_point", d) /\ RecordRead(d) =>
       Named("unreferenced_delivery_point", d) \/ (phase = "owner" /\ at = d)

StayStaleEntry ==
    /\ \A s \in SubKeys : Stays("stale_index_entry", s) /\ EntryRead(s) =>
          Named("stale_index_entry", s) \/ (phase = "devices" /\ at = s)
    /\ \A d \in Devices : Stays("stale_index_entry", d) /\ ListingRead(d) =>
          Named("stale_index_entry", d) \/ (phase = "record" /\ at = d)

StayRest ==
    /\ Stays("index_not_built", Nobody) /\ phase \in FromIndex =>
          Named("index_not_built", Nobody)
    /\ \A d \in Devices : Stays("leaked_counter", d) /\ phase = "done" =>
          Named("leaked_counter", d)

ReadTrue == KnownTrue /\ NamesTrue /\ AtTrue /\ FoundTrue /\ StaysTrue

StayInv ==
    /\ StayDangling /\ StayOrphaned /\ StayDuplicate /\ StayStaleBinding
    /\ StayDisagrees /\ StayOrphan /\ StayUnlisted /\ StayUnreferenced
    /\ StayStaleEntry /\ StayRest

(* The numbers of /stats are those of the indexes, or of the indexes with   *)
(* some of what has been swept out of them.                                 *)
StatsInv ==
    /\ phase \in {"stats.providers", "stats.types", "stats.done"} =>
          stats.subscribers \in Cardinality(index) ..
             Cardinality(index \cup (swept \cap SubKeys))
    /\ phase \in CountPhases => \A p \in known :
          stats.devices[TypeOfPsp[p]] \in Cardinality(typeSet[TypeOfPsp[p]]) ..
             Cardinality(typeSet[TypeOfPsp[p]]
                            \cup {d \in swept \cap Devices : TypeOf[d] = TypeOfPsp[p]})

-----------------------------------------------------------------------------
(* What is stored, and where *)

LEMMA InitBase == CheckInit => BaseInv
<1> SUFFICES ASSUME CheckInit PROVE BaseInv
  OBVIOUS
<1> USE StoreAssumption, CheckAssumption
<1>1. PICK S \in SUBSET Devices, T \in SUBSET Devices :
         /\ deviceSet = [s \in SubKeys |-> {d \in S : Home[d] = s}]
         /\ bound = S
         /\ index = {Home[d] : d \in T}
         /\ typeSet = [t \in Types |-> {d \in T : TypeOf[d] = t}]
         /\ \/ /\ record \in [Devices -> Records]
               /\ psps = Providers /\ pspSet = Providers /\ marker = TRUE
            \/ /\ record \in [Devices -> Values]
               /\ psps \in SUBSET Providers /\ pspSet \in SUBSET Providers
               /\ marker = FALSE
  BY DEF CheckInit
<1>2. record \in [Devices -> Records] /\ psps \subseteq Providers /\ pspSet \subseteq Providers
  BY <1>1 DEF Records
<1>3. marker \in BOOLEAN
  BY <1>1
<1>4. TypeOK
  BY <1>1, <1>2 DEF CheckInit, LockInit, TypeOK, Records, Steps, Unread
<1>5. CheckTypeOK
  BY <1>2, <1>3, <1>4 DEF CheckInit, CheckTypeOK, Phases, NoStats
<1>6. LocalsOK /\ LocksOK /\ ChosenOK
  BY DEF CheckInit, LockInit, LocalsOK, LocksOK, ChosenOK, CountPhases, WriteSteps, SubSteps
<1>7. HomesOK
  BY <1>1 DEF HomesOK, HomeOnly, DevicesOf
<1>8. ReadOK
  BY DEF CheckInit, ReadOK, CheckPhases, FromServices, FromBindings, FromSets, InSets,
     FromRecords, FromMarker, FromIndex, FromTypes, Ended
<1> QED BY <1>4, <1>5, <1>6, <1>7, <1>8 DEF BaseInv, StoreOK

(* A worker's next step of a request. *)
Storing(w) == Request(w) \/ Progress(w) \/ Abort(w)

(* A step that writes none of the three structures. *)
LEMMA HomesUntouched ==
    ASSUME HomesOK, UNCHANGED <<deviceSet, index, typeSet>>
    PROVE  HomesOK'
BY DEF HomesOK, HomeOnly

LEMMA UnsubscribeKeepsHomes ==
    ASSUME TypeOK, HomesOK, NEW s \in SubKeys, NEW d \in Devices,
           UnsubscribeScript(s, d)
    PROVE  /\ deviceSet' \in [SubKeys -> SUBSET Devices]
           /\ index' \subseteq SubKeys
           /\ typeSet' \in [Types -> SUBSET Devices]
           /\ HomesOK'
<1> USE StoreAssumption DEF TypeOK
<1>1. /\ deviceSet' \in [SubKeys -> SUBSET Devices]
      /\ index' \subseteq SubKeys
      /\ typeSet' \in [Types -> SUBSET Devices]
  BY DEF UnsubscribeScript
<1>2. HomesOK'
  BY DEF UnsubscribeScript, HomesOK, HomeOnly
<1> QED BY <1>1, <1>2

LEMMA SubscribeKeepsHomes ==
    ASSUME TypeOK, HomesOK, NEW d \in Devices, SubscribeScript(Home[d], d)
    PROVE  /\ deviceSet' \in [SubKeys -> SUBSET Devices]
           /\ index' \subseteq SubKeys
           /\ typeSet' \in [Types -> SUBSET Devices]
           /\ HomesOK'
<1> USE StoreAssumption DEF TypeOK
<1>1. /\ deviceSet' \in [SubKeys -> SUBSET Devices]
      /\ index' \subseteq SubKeys
      /\ typeSet' \in [Types -> SUBSET Devices]
  BY DEF SubscribeScript
<1>2. HomesOK'
  BY DEF SubscribeScript, HomesOK, HomeOnly, DevicesOf
<1> QED BY <1>1, <1>2

(* Taking and releasing dblock keeps the types of the lock variables. *)
LEMMA LockTypes ==
    ASSUME TypeOK, NEW w \in Workers,
           Lock(w) \/ RLock(w) \/ Unlock(w) \/ RUnlock(w) \/ UNCHANGED locks
    PROVE  /\ writer' \in [Procs -> Workers \cup {Nobody}]
           /\ readers' \in [Procs -> SUBSET Workers]
<1> USE StoreAssumption DEF TypeOK
<1>1. CASE Lock(w)
  BY <1>1 DEF Lock
<1>2. CASE RLock(w)
  BY <1>2 DEF RLock
<1>3. CASE Unlock(w)
  BY <1>3 DEF Unlock
<1>4. CASE RUnlock(w)
  BY <1>4 DEF RUnlock
<1>5. CASE UNCHANGED locks
  BY <1>5 DEF locks
<1> QED BY <1>1, <1>2, <1>3, <1>4, <1>5

(* A request that ends leaves well-formed locals. *)
LEMMA FinishOK ==
    ASSUME TypeOK, LocalsOK, NEW w \in Workers, Finish(w)
    PROVE  /\ step' \in [Workers -> Steps]
           /\ sub' \in [Workers -> SubKeys \cup {Nobody}]
           /\ value' \in [Workers -> Records]
           /\ all' \in [Workers -> BOOLEAN]
           /\ dev' \in [Workers -> Devices \cup {Nobody}]
           /\ devs' \in [Workers -> SUBSET Devices]
           /\ missing' \in [Workers -> SUBSET Devices]
           /\ pairs' \in [Workers -> [Devices -> Records]]
           /\ LocalsOK'
BY DEF Finish, Begin, Goto, TypeOK, LocalsOK, Steps, Records, Unread

(* Every step of a request keeps StoreOK: one step of the proof per action. *)
LEMMA StoringKeeps ==
    ASSUME StoreOK, NEW w \in Workers, Storing(w)
    PROVE  StoreOK'
<1> USE StoreAssumption DEF Goto
<1>0. TypeOK /\ LocalsOK /\ HomesOK
  BY DEF StoreOK
<1>1. ASSUME NEW d \in Devices, NEW v \in Values, Subscribe(w, d, v)
      PROVE  StoreOK'
  <2>1. HomesOK'
    BY <1>0, <1>1, HomesUntouched DEF Subscribe, store
  <2>2. TypeOK'
    BY <1>0, <1>1, LockTypes
       DEF Subscribe, Begin, TypeOK, LocalsOK, Steps, Records, Unread,
       locks, locals, request, store
  <2>3. LocalsOK'
    BY <1>0, <1>1 DEF Subscribe, Begin, TypeOK, LocalsOK, locals, request, store
  <2> QED BY <2>1, <2>2, <2>3 DEF StoreOK
<1>2. ASSUME SetDeliveryPoint(w)
      PROVE  StoreOK'
  <2>1. HomesOK'
    BY <1>0, <1>2, HomesUntouched DEF SetDeliveryPoint
  <2>2. TypeOK'
    BY <1>0, <1>2, LockTypes
       DEF SetDeliveryPoint, TypeOK, LocalsOK, Steps, Records, Unread,
       locks, locals, request
  <2>3. LocalsOK'
    BY <1>0, <1>2 DEF SetDeliveryPoint, TypeOK, LocalsOK, locals, request
  <2> QED BY <2>1, <2>2, <2>3 DEF StoreOK
<1>3. ASSUME AddToSubscriber(w)
      PROVE  StoreOK'
  <2>1. dev[w] \in Devices /\ SubscribeScript(Home[dev[w]], dev[w])
    BY <1>0, <1>3 DEF AddToSubscriber, LocalsOK
  <2>2. /\ deviceSet' \in [SubKeys -> SUBSET Devices]
        /\ index' \subseteq SubKeys
        /\ typeSet' \in [Types -> SUBSET Devices]
        /\ HomesOK'
    BY <1>0, <2>1, SubscribeKeepsHomes
  <2>3. TypeOK' /\ LocalsOK'
    BY <1>0, <1>3, <2>2 DEF AddToSubscriber, TypeOK, LocalsOK, Steps, locks, locals
  <2> QED BY <2>2, <2>3 DEF StoreOK
<1>4. ASSUME SetBinding(w)
      PROVE  StoreOK'
  <2>1. HomesOK'
    BY <1>0, <1>4, HomesUntouched DEF SetBinding
  <2>2. TypeOK'
    BY <1>0, <1>4, LockTypes
       DEF SetBinding, Finish, Begin, TypeOK, LocalsOK, Steps, Records, Unread,
       locks, locals, request
  <2>3. LocalsOK'
    BY <1>0, <1>4 DEF SetBinding, Finish, Begin, TypeOK, LocalsOK, locals, request
  <2> QED BY <2>1, <2>2, <2>3 DEF StoreOK
<1>5. ASSUME NEW d \in Devices, Unsubscribe(w, d)
      PROVE  StoreOK'
  <2>1. HomesOK'
    BY <1>0, <1>5, HomesUntouched DEF Unsubscribe, store
  <2>2. TypeOK'
    BY <1>0, <1>5, LockTypes
       DEF Unsubscribe, Begin, TypeOK, LocalsOK, Steps, Records, Unread,
       locks, locals, request, store
  <2>3. LocalsOK'
    BY <1>0, <1>5 DEF Unsubscribe, Begin, TypeOK, LocalsOK, locals, request, store
  <2> QED BY <2>1, <2>2, <2>3 DEF StoreOK
<1>6. ASSUME NEW s \in SubKeys, UnsubscribeAll(w, s)
      PROVE  StoreOK'
  <2>1. HomesOK'
    BY <1>0, <1>6, HomesUntouched DEF UnsubscribeAll, store
  <2>2. TypeOK'
    BY <1>0, <1>6, LockTypes
       DEF UnsubscribeAll, Begin, TypeOK, LocalsOK, Steps, Records, Unread,
       locks, locals, request, store
  <2>3. LocalsOK'
    BY <1>0, <1>6 DEF UnsubscribeAll, Begin, TypeOK, LocalsOK, locals, request, store
  <2> QED BY <2>1, <2>2, <2>3 DEF StoreOK
<1>7. ASSUME RemoveFromSubscriber(w)
      PROVE  StoreOK'
  <2>1. PICK d \in devs[w] : UnsubscribeScript(sub[w], d)
    BY <1>7 DEF RemoveFromSubscriber
  <2>2. d \in Devices /\ sub[w] \in SubKeys
    BY <1>0, <1>7 DEF RemoveFromSubscriber, LocalsOK, TypeOK
  <2>3. /\ deviceSet' \in [SubKeys -> SUBSET Devices]
        /\ index' \subseteq SubKeys
        /\ typeSet' \in [Types -> SUBSET Devices]
        /\ HomesOK'
    BY <1>0, <2>1, <2>2, UnsubscribeKeepsHomes
  <2>4. TypeOK' /\ LocalsOK'
    BY <1>0, <1>7, <2>3
       DEF RemoveFromSubscriber, TypeOK, LocalsOK, Steps, Records, Unread,
       locks, locals, request
  <2> QED BY <2>3, <2>4 DEF StoreOK
<1>8. ASSUME RemoveRecord(w)
      PROVE  StoreOK'
  <2>1. HomesOK'
    BY <1>0, <1>8, HomesUntouched DEF RemoveRecord
  <2>2. TypeOK'
    BY <1>0, <1>8, LockTypes
       DEF RemoveRecord, TypeOK, LocalsOK, Steps, Records, Unread,
       locks, locals, request
  <2>3. LocalsOK'
    BY <1>0, <1>8 DEF RemoveRecord, TypeOK, LocalsOK, locals, request
  <2> QED BY <2>1, <2>2, <2>3 DEF StoreOK
<1>9. ASSUME RemoveBinding(w)
      PROVE  StoreOK'
  <2>1. HomesOK'
    BY <1>0, <1>9, HomesUntouched DEF RemoveBinding
  <2>2. /\ record' \in [Devices -> Records] /\ bound' \subseteq Devices
        /\ UNCHANGED <<deviceSet, index, typeSet>>
    BY <1>0, <1>9 DEF RemoveBinding, TypeOK
  <2>3. CASE devs[w] # {}
    <3>1. /\ step[w] = "unsub.bind" /\ step' = [step EXCEPT ![w] = "unsub.script"]
          /\ UNCHANGED <<locks, locals>>
      BY <1>9, <2>3 DEF RemoveBinding, Finish, Begin
    <3>2. TypeOK'
      BY <1>0, <2>2, <3>1 DEF TypeOK, Steps, locks, locals
    <3>3. LocalsOK'
      BY <1>0, <3>1 DEF TypeOK, LocalsOK, locals
    <3> QED BY <2>1, <3>2, <3>3 DEF StoreOK
  <2>4. CASE devs[w] = {}
    <3>1. Unlock(w) /\ Finish(w)
      BY <1>9, <2>4 DEF RemoveBinding
    <3> QED BY <1>0, <2>1, <2>2, <3>1, LockTypes, FinishOK DEF StoreOK, TypeOK
  <2> QED BY <2>3, <2>4
<1>10. ASSUME NEW s \in SubKeys, Push(w, s)
      PROVE  StoreOK'
  <2>1. HomesOK'
    BY <1>0, <1>10, HomesUntouched DEF Push, store
  <2>2. TypeOK'
    BY <1>0, <1>10, LockTypes
       DEF Push, Matched, Begin, TypeOK, LocalsOK, Steps, Records, Unread,
       locks, locals, request, store
  <2>3. LocalsOK'
    BY <1>0, <1>10 DEF Push, Matched, Begin, TypeOK, LocalsOK, locals, request, store
  <2> QED BY <2>1, <2>2, <2>3 DEF StoreOK
<1>11. ASSUME GetDeliveryPoint(w)
      PROVE  StoreOK'
  <2>1. HomesOK'
    BY <1>0, <1>11, HomesUntouched DEF GetDeliveryPoint, store
  <2>a. /\ writer' \in [Procs -> Workers \cup {Nobody}]
        /\ readers' \in [Procs -> SUBSET Workers]
    BY <1>0, <1>11, LockTypes DEF GetDeliveryPoint
  <2>b. /\ step' \in [Workers -> Steps]
        /\ UNCHANGED <<store, request, dev>>
    BY <1>0, <1>11 DEF GetDeliveryPoint, TypeOK, Steps
  <2>c. PICK d \in devs[w] :
          /\ devs' = [devs EXCEPT ![w] = @ \ {d}]
          /\ missing' = [missing EXCEPT ![w] =
                            IF record[d] = NoRecord THEN @ \cup {d} ELSE @]
          /\ pairs' = [pairs EXCEPT ![w] = [@ EXCEPT ![d] = record[d]]]
    BY <1>11 DEF GetDeliveryPoint
  <2>d. d \in Devices /\ record[d] \in Records
    BY <1>0 DEF TypeOK
  <2>e. /\ devs' \in [Workers -> SUBSET Devices] /\ missing' \in [Workers -> SUBSET Devices]
        /\ pairs' \in [Workers -> [Devices -> Records]]
    BY <1>0, <2>c, <2>d DEF TypeOK
  <2>2. TypeOK'
    BY <1>0, <2>a, <2>b, <2>e DEF TypeOK, request, store
  <2>3. LocalsOK'
    BY <1>0, <1>11 DEF GetDeliveryPoint, TypeOK, LocalsOK, locals, request, store
  <2> QED BY <2>1, <2>2, <2>3 DEF StoreOK
<1>12. ASSUME ForgetLock(w)
      PROVE  StoreOK'
  <2>1. HomesOK'
    BY <1>0, <1>12, HomesUntouched DEF ForgetLock, store
  <2>2. TypeOK'
    BY <1>0, <1>12, LockTypes
       DEF ForgetLock, TypeOK, LocalsOK, Steps, Records, Unread,
       locks, locals, request, store
  <2>3. LocalsOK'
    BY <1>0, <1>12 DEF ForgetLock, TypeOK, LocalsOK, locals, request, store
  <2> QED BY <2>1, <2>2, <2>3 DEF StoreOK
<1>13. ASSUME ForgetKeeps(w)
      PROVE  StoreOK'
  <2>1. HomesOK'
    BY <1>0, <1>13, HomesUntouched DEF ForgetKeeps, store
  <2>2. Unlock(w) \/ UNCHANGED locks
    BY <1>13 DEF ForgetKeeps, NextOrphan
  <2>a. /\ writer' \in [Procs -> Workers \cup {Nobody}]
        /\ readers' \in [Procs -> SUBSET Workers]
    BY <1>0, <2>2, LockTypes
  <2>c. PICK d : NextOrphan(w, d)
    BY <1>13 DEF ForgetKeeps
  <2>b. /\ step' \in [Workers -> Steps] /\ missing' \in [Workers -> SUBSET Devices]
        /\ UNCHANGED <<store, request, dev, devs, pairs>>
    <3>1. missing' \in [Workers -> SUBSET Devices]
      BY <1>0, <2>c DEF NextOrphan, TypeOK
    <3>2. step' \in [Workers -> Steps]
      BY <1>0, <2>c DEF NextOrphan, TypeOK, Steps
    <3> QED BY <1>13, <3>1, <3>2 DEF ForgetKeeps
  <2>3. TypeOK'
    BY <1>0, <2>a, <2>b DEF TypeOK, request, store
  <2>4. LocalsOK'
    BY <1>0, <1>13 DEF ForgetKeeps, NextOrphan, TypeOK, LocalsOK, request
  <2> QED BY <2>1, <2>3, <2>4 DEF StoreOK
<1>14. ASSUME ForgetCheck(w)
      PROVE  StoreOK'
  <2>1. HomesOK'
    BY <1>0, <1>14, HomesUntouched DEF ForgetCheck, store
  <2>2. TypeOK'
    BY <1>0, <1>14, LockTypes
       DEF ForgetCheck, TypeOK, LocalsOK, Steps, Records, Unread,
       locks, locals, request, store
  <2>3. LocalsOK'
    BY <1>0, <1>14 DEF ForgetCheck, TypeOK, LocalsOK, locals, request, store
  <2> QED BY <2>1, <2>2, <2>3 DEF StoreOK
<1>15. ASSUME ForgetScript(w)
      PROVE  StoreOK'
  <2>1. PICK d \in {dev[w]} : UnsubscribeScript(sub[w], d)
    BY <1>15 DEF ForgetScript
  <2>2. d \in Devices /\ sub[w] \in SubKeys
    BY <1>0, <1>15 DEF ForgetScript, LocalsOK, TypeOK
  <2>3. /\ deviceSet' \in [SubKeys -> SUBSET Devices]
        /\ index' \subseteq SubKeys
        /\ typeSet' \in [Types -> SUBSET Devices]
        /\ HomesOK'
    BY <1>0, <2>1, <2>2, UnsubscribeKeepsHomes
  <2>4. TypeOK' /\ LocalsOK'
    BY <1>0, <1>15, <2>3
       DEF ForgetScript, TypeOK, LocalsOK, Steps, Records, Unread,
       locks, locals, request
  <2> QED BY <2>3, <2>4 DEF StoreOK
<1>16. ASSUME ForgetBinding(w)
      PROVE  StoreOK'
  <2>1. HomesOK'
    BY <1>0, <1>16, HomesUntouched DEF ForgetBinding
  <2>2. TypeOK'
    BY <1>0, <1>16, LockTypes
       DEF ForgetBinding, NextOrphan, TypeOK, LocalsOK, Steps, Records, Unread,
       locks, locals, request
  <2>3. LocalsOK'
    BY <1>0, <1>16 DEF ForgetBinding, NextOrphan, TypeOK, LocalsOK, locals, request
  <2> QED BY <2>1, <2>2, <2>3 DEF StoreOK
<1>17. ASSUME NEW d \in Devices, DeviceGone(w, d)
      PROVE  StoreOK'
  <2>1. HomesOK'
    BY <1>0, <1>17, HomesUntouched DEF DeviceGone, store
  <2>2. TypeOK'
    BY <1>0, <1>17, LockTypes
       DEF DeviceGone, TypeOK, LocalsOK, Steps, Records, Unread,
       locks, locals, request, store
  <2>3. LocalsOK'
    BY <1>0, <1>17 DEF DeviceGone, TypeOK, LocalsOK, locals, request, store
  <2> QED BY <2>1, <2>2, <2>3 DEF StoreOK
<1>18. ASSUME NEW d \in Devices, DeviceChanged(w, d)
      PROVE  StoreOK'
  <2>1. HomesOK'
    BY <1>0, <1>18, HomesUntouched DEF DeviceChanged, store
  <2>2. TypeOK'
    BY <1>0, <1>18, LockTypes
       DEF DeviceChanged, Answered, TypeOK, LocalsOK, Steps, Records, Unread,
       locks, locals, request, store
  <2>3. LocalsOK'
    BY <1>0, <1>18 DEF DeviceChanged, Answered, TypeOK, LocalsOK, locals, request, store
  <2> QED BY <2>1, <2>2, <2>3 DEF StoreOK
<1>19. ASSUME RemoveUnchanged(w)
      PROVE  StoreOK'
  <2>1. dev[w] \in Devices /\ FixedSub[dev[w]] \in SubKeys
    BY <1>0, <1>19 DEF RemoveUnchanged, LocalsOK
  <2>2. /\ deviceSet' \in [SubKeys -> SUBSET Devices]
        /\ index' \subseteq SubKeys
        /\ typeSet' \in [Types -> SUBSET Devices]
        /\ HomesOK'
    <3>1. CASE UNCHANGED store
      BY <1>0, <3>1, HomesUntouched DEF store, TypeOK
    <3>2. CASE UnsubscribeScript(FixedSub[dev[w]], dev[w])
      BY <1>0, <2>1, <3>2, UnsubscribeKeepsHomes
    <3> QED BY <1>19, <3>1, <3>2 DEF RemoveUnchanged, RemoveUnchangedScript
  <2>3. record' \in [Devices -> Records] /\ bound' \subseteq Devices
    BY <1>0, <1>19 DEF RemoveUnchanged, RemoveUnchangedScript, TypeOK, Records, store
  <2>4. TypeOK' /\ LocalsOK'
    BY <1>0, <1>19, <2>2, <2>3, LockTypes DEF RemoveUnchanged, Answered, TypeOK, LocalsOK,
       Steps, Records, request
  <2> QED BY <2>2, <2>4 DEF StoreOK
<1>20. ASSUME PushDone(w)
      PROVE  StoreOK'
  <2>1. HomesOK'
    BY <1>0, <1>20, HomesUntouched DEF PushDone, store
  <2>2. TypeOK'
    BY <1>0, <1>20, LockTypes
       DEF PushDone, Finish, Begin, TypeOK, LocalsOK, Steps, Records, Unread,
       locks, locals, request, store
  <2>3. LocalsOK'
    BY <1>0, <1>20 DEF PushDone, Finish, Begin, TypeOK, LocalsOK, locals, request, store
  <2> QED BY <2>1, <2>2, <2>3 DEF StoreOK
<1>21. ASSUME NEW s \in SubKeys, Query(w, s)
      PROVE  StoreOK'
  <2>1. HomesOK'
    BY <1>0, <1>21, HomesUntouched DEF Query, store
  <2>2. TypeOK'
    BY <1>0, <1>21, LockTypes
       DEF Query, Begin, TypeOK, LocalsOK, Steps, Records, Unread,
       locks, locals, request, store
  <2>3. LocalsOK'
    BY <1>0, <1>21 DEF Query, Begin, TypeOK, LocalsOK, locals, request, store
  <2> QED BY <2>1, <2>2, <2>3 DEF StoreOK
<1>22. ASSUME QueryMGet(w)
      PROVE  StoreOK'
  <2>1. HomesOK' /\ UNCHANGED <<store, locks>>
    BY <1>0, <1>22, HomesUntouched DEF QueryMGet, store
  <2>2. CASE Finish(w)
    BY <1>0, <2>1, <2>2, FinishOK DEF StoreOK, TypeOK, store, locks
  <2>3. CASE ~Finish(w)
    <3>1. /\ step[w] = "query.mget" /\ step' = [step EXCEPT ![w] = "query.clean"]
          /\ devs' = [devs EXCEPT ![w] = {d \in devs[w] : record[d] = NoRecord}]
          /\ UNCHANGED <<request, dev, missing, pairs>>
      BY <1>22, <2>3 DEF QueryMGet
    <3>2. TypeOK'
      BY <1>0, <2>1, <3>1 DEF TypeOK, Steps, store, locks, request
    <3>3. LocalsOK'
      BY <1>0, <3>1 DEF TypeOK, LocalsOK, request
    <3> QED BY <2>1, <3>2, <3>3 DEF StoreOK
  <2> QED BY <2>2, <2>3
<1>23. ASSUME QueryClean(w)
      PROVE  StoreOK'
  <2>1. PICK d \in devs[w] :
          /\ UnsubscribeScript(sub[w], d)
          /\ \/ Finish(w)
             \/ /\ devs' = [devs EXCEPT ![w] = @ \ {d}]
                /\ UNCHANGED <<step, request, dev, missing, pairs>>
    BY <1>23 DEF QueryClean, NextMissing
  <2>2. d \in Devices /\ sub[w] \in SubKeys
    BY <1>0, <1>23 DEF QueryClean, LocalsOK, TypeOK
  <2>3. /\ deviceSet' \in [SubKeys -> SUBSET Devices]
        /\ index' \subseteq SubKeys
        /\ typeSet' \in [Types -> SUBSET Devices]
        /\ HomesOK'
    BY <1>0, <2>1, <2>2, UnsubscribeKeepsHomes
  <2>4. UNCHANGED <<record, bound, locks>>
    BY <1>23 DEF QueryClean, NextMissing
  <2>5. CASE Finish(w)
    BY <1>0, <2>3, <2>4, <2>5, FinishOK DEF StoreOK, TypeOK, locks
  <2>6. CASE ~Finish(w)
    <3>1. /\ devs' = [devs EXCEPT ![w] = @ \ {d}]
          /\ UNCHANGED <<step, request, dev, missing, pairs>>
      BY <2>1, <2>6
    <3>2. TypeOK'
      BY <1>0, <2>3, <2>4, <3>1 DEF TypeOK, locks, request
    <3>3. LocalsOK'
      BY <1>0, <3>1 DEF LocalsOK, request
    <3> QED BY <2>3, <3>2, <3>3 DEF StoreOK
  <2> QED BY <2>5, <2>6
<1>24. ASSUME Abort(w)
      PROVE  StoreOK'
  <2>1. HomesOK'
    BY <1>0, <1>24, HomesUntouched DEF Abort, store
  <2>2. TypeOK'
    BY <1>0, <1>24
       DEF Abort, ReleaseAll, Finish, Begin, TypeOK, LocalsOK, Steps, Records, Unread,
       locks, locals, request, store
  <2>3. LocalsOK'
    BY <1>0, <1>24 DEF Abort, ReleaseAll, Finish, Begin, TypeOK, LocalsOK, locals, request, store
  <2> QED BY <2>1, <2>2, <2>3 DEF StoreOK
<1>26. ASSUME ForgetFails(w)
      PROVE  StoreOK'
  <2>1. HomesOK'
    BY <1>0, <1>26, HomesUntouched DEF ForgetFails
  <2>a. bound' \subseteq Devices
    BY <1>0, <1>26 DEF ForgetFails, TypeOK
  <2>b. PICK d : NextOrphan(w, d)
    BY <1>26 DEF ForgetFails
  <2>c. UNCHANGED <<record, deviceSet, index, typeSet, request, dev, devs, pairs>>
    BY <1>26 DEF ForgetFails
  <2>2. TypeOK'
    BY <1>0, <2>a, <2>b, <2>c, LockTypes
       DEF NextOrphan, TypeOK, Steps, locks, request
  <2>3. LocalsOK'
    BY <1>0, <1>26 DEF ForgetFails, NextOrphan, TypeOK, LocalsOK, locals, request
  <2> QED BY <2>1, <2>2, <2>3 DEF StoreOK
<1>27. ASSUME QueryCleanFails(w)
      PROVE  StoreOK'
  <2>1. PICK d \in devs[w] : NextMissing(w, d)
    BY <1>27 DEF QueryCleanFails
  <2>2. UNCHANGED <<store, locks>>
    BY <1>27 DEF QueryCleanFails
  <2>3. HomesOK'
    BY <1>0, <2>2, HomesUntouched DEF store
  <2>4. CASE Finish(w)
    BY <1>0, <2>2, <2>3, <2>4, FinishOK DEF StoreOK, TypeOK, locks, store
  <2>5. CASE ~Finish(w)
    <3>1. /\ devs' = [devs EXCEPT ![w] = @ \ {d}]
          /\ UNCHANGED <<step, request, dev, missing, pairs>>
      BY <2>1, <2>5 DEF NextMissing
    <3>2. TypeOK'
      BY <1>0, <2>2, <3>1 DEF TypeOK, locks, request, store
    <3>3. LocalsOK'
      BY <1>0, <3>1 DEF LocalsOK, request
    <3> QED BY <2>3, <3>2, <3>3 DEF StoreOK
  <2> QED BY <2>4, <2>5
<1> QED
  BY <1>1, <1>2, <1>3, <1>4, <1>5, <1>6, <1>7, <1>8, <1>9, <1>10, <1>11, <1>12,
     <1>13, <1>14, <1>15, <1>16, <1>17, <1>18, <1>19, <1>20, <1>21, <1>22, <1>23, <1>24,
     <1>26, <1>27
     DEF Storing, Request, Progress

(* A worker's move that keeps the lock, or gives it back. *)
LEMMA LocksGo ==
    ASSUME TypeOK, LocksOK, NEW w \in Workers \ {Reader}, UNCHANGED phase,
           NEW st, step' = [step EXCEPT ![w] = st],
           \/ UNCHANGED locks /\ (st \in WriteSteps => step[w] \in WriteSteps)
           \/ Unlock(w) /\ step[w] \in WriteSteps /\ st \notin WriteSteps
           \/ RUnlock(w) /\ st \notin WriteSteps
    PROVE  LocksOK'
<1> USE StoreAssumption, CheckAssumption
<1>a. /\ step \in [Workers -> Steps] /\ writer \in [Procs -> Workers \cup {Nobody}]
      /\ readers \in [Procs -> SUBSET Workers] /\ ProcOf \in [Workers -> Procs]
  BY DEF TypeOK
<1>1. CASE UNCHANGED locks /\ (st \in WriteSteps => step[w] \in WriteSteps)
  BY <1>a, <1>1 DEF LocksOK, locks
<1>2. CASE Unlock(w) /\ step[w] \in WriteSteps /\ st \notin WriteSteps
  BY <1>a, <1>2 DEF LocksOK, Unlock
<1>3. CASE RUnlock(w) /\ st \notin WriteSteps
  BY <1>a, <1>3 DEF LocksOK, RUnlock
<1> QED BY <1>1, <1>2, <1>3

(* On to the next orphan, or out of the cleanup. *)
LEMMA OrphanLocks ==
    ASSUME TypeOK, LocksOK, NEW w \in Workers \ {Reader}, UNCHANGED phase,
           step[w] \in WriteSteps, NEW d, NextOrphan(w, d)
    PROVE  LocksOK'
<1>1. CASE step' = [step EXCEPT ![w] = "push.check"] /\ UNCHANGED locks
  BY <1>1, LocksGo
<1>2. CASE step' = [step EXCEPT ![w] = "push.send"] /\ Unlock(w)
  <2>1. "push.send" \notin WriteSteps
    BY DEF WriteSteps
  <2> QED BY <1>2, <2>1, LocksGo
<1> QED BY <1>1, <1>2 DEF NextOrphan, Goto

(* The lock is held where it is written under, and never both ways. *)
LEMMA StoringLocks ==
    ASSUME TypeOK, LocksOK, NEW w \in Workers \ {Reader}, Storing(w), UNCHANGED phase
    PROVE  LocksOK'
<1> USE StoreAssumption, CheckAssumption DEF Goto
<1>a. TypeOK /\ LocksOK
  OBVIOUS
<1>1. ASSUME NEW d \in Devices, NEW v \in Values, Subscribe(w, d, v) PROVE LocksOK'
  BY <1>a, <1>1
       DEF Subscribe, Begin, Lock, LockFree, TypeOK, LocksOK, WriteSteps, locks, locals, request
<1>2. ASSUME SetDeliveryPoint(w) PROVE LocksOK'
  BY <1>a, <1>2
       DEF SetDeliveryPoint, TypeOK, LocksOK, WriteSteps, locks, locals, request
<1>3. ASSUME AddToSubscriber(w) PROVE LocksOK'
  BY <1>a, <1>3
       DEF AddToSubscriber, TypeOK, LocksOK, WriteSteps, locks, locals, request
<1>4. ASSUME SetBinding(w) PROVE LocksOK'
  BY <1>a, <1>4
       DEF SetBinding, Finish, Begin, Unlock, TypeOK, LocksOK, WriteSteps, locks, locals, request
<1>5. ASSUME NEW d \in Devices, Unsubscribe(w, d) PROVE LocksOK'
  BY <1>a, <1>5
       DEF Unsubscribe, Begin, Lock, LockFree, TypeOK, LocksOK, WriteSteps, locks, locals, request
<1>6. ASSUME NEW s \in SubKeys, UnsubscribeAll(w, s) PROVE LocksOK'
  BY <1>a, <1>6
       DEF UnsubscribeAll, Begin, Lock, LockFree, TypeOK, LocksOK, WriteSteps, locks, locals, request
<1>7. ASSUME RemoveFromSubscriber(w) PROVE LocksOK'
  BY <1>a, <1>7
       DEF RemoveFromSubscriber, TypeOK, LocksOK, WriteSteps, locks, locals, request
<1>8. ASSUME RemoveRecord(w) PROVE LocksOK'
  BY <1>a, <1>8
       DEF RemoveRecord, TypeOK, LocksOK, WriteSteps, locks, locals, request
<1>9. ASSUME RemoveBinding(w) PROVE LocksOK'
  <2>1. step[w] \in WriteSteps /\ "idle" \notin WriteSteps
    BY <1>9 DEF RemoveBinding, WriteSteps
  <2>2. \/ step' = [step EXCEPT ![w] = "unsub.script"] /\ UNCHANGED locks
        \/ step' = [step EXCEPT ![w] = "idle"] /\ Unlock(w)
    BY <1>9 DEF RemoveBinding, Finish, Begin
  <2> QED BY <1>a, <2>1, <2>2, LocksGo
<1>10. ASSUME NEW s \in SubKeys, Push(w, s) PROVE LocksOK'
  BY <1>a, <1>10
       DEF Push, Matched, Begin, RLock, TypeOK, LocksOK, WriteSteps, locks, locals, request
<1>11. ASSUME GetDeliveryPoint(w) PROVE LocksOK'
  <2>1. step[w] = "push.read" /\ {"push.read", "push.lock", "push.send"} \cap WriteSteps = {}
    BY <1>11 DEF GetDeliveryPoint, WriteSteps
  <2>2. \/ step' = [step EXCEPT ![w] = "push.read"] /\ UNCHANGED locks
        \/ step' = [step EXCEPT ![w] = "push.lock"] /\ RUnlock(w)
        \/ step' = [step EXCEPT ![w] = "push.send"] /\ RUnlock(w)
    BY <1>a, <1>11 DEF GetDeliveryPoint, TypeOK
  <2> QED BY <1>a, <2>1, <2>2, LocksGo
<1>12. ASSUME ForgetLock(w) PROVE LocksOK'
  BY <1>a, <1>12
       DEF ForgetLock, Lock, LockFree, TypeOK, LocksOK, WriteSteps, locks, locals, request
<1>13. ASSUME ForgetKeeps(w) PROVE LocksOK'
  BY <1>a, <1>13, OrphanLocks DEF ForgetKeeps, WriteSteps
<1>14. ASSUME ForgetCheck(w) PROVE LocksOK'
  BY <1>a, <1>14
       DEF ForgetCheck, TypeOK, LocksOK, WriteSteps, locks, locals, request
<1>15. ASSUME ForgetScript(w) PROVE LocksOK'
  BY <1>a, <1>15
       DEF ForgetScript, TypeOK, LocksOK, WriteSteps, locks, locals, request
<1>16. ASSUME ForgetBinding(w) PROVE LocksOK'
  BY <1>a, <1>16, OrphanLocks DEF ForgetBinding, WriteSteps
<1>17. ASSUME NEW d \in Devices, DeviceGone(w, d) PROVE LocksOK'
  BY <1>a, <1>17
       DEF DeviceGone, Lock, LockFree, TypeOK, LocksOK, WriteSteps, locks, locals, request
<1>18. ASSUME NEW d \in Devices, DeviceChanged(w, d) PROVE LocksOK'
  BY <1>a, <1>18
       DEF DeviceChanged, Answered, TypeOK, LocksOK, WriteSteps, locks, locals, request
<1>19. ASSUME RemoveUnchanged(w) PROVE LocksOK'
  BY <1>a, <1>19
       DEF RemoveUnchanged, Answered, Unlock, TypeOK, LocksOK, WriteSteps, locks, locals, request
<1>20. ASSUME PushDone(w) PROVE LocksOK'
  BY <1>a, <1>20
       DEF PushDone, Finish, Begin, TypeOK, LocksOK, WriteSteps, locks, locals, request
<1>21. ASSUME NEW s \in SubKeys, Query(w, s) PROVE LocksOK'
  BY <1>a, <1>21
       DEF Query, Begin, TypeOK, LocksOK, WriteSteps, locks, locals, request
<1>22. ASSUME QueryMGet(w) PROVE LocksOK'
  BY <1>a, <1>22
       DEF QueryMGet, Finish, Begin, TypeOK, LocksOK, WriteSteps, locks, locals, request
<1>23. ASSUME QueryClean(w) PROVE LocksOK'
  BY <1>a, <1>23
       DEF QueryClean, NextMissing, Finish, Begin, TypeOK, LocksOK, WriteSteps, locks, locals, request
<1>24. ASSUME Abort(w) PROVE LocksOK'
  BY <1>a, <1>24
       DEF Abort, ReleaseAll, Finish, Begin, TypeOK, LocksOK, WriteSteps, locks, locals, request
<1>26. ASSUME ForgetFails(w) PROVE LocksOK'
  BY <1>a, <1>26, OrphanLocks DEF ForgetFails, WriteSteps
<1>27. ASSUME QueryCleanFails(w) PROVE LocksOK'
  BY <1>a, <1>27
       DEF QueryCleanFails, NextMissing, Finish, Begin, TypeOK, LocksOK, WriteSteps, locks, locals, request
<1> QED
  BY <1>1, <1>2, <1>3, <1>4, <1>5, <1>6, <1>7, <1>8,
     <1>9, <1>10, <1>11, <1>12, <1>13, <1>14, <1>15, <1>16, <1>17, <1>18, <1>19,
     <1>20, <1>21, <1>22, <1>23, <1>24, <1>26, <1>27
     DEF Storing, Request, Progress

(* A step moves the worker that takes it and no other, and only a request   *)
(* that begins comes to the steps of a /subscribe.                          *)
Moves(w) ==
    /\ \A x \in Workers \ {w} : step'[x] = step[x] /\ dev'[x] = dev[x]
    /\ step'[w] \in SubSteps =>
          \/ step[w] = "idle" /\ step'[w] = "sub.record" /\ dev'[w] \in Devices
          \/ step[w] \in SubSteps /\ dev'[w] = dev[w]

LEMMA StoringMoves ==
    ASSUME TypeOK, NEW w \in Workers, Storing(w)
    PROVE  Moves(w)
<1>a. step \in [Workers -> Steps] /\ dev \in [Workers -> Devices \cup {Nobody}]
  BY DEF TypeOK
<1> USE <1>a DEF Goto, Begin, Finish, Moves, SubSteps, locals, request
<1>1. ASSUME NEW d \in Devices, NEW v \in Values, Subscribe(w, d, v) PROVE Moves(w)
  BY <1>1 DEF Subscribe
<1>2. ASSUME SetDeliveryPoint(w) PROVE Moves(w)
  BY <1>2 DEF SetDeliveryPoint
<1>3. ASSUME AddToSubscriber(w) PROVE Moves(w)
  BY <1>3 DEF AddToSubscriber
<1>4. ASSUME SetBinding(w) PROVE Moves(w)
  BY <1>4 DEF SetBinding
<1>5. ASSUME NEW d \in Devices, Unsubscribe(w, d) PROVE Moves(w)
  BY <1>5 DEF Unsubscribe
<1>6. ASSUME NEW s \in SubKeys, UnsubscribeAll(w, s) PROVE Moves(w)
  BY <1>6 DEF UnsubscribeAll
<1>7. ASSUME RemoveFromSubscriber(w) PROVE Moves(w)
  BY <1>7 DEF RemoveFromSubscriber
<1>8. ASSUME RemoveRecord(w) PROVE Moves(w)
  BY <1>8 DEF RemoveRecord
<1>9. ASSUME RemoveBinding(w) PROVE Moves(w)
  BY <1>9 DEF RemoveBinding
<1>10. ASSUME NEW s \in SubKeys, Push(w, s) PROVE Moves(w)
  BY <1>10 DEF Push
<1>11. ASSUME GetDeliveryPoint(w) PROVE Moves(w)
  BY <1>11 DEF GetDeliveryPoint
<1>12. ASSUME ForgetLock(w) PROVE Moves(w)
  BY <1>12 DEF ForgetLock
<1>13. ASSUME ForgetKeeps(w) PROVE Moves(w)
  BY <1>13 DEF ForgetKeeps, NextOrphan
<1>14. ASSUME ForgetCheck(w) PROVE Moves(w)
  BY <1>14 DEF ForgetCheck
<1>15. ASSUME ForgetScript(w) PROVE Moves(w)
  BY <1>15 DEF ForgetScript
<1>16. ASSUME ForgetBinding(w) PROVE Moves(w)
  BY <1>16 DEF ForgetBinding, NextOrphan
<1>17. ASSUME NEW d \in Devices, DeviceGone(w, d) PROVE Moves(w)
  BY <1>17 DEF DeviceGone
<1>18. ASSUME NEW d \in Devices, DeviceChanged(w, d) PROVE Moves(w)
  BY <1>18 DEF DeviceChanged
<1>19. ASSUME RemoveUnchanged(w) PROVE Moves(w)
  BY <1>19 DEF RemoveUnchanged
<1>20. ASSUME PushDone(w) PROVE Moves(w)
  BY <1>20 DEF PushDone
<1>21. ASSUME NEW s \in SubKeys, Query(w, s) PROVE Moves(w)
  BY <1>21 DEF Query
<1>22. ASSUME QueryMGet(w) PROVE Moves(w)
  BY <1>22 DEF QueryMGet
<1>23. ASSUME QueryClean(w) PROVE Moves(w)
  BY <1>23 DEF QueryClean, NextMissing
<1>24. ASSUME Abort(w) PROVE Moves(w)
  BY <1>24 DEF Abort
<1>26. ASSUME ForgetFails(w) PROVE Moves(w)
  BY <1>26 DEF ForgetFails, NextOrphan
<1>27. ASSUME QueryCleanFails(w) PROVE Moves(w)
  BY <1>27 DEF QueryCleanFails, NextMissing
<1> QED
  BY <1>1, <1>2, <1>3, <1>4, <1>5, <1>6, <1>7, <1>8,
     <1>9, <1>10, <1>11, <1>12, <1>13, <1>14, <1>15, <1>16, <1>17, <1>18, <1>19,
     <1>20, <1>21, <1>22, <1>23, <1>24, <1>26, <1>27
     DEF Storing, Request, Progress

LEMMA StoreKept ==
    ASSUME BaseInv, UNCHANGED <<vars, bindings, phase>>
    PROVE  StoreOK' /\ LocksOK' /\ ChosenOK'
<1> USE DEF vars, bindings
<1>a. TypeOK /\ LocalsOK /\ LocksOK /\ HomesOK /\ ChosenOK
  BY DEF BaseInv, StoreOK
<1>1. TypeOK'
  BY <1>a DEF TypeOK
<1>2. LocalsOK' /\ ChosenOK'
  BY <1>a DEF LocalsOK, ChosenOK, OfType
<1>3. LocksOK'
  BY <1>a DEF LocksOK
<1>4. HomesOK'
  BY <1>a DEF HomesOK, HomeOnly
<1> QED BY <1>1, <1>2, <1>3, <1>4 DEF StoreOK

-----------------------------------------------------------------------------
(* What a write may do *)

Writing ==
    \/ \E w \in Workers \ {Reader} : WriteSubscription(w)
    \/ \E p \in Providers : AddPsp(p) \/ RemovePsp(p) \/ RemovePspRecord(p)

SameDevice(d) ==
    /\ record'[d] = record[d]
    /\ d \in bound' <=> d \in bound
    /\ deviceSet'[Home[d]] = deviceSet[Home[d]]
    /\ Home[d] \in index' <=> Home[d] \in index
    /\ d \in typeSet'[TypeOf[d]] <=> d \in typeSet[TypeOf[d]]
    /\ boundTo'[d] = boundTo[d]

SameProvider(p) ==
    /\ p \in psps' <=> p \in psps
    /\ p \in pspSet' <=> p \in pspSet

(* A binding is written with a provider of the device's type.               *)
BindsByType ==
    /\ boundTo' \in [Devices -> Providers]
    /\ chosen' \in [Workers -> Providers \cup {Nobody}]
    /\ \A d \in Devices : boundTo'[d] # boundTo[d] => TypeOfPsp[boundTo'[d]] = TypeOf[d]

(* A provider is added with no other of its type left, and no write makes a *)
(* record that cannot be read.                                              *)
Writes ==
    /\ UNCHANGED <<reading, marker>>
    /\ BindsByType
    /\ requests' \in [Written -> 0 .. MaxRequests]
    /\ psps' \subseteq Providers /\ pspSet' \subseteq Providers
    /\ leaving' \subseteq Providers
    /\ touched' \subseteq Subjects /\ swept' \subseteq Devices \cup SubKeys
    /\ stays' = stays \cap Problems'
    /\ phase # "idle" =>
          /\ touched \subseteq touched'
          /\ \A d \in Devices \ touched' : SameDevice(d)
          /\ \A p \in Providers \ touched' : SameProvider(p)
    /\ psps' \cap Unreadable \subseteq psps
    /\ \A t \in Types :
          \/ OfType(pspSet', t) \subseteq pspSet /\ OfType(psps', t) \subseteq psps
          \/ \E p \in Providers : OfType(pspSet', t) \subseteq {p}

(* What a request on the subscriptions does to the bindings. *)
LEMMA WritingBinds ==
    ASSUME BaseInv, NEW w \in Workers \ {Reader}, WriteSubscription(w)
    PROVE  BindsByType /\ ChosenOK'
<1> USE StoreAssumption, CheckAssumption DEF SubSteps
<1>a. /\ TypeOK /\ LocalsOK /\ ChosenOK /\ psps \subseteq Providers
      /\ boundTo \in [Devices -> Providers]
      /\ chosen \in [Workers -> Providers \cup {Nobody}]
      /\ TypeOf \in [Devices -> Types]
  BY DEF BaseInv, StoreOK, CheckTypeOK
<1>b. Moves(w)
  BY <1>a, StoringMoves DEF WriteSubscription, Storing, Progress
<1>1. CASE Request(w) /\ UNCHANGED boundTo
           /\ IF step'[w] = "sub.record" THEN Resolve(w) ELSE UNCHANGED chosen
  <2>1. CASE step'[w] = "sub.record"
    <3>1. dev'[w] \in Devices
      BY <1>a, <1>b, <2>1 DEF Moves, LocalsOK
    <3>2. PICK p \in OfType(Readable, TypeOf[dev'[w]]) : chosen' = [chosen EXCEPT ![w] = p]
      BY <1>1, <2>1 DEF Resolve
    <3>3. p \in Providers /\ TypeOfPsp[p] = TypeOf[dev'[w]]
      BY <1>a DEF OfType, Readable
    <3> QED BY <1>1, <1>a, <1>b, <3>1, <3>2, <3>3 DEF BindsByType, ChosenOK, Moves, OfType
  <2>2. CASE step'[w] # "sub.record"
    BY <1>1, <1>a, <1>b, <2>2 DEF BindsByType, ChosenOK, Moves, OfType
  <2> QED BY <2>1, <2>2
<1>2. CASE UNCHANGED bindings /\ Progress(w)
  <2>1. step[w] # "idle"
    BY <1>2 DEF Progress, SetDeliveryPoint, AddToSubscriber, SetBinding, RemoveFromSubscriber,
       RemoveRecord, RemoveBinding, GetDeliveryPoint, ForgetLock, ForgetKeeps, ForgetCheck,
       ForgetScript, ForgetBinding, ForgetFails, DeviceGone, DeviceChanged, RemoveUnchanged,
       PushDone, QueryMGet, QueryClean, QueryCleanFails
  <2> QED BY <1>2, <1>a, <1>b, <2>1 DEF BindsByType, ChosenOK, Moves, OfType, bindings
<1>3. CASE SetBinding(w) /\ boundTo' = [boundTo EXCEPT ![dev[w]] = chosen[w]]
           /\ chosen' = [chosen EXCEPT ![w] = Nobody]
  <2>1. step[w] = "sub.bind" /\ step'[w] = "idle"
    BY <1>3, <1>a DEF SetBinding, Finish, Begin, Goto, TypeOK
  <2>2. dev[w] \in Devices /\ chosen[w] \in Providers /\ TypeOfPsp[chosen[w]] = TypeOf[dev[w]]
    BY <1>a, <2>1 DEF LocalsOK, ChosenOK, OfType
  <2> QED BY <1>3, <1>a, <1>b, <2>1, <2>2 DEF BindsByType, ChosenOK, Moves, OfType
<1>4. CASE Abort(w) /\ UNCHANGED boundTo /\ chosen' = [chosen EXCEPT ![w] = Nobody]
  <2>1. step'[w] = "idle"
    BY <1>4, <1>a DEF Abort, Finish, Begin, Goto, TypeOK
  <2> QED BY <1>4, <1>a, <1>b, <2>1 DEF BindsByType, ChosenOK, Moves, OfType
<1> QED BY <1>1, <1>2, <1>3, <1>4 DEF WriteSubscription

LEMMA WritingIs == ASSUME BaseInv, Writing
                   PROVE  Writes /\ StoreOK' /\ LocksOK' /\ ChosenOK'
<1> USE StoreAssumption, CheckAssumption
<1>a. /\ psps \subseteq Providers /\ pspSet \subseteq Providers
      /\ leaving \subseteq Providers /\ requests \in [Written -> 0 .. MaxRequests]
      /\ touched \subseteq Subjects /\ swept \subseteq Devices \cup SubKeys
      /\ TypeOK /\ StoreOK /\ LocksOK
  BY DEF BaseInv, CheckTypeOK
<1>b. ASSUME NEW k \in Written, Asks(k) PROVE requests' \in [Written -> 0 .. MaxRequests]
  BY <1>a, <1>b DEF Asks
<1>c. ASSUME UNCHANGED bindings PROVE BindsByType
  BY <1>c DEF BaseInv, CheckTypeOK, BindsByType, bindings
<1>1. ASSUME NEW w \in Workers \ {Reader}, WriteSubscription(w)
      PROVE  Writes /\ StoreOK' /\ LocksOK' /\ ChosenOK'
  <2>1. UNCHANGED <<psps, pspSet, leaving, marker, reading, phase>>
    BY <1>1 DEF WriteSubscription, providers, reading
  <2>2. Storing(w)
    BY <1>1 DEF WriteSubscription, Storing, Progress
  <2>3. StoreOK' /\ LocksOK'
    BY <1>a, <2>1, <2>2, StoringKeeps, StoringLocks
  <2>4. requests' \in [Written -> 0 .. MaxRequests]
    BY <1>1, <1>a, <1>b DEF WriteSubscription, Written
  <2>5. Touch({d \in Devices : View(d)' # View(d)})
    BY <1>1 DEF WriteSubscription
  <2>6. ASSUME phase # "idle", NEW d \in Devices \ touched' PROVE SameDevice(d)
    <3>1. View(d)' = View(d)
      BY <2>5, <2>6 DEF Touch
    <3> QED BY <3>1 DEF View, SameDevice
  <2>7. touched' \subseteq Subjects /\ (phase # "idle" => touched \subseteq touched')
    BY <1>a, <2>5 DEF Touch, Subjects
  <2>8. \A p \in Providers : SameProvider(p)
    BY <2>1 DEF SameProvider
  <2>9. swept' \subseteq Devices \cup SubKeys
    BY <1>1, <1>a DEF WriteSubscription, Sweep, TypeOK
  <2>10. BindsByType /\ ChosenOK'
    BY <1>1, WritingBinds
  <2> QED
    BY <1>a, <2>1, <2>3, <2>4, <2>5, <2>6, <2>7, <2>8, <2>9, <2>10 DEF Writes, Touch, OfType
<1>2. ASSUME NEW p \in Providers, AddPsp(p)
      PROVE  Writes /\ StoreOK' /\ LocksOK' /\ ChosenOK'
  <2>a. /\ UNCHANGED <<vars, bindings, leaving, marker, reading, phase, swept>>
        /\ requests' \in [Written -> 0 .. MaxRequests]
    BY <1>2, <1>b DEF AddPsp, reading, Written
  <2>1. StoreOK' /\ LocksOK' /\ ChosenOK'
    BY <2>a, StoreKept
  <2>2. psps' \subseteq Providers /\ pspSet' \subseteq Providers
    BY <1>2, <1>a DEF AddPsp
  <2>3. touched' \subseteq Subjects /\ (phase # "idle" => touched \subseteq touched')
    BY <1>2, <1>a DEF AddPsp, Touch, Subjects, OfType
  <2>4. \A d \in Devices : SameDevice(d)
    BY <2>a DEF SameDevice, vars, bindings
  <2>5. phase # "idle" => \A q \in Providers \ touched' : SameProvider(q)
    BY <1>2 DEF AddPsp, Touch, SameProvider
  <2>6. psps' \cap Unreadable \subseteq psps
    BY <1>2 DEF AddPsp
  <2>7. ASSUME NEW t \in Types
        PROVE  \/ OfType(pspSet', t) \subseteq pspSet /\ OfType(psps', t) \subseteq psps
               \/ \E q \in Providers : OfType(pspSet', t) \subseteq {q}
    <3>1. CASE t = TypeOfPsp[p]
      BY <1>2, <3>1 DEF AddPsp, OfType
    <3>2. CASE t # TypeOfPsp[p]
      BY <1>2, <3>2 DEF AddPsp, OfType
    <3> QED BY <3>1, <3>2
  <2>8. stays' = stays \cap Problems'
    BY <1>2 DEF AddPsp, Touch
  <2> QED
    BY <1>a, <1>c, <2>a, <2>1, <2>2, <2>3, <2>4, <2>5, <2>6, <2>7, <2>8 DEF Writes
<1>3. ASSUME NEW p \in Providers, RemovePsp(p) \/ RemovePspRecord(p)
      PROVE  Writes /\ StoreOK' /\ LocksOK' /\ ChosenOK'
  <2>a. /\ UNCHANGED <<vars, bindings, marker, reading, phase, swept>>
        /\ requests' \in [Written -> 0 .. MaxRequests]
        /\ psps' \subseteq psps /\ pspSet' \subseteq pspSet /\ leaving' \subseteq Providers
        /\ \A q \in Providers \ {p} : SameProvider(q)
        /\ Touch({p})
    BY <1>3, <1>a, <1>b DEF RemovePsp, RemovePspRecord, reading, SameProvider, Written
  <2>1. StoreOK' /\ LocksOK' /\ ChosenOK'
    BY <2>a, StoreKept
  <2>2. touched' \subseteq Subjects /\ (phase # "idle" => touched \cup {p} \subseteq touched')
    BY <2>a, <1>a DEF Touch, Subjects
  <2>3. \A d \in Devices : SameDevice(d)
    BY <2>a DEF SameDevice, vars, bindings
  <2>4. stays' = stays \cap Problems'
    BY <2>a DEF Touch
  <2>5. psps' \cap Unreadable \subseteq psps
    BY <2>a
  <2>6. \A t \in Types : OfType(pspSet', t) \subseteq pspSet /\ OfType(psps', t) \subseteq psps
    BY <2>a DEF OfType
  <2>7. phase # "idle" => \A q \in Providers \ touched' : SameProvider(q)
    BY <2>a, <2>2
  <2> QED BY <1>a, <1>c, <2>a, <2>1, <2>2, <2>3, <2>4, <2>5, <2>6, <2>7 DEF Writes
<1> QED BY <1>1, <1>2, <1>3 DEF Writing

LEMMA WritesBase ==
    ASSUME BaseInv, Writes, StoreOK' /\ LocksOK' /\ ChosenOK'
    PROVE  BaseInv'
<1>1. /\ phase' = phase /\ left' = left /\ known' = known /\ at' = at
      /\ names' = names /\ found' = found /\ stats' = stats /\ marker' = marker
  BY DEF Writes, reading
<1>2. CheckTypeOK'
  BY <1>1 DEF BaseInv, StoreOK, CheckTypeOK, Writes, BindsByType
<1>3. ReadOK'
  BY <1>1 DEF BaseInv, ReadOK, Loaded, ComeTo
<1> QED BY <1>2, <1>3 DEF BaseInv

-----------------------------------------------------------------------------
(* The steps of a check *)

Looking ==
    \/ checkServiceProviders \/ checkSubscriberIsIndexed \/ CheckListed \/ NextSet
    \/ CheckOwner \/ checkSubscriberIndex \/ CheckDevices \/ CheckRecord
    \/ checkCounters
    \/ \E p \in Providers : loadAllProviders(p)
    \/ \E s \in SubKeys : ReadSet(s) \/ ScanSubscriber(s)
    \/ \E d \in Devices : \/ checkDeliveryPointBindings(d) \/ CheckExists(d)
                          \/ ReadRecord(d) \/ ScanDevice(d)

(* A step of a check only reads, and forgets no problem it has named. *)
LEMMA LookingReads ==
    ASSUME Looking
    PROVE  /\ UNCHANGED <<vars, bindings, providers, marker, requests, stats, history>>
           /\ UNCHANGED <<psps, pspSet, leaving, boundTo, chosen, touched, swept, stays>>
           /\ UNCHANGED store
           /\ found \subseteq found'
           /\ phase \in CheckPhases /\ phase' \in CheckPhases
<1> USE DEF Reads, Walk, vars, store, providers, bindings, history,
       CheckPhases, FromServices, FromBindings, FromSets, InSets, FromRecords, FromMarker,
       FromIndex, FromTypes, Ended
<1> DEFINE Only == /\ UNCHANGED <<vars, bindings, providers, marker, requests, stats, history>>
                   /\ found \subseteq found'
                   /\ phase \in CheckPhases /\ phase' \in CheckPhases
<1>1. ASSUME NEW p \in Providers, loadAllProviders(p) PROVE Only
  BY <1>1 DEF loadAllProviders
<1>2. ASSUME checkServiceProviders PROVE Only
  BY <1>2 DEF checkServiceProviders
<1>3. ASSUME NEW d \in Devices, checkDeliveryPointBindings(d) PROVE Only
  BY <1>3 DEF checkDeliveryPointBindings
<1>4. ASSUME NEW s \in SubKeys, ReadSet(s) PROVE Only
  BY <1>4 DEF ReadSet
<1>5. ASSUME checkSubscriberIsIndexed PROVE Only
  BY <1>5 DEF checkSubscriberIsIndexed
<1>6. ASSUME NEW d \in Devices, CheckExists(d) PROVE Only
  BY <1>6 DEF CheckExists
<1>7. ASSUME CheckListed PROVE Only
  BY <1>7 DEF CheckListed
<1>8. ASSUME NextSet PROVE Only
  BY <1>8 DEF NextSet
<1>9. ASSUME NEW d \in Devices, ReadRecord(d) PROVE Only
  BY <1>9 DEF ReadRecord
<1>10. ASSUME CheckOwner PROVE Only
  BY <1>10 DEF CheckOwner
<1>11. ASSUME checkSubscriberIndex PROVE Only
  BY <1>11 DEF checkSubscriberIndex
<1>12. ASSUME NEW s \in SubKeys, ScanSubscriber(s) PROVE Only
  BY <1>12 DEF ScanSubscriber
<1>13. ASSUME CheckDevices PROVE Only
  BY <1>13 DEF CheckDevices
<1>14. ASSUME NEW d \in Devices, ScanDevice(d) PROVE Only
  BY <1>14 DEF ScanDevice
<1>15. ASSUME CheckRecord PROVE Only
  BY <1>15 DEF CheckRecord
<1>16. ASSUME checkCounters PROVE Only
  BY <1>16 DEF checkCounters
<1> QED
  BY <1>1, <1>2, <1>3, <1>4, <1>5, <1>6, <1>7, <1>8, <1>9, <1>10, <1>11, <1>12, <1>13, <1>14, <1>15, <1>16 DEF Looking

LEMMA KindIn ==
    ASSUME NEW k \in Kinds, NEW S \in SUBSET Subjects
    PROVE  Kind(k, S) \subseteq Kinds \X Subjects
BY DEF Kind

LEMMA LookingBase == ASSUME BaseInv, Looking PROVE BaseInv'
<1> USE StoreAssumption, CheckAssumption
<1>a. UNCHANGED <<vars, psps, pspSet, leaving, boundTo, chosen, marker, requests, stats,
                  touched, swept, stays>>
  BY LookingReads
<1>b. CheckTypeOK /\ TypeOK /\ LocalsOK /\ ChosenOK /\ LocksOK /\ HomesOK /\ ReadOK
  BY DEF BaseInv, StoreOK, CheckTypeOK
<1>c. TypeOK' /\ LocalsOK' /\ ChosenOK' /\ HomesOK'
  BY <1>a, <1>b DEF vars, TypeOK, LocalsOK, ChosenOK, OfType, HomesOK, HomeOnly
<1>d. LocksOK'
  <2>1. phase' \notin CountPhases
    BY LookingReads DEF CountPhases, CheckPhases, FromServices, FromBindings, FromSets, InSets, FromRecords, FromMarker,
       FromIndex, FromTypes, Ended
  <2> QED BY <1>a, <1>b, <2>1 DEF vars, LocksOK
<1>e. ASSUME NEW k \in Kinds, NEW S \in SUBSET Subjects, found' = found \cup Kind(k, S)
      PROVE  found' \subseteq Kinds \X Subjects
  BY <1>b, <1>e, KindIn DEF CheckTypeOK
<1> DEFINE Typed == /\ phase = "providers" => left \subseteq Providers
                    /\ phase \in {"sets", "indexed", "exists", "listed", "subscribers", "devices"}
                          => left \subseteq SubKeys
                    /\ phase = "stats.types" => left \subseteq Types
                    /\ phase \in {"bindings", "records", "owner", "types", "record"}
                          => left \subseteq Devices
                    /\ known \subseteq Providers
                    /\ at \in Devices \cup SubKeys \cup {Nobody}
                    /\ names \subseteq Devices
<1>f. CheckTypeOK => Typed
  BY DEF CheckTypeOK
<1> DEFINE Own == Typed' /\ found' \subseteq Kinds \X Subjects /\ ReadOK'
<1>1. ASSUME NEW p \in Providers, loadAllProviders(p) PROVE Own
  <2> USE <1>1 DEF loadAllProviders, Reads, Walk
  <2>1. Typed'
    BY <1>a, <1>b, <1>f DEF TypeOK, Readable, vars
  <2>s0. "dangling_provider" \in Kinds /\ ({p} \cap psps \cap Unreadable) \in SUBSET Subjects
    BY <1>b, <1>f DEF Kinds, Subjects, CheckTypeOK, TypeOK
  <2>k0. Kind("dangling_provider", {p} \cap psps \cap Unreadable) \subseteq Kinds \X Subjects
    BY <2>s0, KindIn
  <2>2. found' \subseteq Kinds \X Subjects
    BY <1>b, <2>k0 DEF CheckTypeOK
  <2>3. ReadOK'
    BY <1>b, <1>f DEF ReadOK, Loaded, ComeTo, Readable, TypeOK, HasRecord, InTypeSet,
       CheckPhases, FromServices, FromBindings, FromSets, InSets, FromRecords, FromMarker,
       FromIndex, FromTypes, Ended
  <2> QED BY <2>1, <2>2, <2>3
<1>2. ASSUME checkServiceProviders PROVE Own
  <2> USE <1>2 DEF checkServiceProviders, Reads, Walk
  <2>1. Typed'
    BY <1>a, <1>b, <1>f DEF TypeOK, Readable, vars
  <2>s0. "dangling_provider" \in Kinds /\ (pspSet \ known) \in SUBSET Subjects
    BY <1>b, <1>f DEF Kinds, Subjects, CheckTypeOK, TypeOK
  <2>k0. Kind("dangling_provider", pspSet \ known) \subseteq Kinds \X Subjects
    BY <2>s0, KindIn
  <2>s1. "orphaned_provider" \in Kinds /\ (known \ pspSet) \in SUBSET Subjects
    BY <1>b, <1>f DEF Kinds, Subjects, CheckTypeOK, TypeOK
  <2>k1. Kind("orphaned_provider", known \ pspSet) \subseteq Kinds \X Subjects
    BY <2>s1, KindIn
  <2>s2. "duplicate_provider" \in Kinds /\ ({t \in Types : Cardinality(OfType(pspSet \cap known, t)) >= 2}) \in SUBSET Subjects
    BY <1>b, <1>f DEF Kinds, Subjects, CheckTypeOK, TypeOK
  <2>k2. Kind("duplicate_provider", {t \in Types : Cardinality(OfType(pspSet \cap known, t)) >= 2}) \subseteq Kinds \X Subjects
    BY <2>s2, KindIn
  <2>2. found' \subseteq Kinds \X Subjects
    BY <1>b, <2>k0, <2>k1, <2>k2 DEF CheckTypeOK
  <2>3. ReadOK'
    BY <1>b, <1>f DEF ReadOK, Loaded, ComeTo, Readable, TypeOK, HasRecord, InTypeSet,
       CheckPhases, FromServices, FromBindings, FromSets, InSets, FromRecords, FromMarker,
       FromIndex, FromTypes, Ended
  <2> QED BY <2>1, <2>2, <2>3
<1>3. ASSUME NEW d \in Devices, checkDeliveryPointBindings(d) PROVE Own
  <2> USE <1>3 DEF checkDeliveryPointBindings, Reads, Walk
  <2>1. Typed'
    BY <1>a, <1>b, <1>f DEF TypeOK, Readable, vars
  <2>s0. "stale_binding" \in Kinds /\ ({e \in {d} \cap bound : boundTo[e] \notin known}) \in SUBSET Subjects
    BY <1>b, <1>f DEF Kinds, Subjects, CheckTypeOK, TypeOK
  <2>k0. Kind("stale_binding", {e \in {d} \cap bound : boundTo[e] \notin known}) \subseteq Kinds \X Subjects
    BY <2>s0, KindIn
  <2>s1. "binding_disagrees" \in Kinds /\ ({e \in {d} \cap bound : Disagrees(known, e)}) \in SUBSET Subjects
    BY <1>b, <1>f DEF Kinds, Subjects, CheckTypeOK, TypeOK
  <2>k1. Kind("binding_disagrees", {e \in {d} \cap bound : Disagrees(known, e)}) \subseteq Kinds \X Subjects
    BY <2>s1, KindIn
  <2>2. found' \subseteq Kinds \X Subjects
    BY <1>b, <2>k0, <2>k1 DEF CheckTypeOK
  <2>3. ReadOK'
    BY <1>b, <1>f DEF ReadOK, Loaded, ComeTo, Readable, TypeOK, HasRecord, InTypeSet,
       CheckPhases, FromServices, FromBindings, FromSets, InSets, FromRecords, FromMarker,
       FromIndex, FromTypes, Ended
  <2> QED BY <2>1, <2>2, <2>3
<1>4. ASSUME NEW s \in SubKeys, ReadSet(s) PROVE Own
  <2> USE <1>4 DEF ReadSet, Reads, Walk
  <2>1. Typed'
    BY <1>a, <1>b, <1>f DEF TypeOK, Readable, vars
  <2>2. found' \subseteq Kinds \X Subjects
    BY <1>b DEF CheckTypeOK
  <2>3. ReadOK'
    BY <1>b, <1>f DEF ReadOK, Loaded, ComeTo, Readable, TypeOK, HasRecord, InTypeSet,
       CheckPhases, FromServices, FromBindings, FromSets, InSets, FromRecords, FromMarker,
       FromIndex, FromTypes, Ended
  <2> QED BY <2>1, <2>2, <2>3
<1>5. ASSUME checkSubscriberIsIndexed PROVE Own
  <2> USE <1>5 DEF checkSubscriberIsIndexed, Reads, Walk
  <2>1. Typed'
    BY <1>a, <1>b, <1>f DEF TypeOK, Readable, vars
  <2>s0. "missing_index_entry" \in Kinds /\ ({at} \ index) \in SUBSET Subjects
    BY <1>b, <1>f DEF Kinds, Subjects, CheckTypeOK, TypeOK
  <2>k0. Kind("missing_index_entry", {at} \ index) \subseteq Kinds \X Subjects
    BY <2>s0, KindIn
  <2>2. found' \subseteq Kinds \X Subjects
    BY <1>b, <2>k0 DEF CheckTypeOK
  <2>3. ReadOK'
    BY <1>b, <1>f DEF ReadOK, Loaded, ComeTo, Readable, TypeOK, HasRecord, InTypeSet,
       CheckPhases, FromServices, FromBindings, FromSets, InSets, FromRecords, FromMarker,
       FromIndex, FromTypes, Ended
  <2> QED BY <2>1, <2>2, <2>3
<1>6. ASSUME NEW d \in Devices, CheckExists(d) PROVE Own
  <2> USE <1>6 DEF CheckExists, Reads, Walk
  <2>1. Typed'
    BY <1>a, <1>b, <1>f DEF TypeOK, Readable, vars
  <2>s0. "orphaned_delivery_point" \in Kinds /\ ({d} \ HasRecord) \in SUBSET Subjects
    BY <1>b, <1>f DEF Kinds, Subjects, CheckTypeOK, TypeOK
  <2>k0. Kind("orphaned_delivery_point", {d} \ HasRecord) \subseteq Kinds \X Subjects
    BY <2>s0, KindIn
  <2>2. found' \subseteq Kinds \X Subjects
    BY <1>b, <2>k0 DEF CheckTypeOK
  <2>3. ReadOK'
    BY <1>b, <1>f DEF ReadOK, Loaded, ComeTo, Readable, TypeOK, HasRecord, InTypeSet,
       CheckPhases, FromServices, FromBindings, FromSets, InSets, FromRecords, FromMarker,
       FromIndex, FromTypes, Ended
  <2> QED BY <2>1, <2>2, <2>3
<1>7. ASSUME CheckListed PROVE Own
  <2> USE <1>7 DEF CheckListed, Reads, Walk
  <2>1. Typed'
    BY <1>a, <1>b, <1>f DEF TypeOK, Readable, vars
  <2>s0. "missing_index_entry" \in Kinds /\ ({at} \ InTypeSet) \in SUBSET Subjects
    BY <1>b, <1>f DEF Kinds, Subjects, CheckTypeOK, TypeOK
  <2>k0. Kind("missing_index_entry", {at} \ InTypeSet) \subseteq Kinds \X Subjects
    BY <2>s0, KindIn
  <2>2. found' \subseteq Kinds \X Subjects
    BY <1>b, <2>k0 DEF CheckTypeOK
  <2>3. ReadOK'
    BY <1>b, <1>f DEF ReadOK, Loaded, ComeTo, Readable, TypeOK, HasRecord, InTypeSet,
       CheckPhases, FromServices, FromBindings, FromSets, InSets, FromRecords, FromMarker,
       FromIndex, FromTypes, Ended
  <2> QED BY <2>1, <2>2, <2>3
<1>8. ASSUME NextSet PROVE Own
  <2> USE <1>8 DEF NextSet, Reads, Walk
  <2>1. Typed'
    BY <1>a, <1>b, <1>f DEF TypeOK, Readable, vars
  <2>2. found' \subseteq Kinds \X Subjects
    BY <1>b DEF CheckTypeOK
  <2>3. ReadOK'
    BY <1>b, <1>f DEF ReadOK, Loaded, ComeTo, Readable, TypeOK, HasRecord, InTypeSet,
       CheckPhases, FromServices, FromBindings, FromSets, InSets, FromRecords, FromMarker,
       FromIndex, FromTypes, Ended
  <2> QED BY <2>1, <2>2, <2>3
<1>9. ASSUME NEW d \in Devices, ReadRecord(d) PROVE Own
  <2> USE <1>9 DEF ReadRecord, Reads, Walk
  <2>1. Typed'
    BY <1>a, <1>b, <1>f DEF TypeOK, Readable, vars
  <2>2. found' \subseteq Kinds \X Subjects
    BY <1>b DEF CheckTypeOK
  <2>3. ReadOK'
    BY <1>b, <1>f DEF ReadOK, Loaded, ComeTo, Readable, TypeOK, HasRecord, InTypeSet,
       CheckPhases, FromServices, FromBindings, FromSets, InSets, FromRecords, FromMarker,
       FromIndex, FromTypes, Ended
  <2> QED BY <2>1, <2>2, <2>3
<1>10. ASSUME CheckOwner PROVE Own
  <2> USE <1>10 DEF CheckOwner, Reads, Walk
  <2>1. Typed'
    BY <1>a, <1>b, <1>f DEF TypeOK, Readable, vars
  <2>s0. "unreferenced_delivery_point" \in Kinds /\ ({d \in {at} \cap Devices : d \notin deviceSet[FixedSub[d]]}) \in SUBSET Subjects
    BY <1>b, <1>f DEF Kinds, Subjects, CheckTypeOK, TypeOK
  <2>k0. Kind("unreferenced_delivery_point", {d \in {at} \cap Devices : d \notin deviceSet[FixedSub[d]]}) \subseteq Kinds \X Subjects
    BY <2>s0, KindIn
  <2>2. found' \subseteq Kinds \X Subjects
    BY <1>b, <2>k0 DEF CheckTypeOK
  <2>3. ReadOK'
    BY <1>b, <1>f DEF ReadOK, Loaded, ComeTo, Readable, TypeOK, HasRecord, InTypeSet,
       CheckPhases, FromServices, FromBindings, FromSets, InSets, FromRecords, FromMarker,
       FromIndex, FromTypes, Ended
  <2> QED BY <2>1, <2>2, <2>3
<1>11. ASSUME checkSubscriberIndex PROVE Own
  <2> USE <1>11 DEF checkSubscriberIndex, Reads, Walk
  <2>1. Typed'
    BY <1>a, <1>b, <1>f DEF TypeOK, Readable, vars
  <2>s0. "index_not_built" \in Kinds /\ (IF marker THEN {} ELSE {Nobody}) \in SUBSET Subjects
    BY <1>b, <1>f DEF Kinds, Subjects, CheckTypeOK, TypeOK
  <2>k0. Kind("index_not_built", IF marker THEN {} ELSE {Nobody}) \subseteq Kinds \X Subjects
    BY <2>s0, KindIn
  <2>2. found' \subseteq Kinds \X Subjects
    BY <1>b, <2>k0 DEF CheckTypeOK
  <2>3. ReadOK'
    BY <1>b, <1>f DEF ReadOK, Loaded, ComeTo, Readable, TypeOK, HasRecord, InTypeSet,
       CheckPhases, FromServices, FromBindings, FromSets, InSets, FromRecords, FromMarker,
       FromIndex, FromTypes, Ended
  <2> QED BY <2>1, <2>2, <2>3
<1>12. ASSUME NEW s \in SubKeys, ScanSubscriber(s) PROVE Own
  <2> USE <1>12 DEF ScanSubscriber, Reads, Walk
  <2>1. Typed'
    BY <1>a, <1>b, <1>f DEF TypeOK, Readable, vars
  <2>2. found' \subseteq Kinds \X Subjects
    BY <1>b DEF CheckTypeOK
  <2>3. ReadOK'
    BY <1>b, <1>f DEF ReadOK, Loaded, ComeTo, Readable, TypeOK, HasRecord, InTypeSet,
       CheckPhases, FromServices, FromBindings, FromSets, InSets, FromRecords, FromMarker,
       FromIndex, FromTypes, Ended
  <2> QED BY <2>1, <2>2, <2>3
<1>13. ASSUME CheckDevices PROVE Own
  <2> USE <1>13 DEF CheckDevices, Reads, Walk
  <2>1. Typed'
    BY <1>a, <1>b, <1>f DEF TypeOK, Readable, vars
  <2>s0. "stale_index_entry" \in Kinds /\ (({at} \ {Nobody}) \ WithDevices) \in SUBSET Subjects
    BY <1>b, <1>f DEF Kinds, Subjects, CheckTypeOK, TypeOK
  <2>k0. Kind("stale_index_entry", ({at} \ {Nobody}) \ WithDevices) \subseteq Kinds \X Subjects
    BY <2>s0, KindIn
  <2>2. found' \subseteq Kinds \X Subjects
    BY <1>b, <2>k0 DEF CheckTypeOK
  <2>3. ReadOK'
    BY <1>b, <1>f DEF ReadOK, Loaded, ComeTo, Readable, TypeOK, HasRecord, InTypeSet,
       CheckPhases, FromServices, FromBindings, FromSets, InSets, FromRecords, FromMarker,
       FromIndex, FromTypes, Ended
  <2> QED BY <2>1, <2>2, <2>3
<1>14. ASSUME NEW d \in Devices, ScanDevice(d) PROVE Own
  <2> USE <1>14 DEF ScanDevice, Reads, Walk
  <2>1. Typed'
    BY <1>a, <1>b, <1>f DEF TypeOK, Readable, vars
  <2>2. found' \subseteq Kinds \X Subjects
    BY <1>b DEF CheckTypeOK
  <2>3. ReadOK'
    BY <1>b, <1>f DEF ReadOK, Loaded, ComeTo, Readable, TypeOK, HasRecord, InTypeSet,
       CheckPhases, FromServices, FromBindings, FromSets, InSets, FromRecords, FromMarker,
       FromIndex, FromTypes, Ended
  <2> QED BY <2>1, <2>2, <2>3
<1>15. ASSUME CheckRecord PROVE Own
  <2> USE <1>15 DEF CheckRecord, Reads, Walk
  <2>1. Typed'
    BY <1>a, <1>b, <1>f DEF TypeOK, Readable, vars
  <2>s0. "stale_index_entry" \in Kinds /\ (({at} \ {Nobody}) \ HasRecord) \in SUBSET Subjects
    BY <1>b, <1>f DEF Kinds, Subjects, CheckTypeOK, TypeOK
  <2>k0. Kind("stale_index_entry", ({at} \ {Nobody}) \ HasRecord) \subseteq Kinds \X Subjects
    BY <2>s0, KindIn
  <2>2. found' \subseteq Kinds \X Subjects
    BY <1>b, <2>k0 DEF CheckTypeOK
  <2>3. ReadOK'
    BY <1>b, <1>f DEF ReadOK, Loaded, ComeTo, Readable, TypeOK, HasRecord, InTypeSet,
       CheckPhases, FromServices, FromBindings, FromSets, InSets, FromRecords, FromMarker,
       FromIndex, FromTypes, Ended
  <2> QED BY <2>1, <2>2, <2>3
<1>16. ASSUME checkCounters PROVE Own
  <2> USE <1>16 DEF checkCounters, Reads, Walk
  <2>1. Typed'
    BY <1>a, <1>b, <1>f DEF TypeOK, Readable, vars
  <2>s0. "leaked_counter" \in Kinds /\ (Counters) \in SUBSET Subjects
    BY <1>b, <1>f DEF Kinds, Subjects, CheckTypeOK, TypeOK
  <2>k0. Kind("leaked_counter", Counters) \subseteq Kinds \X Subjects
    BY <2>s0, KindIn
  <2>2. found' \subseteq Kinds \X Subjects
    BY <1>b, <2>k0 DEF CheckTypeOK
  <2>3. ReadOK'
    BY <1>b, <1>f DEF ReadOK, Loaded, ComeTo, Readable, TypeOK, HasRecord, InTypeSet,
       CheckPhases, FromServices, FromBindings, FromSets, InSets, FromRecords, FromMarker,
       FromIndex, FromTypes, Ended
  <2> QED BY <2>1, <2>2, <2>3
<1>17. Own
  BY <1>1, <1>2, <1>3, <1>4, <1>5, <1>6, <1>7, <1>8, <1>9, <1>10, <1>11, <1>12, <1>13, <1>14, <1>15, <1>16 DEF Looking
<1>18. phase' \in Phases
  BY LookingReads DEF Phases, CheckPhases, FromServices, FromBindings, FromSets, InSets, FromRecords, FromMarker,
       FromIndex, FromTypes, Ended
<1>19. CheckTypeOK'
  BY <1>a, <1>b, <1>c, <1>17, <1>18 DEF CheckTypeOK
<1> QED BY <1>c, <1>d, <1>17, <1>19 DEF BaseInv, StoreOK

-----------------------------------------------------------------------------
(* The first and the last step of a request, and /stats *)

LEMMA ProblemsAreTyped == ASSUME CheckTypeOK PROVE Problems \subseteq Kinds \X Subjects
<1> USE StoreAssumption, CheckAssumption
<1>b. TypeOK
  BY DEF CheckTypeOK
<1>1. /\ (pspSet \ Readable) \cup (psps \cap Unreadable) \subseteq Subjects
      /\ Readable \ pspSet \subseteq Subjects
  BY <1>b DEF CheckTypeOK, Readable, Subjects
<1>2. ProviderProblems \subseteq Kinds \X Subjects
  BY <1>1 DEF ProviderProblems, Kind, Kinds, Subjects
<1>3. BindingProblems \subseteq Kinds \X Subjects
  BY <1>b DEF BindingProblems, Kind, Kinds, Subjects, TypeOK
<1>4. DeviceProblems \subseteq Kinds \X Subjects
  BY DEF DeviceProblems, Subscribed, HasRecord, Kind, Kinds, Subjects
<1>5. IndexProblems \subseteq Kinds \X Subjects
  <2>1. /\ (WithDevices \ index) \cup (Subscribed \ InTypeSet) \subseteq Subjects
        /\ (index \ WithDevices) \cup (InTypeSet \ HasRecord) \subseteq Subjects
    BY <1>b DEF TypeOK, WithDevices, Subscribed, InTypeSet, Subjects
  <2>2. (IF marker THEN {} ELSE {Nobody}) \subseteq Subjects
    BY DEF Subjects
  <2> QED BY <2>1, <2>2 DEF IndexProblems, Kind, Kinds
<1> QED BY <1>2, <1>3, <1>4, <1>5 DEF Problems

LEMMA ProblemsAreTypedThen == CheckTypeOK' => Problems' \subseteq Kinds \X Subjects
<1>1. CheckTypeOK => Problems \subseteq Kinds \X Subjects
  BY ProblemsAreTyped
<1>2. (CheckTypeOK => Problems \subseteq Kinds \X Subjects)'
  BY <1>1, PTL
<1> QED BY <1>2

LEMMA BeginBase == ASSUME BaseInv, CheckConsistency PROVE BaseInv'
<1> USE StoreAssumption, CheckAssumption DEF CheckConsistency, bindings
<1>b. CheckTypeOK /\ TypeOK /\ LocalsOK /\ ChosenOK /\ LocksOK /\ HomesOK /\ ReadOK
  BY DEF BaseInv, StoreOK, CheckTypeOK
<1>1. TypeOK' /\ LocalsOK' /\ ChosenOK' /\ HomesOK' /\ LocksOK'
  BY <1>b DEF vars, TypeOK, LocalsOK, ChosenOK, OfType, HomesOK, HomeOnly, LocksOK, CountPhases
<1>2. Problems \subseteq Kinds \X Subjects
  BY <1>b, ProblemsAreTyped
<1>3. CheckTypeOK'
  BY <1>b, <1>1, <1>2 DEF CheckTypeOK, providers, Phases
<1>4. ReadOK'
  BY <1>b DEF ReadOK, CheckPhases, FromServices, FromBindings, FromSets, InSets, FromRecords,
     FromMarker, FromIndex, FromTypes, Ended
<1> QED BY <1>1, <1>3, <1>4 DEF BaseInv, StoreOK

(* The end of a request, and the steps of /stats. *)
Counts == Counting \/ Answer

LEMMA CountsAre ==
    ASSUME BaseInv, Counts
    PROVE  /\ UNCHANGED <<store, psps, pspSet, leaving, boundTo, chosen, marker, requests>>
           /\ phase' \notin CheckPhases
           /\ stays' \subseteq stays \cup Problems
<1> USE DEF Counts, Counting, CheckPhases, FromServices, FromBindings, FromSets, InSets,
       FromRecords, FromMarker, FromIndex, FromTypes, Ended, vars, providers, bindings, history,
       store
<1>1. CASE SubscriberStats
  BY <1>1 DEF SubscriberStats
<1>2. CASE CountSubscribers
  BY <1>2 DEF CountSubscribers
<1>3. CASE TypesToCount
  BY <1>3 DEF TypesToCount
<1>4. CASE AnswerStats
  BY <1>4 DEF AnswerStats
<1>5. CASE \E t \in Types : CountDevices(t)
  BY <1>5 DEF CountDevices
<1>6. CASE Answer
  BY <1>6 DEF Answer
<1> QED BY <1>1, <1>2, <1>3, <1>4, <1>5, <1>6

(* How many are indexed is a number. *)
LEMMA IndexesAreFinite ==
    ASSUME TypeOK
    PROVE  /\ Cardinality(index) \in Nat
           /\ \A t \in Types : Cardinality(typeSet[t]) \in Nat
<1> USE StoreAssumption, CheckAssumption DEF TypeOK
<1>1. IsFiniteSet(index)
  BY FS_Subset
<1>2. \A t \in Types : IsFiniteSet(typeSet[t])
  BY FS_Subset
<1> QED BY <1>1, <1>2, FS_CardinalityType

LEMMA CountsBase == ASSUME BaseInv, Counts PROVE BaseInv'
<1> USE StoreAssumption, CheckAssumption DEF bindings, history
<1>a. CheckTypeOK /\ TypeOK /\ LocalsOK /\ ChosenOK /\ LocksOK /\ HomesOK /\ ReadOK
  BY DEF BaseInv, StoreOK, CheckTypeOK
<1>b. /\ UNCHANGED <<store, psps, pspSet, leaving, boundTo, chosen, marker, requests>>
      /\ phase' \notin CheckPhases
  BY CountsAre
<1>c. Problems \subseteq Kinds \X Subjects
  BY <1>a, ProblemsAreTyped
<1>d. HomesOK'
  BY <1>a, <1>b DEF HomesOK, HomeOnly, store
<1>1. ASSUME SubscriberStats PROVE BaseInv'
  <2> USE <1>1 DEF SubscriberStats, RLock, store, locals, providers
  <2>1. TypeOK' /\ LocalsOK' /\ ChosenOK' /\ LocksOK'
    BY <1>a DEF TypeOK, LocalsOK, ChosenOK, OfType, LocksOK
  <2>2. CheckTypeOK'
    BY <1>a, <1>c, <2>1 DEF CheckTypeOK, Phases
  <2>3. ReadOK'
    BY <1>a, <1>b DEF ReadOK
  <2> QED BY <1>d, <2>1, <2>2, <2>3 DEF BaseInv, StoreOK
<1>2. ASSUME CountSubscribers PROVE BaseInv'
  <2> USE <1>2 DEF CountSubscribers, vars, providers
  <2>1. TypeOK' /\ LocalsOK' /\ ChosenOK' /\ LocksOK'
    BY <1>a DEF TypeOK, LocalsOK, ChosenOK, OfType, LocksOK, CountPhases
  <2>2. stats' \in [subscribers : Nat, devices : [Types -> Nat]]
    BY <1>a, IndexesAreFinite DEF CheckTypeOK
  <2>3. CheckTypeOK'
    BY <1>a, <2>1, <2>2 DEF CheckTypeOK, Phases
  <2>4. ReadOK'
    BY <1>a, <1>b DEF ReadOK
  <2> QED BY <1>d, <2>1, <2>3, <2>4 DEF BaseInv, StoreOK
<1>3. ASSUME TypesToCount PROVE BaseInv'
  <2> USE <1>3 DEF TypesToCount, vars, providers
  <2>1. TypeOK' /\ LocalsOK' /\ ChosenOK' /\ LocksOK'
    BY <1>a DEF TypeOK, LocalsOK, ChosenOK, OfType, LocksOK, CountPhases
  <2>2. CheckTypeOK'
    BY <1>a, <2>1 DEF CheckTypeOK, Phases
  <2>3. ReadOK'
    BY <1>a, <1>b DEF ReadOK
  <2> QED BY <1>d, <2>1, <2>2, <2>3 DEF BaseInv, StoreOK
<1>4. ASSUME AnswerStats PROVE BaseInv'
  <2> USE <1>4 DEF AnswerStats, vars, providers
  <2>1. TypeOK' /\ LocalsOK' /\ ChosenOK' /\ LocksOK'
    BY <1>a DEF TypeOK, LocalsOK, ChosenOK, OfType, LocksOK, CountPhases
  <2>2. CheckTypeOK'
    BY <1>a, <2>1 DEF CheckTypeOK, Phases
  <2>3. ReadOK'
    BY <1>a, <1>b DEF ReadOK
  <2> QED BY <1>d, <2>1, <2>2, <2>3 DEF BaseInv, StoreOK
<1>5. ASSUME NEW t \in Types, CountDevices(t) PROVE BaseInv'
  <2> USE <1>5 DEF CountDevices, vars, providers
  <2>1. TypeOK' /\ LocalsOK' /\ ChosenOK' /\ LocksOK'
    BY <1>a DEF TypeOK, LocalsOK, ChosenOK, OfType, LocksOK, CountPhases
  <2>2. stats' \in [subscribers : Nat, devices : [Types -> Nat]]
    BY <1>a, IndexesAreFinite DEF CheckTypeOK
  <2>3. CheckTypeOK'
    BY <1>a, <2>1, <2>2 DEF CheckTypeOK, Phases, OfType
  <2>4. ReadOK'
    BY <1>a, <1>b DEF ReadOK
  <2> QED BY <1>d, <2>1, <2>3, <2>4 DEF BaseInv, StoreOK
<1>6. ASSUME Answer PROVE BaseInv'
  <2> USE <1>6 DEF Answer, ReleaseAll, store, locals, providers
  <2>1. TypeOK' /\ LocalsOK' /\ ChosenOK'
    BY <1>a DEF TypeOK, LocalsOK, ChosenOK, OfType
  <2>2. LocksOK'
    <3>1. \A w \in Workers : step[w] \in WriteSteps => w # Reader
      BY <1>a DEF LocksOK, WriteSteps
    <3>2. /\ phase' \notin CountPhases /\ step' = step
          /\ writer' = [p \in Procs |-> IF writer[p] = Reader THEN Nobody ELSE writer[p]]
          /\ readers' = [p \in Procs |-> readers[p] \ {Reader}]
      BY DEF CountPhases
    <3>3. ProcOf \in [Workers -> Procs]
      BY DEF TypeOK
    <3> QED BY <1>a, <3>1, <3>2, <3>3 DEF LocksOK
  <2>3. NoStats \in [subscribers : Nat, devices : [Types -> Nat]]
    BY DEF NoStats
  <2>4. CheckTypeOK'
    BY <1>a, <2>1, <2>3 DEF CheckTypeOK, Phases
  <2>5. ReadOK'
    BY <1>a, <1>b DEF ReadOK
  <2> QED BY <1>d, <2>1, <2>2, <2>4, <2>5 DEF BaseInv, StoreOK
<1> QED BY <1>1, <1>2, <1>3, <1>4, <1>5, <1>6 DEF Counts, Counting

(* The four ways a step of the system can go. *)
LEMMA NextIs ==
    CheckNext => CheckConsistency \/ Looking \/ Counts \/ Writing
BY DEF CheckNext, Checking, Looking, Counts, Writing

LEMMA StepBase == BaseInv /\ [CheckNext]_allVars => BaseInv'
<1> SUFFICES ASSUME BaseInv, [CheckNext]_allVars PROVE BaseInv'
  OBVIOUS
<1>1. CASE CheckNext
  BY <1>1, NextIs, BeginBase, LookingBase, CountsBase, WritingIs, WritesBase
<1>2. CASE UNCHANGED allVars
  <2>1. StoreOK' /\ ChosenOK' /\ LocksOK'
    BY <1>2, StoreKept DEF allVars, reading
  <2>2. CheckTypeOK'
    BY <1>2, <2>1 DEF BaseInv, StoreOK, CheckTypeOK, allVars, reading, providers, bindings,
       history
  <2>3. ReadOK'
    BY <1>2 DEF BaseInv, ReadOK, Loaded, ComeTo, allVars, reading
  <2> QED BY <2>1, <2>2, <2>3 DEF BaseInv
<1> QED BY <1>1, <1>2

(***************************************************************************)
(* The variables of the store, of the writers and of the reading request   *)
(* keep their types.                                                       *)
(***************************************************************************)
THEOREM CheckTypes == CheckSpec => []CheckTypeOK
<1>1. BaseInv => CheckTypeOK
  BY DEF BaseInv
<1> QED BY InitBase, StepBase, <1>1, PTL DEF CheckSpec

-----------------------------------------------------------------------------
(* /stats in a single process *)

SingleProcess == \A w, x \in Workers : ProcOf[w] = ProcOf[x]

(* The devices of type t that were taken out of its set. *)
SweptOf(t) == {d \in swept \cap Devices : TypeOf[d] = t}

(* The read lock keeps every request that writes out but the cleanup of a   *)
(* /subscriptions, which takes entries out of the indexes and adds none.    *)
Shrinks ==
    /\ index' \subseteq index /\ index \ index' \subseteq swept' /\ swept \subseteq swept'
    /\ \A t \in Types : typeSet'[t] \subseteq typeSet[t]
                        /\ typeSet[t] \ typeSet'[t] \subseteq SweptOf(t)'

LEMMA CountedShrinks ==
    ASSUME SingleProcess, BaseInv, Writing, phase \in CountPhases
    PROVE  Shrinks
<1> USE StoreAssumption, CheckAssumption
<1>a. TypeOK /\ LocksOK
  BY DEF BaseInv, CheckTypeOK
<1>1. ASSUME NEW w \in Workers \ {Reader}, WriteSubscription(w) PROVE Shrinks
  <2>1. Reader \in readers[ProcOf[w]] /\ ProcOf[w] \in Procs
    BY <1>a DEF LocksOK, SingleProcess
  <2>2. writer[ProcOf[w]] = Nobody
    BY <1>a, <2>1 DEF LocksOK
  <2>3. step[w] \notin WriteSteps
    BY <1>a, <2>2 DEF LocksOK
  <2>4. ~LockFree(w)
    BY <2>1 DEF LockFree
  <2>5. Sweep(w) /\ (Request(w) \/ Progress(w) \/ Abort(w))
    BY <1>1 DEF WriteSubscription, Progress
  <2>6. phase # "idle"
    BY DEF CountPhases
  <2>7. CASE QueryClean(w)
    <3>1. PICK d \in devs[w] : UnsubscribeScript(sub[w], d)
      BY <2>7 DEF QueryClean
    <3>2. swept' = swept \cup (index \ index')
                     \cup UNION {typeSet[t] \ typeSet'[t] : t \in Types}
      BY <2>5, <2>6, <2>7 DEF Sweep, QueryClean
    <3>3. d \in Devices /\ TypeOf[d] \in Types
      BY <1>a DEF TypeOK
    <3>4. ASSUME NEW t \in Types
          PROVE  typeSet'[t] \subseteq typeSet[t] /\ typeSet[t] \ typeSet'[t] \subseteq SweptOf(t)'
      <4>1. /\ typeSet'[t] \subseteq typeSet[t]
            /\ typeSet[t] \ typeSet'[t] \subseteq {d} /\ (t # TypeOf[d] => typeSet'[t] = typeSet[t])
        BY <1>a, <3>1, <3>3 DEF UnsubscribeScript, TypeOK
      <4>2. typeSet[t] \ typeSet'[t] \subseteq swept'
        BY <3>2
      <4> QED BY <3>3, <4>1, <4>2 DEF SweptOf
    <3>5. index' \subseteq index
      BY <3>1 DEF UnsubscribeScript
    <3> QED BY <3>2, <3>4, <3>5 DEF Shrinks
  <2>8. CASE ~QueryClean(w)
    <3>1. UNCHANGED <<index, typeSet>>
      <4>1. ASSUME Request(w) PROVE UNCHANGED <<index, typeSet>>
        BY <2>4, <4>1 DEF Request, Subscribe, Unsubscribe, UnsubscribeAll, Push, Query, Lock,
           store
      <4>2. ASSUME Progress(w) PROVE UNCHANGED <<index, typeSet>>
        BY <2>3, <2>4, <2>8, <4>2 DEF Progress, WriteSteps, SetDeliveryPoint, AddToSubscriber,
           SetBinding, RemoveFromSubscriber, RemoveRecord, RemoveBinding, GetDeliveryPoint,
           ForgetLock, ForgetKeeps, ForgetCheck, ForgetScript, ForgetBinding, ForgetFails,
           DeviceGone, DeviceChanged, RemoveUnchanged, PushDone, QueryMGet, QueryCleanFails,
           store
      <4>3. ASSUME Abort(w) PROVE UNCHANGED <<index, typeSet>>
        BY <4>3 DEF Abort, store
      <4> QED BY <2>5, <4>1, <4>2, <4>3
    <3>2. swept \subseteq swept'
      BY <2>5 DEF Sweep
    <3> QED BY <3>1, <3>2 DEF Shrinks
  <2> QED BY <2>7, <2>8
<1>2. ASSUME NEW p \in Providers, AddPsp(p) \/ RemovePsp(p) \/ RemovePspRecord(p)
      PROVE  Shrinks
  <2>1. UNCHANGED <<index, typeSet, swept>>
    BY <1>2 DEF AddPsp, RemovePsp, RemovePspRecord, vars
  <2> QED BY <2>1 DEF Shrinks
<1> QED BY <1>1, <1>2 DEF Writing

(* A number between those of two finite sets is so still when the first     *)
(* loses members and the second gains some.                                 *)
LEMMA StillBetween ==
    ASSUME NEW A, NEW B, NEW C, NEW D, IsFiniteSet(A), IsFiniteSet(D),
           B \subseteq A, C \subseteq D, NEW n \in Cardinality(A) .. Cardinality(C)
    PROVE  n \in Cardinality(B) .. Cardinality(D)
<1>1. /\ IsFiniteSet(B) /\ Cardinality(B) <= Cardinality(A)
      /\ IsFiniteSet(C) /\ Cardinality(C) <= Cardinality(D)
  BY FS_Subset
<1>2. Cardinality(A) \in Nat /\ Cardinality(B) \in Nat /\ Cardinality(C) \in Nat
      /\ Cardinality(D) \in Nat
  BY <1>1, FS_CardinalityType
<1> QED BY <1>1, <1>2

(* The number of a finite set, taken now, is between it and more than it. *)
LEMMA CountedNow ==
    ASSUME NEW A, NEW D, IsFiniteSet(D), A \subseteq D
    PROVE  Cardinality(A) \in Cardinality(A) .. Cardinality(D)
<1>1. IsFiniteSet(A) /\ Cardinality(A) <= Cardinality(D)
  BY FS_Subset
<1>2. Cardinality(A) \in Nat /\ Cardinality(D) \in Nat
  BY <1>1, FS_CardinalityType
<1> QED BY <1>1, <1>2

LEMMA StepStats ==
    ASSUME SingleProcess, BaseInv, StatsInv, [CheckNext]_allVars
    PROVE  StatsInv'
<1> USE StoreAssumption, CheckAssumption
<1>a. TypeOK /\ CheckTypeOK /\ ReadOK
  BY DEF BaseInv, CheckTypeOK
<1>b. /\ IsFiniteSet(index) /\ IsFiniteSet(index \cup (swept \cap SubKeys))
      /\ \A t \in Types : IsFiniteSet(typeSet[t]) /\ IsFiniteSet(typeSet[t] \cup SweptOf(t))
  <2>1. /\ index \in SUBSET SubKeys /\ index \cup (swept \cap SubKeys) \in SUBSET SubKeys
        /\ \A t \in Types : /\ typeSet[t] \in SUBSET Devices
                            /\ typeSet[t] \cup SweptOf(t) \in SUBSET Devices
    BY <1>a DEF TypeOK, SweptOf
  <2> QED BY <2>1, FS_Subset
<1>c. \A p \in known : TypeOfPsp[p] \in Types
  BY <1>a DEF CheckTypeOK
<1>1. CASE Writing
  <2>1. UNCHANGED <<phase, known, stats>>
    BY <1>1, WritingIs DEF Writes, reading
  <2>2. CASE phase \in CountPhases
    <3>1. Shrinks
      BY <1>1, <2>2, CountedShrinks
    <3>2. TypeOK' /\ swept' \subseteq Devices \cup SubKeys
      BY <1>1, WritingIs DEF Writes, StoreOK
    <3>3. IsFiniteSet(index' \cup (swept' \cap SubKeys))
      <4>1. index' \cup (swept' \cap SubKeys) \in SUBSET SubKeys
        BY <3>2 DEF TypeOK
      <4> QED BY <4>1, FS_Subset
    <3>4. ASSUME phase \in {"stats.providers", "stats.types", "stats.done"}
          PROVE  stats'.subscribers \in Cardinality(index') ..
                    Cardinality(index' \cup (swept' \cap SubKeys))
      <4>1. stats.subscribers \in Cardinality(index) ..
                    Cardinality(index \cup (swept \cap SubKeys))
        BY <3>4 DEF StatsInv
      <4>2. index' \subseteq index
            /\ index \cup (swept \cap SubKeys) \subseteq index' \cup (swept' \cap SubKeys)
        BY <1>a, <3>1 DEF Shrinks, TypeOK
      <4> QED BY <1>b, <2>1, <3>3, <4>1, <4>2, StillBetween
    <3>5. ASSUME NEW p \in known
          PROVE  stats'.devices[TypeOfPsp[p]] \in Cardinality(typeSet'[TypeOfPsp[p]]) ..
                    Cardinality(typeSet'[TypeOfPsp[p]] \cup SweptOf(TypeOfPsp[p])')
      <4> DEFINE t == TypeOfPsp[p]
      <4>0. t \in Types
        BY <1>c
      <4> HIDE DEF t
      <4>1. stats.devices[t] \in Cardinality(typeSet[t]) .. Cardinality(typeSet[t] \cup SweptOf(t))
        BY <2>2 DEF StatsInv, SweptOf, t
      <4>2. typeSet'[t] \subseteq typeSet[t]
            /\ typeSet[t] \cup SweptOf(t) \subseteq typeSet'[t] \cup SweptOf(t)'
        BY <3>1, <4>0 DEF Shrinks, SweptOf
      <4>3. IsFiniteSet(typeSet'[t] \cup SweptOf(t)')
        <5>1. typeSet'[t] \cup SweptOf(t)' \in SUBSET Devices
          BY <3>2, <4>0 DEF TypeOK, SweptOf
        <5> QED BY <5>1, FS_Subset
      <4>4. stats.devices[t] \in Cardinality(typeSet'[t]) ..
               Cardinality(typeSet'[t] \cup SweptOf(t)')
        BY <1>b, <4>0, <4>1, <4>2, <4>3, StillBetween
      <4> QED BY <2>1, <4>4 DEF t
    <3> QED BY <2>1, <3>4, <3>5 DEF StatsInv, SweptOf
  <2>3. CASE phase \notin CountPhases
    BY <2>1, <2>3 DEF StatsInv, CountPhases
  <2> QED BY <2>2, <2>3
<1>2. CASE CheckConsistency \/ Looking
  <2>1. phase' \notin CountPhases
    BY <1>2, LookingReads DEF CheckConsistency, CheckPhases, FromServices, FromBindings,
       FromSets, InSets, FromRecords, FromMarker, FromIndex, FromTypes, Ended, CountPhases
  <2> QED BY <2>1 DEF StatsInv, CountPhases
<1>3. CASE SubscriberStats
  BY <1>3, <1>a DEF SubscriberStats, StatsInv, ReadOK, CountPhases
<1>4. CASE CountSubscribers
  <2>1. /\ phase' = "stats.providers" /\ known' = {}
        /\ stats'.subscribers = Cardinality(index) /\ UNCHANGED <<index, swept>>
    BY <1>4, <1>a DEF CountSubscribers, ReadOK, CheckTypeOK, vars, history
  <2>2. Cardinality(index) \in Cardinality(index) .. Cardinality(index \cup (swept \cap SubKeys))
    BY <1>b, CountedNow
  <2> QED BY <2>1, <2>2 DEF StatsInv
<1>5. CASE TypesToCount \/ AnswerStats
  BY <1>5, <1>a DEF TypesToCount, AnswerStats, StatsInv, ReadOK, vars, history, CountPhases
<1>6. ASSUME NEW t \in Types, CountDevices(t) PROVE StatsInv'
  <2>1. /\ stats' = [stats EXCEPT !.devices[t] = Cardinality(typeSet[t])]
        /\ known' = known \cup OfType(Providers, t)
        /\ UNCHANGED <<phase, index, typeSet, swept>> /\ phase = "stats.types"
    BY <1>6 DEF CountDevices, vars, history
  <2>2. stats'.subscribers = stats.subscribers
    BY <2>1, <1>a DEF CheckTypeOK
  <2>3. \A u \in Types : stats'.devices[u] = IF u = t THEN Cardinality(typeSet[t])
                                             ELSE stats.devices[u]
    BY <2>1, <1>a DEF CheckTypeOK
  <2>4. \A p \in known' : TypeOfPsp[p] \in Types /\ (p \in known \/ TypeOfPsp[p] = t)
    BY <2>1, <1>a DEF CheckTypeOK, OfType
  <2>5. Cardinality(typeSet[t]) \in Cardinality(typeSet[t]) ..
           Cardinality(typeSet[t] \cup SweptOf(t))
    BY <1>b, CountedNow
  <2>6. ASSUME NEW p \in known'
        PROVE  stats'.devices[TypeOfPsp[p]] \in Cardinality(typeSet[TypeOfPsp[p]]) ..
                  Cardinality(typeSet[TypeOfPsp[p]] \cup SweptOf(TypeOfPsp[p]))
    <3>1. CASE TypeOfPsp[p] = t
      BY <2>3, <2>5, <3>1
    <3>2. CASE TypeOfPsp[p] # t
      <4>1. stats'.devices[TypeOfPsp[p]] = stats.devices[TypeOfPsp[p]] /\ p \in known
        BY <2>3, <2>4, <3>2
      <4> QED BY <2>1, <4>1 DEF StatsInv, SweptOf, CountPhases
    <3> QED BY <3>1, <3>2
  <2> QED BY <2>1, <2>2, <2>6 DEF StatsInv, SweptOf
<1>7. CASE Answer
  BY <1>7 DEF Answer, StatsInv, CountPhases
<1>8. CASE UNCHANGED allVars
  BY <1>8 DEF allVars, reading, vars, history, StatsInv
<1> QED
  BY <1>1, <1>2, <1>3, <1>4, <1>5, <1>6, <1>7, <1>8, NextIs DEF Counts, Counting

LEMMA InitStats == CheckInit => StatsInv
BY DEF CheckInit, StatsInv, CountPhases

(* Where the indexes agree with the device sets, counting them counts those. *)
LEMMA CountsAddUp == BaseInv /\ StatsInv => StatsAddUp
<1> DEFINE Typed(D, t) == {d \in Devices \cap D : TypeOf[d] = t}
<1> SUFFICES ASSUME BaseInv, StatsInv, phase = "stats.done", IndexAgrees
             PROVE  /\ stats.subscribers \in Cardinality(WithDevices) ..
                          Cardinality(WithDevices \cup (swept \cap SubKeys))
                    /\ \A p \in known : stats.devices[TypeOfPsp[p]] \in
                          Cardinality(Typed(Subscribed, TypeOfPsp[p])) ..
                             Cardinality(Typed(Subscribed \cup swept, TypeOfPsp[p]))
  BY DEF StatsAddUp
<1> USE StoreAssumption, CheckAssumption
<1>a. TypeOK /\ known \subseteq Providers
  BY DEF BaseInv, CheckTypeOK
<1>1. index = WithDevices
  BY <1>a DEF TypeOK, IndexAgrees, WithDevices
<1>2. ASSUME NEW t \in Types
      PROVE  /\ typeSet[t] = Typed(Subscribed, t)
             /\ typeSet[t] \cup SweptOf(t) = Typed(Subscribed \cup swept, t)
  <2>1. typeSet[t] = Typed(Subscribed, t)
    BY <1>a DEF TypeOK, IndexAgrees, Subscribed
  <2> QED BY <2>1 DEF SweptOf
<1>3. \A p \in known : TypeOfPsp[p] \in Types
  BY <1>a
<1>4. \A p \in known : stats.devices[TypeOfPsp[p]] \in Cardinality(typeSet[TypeOfPsp[p]]) ..
                           Cardinality(typeSet[TypeOfPsp[p]] \cup SweptOf(TypeOfPsp[p]))
  BY DEF StatsInv, SweptOf, CountPhases
<1>5. stats.subscribers \in Cardinality(WithDevices) ..
                          Cardinality(WithDevices \cup (swept \cap SubKeys))
  BY <1>1 DEF StatsInv
<1> HIDE DEF Typed
<1> QED BY <1>2, <1>3, <1>4, <1>5

(***************************************************************************)
(* In a single process the read lock of /stats keeps its numbers, which it *)
(* asks redis for one at a time, to what is there when it answers and what *)
(* the unlocked cleanup of a /subscriptions has taken out since it began.  *)
(***************************************************************************)
THEOREM StatsCountWhatIsThere == ASSUME SingleProcess PROVE CheckSpec => []StatsAddUp
<1>1. CheckInit => BaseInv /\ StatsInv
  BY InitBase, InitStats
<1>2. (BaseInv /\ StatsInv) /\ [CheckNext]_allVars => (BaseInv /\ StatsInv)'
  BY StepBase, StepStats
<1> QED BY <1>1, <1>2, CountsAddUp, PTL DEF CheckSpec

-----------------------------------------------------------------------------
(* Each kind of problem *)

Each(x) ==
    /\ <<"dangling_provider", x>> \in Problems
          <=> (x \in pspSet /\ x \notin Readable) \/ x \in psps \cap Unreadable
    /\ <<"orphaned_provider", x>> \in Problems <=> x \in Readable /\ x \notin pspSet
    /\ <<"duplicate_provider", x>> \in Problems
          <=> x \in Types /\ \E p, q \in pspSet \cap Readable :
                                p # q /\ TypeOfPsp[p] = x /\ TypeOfPsp[q] = x
    /\ <<"stale_binding", x>> \in Problems <=> x \in bound /\ boundTo[x] \notin Readable
    /\ <<"binding_disagrees", x>> \in Problems <=> x \in bound /\ Disagrees(Readable, x)
    /\ <<"orphaned_delivery_point", x>> \in Problems
          <=> x \in Subscribed /\ x \notin HasRecord
    /\ <<"unreferenced_delivery_point", x>> \in Problems
          <=> x \in HasRecord /\ x \notin deviceSet[FixedSub[x]]
    /\ <<"leaked_counter", x>> \in Problems <=> x \in Counters
    /\ <<"index_not_built", x>> \in Problems <=> ~marker /\ x = Nobody
    /\ <<"missing_index_entry", x>> \in Problems
          <=> \/ x \in WithDevices /\ x \notin index
              \/ x \in Subscribed /\ x \notin InTypeSet
    /\ <<"stale_index_entry", x>> \in Problems
          <=> \/ x \in index /\ x \notin WithDevices
              \/ x \in InTypeSet /\ x \notin HasRecord


ProblemsAre == \A x : Each(x)

LEMMA ProblemIs == ProblemsAre
<1> SUFFICES ASSUME NEW x, NEW k
             PROVE  /\ <<k, x>> \in ProviderProblems <=>
                          \/ /\ k = "dangling_provider"
                             /\ (x \in pspSet /\ x \notin Readable) \/ x \in psps \cap Unreadable
                          \/ k = "orphaned_provider" /\ x \in Readable /\ x \notin pspSet
                          \/ /\ k = "duplicate_provider"
                             /\ x \in Types /\ \E p, q \in pspSet \cap Readable :
                                   p # q /\ TypeOfPsp[p] = x /\ TypeOfPsp[q] = x
                    /\ <<k, x>> \in BindingProblems <=>
                          \/ k = "stale_binding" /\ x \in bound /\ boundTo[x] \notin Readable
                          \/ k = "binding_disagrees" /\ x \in bound /\ Disagrees(Readable, x)
                    /\ <<k, x>> \in DeviceProblems <=>
                          \/ /\ k = "orphaned_delivery_point"
                             /\ x \in Subscribed /\ x \notin HasRecord
                          \/ /\ k = "unreferenced_delivery_point"
                             /\ x \in HasRecord /\ x \notin deviceSet[FixedSub[x]]
                          \/ k = "leaked_counter" /\ x \in Counters
                    /\ <<k, x>> \in IndexProblems <=>
                          \/ k = "index_not_built" /\ ~marker /\ x = Nobody
                          \/ /\ k = "missing_index_entry"
                             /\ \/ x \in WithDevices /\ x \notin index
                                \/ x \in Subscribed /\ x \notin InTypeSet
                          \/ /\ k = "stale_index_entry"
                             /\ \/ x \in index /\ x \notin WithDevices
                                \/ x \in InTypeSet /\ x \notin HasRecord
  BY DEF ProblemsAre, Each, Problems
<1>1. \A l, S : <<k, x>> \in Kind(l, S) <=> k = l /\ x \in S
  BY DEF Kind
<1> QED
  BY <1>1 DEF ProviderProblems, BindingProblems, DeviceProblems, IndexProblems

LEMMA ProblemIsThen == ProblemsAre'
BY ProblemIs, PTL

ConcernsAll ==
    boundTo \in [Devices -> Providers] => \A k, x :
       /\ x \in Concerns(k, x)
       /\ k = "duplicate_provider" => OfType(Providers, x) \subseteq Concerns(k, x)
       /\ k \in {"stale_binding", "binding_disagrees"} /\ x \in Devices =>
             {boundTo[x]} \cup OfType(Providers, TypeOf[x]) \subseteq Concerns(k, x)
       /\ k \in {"missing_index_entry", "stale_index_entry"} =>
             DevicesOf(x) \subseteq Concerns(k, x)

LEMMA ConcernsAre == ConcernsAll
BY CheckAssumption DEF ConcernsAll, Concerns, OfType, DevicesOf

LEMMA ConcernsAreThen == ConcernsAll'
BY ConcernsAre, PTL

(* What nobody touched is as it was. *)
LEMMA WritesSpare ==
    ASSUME BaseInv, Writes, TypeOK', HomesOK', phase # "idle",
           NEW k \in Kinds, NEW x \in Subjects, Quiet(k, x)'
    PROVE  <<k, x>> \in Problems' <=> <<k, x>> \in Problems
<1> USE StoreAssumption, CheckAssumption
<1>a. TypeOK /\ CheckTypeOK /\ HomesOK
  BY DEF BaseInv, StoreOK, CheckTypeOK
<1>b. Concerns(k, x)' \cap touched' = {} /\ boundTo' \in [Devices -> Providers]
  BY DEF Quiet, Writes, BindsByType
<1>c. /\ \A d \in Devices \ touched' : SameDevice(d)
      /\ \A p \in Providers \ touched' : SameProvider(p)
      /\ psps' \subseteq Providers /\ pspSet' \subseteq Providers /\ marker' = marker
  BY DEF Writes
<1>l. /\ x \in Concerns(k, x)'
      /\ k = "duplicate_provider" => OfType(Providers, x) \subseteq Concerns(k, x)'
      /\ k \in {"stale_binding", "binding_disagrees"} /\ x \in Devices =>
            {boundTo'[x]} \cup OfType(Providers, TypeOf[x]) \subseteq Concerns(k, x)'
      /\ k \in {"missing_index_entry", "stale_index_entry"} =>
            DevicesOf(x) \subseteq Concerns(k, x)'
  BY <1>b, ConcernsAreThen DEF ConcernsAll, OfType, DevicesOf
<1>d. x \notin touched'
  BY <1>b, <1>l
<1>e. \A p \in Providers \ touched' : p \in Readable' <=> p \in Readable
  BY <1>c DEF SameProvider, Readable
<1>f. Readable \subseteq Providers /\ Readable' \subseteq Providers
  BY <1>a, <1>c DEF Readable, CheckTypeOK
<1>g. \A d \in Devices \ touched' :
         /\ d \in HasRecord' <=> d \in HasRecord
         /\ d \in Subscribed' <=> d \in Subscribed
         /\ d \in InTypeSet' <=> d \in InTypeSet
  BY <1>c DEF SameDevice, HasRecord, Subscribed, InTypeSet
<1>h. /\ HasRecord \subseteq Devices /\ HasRecord' \subseteq Devices
      /\ Subscribed \subseteq Devices /\ Subscribed' \subseteq Devices
      /\ InTypeSet \subseteq Devices /\ InTypeSet' \subseteq Devices
      /\ bound \subseteq Devices /\ bound' \subseteq Devices
      /\ index \subseteq SubKeys /\ index' \subseteq SubKeys
      /\ WithDevices \subseteq SubKeys /\ WithDevices' \subseteq SubKeys
  BY <1>a DEF HasRecord, Subscribed, InTypeSet, WithDevices, TypeOK
<1>i. Each(x) /\ Each(x)'
  BY ProblemIs, ProblemIsThen DEF ProblemsAre
<1>1. CASE k \in {"dangling_provider", "orphaned_provider"}
  <2>1. x \in Providers => SameProvider(x)
    BY <1>c, <1>d
  <2>2. pspSet \subseteq Providers /\ psps \subseteq Providers
    BY <1>a DEF CheckTypeOK
  <2> QED BY <1>1, <1>c, <1>f, <2>1, <2>2, <1>i DEF SameProvider, Readable, Each
<1>2. CASE k = "duplicate_provider"
  <2>1. \A p \in Providers : TypeOfPsp[p] = x => SameProvider(p)
    BY <1>2, <1>b, <1>c, <1>l DEF OfType
  <2>2. \A p : p \in pspSet \cap Readable /\ TypeOfPsp[p] = x
                  <=> p \in pspSet' \cap Readable' /\ TypeOfPsp[p] = x
    BY <1>c, <1>f, <2>1 DEF SameProvider, Readable
  <2> QED BY <1>2, <2>2, <1>i DEF Each
<1>3. CASE k \in {"stale_binding", "binding_disagrees"}
  <2>1. CASE x \in Devices
    <3>1. x \in bound' <=> x \in bound
      BY <1>c, <1>d, <2>1 DEF SameDevice
    <3>0. boundTo'[x] = boundTo[x] /\ boundTo[x] \in Providers
      BY <1>a, <1>c, <1>d, <2>1 DEF SameDevice, CheckTypeOK
    <3>2. boundTo[x] \in Readable' <=> boundTo[x] \in Readable
      BY <1>3, <1>b, <1>e, <2>1, <3>0, <1>l
    <3>3. OfType(Readable', TypeOf[x]) = OfType(Readable, TypeOf[x])
      BY <1>3, <1>b, <1>e, <1>f, <2>1, <1>l DEF OfType
    <3>4. Disagrees(Readable', x) <=> Disagrees(Readable, x)
      BY <1>f, <3>2, <3>3 DEF Disagrees, OfType
    <3>5. Disagrees(Readable, x)' <=> Disagrees(Readable', x)
      BY <3>0 DEF Disagrees, OfType
    <3> QED BY <1>3, <3>0, <3>1, <3>2, <3>4, <3>5, <1>i DEF Each
  <2>2. CASE x \notin Devices
    BY <1>3, <1>h, <2>2, <1>i DEF Each
  <2> QED BY <2>1, <2>2
<1>4. CASE k \in {"orphaned_delivery_point", "leaked_counter", "index_not_built"}
  BY <1>4, <1>c, <1>d, <1>g, <1>h, <1>i DEF Each
<1>5. CASE k = "unreferenced_delivery_point"
  <2>1. CASE x \in Devices
    <3>1. CASE FixedSub[x] = Home[x]
      <4>1. deviceSet'[FixedSub[x]] = deviceSet[FixedSub[x]]
        BY <1>c, <1>d, <2>1, <3>1 DEF SameDevice
      <4> QED BY <1>5, <1>d, <1>g, <2>1, <4>1, <1>i DEF Each
    <3>2. CASE FixedSub[x] # Home[x]
      <4>1. x \notin deviceSet[FixedSub[x]] /\ x \notin deviceSet'[FixedSub[x]]
        BY <1>a, <2>1, <3>2 DEF HomesOK, HomeOnly
      <4> QED BY <1>5, <1>d, <1>g, <2>1, <4>1, <1>i DEF Each
    <3> QED BY <3>1, <3>2
  <2>2. CASE x \notin Devices
    BY <1>5, <1>h, <2>2, <1>i DEF Each
  <2> QED BY <2>1, <2>2
<1>6. CASE k \in {"missing_index_entry", "stale_index_entry"}
  <2>1. CASE x \in Devices
    <3>1. x \notin index \cup index' \cup WithDevices \cup WithDevices'
      BY <1>h, <2>1
    <3> QED BY <1>6, <1>d, <1>g, <2>1, <3>1, <1>i DEF Each
  <2>2. CASE x \in SubKeys
    <3>1. x \notin Subscribed \cup Subscribed' \cup InTypeSet \cup InTypeSet'
      BY <1>h, <2>2
    <3>2. \A d \in DevicesOf(x) : SameDevice(d) /\ Home[d] = x
      BY <1>6, <1>b, <1>c, <1>l DEF DevicesOf
    <3>3. CASE DevicesOf(x) # {}
      <4>1. deviceSet'[x] = deviceSet[x] /\ (x \in index' <=> x \in index)
        BY <3>2, <3>3 DEF SameDevice
      <4>2. x \in WithDevices' <=> x \in WithDevices
        BY <4>1 DEF WithDevices
      <4> QED BY <1>6, <3>1, <4>1, <4>2, <1>i DEF Each
    <3>4. CASE DevicesOf(x) = {}
      <4>1. x \notin index /\ x \notin index'
        BY <1>a, <3>4 DEF HomesOK
      <4>2. deviceSet[x] = {} /\ deviceSet'[x] = {}
        BY <1>a, <2>2, <3>4 DEF HomesOK, HomeOnly, DevicesOf, TypeOK
      <4>3. x \notin WithDevices /\ x \notin WithDevices'
        BY <4>2 DEF WithDevices
      <4> QED BY <1>6, <3>1, <4>1, <4>3, <1>i DEF Each
    <3> QED BY <3>3, <3>4
  <2>3. CASE x \notin Devices \cup SubKeys
    BY <1>6, <1>h, <2>3, <1>i DEF Each
  <2> QED BY <2>1, <2>2, <2>3
<1> QED BY <1>1, <1>2, <1>3, <1>4, <1>5, <1>6 DEF Kinds

-----------------------------------------------------------------------------
(* What was read is still so where nobody has written *)

LEMMA Still ==
    ASSUME UNCHANGED <<store, psps, pspSet, boundTo, marker>>
    PROVE  /\ Problems' = Problems /\ Readable' = Readable /\ HasRecord' = HasRecord
           /\ Subscribed' = Subscribed /\ InTypeSet' = InTypeSet
           /\ WithDevices' = WithDevices
BY DEF store, Problems, ProviderProblems, BindingProblems, DeviceProblems, IndexProblems,
   Disagrees, OfType, Readable, HasRecord, Subscribed, InTypeSet, WithDevices

LEMMA WritesTrue ==
    ASSUME BaseInv, ReadTrue, Writes, TypeOK', HomesOK'
    PROVE  ReadTrue'
<1> USE StoreAssumption, CheckAssumption
<1>a. /\ phase' = phase /\ left' = left /\ known' = known /\ at' = at
      /\ names' = names /\ found' = found
  BY DEF Writes, reading
<1>b. CheckTypeOK /\ TypeOK /\ HomesOK /\ ReadOK
  BY DEF BaseInv, StoreOK, CheckTypeOK
<1>c. stays' \subseteq Problems'
  BY DEF Writes
<1>1. CASE phase \notin CheckPhases
  <2>1. /\ \A p : ~Loaded(p)'
        /\ phase \notin {"indexed", "owner", "devices", "record"}
    BY <1>1, <1>a DEF Loaded, ComeTo, CheckPhases, FromServices, FromBindings, FromSets, InSets, FromRecords, FromMarker,
       FromIndex, FromTypes, Ended
  <2> QED BY <1>1, <1>a, <1>c, <2>1 DEF ReadTrue, KnownTrue, NamesTrue, AtTrue, FoundTrue, StaysTrue
<1>2. CASE phase \in CheckPhases
  <2>0. phase # "idle"
    BY <1>2 DEF CheckPhases, FromServices, FromBindings, FromSets, InSets, FromRecords, FromMarker,
       FromIndex, FromTypes, Ended
  <2>1. /\ touched \subseteq touched'
        /\ \A d \in Devices \ touched' : SameDevice(d)
        /\ \A p \in Providers \ touched' : SameProvider(p)
    BY <2>0 DEF Writes
  <2>2. KnownTrue'
    BY <1>a, <2>1 DEF ReadTrue, KnownTrue, Loaded, ComeTo, SameProvider, Readable
  <2>3. NamesTrue'
    BY <1>a, <1>b, <2>1 DEF ReadTrue, NamesTrue, SameDevice, Subscribed, CheckTypeOK
  <2>4. AtTrue'
    <3>1. ASSUME NEW s \in SubKeys, DevicesOf(s) \cap touched' = {}
          PROVE  (s \in WithDevices <=> s \in WithDevices') /\ (s \in index <=> s \in index')
      <4>1. \A d \in DevicesOf(s) : SameDevice(d) /\ Home[d] = s
        BY <2>1, <3>1 DEF DevicesOf
      <4>2. CASE DevicesOf(s) # {}
        BY <4>1, <4>2 DEF SameDevice, WithDevices
      <4>3. CASE DevicesOf(s) = {}
        <5>1. s \notin index /\ s \notin index'
          BY <1>b, <4>3 DEF HomesOK
        <5>2. deviceSet[s] = {} /\ deviceSet'[s] = {}
          BY <1>b, <4>3 DEF HomesOK, HomeOnly, DevicesOf, TypeOK
        <5> QED BY <5>1, <5>2 DEF WithDevices
      <4> QED BY <4>2, <4>3
    <3>2. phase = "indexed" => at \in SubKeys
      BY <1>b DEF ReadOK
    <3>3. \A d \in Devices \ touched' :
             /\ d \in HasRecord => d \in HasRecord'
             /\ d \in InTypeSet => d \in InTypeSet'
      BY <2>1 DEF SameDevice, HasRecord, InTypeSet
    <3> QED BY <1>a, <2>1, <3>1, <3>2, <3>3 DEF ReadTrue, AtTrue
  <2>5. ASSUME NEW f \in found \cup Problems', Quiet(f[1], f[2])'
        PROVE  Quiet(f[1], f[2]) /\ (f \in Problems' <=> f \in Problems)
    <3>1. f \in Kinds \X Subjects
      <4>1. CheckTypeOK'
        BY <1>a DEF Writes, reading, BaseInv, StoreOK, CheckTypeOK, BindsByType
      <4>2. Problems' \subseteq Kinds \X Subjects
        BY <4>1, ProblemsAreTypedThen
      <4> QED BY <1>b, <4>2 DEF CheckTypeOK
    <3>2. f = <<f[1], f[2]>> /\ f[1] \in Kinds /\ f[2] \in Subjects
      BY <3>1
    <3>3. f \in Problems' <=> f \in Problems
      BY <2>0, <2>5, <3>2, WritesSpare
    <3>4. Quiet(f[1], f[2])
      <4>1. f[2] \notin touched'
        BY <2>5, ConcernsAreThen DEF Quiet, ConcernsAll, Writes, BindsByType
      <4>2. f[2] \in Devices => boundTo'[f[2]] = boundTo[f[2]]
        BY <2>1, <4>1 DEF SameDevice
      <4>3. Concerns(f[1], f[2])' = Concerns(f[1], f[2])
        BY <4>2 DEF Concerns
      <4> QED BY <2>1, <2>5, <4>3 DEF Quiet
    <3> QED BY <3>3, <3>4
  <2>6. FoundTrue'
    BY <1>a, <2>5 DEF ReadTrue, FoundTrue
  <2>7. StaysTrue'
    BY <1>a, <1>c, <1>2, <2>5 DEF ReadTrue, StaysTrue, Writes
  <2> QED BY <2>2, <2>3, <2>4, <2>6, <2>7 DEF ReadTrue
<1> QED BY <1>1, <1>2

(* Of the places a walk has come to, one more at a time is read.            *)
LEMMA Around ==
    ASSUME BaseInv, Looking
    PROVE  /\ \/ \E p \in Providers : loadAllProviders(p)
              \/ checkServiceProviders
              \/ phase \in FromBindings /\ phase' \in FromBindings /\ known' = known
           /\ \/ \E d \in Devices : checkDeliveryPointBindings(d)
              \/ phase \in FromSets /\ phase' \in FromSets
              \/ \A d \in Devices : ~BindingRead(d)'
           /\ \/ \E s \in SubKeys : ReadSet(s)
              \/ \E d \in Devices : CheckExists(d)
              \/ checkSubscriberIsIndexed \/ CheckListed \/ NextSet
              \/ phase \in FromRecords /\ phase' \in FromRecords /\ names' = names
              \/ (\A s \in SubKeys : ~SetRead(s)') /\ names' = names
           /\ \/ \E d \in Devices : ReadRecord(d)
              \/ CheckOwner
              \/ phase \in FromMarker /\ phase' \in FromMarker
              \/ \A d \in Devices : ~RecordRead(d)'
           /\ \/ \E s \in SubKeys : ScanSubscriber(s)
              \/ CheckDevices
              \/ phase \in FromTypes /\ phase' \in FromTypes
              \/ \A s \in SubKeys : ~EntryRead(s)'
           /\ \/ \E d \in Devices : ScanDevice(d)
              \/ CheckRecord
              \/ phase \in Ended /\ phase' \in Ended
              \/ \A d \in Devices : ~ListingRead(d)'
<1> DEFINE A == \/ \E p \in Providers : loadAllProviders(p)
                \/ checkServiceProviders
                \/ phase \in FromBindings /\ phase' \in FromBindings /\ known' = known
<1> DEFINE B == \/ \E d \in Devices : checkDeliveryPointBindings(d)
                \/ phase \in FromSets /\ phase' \in FromSets
                \/ \A d \in Devices : ~BindingRead(d)'
<1> DEFINE C == \/ \E s \in SubKeys : ReadSet(s)
                \/ \E d \in Devices : CheckExists(d)
                \/ checkSubscriberIsIndexed \/ CheckListed \/ NextSet
                \/ phase \in FromRecords /\ phase' \in FromRecords /\ names' = names
                \/ (\A s \in SubKeys : ~SetRead(s)') /\ names' = names
<1> DEFINE D == \/ \E d \in Devices : ReadRecord(d)
                \/ CheckOwner
                \/ phase \in FromMarker /\ phase' \in FromMarker
                \/ \A d \in Devices : ~RecordRead(d)'
<1> DEFINE E == \/ \E s \in SubKeys : ScanSubscriber(s)
                \/ CheckDevices
                \/ phase \in FromTypes /\ phase' \in FromTypes
                \/ \A s \in SubKeys : ~EntryRead(s)'
<1> DEFINE F == \/ \E d \in Devices : ScanDevice(d)
                \/ CheckRecord
                \/ phase \in Ended /\ phase' \in Ended
                \/ \A d \in Devices : ~ListingRead(d)'
<1> USE DEF BindingRead, SetRead, RecordRead, EntryRead, ListingRead, ComeTo, CheckPhases, FromServices, FromBindings, FromSets, InSets, FromRecords, FromMarker,
       FromIndex, FromTypes, Ended
<1>1. ASSUME NEW p \in Providers, loadAllProviders(p) PROVE A /\ B /\ C /\ D /\ E /\ F
  <2>1. A
    BY <1>1
  <2>2. B
    BY <1>1 DEF loadAllProviders, Walk
  <2>3. C
    BY <1>1 DEF loadAllProviders, Walk
  <2>4. D
    BY <1>1 DEF loadAllProviders, Walk
  <2>5. E
    BY <1>1 DEF loadAllProviders, Walk
  <2>6. F
    BY <1>1 DEF loadAllProviders, Walk
  <2> QED BY <2>1, <2>2, <2>3, <2>4, <2>5, <2>6
<1>2. ASSUME checkServiceProviders PROVE A /\ B /\ C /\ D /\ E /\ F
  <2>1. A
    BY <1>2
  <2>2. B
    BY <1>2 DEF checkServiceProviders, Walk
  <2>3. C
    BY <1>2 DEF checkServiceProviders, Walk
  <2>4. D
    BY <1>2 DEF checkServiceProviders, Walk
  <2>5. E
    BY <1>2 DEF checkServiceProviders, Walk
  <2>6. F
    BY <1>2 DEF checkServiceProviders, Walk
  <2> QED BY <2>1, <2>2, <2>3, <2>4, <2>5, <2>6
<1>3. ASSUME NEW d \in Devices, checkDeliveryPointBindings(d) PROVE A /\ B /\ C /\ D /\ E /\ F
  <2>1. B
    BY <1>3
  <2>2. A
    BY <1>3 DEF checkDeliveryPointBindings, Walk
  <2>3. C
    BY <1>3 DEF checkDeliveryPointBindings, Walk
  <2>4. D
    BY <1>3 DEF checkDeliveryPointBindings, Walk
  <2>5. E
    BY <1>3 DEF checkDeliveryPointBindings, Walk
  <2>6. F
    BY <1>3 DEF checkDeliveryPointBindings, Walk
  <2> QED BY <2>1, <2>2, <2>3, <2>4, <2>5, <2>6
<1>4. ASSUME NEW s \in SubKeys, ReadSet(s) PROVE A /\ B /\ C /\ D /\ E /\ F
  <2>1. C
    BY <1>4
  <2>2. A
    BY <1>4 DEF ReadSet, Walk
  <2>3. B
    BY <1>4 DEF ReadSet, Walk
  <2>4. D
    BY <1>4 DEF ReadSet, Walk
  <2>5. E
    BY <1>4 DEF ReadSet, Walk
  <2>6. F
    BY <1>4 DEF ReadSet, Walk
  <2> QED BY <2>1, <2>2, <2>3, <2>4, <2>5, <2>6
<1>5. ASSUME checkSubscriberIsIndexed PROVE A /\ B /\ C /\ D /\ E /\ F
  <2>1. C
    BY <1>5
  <2>2. A
    BY <1>5 DEF checkSubscriberIsIndexed, Walk
  <2>3. B
    BY <1>5 DEF checkSubscriberIsIndexed, Walk
  <2>4. D
    BY <1>5 DEF checkSubscriberIsIndexed, Walk
  <2>5. E
    BY <1>5 DEF checkSubscriberIsIndexed, Walk
  <2>6. F
    BY <1>5 DEF checkSubscriberIsIndexed, Walk
  <2> QED BY <2>1, <2>2, <2>3, <2>4, <2>5, <2>6
<1>6. ASSUME NEW d \in Devices, CheckExists(d) PROVE A /\ B /\ C /\ D /\ E /\ F
  <2>1. C
    BY <1>6
  <2>2. A
    BY <1>6 DEF CheckExists, Walk
  <2>3. B
    BY <1>6 DEF CheckExists, Walk
  <2>4. D
    BY <1>6 DEF CheckExists, Walk
  <2>5. E
    BY <1>6 DEF CheckExists, Walk
  <2>6. F
    BY <1>6 DEF CheckExists, Walk
  <2> QED BY <2>1, <2>2, <2>3, <2>4, <2>5, <2>6
<1>7. ASSUME CheckListed PROVE A /\ B /\ C /\ D /\ E /\ F
  <2>1. C
    BY <1>7
  <2>2. A
    BY <1>7 DEF CheckListed, Walk
  <2>3. B
    BY <1>7 DEF CheckListed, Walk
  <2>4. D
    BY <1>7 DEF CheckListed, Walk
  <2>5. E
    BY <1>7 DEF CheckListed, Walk
  <2>6. F
    BY <1>7 DEF CheckListed, Walk
  <2> QED BY <2>1, <2>2, <2>3, <2>4, <2>5, <2>6
<1>8. ASSUME NextSet PROVE A /\ B /\ C /\ D /\ E /\ F
  <2>1. C
    BY <1>8
  <2>2. A
    BY <1>8 DEF NextSet, Walk
  <2>3. B
    BY <1>8 DEF NextSet, Walk
  <2>4. D
    BY <1>8 DEF NextSet, Walk
  <2>5. E
    BY <1>8 DEF NextSet, Walk
  <2>6. F
    BY <1>8 DEF NextSet, Walk
  <2> QED BY <2>1, <2>2, <2>3, <2>4, <2>5, <2>6
<1>9. ASSUME NEW d \in Devices, ReadRecord(d) PROVE A /\ B /\ C /\ D /\ E /\ F
  <2>1. D
    BY <1>9
  <2>2. A
    BY <1>9 DEF ReadRecord, Walk
  <2>3. B
    BY <1>9 DEF ReadRecord, Walk
  <2>4. C
    BY <1>9 DEF ReadRecord, Walk
  <2>5. E
    BY <1>9 DEF ReadRecord, Walk
  <2>6. F
    BY <1>9 DEF ReadRecord, Walk
  <2> QED BY <2>1, <2>2, <2>3, <2>4, <2>5, <2>6
<1>10. ASSUME CheckOwner PROVE A /\ B /\ C /\ D /\ E /\ F
  <2>1. D
    BY <1>10
  <2>2. A
    BY <1>10 DEF CheckOwner, Walk
  <2>3. B
    BY <1>10 DEF CheckOwner, Walk
  <2>4. C
    BY <1>10 DEF CheckOwner, Walk
  <2>5. E
    BY <1>10 DEF CheckOwner, Walk
  <2>6. F
    BY <1>10 DEF CheckOwner, Walk
  <2> QED BY <2>1, <2>2, <2>3, <2>4, <2>5, <2>6
<1>11. ASSUME checkSubscriberIndex PROVE A /\ B /\ C /\ D /\ E /\ F
  BY <1>11 DEF checkSubscriberIndex, Walk
<1>12. ASSUME NEW s \in SubKeys, ScanSubscriber(s) PROVE A /\ B /\ C /\ D /\ E /\ F
  <2>1. E
    BY <1>12
  <2>2. A
    BY <1>12 DEF ScanSubscriber, Walk
  <2>3. B
    BY <1>12 DEF ScanSubscriber, Walk
  <2>4. C
    BY <1>12 DEF ScanSubscriber, Walk
  <2>5. D
    BY <1>12 DEF ScanSubscriber, Walk
  <2>6. F
    BY <1>12 DEF ScanSubscriber, Walk
  <2> QED BY <2>1, <2>2, <2>3, <2>4, <2>5, <2>6
<1>13. ASSUME CheckDevices PROVE A /\ B /\ C /\ D /\ E /\ F
  <2>1. E
    BY <1>13
  <2>2. A
    BY <1>13 DEF CheckDevices, Walk
  <2>3. B
    BY <1>13 DEF CheckDevices, Walk
  <2>4. C
    BY <1>13 DEF CheckDevices, Walk
  <2>5. D
    BY <1>13 DEF CheckDevices, Walk
  <2>6. F
    BY <1>13 DEF CheckDevices, Walk
  <2> QED BY <2>1, <2>2, <2>3, <2>4, <2>5, <2>6
<1>14. ASSUME NEW d \in Devices, ScanDevice(d) PROVE A /\ B /\ C /\ D /\ E /\ F
  <2>1. F
    BY <1>14
  <2>2. A
    BY <1>14 DEF ScanDevice, Walk
  <2>3. B
    BY <1>14 DEF ScanDevice, Walk
  <2>4. C
    BY <1>14 DEF ScanDevice, Walk
  <2>5. D
    BY <1>14 DEF ScanDevice, Walk
  <2>6. E
    BY <1>14 DEF ScanDevice, Walk
  <2> QED BY <2>1, <2>2, <2>3, <2>4, <2>5, <2>6
<1>15. ASSUME CheckRecord PROVE A /\ B /\ C /\ D /\ E /\ F
  <2>1. F
    BY <1>15
  <2>2. A
    BY <1>15 DEF CheckRecord, Walk
  <2>3. B
    BY <1>15 DEF CheckRecord, Walk
  <2>4. C
    BY <1>15 DEF CheckRecord, Walk
  <2>5. D
    BY <1>15 DEF CheckRecord, Walk
  <2>6. E
    BY <1>15 DEF CheckRecord, Walk
  <2> QED BY <2>1, <2>2, <2>3, <2>4, <2>5, <2>6
<1>16. ASSUME checkCounters PROVE A /\ B /\ C /\ D /\ E /\ F
  BY <1>16 DEF checkCounters, Walk
<1>0. A /\ B /\ C /\ D /\ E /\ F
  BY <1>1, <1>2, <1>3, <1>4, <1>5, <1>6, <1>7, <1>8, <1>9, <1>10, <1>11, <1>12, <1>13, <1>14, <1>15, <1>16 DEF Looking
<1> QED BY <1>0

(* Two of a type, counted. *)
LEMMA TwoOfAType ==
    ASSUME NEW P \in SUBSET Providers, NEW t
    PROVE  Cardinality(OfType(P, t)) >= 2
              <=> \E p, q \in P : p # q /\ TypeOfPsp[p] = t /\ TypeOfPsp[q] = t
<1> DEFINE S == OfType(P, t)
<1>1. IsFiniteSet(S)
  <2>1. S \in SUBSET Providers
    BY DEF OfType
  <2> QED BY <2>1, CheckAssumption, FS_Subset
<1> HIDE DEF S
<1>2. Cardinality(S) \in Nat
  BY <1>1, FS_CardinalityType
<1>3. Cardinality(S) = 0 <=> S = {}
  BY <1>1, FS_EmptySet
<1>4. Cardinality(S) = 1 <=> \E x : S = {x}
  BY <1>1, FS_Singleton
<1>5. Cardinality(S) >= 2 <=> S # {} /\ ~\E x : S = {x}
  BY <1>2, <1>3, <1>4
<1>6. S # {} /\ (~\E x : S = {x}) <=> \E p, q \in S : p # q
  OBVIOUS
<1> QED BY <1>5, <1>6 DEF S, OfType

(* A check that names nothing, or names problems that are there, is right.  *)
LEMMA NamesRight ==
    ASSUME FoundTrue, phase \in CheckPhases, Problems' = Problems,
           UNCHANGED <<touched, boundTo>>,
           NEW F, found' = found \cup F,
           \A f \in F : Quiet(f[1], f[2]) => f \in Problems
    PROVE  FoundTrue'
BY DEF FoundTrue, Quiet, Concerns

LEMMA KindRight ==
    ASSUME NEW k, NEW S, \A x \in S : Quiet(k, x) => <<k, x>> \in Problems
    PROVE  \A f \in Kind(k, S) : Quiet(f[1], f[2]) => f \in Problems
BY DEF Kind

LEMMA LookingNames ==
    ASSUME BaseInv, ReadTrue, Looking
    PROVE  FoundTrue'
<1> USE StoreAssumption, CheckAssumption
<1>a. CheckTypeOK /\ TypeOK /\ HomesOK /\ ReadOK
  BY DEF BaseInv, StoreOK, CheckTypeOK
<1>b. UNCHANGED <<store, psps, pspSet, boundTo, marker, touched>> /\ phase \in CheckPhases
  BY LookingReads
<1>c. Problems' = Problems
  BY <1>b, Still
<1>d. FoundTrue /\ KnownTrue /\ NamesTrue /\ AtTrue
  BY DEF ReadTrue
<1>e. \A x : Each(x)
  BY ProblemIs DEF ProblemsAre
<1>l. \A k, x :
         /\ x \in Concerns(k, x)
         /\ k = "duplicate_provider" => OfType(Providers, x) \subseteq Concerns(k, x)
         /\ k \in {"stale_binding", "binding_disagrees"} /\ x \in Devices =>
               {boundTo[x]} \cup OfType(Providers, TypeOf[x]) \subseteq Concerns(k, x)
         /\ k \in {"missing_index_entry", "stale_index_entry"} =>
               DevicesOf(x) \subseteq Concerns(k, x)
  BY <1>a, ConcernsAre DEF ConcernsAll, CheckTypeOK
<1>f. \A k, x : Quiet(k, x) => x \notin touched
  BY <1>l DEF Quiet
<1>g. ASSUME NEW k, NEW S, found' = found \cup Kind(k, S),
             \A x \in S : Quiet(k, x) => <<k, x>> \in Problems
      PROVE  FoundTrue'
  <2>1. \A f \in Kind(k, S) : Quiet(f[1], f[2]) => f \in Problems
    BY <1>g, KindRight
  <2> QED BY <1>b, <1>c, <1>d, <1>g, <2>1, NamesRight
<1>h. ASSUME found' = found \cup {} PROVE FoundTrue'
  BY <1>b, <1>c, <1>d, <1>h, NamesRight
<1>k. phase \in FromServices => \A p \in Providers \ touched : p \in known <=> p \in Readable
  BY <1>d DEF KnownTrue, Loaded, ComeTo
<1>1. ASSUME NEW p \in Providers, loadAllProviders(p) PROVE FoundTrue'
  <2>1. found' = found \cup Kind("dangling_provider", {p} \cap psps \cap Unreadable)
    BY <1>1 DEF loadAllProviders, Reads
  <2>2. \A x \in {p} \cap psps \cap Unreadable : <<"dangling_provider", x>> \in Problems
    BY <1>e DEF Each
  <2> QED BY <1>g, <2>1, <2>2
<1>2. ASSUME checkServiceProviders PROVE FoundTrue'
  <2> DEFINE X == pspSet \ known
             Y == known \ pspSet
             Z == {t \in Types : Cardinality(OfType(pspSet \cap known, t)) >= 2}
  <2>a. \A p \in Providers \ touched : p \in known <=> p \in Readable
    BY <1>2, <1>k DEF checkServiceProviders, FromServices
  <2>b. X \subseteq Providers /\ Y \subseteq Providers /\ pspSet \cap known \in SUBSET Providers
    BY <1>a DEF CheckTypeOK
  <2>1. ASSUME NEW x \in X, Quiet("dangling_provider", x)
        PROVE  <<"dangling_provider", x>> \in Problems
    BY <1>e, <1>f, <2>1, <2>a, <2>b DEF Each
  <2>2. ASSUME NEW x \in Y, Quiet("orphaned_provider", x)
        PROVE  <<"orphaned_provider", x>> \in Problems
    BY <1>e, <1>f, <2>2, <2>a, <2>b DEF Each
  <2>3. ASSUME NEW t \in Z, Quiet("duplicate_provider", t)
        PROVE  <<"duplicate_provider", t>> \in Problems
    <3>1. PICK p \in pspSet \cap known, q \in pspSet \cap known :
             p # q /\ TypeOfPsp[p] = t /\ TypeOfPsp[q] = t
      BY <2>b, TwoOfAType
    <3>2. OfType(Providers, t) \cap touched = {}
      BY <2>3, <1>l DEF Quiet
    <3>3. p \in Readable /\ q \in Readable
      BY <2>a, <2>b, <3>1, <3>2 DEF OfType
    <3>4. Each(t)
      BY <1>e
    <3> QED BY <3>1, <3>3, <3>4 DEF Each
  <2>4. /\ \A f \in Kind("dangling_provider", X) : Quiet(f[1], f[2]) => f \in Problems
        /\ \A f \in Kind("orphaned_provider", Y) : Quiet(f[1], f[2]) => f \in Problems
        /\ \A f \in Kind("duplicate_provider", Z) : Quiet(f[1], f[2]) => f \in Problems
    BY <2>1, <2>2, <2>3, KindRight
  <2> DEFINE F == Kind("dangling_provider", X) \cup Kind("orphaned_provider", Y)
                    \cup Kind("duplicate_provider", Z)
  <2>5. found' = found \cup F
    BY <1>2 DEF checkServiceProviders, Reads
  <2>6. \A f \in F : Quiet(f[1], f[2]) => f \in Problems
    BY <2>4
  <2> HIDE DEF F
  <2> QED BY <1>b, <1>c, <1>d, <2>5, <2>6, NamesRight
<1>3. ASSUME NEW d \in Devices, checkDeliveryPointBindings(d) PROVE FoundTrue'
  <2> DEFINE X == {e \in {d} \cap bound : boundTo[e] \notin known}
             Y == {e \in {d} \cap bound : Disagrees(known, e)}
  <2>a. \A p \in Providers \ touched : p \in known <=> p \in Readable
    BY <1>3, <1>k DEF checkDeliveryPointBindings, FromServices, FromBindings
  <2>b. known \subseteq Providers /\ Readable \subseteq Providers /\ boundTo[d] \in Providers
    BY <1>a DEF CheckTypeOK, Readable
  <2>1. ASSUME NEW x \in X, Quiet("stale_binding", x)
        PROVE  <<"stale_binding", x>> \in Problems
    <3>1. boundTo[d] \notin touched
      BY <2>1, <1>l DEF Quiet
    <3> QED BY <1>e, <2>a, <2>b, <3>1 DEF Each
  <2>2. ASSUME NEW x \in Y, Quiet("binding_disagrees", x)
        PROVE  <<"binding_disagrees", x>> \in Problems
    <3>1. boundTo[d] \notin touched /\ OfType(Providers, TypeOf[d]) \cap touched = {}
      BY <2>2, <1>l DEF Quiet
    <3>2. OfType(known, TypeOf[d]) = OfType(Readable, TypeOf[d])
      BY <2>a, <2>b, <3>1 DEF OfType
    <3>3. Disagrees(known, d) => Disagrees(Readable, d)
      BY <2>a, <2>b, <3>1, <3>2 DEF Disagrees, OfType
    <3>4. Each(x)
      BY <1>e
    <3> QED BY <3>3, <3>4 DEF Each
  <2>4. /\ \A f \in Kind("stale_binding", X) : Quiet(f[1], f[2]) => f \in Problems
        /\ \A f \in Kind("binding_disagrees", Y) : Quiet(f[1], f[2]) => f \in Problems
    BY <2>1, <2>2, KindRight
  <2> DEFINE F == Kind("stale_binding", X) \cup Kind("binding_disagrees", Y)
  <2>5. found' = found \cup F
    BY <1>3 DEF checkDeliveryPointBindings, Reads
  <2>6. \A f \in F : Quiet(f[1], f[2]) => f \in Problems
    BY <2>4
  <2> HIDE DEF F
  <2> QED BY <1>b, <1>c, <1>d, <2>5, <2>6, NamesRight
<1>4. ASSUME checkSubscriberIsIndexed PROVE FoundTrue'
  <2>1. /\ found' = found \cup Kind("missing_index_entry", {at} \ index)
        /\ phase = "indexed"
    BY <1>4 DEF checkSubscriberIsIndexed, Reads
  <2>2. Quiet("missing_index_entry", at) => at \in WithDevices
    BY <1>d, <2>1, <1>l DEF AtTrue, Quiet
  <2>3. \A x \in {at} \ index : Quiet("missing_index_entry", x) =>
           <<"missing_index_entry", x>> \in Problems
    <3>1. Each(at)
      BY <1>e
    <3> QED BY <2>2, <3>1 DEF Each
  <2> QED BY <1>g, <2>1, <2>3
<1>5. ASSUME NEW d \in Devices, CheckExists(d) PROVE FoundTrue'
  <2>1. found' = found \cup Kind("orphaned_delivery_point", {d} \ HasRecord) /\ d \in names
    BY <1>5 DEF CheckExists, Reads
  <2>2. Quiet("orphaned_delivery_point", d) => d \in Subscribed
    BY <1>b, <1>d, <1>f, <2>1 DEF NamesTrue
  <2>3. \A x \in {d} \ HasRecord : Quiet("orphaned_delivery_point", x) =>
           <<"orphaned_delivery_point", x>> \in Problems
    <3>1. Each(d)
      BY <1>e
    <3> QED BY <2>2, <3>1 DEF Each
  <2> QED BY <1>g, <2>1, <2>3
<1>6. ASSUME CheckListed PROVE FoundTrue'
  <2>1. found' = found \cup Kind("missing_index_entry", {at} \ InTypeSet) /\ at \in names
    BY <1>6, <1>a DEF CheckListed, Reads, ReadOK
  <2>2. Quiet("missing_index_entry", at) => at \in Subscribed
    BY <1>b, <1>d, <1>f, <2>1 DEF NamesTrue
  <2>3. \A x \in {at} \ InTypeSet : Quiet("missing_index_entry", x) =>
           <<"missing_index_entry", x>> \in Problems
    <3>1. Each(at)
      BY <1>e
    <3> QED BY <2>2, <3>1 DEF Each
  <2> QED BY <1>g, <2>1, <2>3
<1>7. ASSUME CheckOwner PROVE FoundTrue'
  <2> DEFINE X == {d \in {at} \cap Devices : d \notin deviceSet[FixedSub[d]]}
  <2>1. found' = found \cup Kind("unreferenced_delivery_point", X) /\ phase = "owner"
    BY <1>7 DEF CheckOwner, Reads
  <2>2. ASSUME NEW x \in X, Quiet("unreferenced_delivery_point", x)
        PROVE  <<"unreferenced_delivery_point", x>> \in Problems
    <3>1. x \in HasRecord
      BY <1>d, <1>f, <2>1, <2>2 DEF AtTrue
    <3> QED BY <1>e, <3>1 DEF Each
  <2> HIDE DEF X
  <2> QED BY <1>g, <2>1, <2>2
<1>8. ASSUME checkSubscriberIndex PROVE FoundTrue'
  <2> DEFINE X == IF marker THEN {} ELSE {Nobody}
  <2>1. found' = found \cup Kind("index_not_built", X)
    BY <1>8 DEF checkSubscriberIndex, Reads
  <2>2. \A x \in X : <<"index_not_built", x>> \in Problems
    BY <1>e DEF Each
  <2> HIDE DEF X
  <2> QED BY <1>g, <2>1, <2>2
<1>9. ASSUME CheckDevices PROVE FoundTrue'
  <2> DEFINE X == ({at} \ {Nobody}) \ WithDevices
  <2>1. found' = found \cup Kind("stale_index_entry", X) /\ phase = "devices"
    BY <1>9 DEF CheckDevices, Reads
  <2>2. ASSUME NEW x \in X, Quiet("stale_index_entry", x)
        PROVE  <<"stale_index_entry", x>> \in Problems
    <3>1. at \in SubKeys /\ DevicesOf(at) \cap touched = {}
      BY <1>a, <2>1, <2>2, <1>l DEF ReadOK, Quiet
    <3>2. x \in index
      BY <1>d, <2>1, <3>1 DEF AtTrue
    <3> QED BY <1>e, <3>2 DEF Each
  <2> HIDE DEF X
  <2> QED BY <1>g, <2>1, <2>2
<1>10. ASSUME CheckRecord PROVE FoundTrue'
  <2> DEFINE X == ({at} \ {Nobody}) \ HasRecord
  <2>1. found' = found \cup Kind("stale_index_entry", X) /\ phase = "record"
    BY <1>10 DEF CheckRecord, Reads
  <2>2. ASSUME NEW x \in X, Quiet("stale_index_entry", x)
        PROVE  <<"stale_index_entry", x>> \in Problems
    <3>1. at \in Devices \ touched
      BY <1>a, <1>f, <2>1, <2>2 DEF ReadOK
    <3>2. x \in InTypeSet
      BY <1>d, <2>1, <3>1 DEF AtTrue
    <3> QED BY <1>e, <3>2 DEF Each
  <2> HIDE DEF X
  <2> QED BY <1>g, <2>1, <2>2
<1>11. ASSUME checkCounters PROVE FoundTrue'
  <2>1. found' = found \cup Kind("leaked_counter", Counters)
    BY <1>11 DEF checkCounters, Reads
  <2>2. \A x \in Counters : <<"leaked_counter", x>> \in Problems
    BY <1>e DEF Each
  <2> QED BY <1>g, <2>1, <2>2
<1>12. ASSUME \/ NextSet \/ \E s \in SubKeys : ReadSet(s) \/ ScanSubscriber(s)
              \/ \E d \in Devices : ReadRecord(d) \/ ScanDevice(d)
       PROVE  FoundTrue'
  <2>1. found' = found \cup {}
    BY <1>12 DEF NextSet, ReadSet, ScanSubscriber, ReadRecord, ScanDevice, Reads
  <2> QED BY <1>h, <2>1
<1> QED
  BY <1>1, <1>2, <1>3, <1>4, <1>5, <1>6, <1>7, <1>8, <1>9, <1>10, <1>11, <1>12 DEF Looking

LEMMA LookingTrue ==
    ASSUME BaseInv, ReadTrue, Looking
    PROVE  ReadTrue'
<1> USE StoreAssumption, CheckAssumption
<1>a. CheckTypeOK /\ TypeOK /\ HomesOK /\ ReadOK
  BY DEF BaseInv, StoreOK, CheckTypeOK
<1>b. /\ UNCHANGED <<store, psps, pspSet, boundTo, marker, touched, stays>>
      /\ phase \in CheckPhases /\ phase' \in CheckPhases
  BY LookingReads
<1>c. /\ Problems' = Problems /\ Readable' = Readable /\ HasRecord' = HasRecord
      /\ Subscribed' = Subscribed /\ InTypeSet' = InTypeSet /\ WithDevices' = WithDevices
      /\ index' = index
  BY <1>b, Still DEF store
<1>d. KnownTrue /\ NamesTrue /\ AtTrue /\ StaysTrue
  BY DEF ReadTrue
<1>1. KnownTrue'
  <2>1. ASSUME NEW p \in Providers, loadAllProviders(p) PROVE KnownTrue'
    <3>1. /\ known' = known \cup ({p} \cap Readable) /\ phase = "providers" /\ p \in left
          /\ \A q \in Providers \ {p} : Loaded(q)' => Loaded(q)
      BY <2>1 DEF loadAllProviders, Walk, Loaded, ComeTo, CheckPhases, FromServices, FromBindings, FromSets, InSets, FromRecords, FromMarker,
       FromIndex, FromTypes, Ended
    <3>2. p \notin known
      BY <1>a, <1>b, <3>1 DEF ReadOK, Loaded, ComeTo, CheckPhases, FromServices, FromBindings, FromSets, InSets, FromRecords, FromMarker,
       FromIndex, FromTypes, Ended
    <3> QED BY <1>b, <1>c, <1>d, <3>1, <3>2 DEF KnownTrue
  <2>2. ASSUME checkServiceProviders PROVE KnownTrue'
    <3>1. known' = known /\ \A p : Loaded(p)
      BY <2>2 DEF checkServiceProviders, Loaded, ComeTo, FromServices
    <3> QED BY <1>b, <1>c, <1>d, <3>1 DEF KnownTrue
  <2>3. ASSUME phase \in FromBindings, known' = known PROVE KnownTrue'
    <3>1. \A p : Loaded(p)
      BY <2>3 DEF Loaded, ComeTo, FromServices
    <3> QED BY <1>b, <1>c, <1>d, <2>3, <3>1 DEF KnownTrue
  <2> QED BY <2>1, <2>2, <2>3, Around
<1>2. NamesTrue'
  <2>1. ASSUME NEW s \in SubKeys, ReadSet(s) PROVE names' \subseteq Subscribed
    BY <1>a, <2>1 DEF ReadSet, Subscribed, HomesOK, HomeOnly, TypeOK
  <2>2. (\E s \in SubKeys : ReadSet(s)) \/ names' \subseteq names
    BY Around DEF CheckExists, checkSubscriberIsIndexed, CheckListed, NextSet
  <2> QED BY <1>b, <1>c, <1>d, <2>1, <2>2 DEF NamesTrue
<1>3. AtTrue'
  <2>1. ASSUME NEW s \in SubKeys, ReadSet(s) PROVE phase' = "indexed" => at' \in WithDevices
    BY <2>1 DEF ReadSet, WithDevices
  <2>2. ASSUME NEW d \in Devices, ReadRecord(d) PROVE at' \in Devices => at' \in HasRecord
    BY <2>2 DEF ReadRecord
  <2>3. ASSUME NEW s \in SubKeys, ScanSubscriber(s) PROVE at' \in SubKeys => at' \in index
    BY <2>3 DEF ScanSubscriber
  <2>4. ASSUME NEW d \in Devices, ScanDevice(d) PROVE at' \in Devices => at' \in InTypeSet
    BY <2>4 DEF ScanDevice
  <2>5. /\ phase' = "indexed" => \E s \in SubKeys : ReadSet(s)
        /\ phase' = "owner" => \E d \in Devices : ReadRecord(d)
        /\ phase' = "devices" => \E s \in SubKeys : ScanSubscriber(s)
        /\ phase' = "record" => \E d \in Devices : ScanDevice(d)
    <3> DEFINE Way == /\ phase' = "indexed" => \E s \in SubKeys : ReadSet(s)
                      /\ phase' = "owner" => \E d \in Devices : ReadRecord(d)
                      /\ phase' = "devices" => \E s \in SubKeys : ScanSubscriber(s)
                      /\ phase' = "record" => \E d \in Devices : ScanDevice(d)
    <3>1. ASSUME NEW p \in Providers, loadAllProviders(p) PROVE Way
      BY <3>1 DEF loadAllProviders, Walk
    <3>2. ASSUME checkServiceProviders PROVE Way
      BY <3>2 DEF checkServiceProviders
    <3>3. ASSUME NEW d \in Devices, checkDeliveryPointBindings(d) PROVE Way
      BY <3>3 DEF checkDeliveryPointBindings, Walk
    <3>4. ASSUME NEW s \in SubKeys, ReadSet(s) PROVE Way
      BY <3>4 DEF ReadSet
    <3>5. ASSUME checkSubscriberIsIndexed PROVE Way
      BY <3>5 DEF checkSubscriberIsIndexed
    <3>6. ASSUME NEW d \in Devices, CheckExists(d) PROVE Way
      BY <3>6 DEF CheckExists
    <3>7. ASSUME CheckListed PROVE Way
      BY <3>7 DEF CheckListed
    <3>8. ASSUME NextSet PROVE Way
      BY <3>8 DEF NextSet
    <3>9. ASSUME NEW d \in Devices, ReadRecord(d) PROVE Way
      BY <3>9 DEF ReadRecord
    <3>10. ASSUME CheckOwner PROVE Way
      BY <3>10 DEF CheckOwner
    <3>11. ASSUME checkSubscriberIndex PROVE Way
      BY <3>11 DEF checkSubscriberIndex
    <3>12. ASSUME NEW s \in SubKeys, ScanSubscriber(s) PROVE Way
      BY <3>12 DEF ScanSubscriber
    <3>13. ASSUME CheckDevices PROVE Way
      BY <3>13 DEF CheckDevices
    <3>14. ASSUME NEW d \in Devices, ScanDevice(d) PROVE Way
      BY <3>14 DEF ScanDevice
    <3>15. ASSUME CheckRecord PROVE Way
      BY <3>15 DEF CheckRecord
    <3>16. ASSUME checkCounters PROVE Way
      BY <3>16 DEF checkCounters
    <3> QED BY <3>1, <3>2, <3>3, <3>4, <3>5, <3>6, <3>7, <3>8, <3>9, <3>10, <3>11, <3>12, <3>13, <3>14, <3>15, <3>16 DEF Looking
  <2> QED BY <1>c, <2>1, <2>2, <2>3, <2>4, <2>5 DEF AtTrue
<1>4. StaysTrue'
  BY <1>b, <1>c, <1>d DEF StaysTrue, Quiet, Concerns
<1> QED BY <1>1, <1>2, <1>3, <1>4, LookingNames DEF ReadTrue

LEMMA OthersTrue ==
    ASSUME BaseInv, ReadTrue, CheckConsistency \/ Counts
    PROVE  ReadTrue'
<1>a. StaysTrue /\ ReadOK
  BY DEF ReadTrue, BaseInv
<1>1. CASE CheckConsistency
  <2>1. /\ phase' = "providers" /\ left' = Providers /\ touched' = {} /\ stays' = Problems
        /\ found' = {} /\ names' = names /\ phase = "idle"
        /\ UNCHANGED <<store, psps, pspSet, boundTo, marker>>
    BY <1>1 DEF CheckConsistency, vars, store, providers, bindings
  <2>2. Problems' = Problems
    BY <2>1, Still
  <2>3. KnownTrue'
    BY <2>1 DEF KnownTrue, Loaded, ComeTo, FromServices, FromBindings, FromSets, InSets,
       FromRecords, FromMarker, FromIndex, FromTypes, Ended
  <2>4. NamesTrue' /\ AtTrue' /\ FoundTrue'
    BY <1>a, <2>1 DEF NamesTrue, AtTrue, FoundTrue, ReadOK
  <2>5. StaysTrue'
    BY <2>1, <2>2 DEF StaysTrue
  <2> QED BY <2>3, <2>4, <2>5 DEF ReadTrue
<1>2. CASE Counts
  <2>1. phase' \notin CheckPhases /\ UNCHANGED <<store, psps, pspSet, boundTo, marker>>
    BY <1>2, CountsAre
  <2>2. stays' \subseteq stays \cup Problems
    BY <1>2, CountsAre
  <2>3. Problems' = Problems
    BY <2>1, Still
  <2>4. /\ \A p : ~Loaded(p)'
        /\ phase' \notin {"indexed", "owner", "devices", "record"}
    BY <2>1 DEF Loaded, ComeTo, CheckPhases, FromServices, FromBindings, FromSets, InSets, FromRecords, FromMarker,
       FromIndex, FromTypes, Ended
  <2>5. KnownTrue' /\ NamesTrue' /\ AtTrue' /\ FoundTrue'
    BY <2>1, <2>4 DEF KnownTrue, NamesTrue, AtTrue, FoundTrue
  <2>6. StaysTrue'
    BY <1>a, <2>1, <2>2, <2>3 DEF StaysTrue
  <2> QED BY <2>5, <2>6 DEF ReadTrue
<1> QED BY <1>1, <1>2

LEMMA InitTrue == CheckInit => ReadTrue
BY DEF CheckInit, ReadTrue, KnownTrue, NamesTrue, AtTrue, FoundTrue, StaysTrue, Loaded,
   ComeTo, CheckPhases, FromServices, FromBindings, FromSets, InSets, FromRecords, FromMarker,
   FromIndex, FromTypes, Ended

LEMMA StepTrue ==
    ASSUME BaseInv, ReadTrue, [CheckNext]_allVars
    PROVE  ReadTrue'
<1>1. CASE Writing
  BY <1>1, WritingIs, WritesTrue DEF StoreOK
<1>2. CASE Looking
  BY <1>2, LookingTrue
<1>3. CASE CheckConsistency \/ Counts
  BY <1>3, OthersTrue
<1>4. CASE UNCHANGED allVars
  <2>1. /\ UNCHANGED <<store, psps, pspSet, boundTo, marker, reading, touched, stays>>
        /\ UNCHANGED <<phase, left, known, at, names, found, index>>
    BY <1>4 DEF allVars, vars, store, providers, bindings, reading, history
  <2>2. /\ Problems' = Problems /\ Readable' = Readable /\ HasRecord' = HasRecord
        /\ Subscribed' = Subscribed /\ InTypeSet' = InTypeSet
        /\ WithDevices' = WithDevices
    BY <2>1, Still
  <2>3. KnownTrue'
    BY <2>1, <2>2 DEF ReadTrue, KnownTrue, Loaded, ComeTo
  <2>4. NamesTrue' /\ AtTrue'
    BY <2>1, <2>2 DEF ReadTrue, NamesTrue, AtTrue
  <2>5. FoundTrue' /\ StaysTrue'
    BY <2>1, <2>2 DEF ReadTrue, FoundTrue, StaysTrue, Quiet, Concerns
  <2> QED BY <2>3, <2>4, <2>5 DEF ReadTrue
<1> QED BY <1>1, <1>2, <1>3, <1>4, NextIs

-----------------------------------------------------------------------------
(* What stays is named *)

(* Nothing is asked of a request that is not a check, or is at its start. *)
LEMMA NotChecking ==
    ASSUME phase \notin CheckPhases
    PROVE  StayInv
<1>1. /\ \A x : /\ ~Loaded(x) /\ ~BindingRead(x) /\ ~SetRead(x)
                /\ ~RecordRead(x) /\ ~EntryRead(x) /\ ~ListingRead(x)
      /\ phase \notin FromBindings /\ phase \notin FromIndex /\ phase # "done"
  BY DEF Loaded, BindingRead, SetRead, RecordRead, EntryRead, ListingRead, ComeTo,
     CheckPhases, FromServices, FromBindings, FromSets, InSets, FromRecords, FromMarker,
     FromIndex, FromTypes, Ended
<1> QED
  BY <1>1 DEF StayInv, StayDangling, StayOrphaned, StayDuplicate, StayStaleBinding,
     StayDisagrees, StayOrphan, StayUnlisted, StayUnreferenced, StayStaleEntry, StayRest

LEMMA NotCheckingThen == phase' \notin CheckPhases => StayInv'
<1>1. phase \notin CheckPhases => StayInv
  BY NotChecking
<1>2. (phase \notin CheckPhases => StayInv)'
  BY <1>1, PTL
<1> QED BY <1>2

LEMMA WritesStay ==
    ASSUME BaseInv, StayInv, Writes
    PROVE  StayInv'
<1> USE StoreAssumption, CheckAssumption
<1>a. /\ phase' = phase /\ left' = left /\ known' = known /\ at' = at
      /\ names' = names /\ found' = found
  BY DEF Writes, reading
<1>b. stays' \subseteq stays /\ stays' \subseteq Problems'
  BY DEF Writes
<1>1. CASE phase \notin CheckPhases
  BY <1>1, <1>a, NotCheckingThen
<1>2. CASE phase \in CheckPhases
  <2>a. touched \subseteq touched' /\ \A d \in Devices \ touched' : SameDevice(d)
    BY <1>2 DEF Writes, CheckPhases, FromServices, FromBindings, FromSets, InSets, FromRecords, FromMarker,
       FromIndex, FromTypes, Ended
  <2>1. StayDangling'
    BY <1>a, <1>b DEF StayInv, StayDangling, Writes, Stays, Named, Loaded, ComeTo
  <2>2. StayOrphaned'
    BY <1>a, <1>b DEF StayInv, StayOrphaned, Stays, Named, Loaded, ComeTo
  <2>7. StayStaleBinding'
    <3> SUFFICES ASSUME NEW d \in Devices, Stays("stale_binding", d)'
                 PROVE  /\ d \notin touched' /\ Loaded(boundTo[d])' => boundTo'[d] \notin known'
                        /\ BindingRead(d)' => \/ Named("stale_binding", d)'
                                              \/ d \in touched' /\ touched' \cap known' # {}
      BY DEF StayStaleBinding
    <3>1. /\ d \notin touched /\ Loaded(boundTo[d]) => boundTo[d] \notin known
          /\ BindingRead(d) => \/ Named("stale_binding", d)
                               \/ d \in touched /\ touched \cap known # {}
      BY <1>b DEF StayInv, StayStaleBinding, Stays
    <3>2. d \notin touched' => boundTo'[d] = boundTo[d]
      BY <2>a DEF SameDevice
    <3>3. d \notin touched' /\ Loaded(boundTo[d])' => Loaded(boundTo[d])
      BY <1>a, <3>2 DEF Loaded, ComeTo
    <3>4. BindingRead(d)' => BindingRead(d)
      BY <1>a DEF BindingRead, ComeTo
    <3> QED BY <1>a, <2>a, <3>1, <3>2, <3>3, <3>4 DEF Named
  <2>3. StayDuplicate'
    <3> SUFFICES ASSUME NEW t \in Types, Stays("duplicate_provider", t)'
                 PROVE  /\ \A p \in OfType(pspSet \cap Readable, t)' : Loaded(p)' => p \in known'
                        /\ phase' \in FromBindings => Named("duplicate_provider", t)'
      BY DEF StayDuplicate
    <3>1. Each(t)'
      BY ProblemIsThen DEF ProblemsAre
    <3>2. \E p, q \in pspSet' \cap Readable' :
             p # q /\ TypeOfPsp[p] = t /\ TypeOfPsp[q] = t
      BY <1>b, <3>1 DEF Stays, Each
    <3>3. ~\E p \in Providers : OfType(pspSet', t) \subseteq {p}
      BY <3>2 DEF OfType
    <3>4. OfType(pspSet', t) \subseteq pspSet /\ OfType(psps', t) \subseteq psps
      BY <3>3 DEF Writes
    <3>5. OfType(pspSet \cap Readable, t)' \subseteq OfType(pspSet \cap Readable, t)
      BY <3>4 DEF OfType, Readable
    <3> QED BY <1>a, <1>b, <3>5 DEF StayInv, StayDuplicate, Stays, Named, Loaded, ComeTo
  <2>4. StayDisagrees'
    <3> SUFFICES ASSUME NEW d \in Devices, Stays("binding_disagrees", d)'
                 PROVE  /\ Loaded(boundTo[d])' => boundTo'[d] \in known'
                        /\ BindingRead(d)' =>
                              \/ Named("binding_disagrees", d)'
                              \/ touched' \cap OfType(Providers, TypeOf[d]) # {}
      BY DEF StayDisagrees, OfType
    <3>1. boundTo'[d] = boundTo[d]
      <4>1. Each(d)'
        BY ProblemIsThen DEF ProblemsAre
      <4>2. Disagrees(Readable, d)'
        BY <1>b, <4>1 DEF Stays, Each
      <4>3. TypeOfPsp[boundTo'[d]] # TypeOf[d]
        BY <4>2 DEF Disagrees, OfType
      <4> QED BY <4>3 DEF Writes, BindsByType
    <3>2. (Loaded(boundTo[d])' => Loaded(boundTo[d])) /\ (BindingRead(d)' => BindingRead(d))
      BY <1>a, <3>1 DEF Loaded, BindingRead, ComeTo
    <3>3. Stays("binding_disagrees", d)
      BY <1>b DEF Stays
    <3> QED BY <1>a, <2>a, <3>1, <3>2, <3>3 DEF StayInv, StayDisagrees, Named
  <2>5. StayOrphan' /\ StayUnlisted'
    BY <1>a, <1>b DEF StayInv, StayOrphan, StayUnlisted, Stays, Named, SetRead, ComeTo
  <2>6. StayUnreferenced' /\ StayStaleEntry' /\ StayRest'
    BY <1>a, <1>b DEF StayInv, StayUnreferenced, StayStaleEntry, StayRest, Stays, Named,
       RecordRead, EntryRead, ListingRead, ComeTo
  <2> QED BY <2>1, <2>2, <2>3, <2>4, <2>5, <2>6, <2>7 DEF StayInv
<1> QED BY <1>1, <1>2

(* What a walk of the providers leaves the check with. *)
LEMMA ProvidersStay ==
    ASSUME BaseInv, ReadTrue, StayInv, Looking
    PROVE  /\ StayDangling' /\ StayOrphaned' /\ StayDuplicate'
           /\ \A d \in Devices : Loaded(boundTo[d])' =>
                 /\ Stays("stale_binding", d) /\ d \notin touched => boundTo[d] \notin known'
                 /\ Stays("binding_disagrees", d) => boundTo[d] \in known'
<1> USE StoreAssumption, CheckAssumption
<1>a. CheckTypeOK /\ ReadOK
  BY DEF BaseInv
<1>b. /\ UNCHANGED <<store, psps, pspSet, boundTo, marker, touched, stays>>
      /\ found \subseteq found' /\ phase \in CheckPhases
  BY LookingReads
<1>c. Problems' = Problems /\ Readable' = Readable
  BY <1>b, Still
<1>e. \A x : Each(x)
  BY ProblemIs DEF ProblemsAre
<1>f. \A k, x : Stays(k, x) => <<k, x>> \in Problems
  BY DEF ReadTrue, StaysTrue, Stays
<1>g. ASSUME NEW p \in Providers
      PROVE  /\ Stays("dangling_provider", p) =>
                    p \notin Readable /\ (p \in pspSet \/ p \in psps \cap Unreadable)
             /\ Stays("orphaned_provider", p) => p \in Readable /\ p \notin pspSet
  <2>1. Each(p)
    BY <1>e
  <2> QED BY <1>f, <2>1 DEF Each, Readable
<1>h. ASSUME NEW d \in Devices
      PROVE  /\ Stays("stale_binding", d) => boundTo[d] \notin Readable
             /\ Stays("binding_disagrees", d) => boundTo[d] \in Readable
  BY <1>e, <1>f DEF Each, Disagrees
<1>i. \A d \in Devices : Loaded(boundTo[d]) =>
         /\ Stays("stale_binding", d) /\ d \notin touched => boundTo[d] \notin known
         /\ Stays("binding_disagrees", d) => boundTo[d] \in known
  BY DEF StayInv, StayStaleBinding, StayDisagrees
<1> DEFINE Goal == /\ StayDangling' /\ StayOrphaned' /\ StayDuplicate'
                   /\ \A d \in Devices : Loaded(boundTo[d])' =>
                         /\ Stays("stale_binding", d) /\ d \notin touched => boundTo[d] \notin known'
                         /\ Stays("binding_disagrees", d) => boundTo[d] \in known'
<1>1. ASSUME NEW p \in Providers, loadAllProviders(p) PROVE Goal
  <2>1. /\ known' = known \cup ({p} \cap Readable)
        /\ found' = found \cup Kind("dangling_provider", {p} \cap psps \cap Unreadable)
        /\ phase' \notin FromBindings
        /\ \A q \in Providers \ {p} : Loaded(q)' => Loaded(q)
    BY <1>1 DEF loadAllProviders, Reads, Walk, Loaded, ComeTo, CheckPhases, FromServices, FromBindings, FromSets, InSets, FromRecords, FromMarker,
       FromIndex, FromTypes, Ended
  <2>2. p \in psps \cap Unreadable => Named("dangling_provider", p)'
    BY <2>1 DEF Named, Kind
  <2>0. p \notin known
    <3>1. ~Loaded(p)
      BY <1>1 DEF loadAllProviders, Loaded, ComeTo, CheckPhases, FromServices, FromBindings, FromSets, InSets, FromRecords, FromMarker,
       FromIndex, FromTypes, Ended
    <3> QED BY <1>a, <1>b, <3>1 DEF ReadOK
  <2>3. StayDangling'
    BY <1>b, <1>g, <2>0, <2>1, <2>2 DEF StayInv, StayDangling, Stays, Named
  <2>4. StayOrphaned'
    BY <1>b, <1>g, <2>1 DEF StayInv, StayOrphaned, Stays, Named
  <2>5. StayDuplicate'
    <3>1. pspSet \subseteq Providers
      BY <1>a DEF CheckTypeOK
    <3> QED BY <1>b, <1>c, <2>1, <3>1 DEF StayInv, StayDuplicate, OfType, Stays, Named
  <2>6. ASSUME NEW d \in Devices, Loaded(boundTo[d])'
        PROVE  /\ Stays("stale_binding", d) /\ d \notin touched => boundTo[d] \notin known'
               /\ Stays("binding_disagrees", d) => boundTo[d] \in known'
    <3>1. boundTo[d] \in Providers
      BY <1>a DEF CheckTypeOK
    <3>2. Loaded(boundTo[d])' => boundTo[d] = p \/ Loaded(boundTo[d])
      BY <1>b, <2>1, <3>1 DEF Loaded, ComeTo
    <3> QED BY <1>b, <1>h, <1>i, <2>0, <2>1, <2>6, <3>2
  <2> QED BY <2>3, <2>4, <2>5, <2>6
<1>2. ASSUME checkServiceProviders PROVE Goal
  <2>1. /\ known' = known /\ phase = "services" /\ \A p : Loaded(p)
        /\ found' = found \cup (Kind("dangling_provider", pspSet \ known)
                \cup Kind("orphaned_provider", known \ pspSet)
                \cup Kind("duplicate_provider",
                          {t \in Types : Cardinality(OfType(pspSet \cap known, t)) >= 2}))
    BY <1>2 DEF checkServiceProviders, Reads, Loaded, ComeTo, FromServices
  <2>2. /\ \A p \in pspSet \ known : Named("dangling_provider", p)'
        /\ \A p \in known \ pspSet : Named("orphaned_provider", p)'
        /\ \A t \in Types : Cardinality(OfType(pspSet \cap known, t)) >= 2
              => Named("duplicate_provider", t)'
    BY <2>1 DEF Named, Kind
  <2>3. ASSUME NEW p \in Providers, Stays("dangling_provider", p)
        PROVE  p \notin known /\ Named("dangling_provider", p)'
    <3>1. /\ p \notin known
          /\ p \in psps \cap Unreadable => Named("dangling_provider", p)
      BY <2>1, <2>3 DEF StayInv, StayDangling
    <3> QED BY <1>b, <1>g, <2>2, <2>3, <3>1 DEF Named
  <2>4. ASSUME NEW p \in Providers, Stays("orphaned_provider", p)
        PROVE  p \in known /\ Named("orphaned_provider", p)'
    <3>1. p \in known
      BY <2>1, <2>4 DEF StayInv, StayOrphaned
    <3> QED BY <1>g, <2>2, <2>4, <3>1
  <2>5. ASSUME NEW t \in Types, Stays("duplicate_provider", t)
        PROVE  /\ OfType(pspSet \cap Readable, t) \subseteq known
               /\ Named("duplicate_provider", t)'
    <3>1. OfType(pspSet \cap Readable, t) \subseteq known
      BY <2>1, <2>5 DEF StayInv, StayDuplicate
    <3>2. Each(t) /\ <<"duplicate_provider", t>> \in Problems
      BY <1>e, <1>f, <2>5
    <3>3. \E p, q \in pspSet \cap Readable :
             p # q /\ TypeOfPsp[p] = t /\ TypeOfPsp[q] = t
      BY <3>2 DEF Each
    <3>4. \E p, q \in pspSet \cap known :
             p # q /\ TypeOfPsp[p] = t /\ TypeOfPsp[q] = t
      BY <3>1, <3>3 DEF OfType
    <3>5. pspSet \cap known \in SUBSET Providers
      BY <1>a DEF CheckTypeOK
    <3> QED BY <2>2, <3>1, <3>4, <3>5, TwoOfAType
  <2>6. StayDangling'
    BY <1>b, <2>1, <2>3 DEF StayDangling, Stays, Named
  <2>7. StayOrphaned'
    BY <1>b, <2>1, <2>4 DEF StayOrphaned, Stays, Named
  <2>8. StayDuplicate'
    BY <1>b, <1>c, <2>1, <2>5 DEF StayDuplicate, OfType, Stays, Named
  <2> QED BY <1>b, <1>i, <2>1, <2>6, <2>7, <2>8
<1>3. ASSUME phase \in FromBindings, known' = known PROVE Goal
  <2>1. \A p : Loaded(p)
    BY <1>3 DEF Loaded, ComeTo, FromServices
  <2>2. StayDangling'
    BY <1>b, <1>3, <2>1 DEF StayInv, StayDangling, Stays, Named
  <2>3. StayOrphaned'
    BY <1>b, <1>3, <2>1 DEF StayInv, StayOrphaned, Stays, Named
  <2>4. StayDuplicate'
    BY <1>b, <1>c, <1>3, <2>1 DEF StayInv, StayDuplicate, OfType, Stays, Named
  <2> QED BY <1>b, <1>i, <1>3, <2>1, <2>2, <2>3, <2>4
<1> QED BY <1>1, <1>2, <1>3, Around

(* The bindings, checked against the providers that were loaded. *)
LEMMA BindingsStay ==
    ASSUME BaseInv, ReadTrue, StayInv, Looking
    PROVE  StayStaleBinding' /\ StayDisagrees'
<1> USE StoreAssumption, CheckAssumption
<1>a. CheckTypeOK /\ TypeOK /\ HomesOK /\ ReadOK
  BY DEF BaseInv, StoreOK, CheckTypeOK
<1>b. /\ UNCHANGED <<touched, stays, boundTo>> /\ found \subseteq found'
      /\ phase \in CheckPhases /\ phase' \in CheckPhases
  BY LookingReads
<1>c. known \subseteq known'
  BY Around DEF loadAllProviders, checkServiceProviders
<1>e. \A x : Each(x)
  BY ProblemIs DEF ProblemsAre
<1>f. \A k, x : Stays(k, x) => <<k, x>> \in Problems
  BY DEF ReadTrue, StaysTrue, Stays
<1>g. \A d \in Devices : Loaded(boundTo[d])' =>
         /\ Stays("stale_binding", d) /\ d \notin touched => boundTo[d] \notin known'
         /\ Stays("binding_disagrees", d) => boundTo[d] \in known'
  BY ProvidersStay
<1> SUFFICES ASSUME NEW d \in Devices
             PROVE  /\ Stays("stale_binding", d)' /\ BindingRead(d)' =>
                          \/ Named("stale_binding", d)'
                          \/ d \in touched' /\ touched' \cap known' # {}
                    /\ Stays("binding_disagrees", d)' /\ BindingRead(d)' =>
                          \/ Named("binding_disagrees", d)'
                          \/ touched' \cap OfType(Providers, TypeOf[d]) # {}
  BY <1>b, <1>g DEF StayStaleBinding, StayDisagrees, Stays, OfType
<1> DEFINE Goal == /\ Stays("stale_binding", d)' /\ BindingRead(d)' =>
                         \/ Named("stale_binding", d)'
                         \/ d \in touched' /\ touched' \cap known' # {}
                   /\ Stays("binding_disagrees", d)' /\ BindingRead(d)' =>
                         \/ Named("binding_disagrees", d)'
                         \/ touched' \cap OfType(Providers, TypeOf[d]) # {}
<1>1. ASSUME BindingRead(d) PROVE Goal
  BY <1>b, <1>c, <1>1 DEF StayInv, StayStaleBinding, StayDisagrees, Stays, Named, OfType
<1>2. ASSUME ~BindingRead(d), BindingRead(d)' PROVE Goal
  <2>1. checkDeliveryPointBindings(d)
    <3>1. PICK e \in Devices : checkDeliveryPointBindings(e)
      BY <1>2, Around DEF BindingRead, ComeTo
    <3>2. e = d
      BY <1>2, <3>1 DEF checkDeliveryPointBindings, Walk, BindingRead, ComeTo, CheckPhases, FromServices, FromBindings, FromSets, InSets, FromRecords, FromMarker,
       FromIndex, FromTypes, Ended
    <3> QED BY <3>1, <3>2
  <2>2. /\ found' = found \cup (Kind("stale_binding", {e \in {d} \cap bound : boundTo[e] \notin known})
                \cup Kind("binding_disagrees", {e \in {d} \cap bound : Disagrees(known, e)}))
        /\ \A p : Loaded(p)
    BY <2>1 DEF checkDeliveryPointBindings, Reads, Loaded, ComeTo, FromServices, FromBindings
  <2>3. Each(d)
    BY <1>e
  <2>4. ASSUME Stays("stale_binding", d)
        PROVE  \/ Named("stale_binding", d)'
               \/ d \in touched /\ touched \cap known # {}
    <3>1. d \in bound /\ boundTo[d] \notin Readable
      BY <1>f, <2>3, <2>4 DEF Each
    <3>2. CASE boundTo[d] \notin known
      BY <2>2, <3>1, <3>2 DEF Named, Kind
    <3>3. CASE boundTo[d] \in known
      <4>1. d \in touched
        BY <2>2, <2>4, <3>3 DEF StayInv, StayStaleBinding
      <4>2. boundTo[d] \in touched
        BY <1>a, <2>2, <3>1, <3>3 DEF ReadTrue, KnownTrue, CheckTypeOK
      <4> QED BY <3>3, <4>1, <4>2
    <3> QED BY <3>2, <3>3
  <2>5. ASSUME Stays("binding_disagrees", d), touched \cap OfType(Providers, TypeOf[d]) = {}
        PROVE  Named("binding_disagrees", d)'
    <3>1. d \in bound /\ Disagrees(Readable, d)
      BY <1>f, <2>3, <2>5 DEF Each
    <3>2. boundTo[d] \in known
      BY <2>2, <2>5 DEF StayInv, StayDisagrees
    <3>3. known \subseteq Providers /\ Readable \subseteq Providers
      BY <1>a DEF CheckTypeOK, Readable
    <3>4. \A p \in Providers \ touched : p \in known <=> p \in Readable
      BY <2>2 DEF ReadTrue, KnownTrue
    <3>5. OfType(known, TypeOf[d]) = OfType(Readable, TypeOf[d])
      BY <2>5, <3>3, <3>4 DEF OfType
    <3>6. Disagrees(known, d)
      BY <3>1, <3>2, <3>5 DEF Disagrees, OfType
    <3> QED BY <2>2, <3>1, <3>6 DEF Named, Kind
  <2> QED BY <1>b, <1>c, <2>4, <2>5 DEF Stays, OfType
<1> QED BY <1>1, <1>2

(* The device sets, and for each device its record and its listing. *)
LEMMA SetsStay ==
    ASSUME BaseInv, ReadTrue, StayInv, Looking
    PROVE  StayOrphan' /\ StayUnlisted'
<1> USE StoreAssumption, CheckAssumption
<1>a. CheckTypeOK /\ TypeOK /\ HomesOK /\ ReadOK
  BY DEF BaseInv, StoreOK, CheckTypeOK
<1>b. /\ UNCHANGED <<touched, stays>> /\ found \subseteq found'
      /\ phase \in CheckPhases /\ phase' \in CheckPhases
  BY LookingReads
<1>e. \A x : Each(x)
  BY ProblemIs DEF ProblemsAre
<1>f. \A k, x : Stays(k, x) => <<k, x>> \in Problems
  BY DEF ReadTrue, StaysTrue, Stays
<1>g. ASSUME NEW d \in Devices
      PROVE  /\ Stays("orphaned_delivery_point", d) =>
                    d \in deviceSet[Home[d]] /\ d \notin HasRecord
             /\ Stays("missing_index_entry", d) =>
                    d \in deviceSet[Home[d]] /\ d \notin InTypeSet
  <2>1. Each(d)
    BY <1>e
  <2>2. d \notin WithDevices
    BY DEF WithDevices
  <2> QED BY <1>f, <2>1, <2>2 DEF Each, Subscribed
<1>h. ASSUME NEW s \in SubKeys, Stays("missing_index_entry", s)
      PROVE  deviceSet[s] # {} /\ s \notin index
  <2>1. Each(s)
    BY <1>e
  <2>2. s \notin Subscribed
    BY DEF Subscribed
  <2> QED BY <1>f, <1>h, <2>1, <2>2 DEF Each, WithDevices
<1>i. names \subseteq Devices /\ (phase = "listed" => at \in names)
      /\ (phase \notin {"indexed", "exists", "listed"} => names = {})
  BY <1>a DEF CheckTypeOK, ReadOK
<1>j. Home \in [Devices -> SubKeys]
  OBVIOUS
<1> USE DEF StayOrphan, StayUnlisted, Stays, Named, SetRead, ComeTo
<1> DEFINE Goal == StayOrphan' /\ StayUnlisted'
<1>1. ASSUME NEW s \in SubKeys, ReadSet(s) PROVE Goal
  <2>1. /\ phase = "sets" /\ s \in left /\ left' = left \ {s} /\ at' = s
        /\ names' = deviceSet[s]
        /\ phase' = IF deviceSet[s] = {} THEN "exists" ELSE "indexed"
    BY <1>1 DEF ReadSet
  <2>2. names = {}
    BY <1>i, <2>1
  <2>3. StayOrphan'
    BY <1>b, <1>g, <1>j, <2>1, <2>2 DEF StayInv, InSets, FromRecords, FromMarker, FromIndex,
       FromTypes, Ended
  <2>4. StayUnlisted'
    BY <1>b, <1>g, <1>h, <1>j, <2>1, <2>2 DEF StayInv, InSets, FromRecords, FromMarker,
       FromIndex, FromTypes, Ended
  <2> QED BY <2>3, <2>4
<1>2. ASSUME checkSubscriberIsIndexed PROVE Goal
  <2>1. /\ phase = "indexed" /\ phase' = "exists" /\ UNCHANGED <<left, at, names>>
        /\ found' = found \cup Kind("missing_index_entry", {at} \ index)
    BY <1>2 DEF checkSubscriberIsIndexed, Reads
  <2>2. StayOrphan'
    BY <1>b, <2>1 DEF StayInv, InSets, FromRecords, FromMarker, FromIndex,
       FromTypes, Ended
  <2>3. \A x : x = at /\ x \notin index => <<"missing_index_entry", x>> \in found'
    BY <2>1 DEF Kind
  <2>4. StayUnlisted'
    BY <1>b, <1>h, <2>1, <2>3 DEF StayInv, InSets, FromRecords, FromMarker, FromIndex,
       FromTypes, Ended
  <2> QED BY <2>2, <2>4
<1>3. ASSUME NEW d \in Devices, CheckExists(d) PROVE Goal
  <2>1. /\ phase = "exists" /\ phase' = "listed" /\ UNCHANGED <<left, names>> /\ at' = d
        /\ d \in names
        /\ found' = found \cup Kind("orphaned_delivery_point", {d} \ HasRecord)
    BY <1>3 DEF CheckExists, Reads
  <2>2. d \notin HasRecord => <<"orphaned_delivery_point", d>> \in found'
    BY <2>1 DEF Kind
  <2>3. StayOrphan'
    BY <1>b, <1>g, <2>1, <2>2 DEF StayInv, InSets, FromRecords, FromMarker, FromIndex,
       FromTypes, Ended
  <2>4. StayUnlisted'
    BY <1>b, <2>1 DEF StayInv, InSets, FromRecords, FromMarker, FromIndex,
       FromTypes, Ended
  <2> QED BY <2>3, <2>4
<1>4. ASSUME CheckListed PROVE Goal
  <2>1. /\ phase = "listed" /\ phase' = "exists" /\ UNCHANGED <<left, at>>
        /\ names' = names \ {at}
        /\ found' = found \cup Kind("missing_index_entry", {at} \ InTypeSet)
    BY <1>4 DEF CheckListed, Reads
  <2>2. StayOrphan'
    BY <1>b, <1>i, <2>1 DEF StayInv, InSets, FromRecords, FromMarker, FromIndex,
       FromTypes, Ended
  <2>3. at \notin InTypeSet => <<"missing_index_entry", at>> \in found'
    BY <2>1 DEF Kind
  <2>4. StayUnlisted'
    BY <1>b, <1>g, <1>i, <2>1, <2>3 DEF StayInv, InSets, FromRecords, FromMarker, FromIndex,
       FromTypes, Ended
  <2> QED BY <2>2, <2>4
<1>5. ASSUME NextSet PROVE Goal
  <2>1. /\ phase = "exists" /\ names = {} /\ names' = {}
        /\ phase' = IF left = {} THEN "records" ELSE "sets"
        /\ left' = IF left = {} THEN Devices ELSE left
    BY <1>5 DEF NextSet
  <2>2. StayOrphan'
    BY <1>b, <2>1 DEF StayInv, InSets, FromRecords, FromMarker, FromIndex, FromTypes, Ended
  <2>3. StayUnlisted'
    BY <1>b, <2>1 DEF StayInv, InSets, FromRecords, FromMarker, FromIndex, FromTypes, Ended
  <2> QED BY <2>2, <2>3
<1>6. ASSUME phase \in FromRecords, phase' \in FromRecords PROVE Goal
  <2>1. /\ phase \notin {"indexed", "exists", "listed"}
        /\ phase' \notin {"indexed", "exists", "listed"}
    BY <1>6 DEF FromRecords, FromMarker, FromIndex, FromTypes, Ended
  <2>2. names = {}
    BY <1>i, <2>1
  <2>3. StayOrphan'
    BY <1>b, <1>6, <2>1, <2>2 DEF StayInv
  <2>4. StayUnlisted'
    BY <1>b, <1>6, <2>1, <2>2 DEF StayInv
  <2> QED BY <2>3, <2>4
<1>7. ASSUME \A s \in SubKeys : ~SetRead(s)' PROVE Goal
  BY <1>j, <1>7
<1> QED BY <1>1, <1>2, <1>3, <1>4, <1>5, <1>6, <1>7, Around

(* The records and their owners. *)
LEMMA RecordsStay ==
    ASSUME BaseInv, ReadTrue, StayInv, Looking
    PROVE  StayUnreferenced'
<1> USE StoreAssumption, CheckAssumption
<1>a. CheckTypeOK /\ TypeOK /\ HomesOK /\ ReadOK
  BY DEF BaseInv, StoreOK, CheckTypeOK
<1>b. /\ UNCHANGED <<touched, stays>> /\ found \subseteq found'
      /\ phase \in CheckPhases /\ phase' \in CheckPhases
  BY LookingReads
<1>e. \A x : Each(x)
  BY ProblemIs DEF ProblemsAre
<1>f. \A k, x : Stays(k, x) => <<k, x>> \in Problems
  BY DEF ReadTrue, StaysTrue, Stays
<1>g. ASSUME NEW d \in Devices, Stays("unreferenced_delivery_point", d)
      PROVE  d \in HasRecord /\ d \notin deviceSet[FixedSub[d]]
  <2>1. Each(d)
    BY <1>e
  <2> QED BY <1>f, <1>g, <2>1 DEF Each
<1> USE DEF StayUnreferenced, Stays, Named, RecordRead, ComeTo, FromMarker, FromIndex,
       FromTypes, Ended
<1>1. ASSUME NEW d \in Devices, ReadRecord(d) PROVE StayUnreferenced'
  <2>1. /\ phase = "records" /\ d \in left /\ left' = left \ {d} /\ phase' = "owner"
        /\ at' = IF d \in HasRecord THEN d ELSE Nobody
    BY <1>1 DEF ReadRecord
  <2> QED BY <1>b, <1>g, <2>1 DEF StayInv
<1>2. ASSUME CheckOwner PROVE StayUnreferenced'
  <2>1. /\ phase = "owner" /\ phase' = (IF left = {} THEN "marker" ELSE "records")
        /\ UNCHANGED left
        /\ found' = found \cup Kind("unreferenced_delivery_point",
                {d \in {at} \cap Devices : d \notin deviceSet[FixedSub[d]]})
    BY <1>2 DEF CheckOwner, Reads
  <2>2. \A d \in Devices : d = at /\ d \notin deviceSet[FixedSub[d]] =>
           <<"unreferenced_delivery_point", d>> \in found'
    BY <2>1 DEF Kind
  <2> QED BY <1>b, <1>g, <2>1, <2>2 DEF StayInv
<1>3. ASSUME phase \in FromMarker, phase' \in FromMarker PROVE StayUnreferenced'
  BY <1>b, <1>3 DEF StayInv
<1>4. ASSUME \A d \in Devices : ~RecordRead(d)' PROVE StayUnreferenced'
  BY <1>4
<1> QED BY <1>1, <1>2, <1>3, <1>4, Around

(* The entries of the two indexes. *)
LEMMA EntriesStay ==
    ASSUME BaseInv, ReadTrue, StayInv, Looking
    PROVE  StayStaleEntry'
<1> USE StoreAssumption, CheckAssumption
<1>a. CheckTypeOK /\ TypeOK /\ HomesOK /\ ReadOK
  BY DEF BaseInv, StoreOK, CheckTypeOK
<1>b. /\ UNCHANGED <<touched, stays>> /\ found \subseteq found'
      /\ phase \in CheckPhases /\ phase' \in CheckPhases
  BY LookingReads
<1>e. \A x : Each(x)
  BY ProblemIs DEF ProblemsAre
<1>f. \A k, x : Stays(k, x) => <<k, x>> \in Problems
  BY DEF ReadTrue, StaysTrue, Stays
<1>g. ASSUME NEW s \in SubKeys, Stays("stale_index_entry", s)
      PROVE  s \in index /\ s \notin WithDevices /\ s # Nobody
  <2>1. Each(s)
    BY <1>e
  <2>2. s \notin InTypeSet /\ s # Nobody
    BY DEF InTypeSet
  <2> QED BY <1>f, <1>g, <2>1, <2>2 DEF Each
<1>h. ASSUME NEW d \in Devices, Stays("stale_index_entry", d)
      PROVE  d \in InTypeSet /\ d \notin HasRecord /\ d # Nobody
  <2>1. Each(d)
    BY <1>e
  <2>2. d \notin index /\ d # Nobody
    BY <1>a DEF TypeOK
  <2> QED BY <1>f, <1>h, <2>1, <2>2 DEF Each
<1> DEFINE Subscribers == \A s \in SubKeys : Stays("stale_index_entry", s) /\ EntryRead(s) =>
              Named("stale_index_entry", s) \/ (phase = "devices" /\ at = s)
           Listings == \A d \in Devices : Stays("stale_index_entry", d) /\ ListingRead(d) =>
              Named("stale_index_entry", d) \/ (phase = "record" /\ at = d)
<1>i. Subscribers /\ Listings
  BY DEF StayInv, StayStaleEntry
<1> USE DEF Stays, Named, EntryRead, ListingRead, ComeTo, FromTypes, Ended
<1>1. ASSUME NEW s \in SubKeys, ScanSubscriber(s) PROVE Subscribers'
  <2>1. /\ phase = "subscribers" /\ s \in left /\ left' = left \ {s} /\ phase' = "devices"
        /\ at' = IF s \in index THEN s ELSE Nobody
    BY <1>1 DEF ScanSubscriber
  <2> QED BY <1>b, <1>g, <1>i, <2>1
<1>2. ASSUME CheckDevices PROVE Subscribers'
  <2>1. /\ phase = "devices" /\ phase' = (IF left = {} THEN "types" ELSE "subscribers")
        /\ left' = (IF left = {} THEN Devices ELSE left)
        /\ found' = found \cup Kind("stale_index_entry", ({at} \ {Nobody}) \ WithDevices)
    BY <1>2 DEF CheckDevices, Reads
  <2>2. at # Nobody /\ at \notin WithDevices => <<"stale_index_entry", at>> \in found'
    BY <2>1 DEF Kind
  <2> QED BY <1>b, <1>g, <1>i, <2>1, <2>2
<1>3. ASSUME phase \in FromTypes, phase' \in FromTypes PROVE Subscribers'
  BY <1>b, <1>i, <1>3
<1>4. Subscribers'
  BY <1>1, <1>2, <1>3, Around
<1>5. ASSUME NEW d \in Devices, ScanDevice(d) PROVE Listings'
  <2>1. /\ phase = "types" /\ d \in left /\ left' = left \ {d} /\ phase' = "record"
        /\ at' = IF d \in InTypeSet THEN d ELSE Nobody
    BY <1>5 DEF ScanDevice
  <2> QED BY <1>b, <1>h, <1>i, <2>1
<1>6. ASSUME CheckRecord PROVE Listings'
  <2>1. /\ phase = "record" /\ phase' = (IF left = {} THEN "counters" ELSE "types")
        /\ UNCHANGED left
        /\ found' = found \cup Kind("stale_index_entry", ({at} \ {Nobody}) \ HasRecord)
    BY <1>6 DEF CheckRecord, Reads
  <2>2. at # Nobody /\ at \notin HasRecord => <<"stale_index_entry", at>> \in found'
    BY <2>1 DEF Kind
  <2> QED BY <1>b, <1>h, <1>i, <2>1, <2>2
<1>7. ASSUME phase \in Ended, phase' \in Ended PROVE Listings'
  BY <1>b, <1>i, <1>7
<1>8. Listings'
  BY <1>5, <1>6, <1>7, Around
<1> QED BY <1>4, <1>8 DEF StayStaleEntry

(* The marker of the index, and the counters. *)
LEMMA RestStays ==
    ASSUME BaseInv, ReadTrue, StayInv, Looking
    PROVE  StayRest'
<1> USE StoreAssumption, CheckAssumption
<1>a. CheckTypeOK /\ TypeOK /\ HomesOK /\ ReadOK
  BY DEF BaseInv, StoreOK, CheckTypeOK
<1>b. /\ UNCHANGED <<touched, stays>> /\ found \subseteq found'
      /\ phase \in CheckPhases /\ phase' \in CheckPhases
  BY LookingReads
<1>e. \A x : Each(x)
  BY ProblemIs DEF ProblemsAre
<1>f. \A k, x : Stays(k, x) => <<k, x>> \in Problems
  BY DEF ReadTrue, StaysTrue, Stays
<1>1. Stays("index_not_built", Nobody) => ~marker
  <2>1. Each(Nobody)
    BY <1>e
  <2> QED BY <1>f, <2>1 DEF Each
<1>2. \A d \in Devices : Stays("leaked_counter", d) => d \in Counters
  BY <1>e, <1>f DEF Each
<1>3. ASSUME checkSubscriberIndex PROVE ~marker => Named("index_not_built", Nobody)'
  BY <1>3 DEF checkSubscriberIndex, Reads, Named, Kind
<1>4. ASSUME checkCounters PROVE \A d \in Counters : Named("leaked_counter", d)'
  BY <1>4 DEF checkCounters, Reads, Named, Kind
<1>5. /\ phase' \in FromIndex => phase \in FromIndex \/ checkSubscriberIndex
      /\ phase' = "done" => checkCounters
  <2> DEFINE Way == /\ phase' \in FromIndex => phase \in FromIndex \/ checkSubscriberIndex
                    /\ phase' = "done" => checkCounters
  <2> USE DEF FromIndex, FromTypes, Ended
  <2>1. ASSUME NEW p \in Providers, loadAllProviders(p) PROVE Way
    BY <2>1 DEF loadAllProviders, Walk
  <2>2. ASSUME checkServiceProviders PROVE Way
    BY <2>2 DEF checkServiceProviders
  <2>3. ASSUME NEW d \in Devices, checkDeliveryPointBindings(d) PROVE Way
    BY <2>3 DEF checkDeliveryPointBindings, Walk
  <2>4. ASSUME NEW s \in SubKeys, ReadSet(s) PROVE Way
    BY <2>4 DEF ReadSet
  <2>5. ASSUME checkSubscriberIsIndexed PROVE Way
    BY <2>5 DEF checkSubscriberIsIndexed
  <2>6. ASSUME NEW d \in Devices, CheckExists(d) PROVE Way
    BY <2>6 DEF CheckExists
  <2>7. ASSUME CheckListed PROVE Way
    BY <2>7 DEF CheckListed
  <2>8. ASSUME NextSet PROVE Way
    BY <2>8 DEF NextSet
  <2>9. ASSUME NEW d \in Devices, ReadRecord(d) PROVE Way
    BY <2>9 DEF ReadRecord
  <2>10. ASSUME CheckOwner PROVE Way
    BY <2>10 DEF CheckOwner
  <2>11. ASSUME checkSubscriberIndex PROVE Way
    BY <2>11 DEF checkSubscriberIndex
  <2>12. ASSUME NEW s \in SubKeys, ScanSubscriber(s) PROVE Way
    BY <2>12 DEF ScanSubscriber
  <2>13. ASSUME CheckDevices PROVE Way
    BY <2>13 DEF CheckDevices
  <2>14. ASSUME NEW d \in Devices, ScanDevice(d) PROVE Way
    BY <2>14 DEF ScanDevice
  <2>15. ASSUME CheckRecord PROVE Way
    BY <2>15 DEF CheckRecord
  <2>16. ASSUME checkCounters PROVE Way
    BY <2>16 DEF checkCounters
  <2> QED BY <2>1, <2>2, <2>3, <2>4, <2>5, <2>6, <2>7, <2>8, <2>9, <2>10, <2>11, <2>12, <2>13, <2>14, <2>15, <2>16 DEF Looking
<1>6. Stays("index_not_built", Nobody)' /\ phase' \in FromIndex => Named("index_not_built", Nobody)'
  BY <1>b, <1>1, <1>3, <1>5 DEF StayInv, StayRest, Stays, Named
<1>7. \A d \in Devices : Stays("leaked_counter", d)' /\ phase' = "done" =>
         Named("leaked_counter", d)'
  BY <1>b, <1>2, <1>4, <1>5 DEF Stays, Named
<1> QED BY <1>6, <1>7 DEF StayRest

LEMMA StepStay ==
    ASSUME BaseInv, ReadTrue, StayInv, [CheckNext]_allVars
    PROVE  StayInv'
<1>1. CASE Writing
  BY <1>1, WritingIs, WritesStay
<1>2. CASE Looking
  BY <1>2, ProvidersStay, BindingsStay, SetsStay, RecordsStay, EntriesStay, RestStays
     DEF StayInv
<1>3. CASE CheckConsistency
  <2>1. phase' = "providers" /\ left' = Providers
    BY <1>3 DEF CheckConsistency
  <2>2. /\ \A p \in Providers : ~Loaded(p)'
        /\ \A x : /\ ~BindingRead(x)' /\ ~SetRead(x)' /\ ~RecordRead(x)'
                 /\ ~EntryRead(x)' /\ ~ListingRead(x)'
        /\ phase' \notin FromBindings /\ phase' \notin FromIndex /\ phase' # "done"
    BY <2>1 DEF Loaded, BindingRead, SetRead, RecordRead, EntryRead, ListingRead, ComeTo,
       CheckPhases, FromServices, FromBindings, FromSets, InSets, FromRecords, FromMarker,
       FromIndex, FromTypes, Ended
  <2>3. StayDuplicate'
    <3>1. pspSet' \subseteq Providers
      BY <1>3, BeginBase DEF BaseInv, CheckTypeOK
    <3> QED BY <2>2, <3>1 DEF StayDuplicate, OfType
  <2>4. StayStaleBinding' /\ StayDisagrees'
    <3>1. boundTo' \in [Devices -> Providers]
      BY <1>3, BeginBase DEF BaseInv, CheckTypeOK
    <3>2. \A d \in Devices : ~Loaded(boundTo[d])'
      BY <2>2, <3>1 DEF Loaded, ComeTo
    <3> QED BY <2>2, <3>2 DEF StayStaleBinding, StayDisagrees
  <2> QED BY <2>2, <2>3, <2>4 DEF StayInv, StayDangling, StayOrphaned, StayOrphan,
             StayUnlisted, StayUnreferenced, StayStaleEntry, StayRest
<1>4. CASE Counts
  BY <1>4, CountsAre, NotCheckingThen
<1>5. CASE UNCHANGED allVars
  <2>1. UNCHANGED <<phase, left, known, at, names, found, touched, stays, psps, pspSet, boundTo>>
    BY <1>5 DEF allVars, reading, providers, bindings, history
  <2>2. StayDangling' /\ StayOrphaned' /\ StayStaleBinding' /\ StayDisagrees'
    BY <2>1 DEF StayInv, StayDangling, StayOrphaned, StayStaleBinding, StayDisagrees, Stays,
       Named, Loaded, BindingRead, ComeTo, OfType
  <2>3. StayDuplicate'
    BY <2>1 DEF StayInv, StayDuplicate, Stays, Named, Loaded, ComeTo, OfType, Readable
  <2>4. StayOrphan' /\ StayUnlisted'
    BY <2>1 DEF StayInv, StayOrphan, StayUnlisted, Stays, Named, SetRead, ComeTo
  <2>5. StayUnreferenced' /\ StayStaleEntry' /\ StayRest'
    BY <2>1 DEF StayInv, StayUnreferenced, StayStaleEntry, StayRest, Stays, Named, RecordRead,
       EntryRead, ListingRead, ComeTo
  <2> QED BY <2>2, <2>3, <2>4, <2>5 DEF StayInv
<1> QED BY <1>1, <1>2, <1>3, <1>4, <1>5, NextIs

LEMMA InitStay == CheckInit => StayInv
<1>1. CheckInit => phase \notin CheckPhases
  BY DEF CheckInit, CheckPhases, FromServices, FromBindings, FromSets, InSets, FromRecords, FromMarker,
       FromIndex, FromTypes, Ended
<1> QED BY <1>1, NotChecking

-----------------------------------------------------------------------------
(* The report *)

CheckInv == BaseInv /\ ReadTrue /\ StayInv

LEMMA CheckInvAlways == CheckSpec => []CheckInv
<1>1. CheckInit => CheckInv
  BY InitBase, InitTrue, InitStay DEF CheckInv
<1>2. CheckInv /\ [CheckNext]_allVars => CheckInv'
  BY StepBase, StepTrue, StepStay DEF CheckInv
<1> QED BY <1>1, <1>2, PTL DEF CheckSpec

(* A finished check has named what stayed. *)
LEMMA DoneFinds == CheckInv => FindsWhatStays
<1> SUFFICES ASSUME CheckInv, phase = "done", NEW f \in stays \ found
             PROVE  \/ /\ f[1] = "binding_disagrees"
                       /\ touched \cap OfType(Providers, TypeOf[f[2]]) # {}
                    \/ /\ f[1] = "stale_binding" /\ f[2] \in touched
                       /\ touched \cap known # {}
  BY DEF FindsWhatStays
<1> USE StoreAssumption, CheckAssumption
<1>a. CheckTypeOK /\ TypeOK /\ ReadOK /\ StayInv /\ stays \subseteq Problems
  BY DEF CheckInv, BaseInv, CheckTypeOK, ReadTrue, StaysTrue
<1>1. f \in Kinds \X Subjects
  BY <1>a DEF CheckTypeOK
<1>2. PICK k \in Kinds, x \in Subjects : f = <<k, x>>
  BY <1>1
<1>3. Stays(k, x) /\ ~Named(k, x) /\ <<k, x>> \in Problems
  BY <1>2, <1>a DEF Stays, Named
<1>4. /\ \A y : /\ BindingRead(y) /\ SetRead(y) /\ RecordRead(y)
                /\ EntryRead(y) /\ ListingRead(y)
      /\ phase \in FromBindings /\ phase \in FromIndex
  BY DEF BindingRead, SetRead, RecordRead, EntryRead, ListingRead, ComeTo,
     CheckPhases, FromServices, FromBindings, FromSets, InSets, FromRecords, FromMarker,
     FromIndex, FromTypes, Ended
<1>5. Each(x)
  BY ProblemIs DEF ProblemsAre
<1>6. names = {}
  BY <1>a DEF ReadOK
<1>7. /\ psps \subseteq Providers /\ pspSet \subseteq Providers /\ bound \subseteq Devices
      /\ index \subseteq SubKeys /\ Subscribed \subseteq Devices /\ InTypeSet \subseteq Devices
      /\ WithDevices \subseteq SubKeys /\ HasRecord \subseteq Devices /\ Counters \subseteq Devices
      /\ Readable \subseteq Providers
  BY <1>a DEF CheckTypeOK, TypeOK, Subscribed, InTypeSet, WithDevices, HasRecord, Readable
<1>8. CASE k = "dangling_provider"
  BY <1>3, <1>4, <1>5, <1>7, <1>8, <1>a DEF Each, StayInv, StayDangling
<1>9. CASE k = "orphaned_provider"
  BY <1>3, <1>4, <1>5, <1>7, <1>9, <1>a DEF Each, StayInv, StayOrphaned
<1>10. CASE k = "duplicate_provider"
  BY <1>3, <1>4, <1>5, <1>10, <1>a DEF Each, StayInv, StayDuplicate
<1>11. CASE k = "stale_binding"
  BY <1>2, <1>3, <1>4, <1>5, <1>7, <1>11, <1>a DEF Each, StayInv, StayStaleBinding
<1>12. CASE k = "binding_disagrees"
  <2>1. x \in Devices
    BY <1>3, <1>5, <1>7, <1>12 DEF Each
  <2>2. touched \cap OfType(Providers, TypeOf[x]) # {}
    BY <1>3, <1>4, <1>12, <1>a, <2>1 DEF StayInv, StayDisagrees
  <2> QED BY <1>2, <1>12, <2>2
<1>13. CASE k = "orphaned_delivery_point"
  BY <1>3, <1>4, <1>5, <1>6, <1>7, <1>13, <1>a DEF Each, StayInv, StayOrphan
<1>14. CASE k = "unreferenced_delivery_point"
  BY <1>3, <1>4, <1>5, <1>7, <1>14, <1>a DEF Each, StayInv, StayUnreferenced
<1>15. CASE k = "missing_index_entry"
  BY <1>3, <1>4, <1>5, <1>6, <1>7, <1>15, <1>a DEF Each, StayInv, StayUnlisted
<1>16. CASE k = "stale_index_entry"
  BY <1>3, <1>4, <1>5, <1>7, <1>16, <1>a DEF Each, StayInv, StayStaleEntry
<1>17. CASE k = "index_not_built" \/ k = "leaked_counter"
  BY <1>3, <1>4, <1>5, <1>7, <1>17, <1>a DEF Each, StayInv, StayRest
<1> QED
  BY <1>8, <1>9, <1>10, <1>11, <1>12, <1>13, <1>14, <1>15, <1>16, <1>17 DEF Kinds

(* What was not touched is named exactly when it is wrong. *)
LEMMA DoneIsExact == CheckInv => ExactWhereQuiet
<1> SUFFICES ASSUME CheckInv, phase = "done", NEW f \in found \cup Problems,
                    Concerns(f[1], f[2]) \cap touched = {}
             PROVE  f \in found <=> f \in Problems
  BY DEF ExactWhereQuiet
<1>a. phase \in CheckPhases
  BY DEF CheckPhases, FromServices, FromBindings, FromSets, InSets, FromRecords, FromMarker,
       FromIndex, FromTypes, Ended
<1>b. Quiet(f[1], f[2])
  BY DEF Quiet
<1>1. f \in found => f \in Problems
  BY <1>a, <1>b DEF CheckInv, ReadTrue, FoundTrue
<1>2. ASSUME f \in Problems, f \notin found PROVE FALSE
  <2>1. f \in stays
    BY <1>2, <1>a, <1>b DEF CheckInv, ReadTrue, StaysTrue
  <2>0. boundTo \in [Devices -> Providers]
    BY DEF CheckInv, BaseInv, CheckTypeOK
  <2>2. /\ f[1] = "binding_disagrees"
        /\ touched \cap OfType(Providers, TypeOf[f[2]]) # {}
    <3>1. f[2] \notin touched
      BY <2>0, ConcernsAre DEF ConcernsAll
    <3> QED BY <1>2, <2>1, <3>1, DoneFinds DEF FindsWhatStays
  <2>3. f \in Kinds \X Subjects
    BY <2>1 DEF CheckInv, BaseInv, CheckTypeOK
  <2>4. f = <<"binding_disagrees", f[2]>>
    BY <2>2, <2>3
  <2>5. f[2] \in Devices
    <3>1. Each(f[2])
      BY ProblemIs DEF ProblemsAre
    <3>2. f[2] \in bound
      BY <1>2, <2>4, <3>1 DEF Each
    <3> QED BY <3>2 DEF CheckInv, BaseInv, CheckTypeOK, TypeOK
  <2>6. OfType(Providers, TypeOf[f[2]]) \subseteq Concerns(f[1], f[2])
    BY <2>0, <2>2, <2>5, ConcernsAre DEF ConcernsAll
  <2> QED BY <2>2, <2>6
<1> QED BY <1>1, <1>2

(***************************************************************************)
(* Whatever other requests write while /checkdb walks the database, a      *)
(* problem that was there throughout is in its report, but for a binding   *)
(* that disagrees with one provider after another, and one that is stale,  *)
(* written again and stale again because its new provider was removed      *)
(* after the check had loaded it.                                          *)
(***************************************************************************)
THEOREM WhatStaysIsFound == CheckSpec => []FindsWhatStays
BY CheckInvAlways, DoneFinds, PTL

(***************************************************************************)
(* About everything that was not written while it ran, the report of       *)
(* /checkdb is exact: neither a false alarm nor an omission.               *)
(***************************************************************************)
THEOREM QuietIsExact == CheckSpec => []ExactWhereQuiet
BY CheckInvAlways, DoneIsExact, PTL
=============================================================================
