----------------------- MODULE SubscriptionStoreProofs -----------------------
(***************************************************************************)
(* What SubscriptionStore guarantees for every number of processes,        *)
(* workers, subscribers and devices, and what one process guarantees       *)
(* besides; and, in the last part, that once a database is marked as       *)
(* indexed its index is right but for the devices IndexRebuild's rebuild   *)
(* cannot answer for, whatever requests and rebuilds overlap.              *)
(***************************************************************************)
EXTENDS IndexRebuild, TLAPS

-----------------------------------------------------------------------------
(* The scripts and the indexes *)

(* The unsubscribe script keeps both indexes in agreement, whichever        *)
(* subscriber and device it is called with.                                 *)
LEMMA UnsubscribeKeepsIndex ==
    ASSUME TypeOK, IndexAgrees, NEW s \in SubKeys, NEW d \in Devices,
           UnsubscribeScript(s, d)
    PROVE  /\ deviceSet' \in [SubKeys -> SUBSET Devices]
           /\ index' \subseteq SubKeys
           /\ typeSet' \in [Types -> SUBSET Devices]
           /\ IndexAgrees'
<1> USE StoreAssumption DEF TypeOK
<1>1. /\ deviceSet' \in [SubKeys -> SUBSET Devices]
      /\ index' \subseteq SubKeys
      /\ typeSet' \in [Types -> SUBSET Devices]
  BY DEF UnsubscribeScript
<1>2. HomeOnly'
  BY DEF UnsubscribeScript, IndexAgrees, HomeOnly
<1>3. \A k \in SubKeys : k \in index' <=> deviceSet'[k] # {}
  <2> TAKE k \in SubKeys
  <2>1. CASE k = s
    BY <2>1 DEF UnsubscribeScript, IndexAgrees
  <2>2. CASE k # s
    BY <2>2 DEF UnsubscribeScript, IndexAgrees
  <2> QED BY <2>1, <2>2
<1>4. \A e \in Devices, t \in Types :
         e \in typeSet'[t] <=> TypeOf[e] = t /\ e \in deviceSet'[Home[e]]
  <2> TAKE e \in Devices, t \in Types
  <2>1. CASE d \in deviceSet[s]
    <3>1. Home[d] = s
      BY <2>1 DEF IndexAgrees, HomeOnly
    <3>2. typeSet' = [typeSet EXCEPT ![TypeOf[d]] = @ \ {d}]
      BY <2>1 DEF UnsubscribeScript
    <3> QED BY <2>1, <3>1, <3>2 DEF UnsubscribeScript, IndexAgrees
  <2>2. CASE d \notin deviceSet[s]
    BY <2>2 DEF UnsubscribeScript, IndexAgrees
  <2> QED BY <2>1, <2>2
<1> QED BY <1>1, <1>2, <1>3, <1>4 DEF IndexAgrees

(* The subscribe script, called with the device's own subscriber. *)
LEMMA SubscribeKeepsIndex ==
    ASSUME TypeOK, IndexAgrees, NEW d \in Devices, SubscribeScript(Home[d], d)
    PROVE  /\ deviceSet' \in [SubKeys -> SUBSET Devices]
           /\ index' \subseteq SubKeys
           /\ typeSet' \in [Types -> SUBSET Devices]
           /\ IndexAgrees'
<1> USE StoreAssumption DEF TypeOK
<1>1. Home[d] \in SubKeys /\ TypeOf[d] \in Types
  OBVIOUS
<1>2. /\ deviceSet' \in [SubKeys -> SUBSET Devices]
      /\ index' \subseteq SubKeys
      /\ typeSet' \in [Types -> SUBSET Devices]
  BY <1>1 DEF SubscribeScript
<1>3. HomeOnly'
  BY <1>1 DEF SubscribeScript, IndexAgrees, HomeOnly
<1>4. \A k \in SubKeys : k \in index' <=> deviceSet'[k] # {}
  BY <1>1 DEF SubscribeScript, IndexAgrees
<1>5. \A e \in Devices, t \in Types :
         e \in typeSet'[t] <=> TypeOf[e] = t /\ e \in deviceSet'[Home[e]]
  <2> TAKE e \in Devices, t \in Types
  <2>1. CASE e = d
    BY <1>1, <2>1 DEF SubscribeScript, IndexAgrees
  <2>2. CASE e # d
    <3>1. e \in deviceSet'[Home[e]] <=> e \in deviceSet[Home[e]]
      BY <1>1, <2>2 DEF SubscribeScript
    <3>2. e \in typeSet'[t] <=> e \in typeSet[t]
      BY <1>1, <2>2 DEF SubscribeScript
    <3> QED BY <3>1, <3>2 DEF IndexAgrees
  <2> QED BY <2>1, <2>2
<1> QED BY <1>2, <1>3, <1>4, <1>5 DEF IndexAgrees

-----------------------------------------------------------------------------
(* Any number of processes *)

(* A request's locals are set at the steps that use them. *)
LocalsOK ==
    \A w \in Workers :
       /\ step[w] # "idle" => sub[w] \in SubKeys
       /\ step[w] \in {"sub.record", "sub.script", "sub.bind", "unsub.record",
                        "unsub.bind", "push.script", "push.bind", "gone.script"}
             => dev[w] \in Devices
       /\ step[w] \in {"sub.record", "sub.script", "sub.bind"}
             => sub[w] = Home[dev[w]] /\ value[w] \in Values

(* The invariant that every step of every process preserves. *)
SharedInv == TypeOK /\ LocalsOK /\ IndexAgrees

(* Taking and releasing dblock keeps the types of the lock variables. *)
LEMMA LockTypes ==
    ASSUME TypeOK, NEW w \in Workers,
           Lock(w) \/ RLock(w) \/ Unlock(w) \/ RUnlock(w) \/ UNCHANGED locks
    PROVE  /\ writer' \in [Procs -> Workers \cup {Nobody}]
           /\ readers' \in [Procs -> SUBSET Workers]
<1> USE StoreAssumption DEF TypeOK
<1>1. CASE Lock(w)
  BY <1>1 DEF Lock
<1>2. CASE RLock(w)
  BY <1>2 DEF RLock
<1>3. CASE Unlock(w)
  BY <1>3 DEF Unlock
<1>4. CASE RUnlock(w)
  BY <1>4 DEF RUnlock
<1>5. CASE UNCHANGED locks
  BY <1>5 DEF locks
<1> QED BY <1>1, <1>2, <1>3, <1>4, <1>5

(* A request that ends leaves well-formed locals. *)
LEMMA FinishOK ==
    ASSUME TypeOK, LocalsOK, NEW w \in Workers, Finish(w)
    PROVE  /\ step' \in [Workers -> Steps]
           /\ sub' \in [Workers -> SubKeys \cup {Nobody}]
           /\ value' \in [Workers -> Records]
           /\ all' \in [Workers -> BOOLEAN]
           /\ dev' \in [Workers -> Devices \cup {Nobody}]
           /\ devs' \in [Workers -> SUBSET Devices]
           /\ missing' \in [Workers -> SUBSET Devices]
           /\ pairs' \in [Workers -> [Devices -> Records]]
           /\ LocalsOK'
BY DEF Finish, Begin, Goto, TypeOK, LocalsOK, Steps, Records, Unread

(* A step that writes none of the three structures keeps them in agreement. *)
LEMMA IndexUntouched ==
    ASSUME IndexAgrees, UNCHANGED <<deviceSet, index, typeSet>>
    PROVE  IndexAgrees'
BY DEF IndexAgrees, HomeOnly

(* The initial state. *)
LEMMA InitShared == Init => SharedInv
<1> SUFFICES ASSUME Init PROVE SharedInv
  OBVIOUS
<1> USE StoreAssumption
<1>1. TypeOK
  BY DEF Init, LockInit, TypeOK, Records, Steps, Unread
<1>2. LocalsOK
  BY DEF Init, LockInit, LocalsOK
<1>3. IndexAgrees
  BY DEF Init, LockInit, IndexAgrees, HomeOnly
<1> QED BY <1>1, <1>2, <1>3 DEF SharedInv

(* Every step keeps SharedInv: one step of the proof per action. *)
LEMMA StepShared == SharedInv /\ [Next]_vars => SharedInv'
<1> SUFFICES ASSUME SharedInv, [Next]_vars PROVE SharedInv'
  OBVIOUS
<1> USE StoreAssumption DEF Goto
<1>0. TypeOK /\ LocalsOK /\ IndexAgrees
  BY DEF SharedInv
<1>1. ASSUME NEW w \in Workers, NEW d \in Devices, NEW v \in Values, Subscribe(w, d, v)
      PROVE  SharedInv'
  <2>1. IndexAgrees'
    BY <1>0, <1>1, IndexUntouched DEF Subscribe, store
  <2>2. TypeOK'
    BY <1>0, <1>1, LockTypes
       DEF Subscribe, Begin, TypeOK, LocalsOK, Steps, Records, Unread,
       locks, locals, request, store
  <2>3. LocalsOK'
    BY <1>0, <1>1 DEF Subscribe, Begin, TypeOK, LocalsOK, locals, request, store
  <2> QED BY <2>1, <2>2, <2>3 DEF SharedInv
<1>2. ASSUME NEW w \in Workers, SetDeliveryPoint(w)
      PROVE  SharedInv'
  <2>1. IndexAgrees'
    BY <1>0, <1>2, IndexUntouched DEF SetDeliveryPoint
  <2>2. TypeOK'
    BY <1>0, <1>2, LockTypes
       DEF SetDeliveryPoint, TypeOK, LocalsOK, Steps, Records, Unread,
       locks, locals, request
  <2>3. LocalsOK'
    BY <1>0, <1>2 DEF SetDeliveryPoint, TypeOK, LocalsOK, locals, request
  <2> QED BY <2>1, <2>2, <2>3 DEF SharedInv
<1>3. ASSUME NEW w \in Workers, AddToSubscriber(w)
      PROVE  SharedInv'
  <2>1. dev[w] \in Devices /\ SubscribeScript(Home[dev[w]], dev[w])
    BY <1>0, <1>3 DEF AddToSubscriber, LocalsOK
  <2>2. /\ deviceSet' \in [SubKeys -> SUBSET Devices]
        /\ index' \subseteq SubKeys
        /\ typeSet' \in [Types -> SUBSET Devices]
        /\ IndexAgrees'
    BY <1>0, <2>1, SubscribeKeepsIndex
  <2>3. TypeOK' /\ LocalsOK'
    BY <1>0, <1>3, <2>2 DEF AddToSubscriber, TypeOK, LocalsOK, Steps, locks, locals
  <2> QED BY <2>2, <2>3 DEF SharedInv
<1>4. ASSUME NEW w \in Workers, SetBinding(w)
      PROVE  SharedInv'
  <2>1. IndexAgrees'
    BY <1>0, <1>4, IndexUntouched DEF SetBinding
  <2>2. TypeOK'
    BY <1>0, <1>4, LockTypes
       DEF SetBinding, Finish, Begin, TypeOK, LocalsOK, Steps, Records, Unread,
       locks, locals, request
  <2>3. LocalsOK'
    BY <1>0, <1>4 DEF SetBinding, Finish, Begin, TypeOK, LocalsOK, locals, request
  <2> QED BY <2>1, <2>2, <2>3 DEF SharedInv
<1>5. ASSUME NEW w \in Workers, NEW d \in Devices, Unsubscribe(w, d)
      PROVE  SharedInv'
  <2>1. IndexAgrees'
    BY <1>0, <1>5, IndexUntouched DEF Unsubscribe, store
  <2>2. TypeOK'
    BY <1>0, <1>5, LockTypes
       DEF Unsubscribe, Begin, TypeOK, LocalsOK, Steps, Records, Unread,
       locks, locals, request, store
  <2>3. LocalsOK'
    BY <1>0, <1>5 DEF Unsubscribe, Begin, TypeOK, LocalsOK, locals, request, store
  <2> QED BY <2>1, <2>2, <2>3 DEF SharedInv
<1>6. ASSUME NEW w \in Workers, NEW s \in SubKeys, UnsubscribeAll(w, s)
      PROVE  SharedInv'
  <2>1. IndexAgrees'
    BY <1>0, <1>6, IndexUntouched DEF UnsubscribeAll, store
  <2>2. TypeOK'
    BY <1>0, <1>6, LockTypes
       DEF UnsubscribeAll, Begin, TypeOK, LocalsOK, Steps, Records, Unread,
       locks, locals, request, store
  <2>3. LocalsOK'
    BY <1>0, <1>6 DEF UnsubscribeAll, Begin, TypeOK, LocalsOK, locals, request, store
  <2> QED BY <2>1, <2>2, <2>3 DEF SharedInv
<1>7. ASSUME NEW w \in Workers, RemoveFromSubscriber(w)
      PROVE  SharedInv'
  <2>1. PICK d \in devs[w] : UnsubscribeScript(sub[w], d)
    BY <1>7 DEF RemoveFromSubscriber
  <2>2. d \in Devices /\ sub[w] \in SubKeys
    BY <1>0, <1>7 DEF RemoveFromSubscriber, LocalsOK, TypeOK
  <2>3. /\ deviceSet' \in [SubKeys -> SUBSET Devices]
        /\ index' \subseteq SubKeys
        /\ typeSet' \in [Types -> SUBSET Devices]
        /\ IndexAgrees'
    BY <1>0, <2>1, <2>2, UnsubscribeKeepsIndex
  <2>4. TypeOK' /\ LocalsOK'
    BY <1>0, <1>7, <2>3
       DEF RemoveFromSubscriber, TypeOK, LocalsOK, Steps, Records, Unread,
       locks, locals, request
  <2> QED BY <2>3, <2>4 DEF SharedInv
<1>8. ASSUME NEW w \in Workers, RemoveRecord(w)
      PROVE  SharedInv'
  <2>1. IndexAgrees'
    BY <1>0, <1>8, IndexUntouched DEF RemoveRecord
  <2>2. TypeOK'
    BY <1>0, <1>8, LockTypes
       DEF RemoveRecord, TypeOK, LocalsOK, Steps, Records, Unread,
       locks, locals, request
  <2>3. LocalsOK'
    BY <1>0, <1>8 DEF RemoveRecord, TypeOK, LocalsOK, locals, request
  <2> QED BY <2>1, <2>2, <2>3 DEF SharedInv
<1>9. ASSUME NEW w \in Workers, RemoveBinding(w)
      PROVE  SharedInv'
  <2>1. IndexAgrees'
    BY <1>0, <1>9, IndexUntouched DEF RemoveBinding
  <2>2. /\ record' \in [Devices -> Records] /\ bound' \subseteq Devices
        /\ UNCHANGED <<deviceSet, index, typeSet>>
    BY <1>0, <1>9 DEF RemoveBinding, TypeOK
  <2>3. CASE devs[w] # {}
    <3>1. /\ step[w] = "unsub.bind" /\ step' = [step EXCEPT ![w] = "unsub.script"]
          /\ UNCHANGED <<locks, locals>>
      BY <1>9, <2>3 DEF RemoveBinding, Finish, Begin
    <3>2. TypeOK'
      BY <1>0, <2>2, <3>1 DEF TypeOK, Steps, locks, locals
    <3>3. LocalsOK'
      BY <1>0, <3>1 DEF TypeOK, LocalsOK, locals
    <3> QED BY <2>1, <3>2, <3>3 DEF SharedInv
  <2>4. CASE devs[w] = {}
    <3>1. Unlock(w) /\ Finish(w)
      BY <1>9, <2>4 DEF RemoveBinding
    <3> QED BY <1>0, <2>1, <2>2, <3>1, LockTypes, FinishOK DEF SharedInv, TypeOK
  <2> QED BY <2>3, <2>4
<1>10. ASSUME NEW w \in Workers, NEW s \in SubKeys, Push(w, s)
      PROVE  SharedInv'
  <2>1. IndexAgrees'
    BY <1>0, <1>10, IndexUntouched DEF Push, store
  <2>2. TypeOK'
    BY <1>0, <1>10, LockTypes
       DEF Push, Matched, Begin, TypeOK, LocalsOK, Steps, Records, Unread,
       locks, locals, request, store
  <2>3. LocalsOK'
    BY <1>0, <1>10 DEF Push, Matched, Begin, TypeOK, LocalsOK, locals, request, store
  <2> QED BY <2>1, <2>2, <2>3 DEF SharedInv
<1>11. ASSUME NEW w \in Workers, GetDeliveryPoint(w)
      PROVE  SharedInv'
  <2>1. IndexAgrees'
    BY <1>0, <1>11, IndexUntouched DEF GetDeliveryPoint, store
  <2>2. TypeOK'
    BY <1>0, <1>11, LockTypes
       DEF GetDeliveryPoint, TypeOK, LocalsOK, Steps, Records, Unread,
       locks, locals, request, store
  <2>3. LocalsOK'
    BY <1>0, <1>11 DEF GetDeliveryPoint, TypeOK, LocalsOK, locals, request, store
  <2> QED BY <2>1, <2>2, <2>3 DEF SharedInv
<1>12. ASSUME NEW w \in Workers, ForgetLock(w)
      PROVE  SharedInv'
  <2>1. IndexAgrees'
    BY <1>0, <1>12, IndexUntouched DEF ForgetLock, store
  <2>2. TypeOK'
    BY <1>0, <1>12, LockTypes
       DEF ForgetLock, TypeOK, LocalsOK, Steps, Records, Unread,
       locks, locals, request, store
  <2>3. LocalsOK'
    BY <1>0, <1>12 DEF ForgetLock, TypeOK, LocalsOK, locals, request, store
  <2> QED BY <2>1, <2>2, <2>3 DEF SharedInv
<1>13. ASSUME NEW w \in Workers, ForgetKeeps(w)
      PROVE  SharedInv'
  <2>1. IndexAgrees'
    BY <1>0, <1>13, IndexUntouched DEF ForgetKeeps, store
  <2>2. Unlock(w) \/ UNCHANGED locks
    BY <1>13 DEF ForgetKeeps, NextOrphan
  <2>3. TypeOK'
    BY <1>0, <1>13, <2>2, LockTypes DEF ForgetKeeps, NextOrphan, TypeOK, Steps,
       request, store
  <2>4. LocalsOK'
    BY <1>0, <1>13 DEF ForgetKeeps, NextOrphan, TypeOK, LocalsOK, request
  <2> QED BY <2>1, <2>3, <2>4 DEF SharedInv
<1>14. ASSUME NEW w \in Workers, ForgetCheck(w)
      PROVE  SharedInv'
  <2>1. IndexAgrees'
    BY <1>0, <1>14, IndexUntouched DEF ForgetCheck, store
  <2>2. TypeOK'
    BY <1>0, <1>14, LockTypes
       DEF ForgetCheck, TypeOK, LocalsOK, Steps, Records, Unread,
       locks, locals, request, store
  <2>3. LocalsOK'
    BY <1>0, <1>14 DEF ForgetCheck, TypeOK, LocalsOK, locals, request, store
  <2> QED BY <2>1, <2>2, <2>3 DEF SharedInv
<1>15. ASSUME NEW w \in Workers, ForgetScript(w)
      PROVE  SharedInv'
  <2>1. PICK d \in {dev[w]} : UnsubscribeScript(sub[w], d)
    BY <1>15 DEF ForgetScript
  <2>2. d \in Devices /\ sub[w] \in SubKeys
    BY <1>0, <1>15 DEF ForgetScript, LocalsOK, TypeOK
  <2>3. /\ deviceSet' \in [SubKeys -> SUBSET Devices]
        /\ index' \subseteq SubKeys
        /\ typeSet' \in [Types -> SUBSET Devices]
        /\ IndexAgrees'
    BY <1>0, <2>1, <2>2, UnsubscribeKeepsIndex
  <2>4. TypeOK' /\ LocalsOK'
    BY <1>0, <1>15, <2>3
       DEF ForgetScript, TypeOK, LocalsOK, Steps, Records, Unread,
       locks, locals, request
  <2> QED BY <2>3, <2>4 DEF SharedInv
<1>16. ASSUME NEW w \in Workers, ForgetBinding(w)
      PROVE  SharedInv'
  <2>1. IndexAgrees'
    BY <1>0, <1>16, IndexUntouched DEF ForgetBinding
  <2>2. TypeOK'
    BY <1>0, <1>16, LockTypes
       DEF ForgetBinding, NextOrphan, TypeOK, LocalsOK, Steps, Records, Unread,
       locks, locals, request
  <2>3. LocalsOK'
    BY <1>0, <1>16 DEF ForgetBinding, NextOrphan, TypeOK, LocalsOK, locals, request
  <2> QED BY <2>1, <2>2, <2>3 DEF SharedInv
<1>17. ASSUME NEW w \in Workers, NEW d \in Devices, DeviceGone(w, d)
      PROVE  SharedInv'
  <2>1. IndexAgrees'
    BY <1>0, <1>17, IndexUntouched DEF DeviceGone, store
  <2>2. TypeOK'
    BY <1>0, <1>17, LockTypes
       DEF DeviceGone, TypeOK, LocalsOK, Steps, Records, Unread,
       locks, locals, request, store
  <2>3. LocalsOK'
    BY <1>0, <1>17 DEF DeviceGone, TypeOK, LocalsOK, locals, request, store
  <2> QED BY <2>1, <2>2, <2>3 DEF SharedInv
<1>18. ASSUME NEW w \in Workers, NEW d \in Devices, DeviceChanged(w, d)
      PROVE  SharedInv'
  <2>1. IndexAgrees'
    BY <1>0, <1>18, IndexUntouched DEF DeviceChanged, store
  <2>2. TypeOK'
    BY <1>0, <1>18, LockTypes
       DEF DeviceChanged, Answered, TypeOK, LocalsOK, Steps, Records, Unread,
       locks, locals, request, store
  <2>3. LocalsOK'
    BY <1>0, <1>18 DEF DeviceChanged, Answered, TypeOK, LocalsOK, locals, request, store
  <2> QED BY <2>1, <2>2, <2>3 DEF SharedInv
<1>19. ASSUME NEW w \in Workers, RemoveUnchanged(w)
      PROVE  SharedInv'
  <2>1. dev[w] \in Devices /\ FixedSub[dev[w]] \in SubKeys
    BY <1>0, <1>19 DEF RemoveUnchanged, LocalsOK
  <2>2. /\ deviceSet' \in [SubKeys -> SUBSET Devices]
        /\ index' \subseteq SubKeys
        /\ typeSet' \in [Types -> SUBSET Devices]
        /\ IndexAgrees'
    <3>1. CASE UNCHANGED store
      BY <1>0, <3>1, IndexUntouched DEF store, TypeOK
    <3>2. CASE UnsubscribeScript(FixedSub[dev[w]], dev[w])
      BY <1>0, <2>1, <3>2, UnsubscribeKeepsIndex
    <3> QED BY <1>19, <3>1, <3>2 DEF RemoveUnchanged, RemoveUnchangedScript
  <2>3. record' \in [Devices -> Records] /\ bound' \subseteq Devices
    BY <1>0, <1>19 DEF RemoveUnchanged, RemoveUnchangedScript, TypeOK, Records, store
  <2>4. TypeOK' /\ LocalsOK'
    BY <1>0, <1>19, <2>2, <2>3, LockTypes DEF RemoveUnchanged, Answered, TypeOK, LocalsOK,
       Steps, Records, request
  <2> QED BY <2>2, <2>4 DEF SharedInv
<1>20. ASSUME NEW w \in Workers, PushDone(w)
      PROVE  SharedInv'
  <2>1. IndexAgrees'
    BY <1>0, <1>20, IndexUntouched DEF PushDone, store
  <2>2. TypeOK'
    BY <1>0, <1>20, LockTypes
       DEF PushDone, Finish, Begin, TypeOK, LocalsOK, Steps, Records, Unread,
       locks, locals, request, store
  <2>3. LocalsOK'
    BY <1>0, <1>20 DEF PushDone, Finish, Begin, TypeOK, LocalsOK, locals, request, store
  <2> QED BY <2>1, <2>2, <2>3 DEF SharedInv
<1>21. ASSUME NEW w \in Workers, NEW s \in SubKeys, Query(w, s)
      PROVE  SharedInv'
  <2>1. IndexAgrees'
    BY <1>0, <1>21, IndexUntouched DEF Query, store
  <2>2. TypeOK'
    BY <1>0, <1>21, LockTypes
       DEF Query, Begin, TypeOK, LocalsOK, Steps, Records, Unread,
       locks, locals, request, store
  <2>3. LocalsOK'
    BY <1>0, <1>21 DEF Query, Begin, TypeOK, LocalsOK, locals, request, store
  <2> QED BY <2>1, <2>2, <2>3 DEF SharedInv
<1>22. ASSUME NEW w \in Workers, QueryMGet(w)
      PROVE  SharedInv'
  <2>1. IndexAgrees' /\ UNCHANGED <<store, locks>>
    BY <1>0, <1>22, IndexUntouched DEF QueryMGet, store
  <2>2. CASE Finish(w)
    BY <1>0, <2>1, <2>2, FinishOK DEF SharedInv, TypeOK, store, locks
  <2>3. CASE ~Finish(w)
    <3>1. /\ step[w] = "query.mget" /\ step' = [step EXCEPT ![w] = "query.clean"]
          /\ devs' = [devs EXCEPT ![w] = {d \in devs[w] : record[d] = NoRecord}]
          /\ UNCHANGED <<request, dev, missing, pairs>>
      BY <1>22, <2>3 DEF QueryMGet
    <3>2. TypeOK'
      BY <1>0, <2>1, <3>1 DEF TypeOK, Steps, store, locks, request
    <3>3. LocalsOK'
      BY <1>0, <3>1 DEF TypeOK, LocalsOK, request
    <3> QED BY <2>1, <3>2, <3>3 DEF SharedInv
  <2> QED BY <2>2, <2>3
<1>23. ASSUME NEW w \in Workers, QueryClean(w)
      PROVE  SharedInv'
  <2>1. PICK d \in devs[w] :
          /\ UnsubscribeScript(sub[w], d)
          /\ \/ Finish(w)
             \/ /\ devs' = [devs EXCEPT ![w] = @ \ {d}]
                /\ UNCHANGED <<step, request, dev, missing, pairs>>
    BY <1>23 DEF QueryClean, NextMissing
  <2>2. d \in Devices /\ sub[w] \in SubKeys
    BY <1>0, <1>23 DEF QueryClean, LocalsOK, TypeOK
  <2>3. /\ deviceSet' \in [SubKeys -> SUBSET Devices]
        /\ index' \subseteq SubKeys
        /\ typeSet' \in [Types -> SUBSET Devices]
        /\ IndexAgrees'
    BY <1>0, <2>1, <2>2, UnsubscribeKeepsIndex
  <2>4. UNCHANGED <<record, bound, locks>>
    BY <1>23 DEF QueryClean, NextMissing
  <2>5. CASE Finish(w)
    BY <1>0, <2>3, <2>4, <2>5, FinishOK DEF SharedInv, TypeOK, locks
  <2>6. CASE ~Finish(w)
    <3>1. /\ devs' = [devs EXCEPT ![w] = @ \ {d}]
          /\ UNCHANGED <<step, request, dev, missing, pairs>>
      BY <2>1, <2>6
    <3>2. TypeOK'
      BY <1>0, <2>3, <2>4, <3>1 DEF TypeOK, locks, request
    <3>3. LocalsOK'
      BY <1>0, <3>1 DEF LocalsOK, request
    <3> QED BY <2>3, <3>2, <3>3 DEF SharedInv
  <2> QED BY <2>5, <2>6
<1>24. ASSUME NEW w \in Workers, Abort(w)
      PROVE  SharedInv'
  <2>1. IndexAgrees'
    BY <1>0, <1>24, IndexUntouched DEF Abort, store
  <2>2. TypeOK'
    BY <1>0, <1>24
       DEF Abort, ReleaseAll, Finish, Begin, TypeOK, LocalsOK, Steps, Records, Unread,
       locks, locals, request, store
  <2>3. LocalsOK'
    BY <1>0, <1>24 DEF Abort, ReleaseAll, Finish, Begin, TypeOK, LocalsOK, locals, request, store
  <2> QED BY <2>1, <2>2, <2>3 DEF SharedInv
<1>26. ASSUME NEW w \in Workers, ForgetFails(w)
      PROVE  SharedInv'
  <2>1. IndexAgrees'
    BY <1>0, <1>26, IndexUntouched DEF ForgetFails
  <2>a. bound' \subseteq Devices
    BY <1>0, <1>26 DEF ForgetFails, TypeOK
  <2>b. PICK d : NextOrphan(w, d)
    BY <1>26 DEF ForgetFails
  <2>c. UNCHANGED <<record, deviceSet, index, typeSet, request, dev, devs, pairs>>
    BY <1>26 DEF ForgetFails
  <2>2. TypeOK'
    BY <1>0, <2>a, <2>b, <2>c, LockTypes
       DEF NextOrphan, TypeOK, Steps, locks, request
  <2>3. LocalsOK'
    BY <1>0, <1>26 DEF ForgetFails, NextOrphan, TypeOK, LocalsOK, locals, request
  <2> QED BY <2>1, <2>2, <2>3 DEF SharedInv
<1>27. ASSUME NEW w \in Workers, QueryCleanFails(w)
      PROVE  SharedInv'
  <2>1. PICK d \in devs[w] : NextMissing(w, d)
    BY <1>27 DEF QueryCleanFails
  <2>2. UNCHANGED <<store, locks>>
    BY <1>27 DEF QueryCleanFails
  <2>3. IndexAgrees'
    BY <1>0, <2>2, IndexUntouched DEF store
  <2>4. CASE Finish(w)
    BY <1>0, <2>2, <2>3, <2>4, FinishOK DEF SharedInv, TypeOK, locks, store
  <2>5. CASE ~Finish(w)
    <3>1. /\ devs' = [devs EXCEPT ![w] = @ \ {d}]
          /\ UNCHANGED <<step, request, dev, missing, pairs>>
      BY <2>1, <2>5 DEF NextMissing
    <3>2. TypeOK'
      BY <1>0, <2>2, <3>1 DEF TypeOK, locks, request, store
    <3>3. LocalsOK'
      BY <1>0, <3>1 DEF LocalsOK, request
    <3> QED BY <2>3, <3>2, <3>3 DEF SharedInv
  <2> QED BY <2>4, <2>5
<1>25. CASE UNCHANGED vars
  BY <1>0, <1>25 DEF vars, SharedInv, TypeOK, LocalsOK, IndexAgrees, HomeOnly
<1> QED
  BY <1>1, <1>2, <1>3, <1>4, <1>5, <1>6, <1>7, <1>8, <1>9, <1>10, <1>11, <1>12,
     <1>13, <1>14, <1>15, <1>16, <1>17, <1>18, <1>19, <1>20, <1>21, <1>22, <1>23, <1>24, <1>25,
     <1>26, <1>27
     DEF Next, Request, Progress

(***************************************************************************)
(* Type correctness, for any number of processes and requests, with        *)
(* requests stopping between any two redis commands.                       *)
(***************************************************************************)
THEOREM TypeCorrect == Spec => []TypeOK
<1>1. SharedInv => TypeOK
  BY DEF SharedInv
<1> QED BY InitShared, StepShared, <1>1, PTL DEF Spec

(***************************************************************************)
(* The subscriber index and the type sets always agree with the device     *)
(* sets: only the scripts write the three of them, and each script leaves  *)
(* them in agreement.                                                      *)
(***************************************************************************)
THEOREM IndexAlwaysAgrees == Spec => []IndexAgrees
<1>1. SharedInv => IndexAgrees
  BY DEF SharedInv
<1> QED BY InitShared, StepShared, <1>1, PTL DEF Spec

-----------------------------------------------------------------------------
(* One process *)

SingleProcess == \A w, x \in Workers : ProcOf[w] = ProcOf[x]

(* The steps taken under dblock.Lock. *)
WriteSteps == { "sub.record", "sub.script", "sub.bind",
                "unsub.script", "unsub.record", "unsub.bind",
                "push.check", "push.script", "push.bind", "gone.script" }

HoldsLock == \A w \in Workers : step[w] \in WriteSteps => writer[ProcOf[w]] = w

(* What the order of the writes inside the lock establishes. *)
WriteOrder ==
    \A w \in Workers :
       /\ step[w] = "sub.script" => record[dev[w]] # NoRecord
       /\ step[w] = "unsub.script" => \A d \in devs[w] : Home[d] = sub[w]
       /\ step[w] \in {"unsub.record", "unsub.bind"}
             => /\ dev[w] \notin deviceSet[Home[dev[w]]]
                /\ \A d \in devs[w] : Home[d] = sub[w]
       /\ step[w] = "push.script" => record[dev[w]] = NoRecord

LockUse == HoldsLock /\ WriteOrder

LockedInv == SharedInv /\ LockUse

(* The initial state. *)
LEMMA InitLocked == Init => LockedInv
<1> SUFFICES ASSUME Init PROVE LockedInv
  OBVIOUS
<1>1. HoldsLock /\ WriteOrder
  BY DEF Init, LockInit, HoldsLock, WriteOrder, WriteSteps
<1> QED BY <1>1, InitShared DEF LockedInv, LockUse

(* Two requests of one process are never both under the write lock. *)
LEMMA OneWriter ==
    ASSUME SingleProcess, HoldsLock, NEW w \in Workers, NEW x \in Workers,
           step[w] \in WriteSteps, step[x] \in WriteSteps
    PROVE  w = x
BY DEF SingleProcess, HoldsLock

(* No request holds the lock while it is free. *)
LEMMA FreeLock ==
    ASSUME SingleProcess, HoldsLock, NEW w \in Workers, LockFree(w),
           NEW x \in Workers
    PROVE  step[x] \notin WriteSteps
BY StoreAssumption DEF SingleProcess, HoldsLock, LockFree

(* In one process every step keeps LockedInv. *)
LEMMA StepLocked ==
    ASSUME SingleProcess, LockedInv, [Next]_vars
    PROVE  LockedInv'
<1> USE StoreAssumption DEF Goto
<1>a. TypeOK /\ LocalsOK /\ IndexAgrees /\ HoldsLock /\ WriteOrder
  BY DEF LockedInv, LockUse, SharedInv
<1>b. SharedInv'
  BY StepShared DEF LockedInv
<1>1. ASSUME NEW w \in Workers, NEW d \in Devices, NEW v \in Values, Subscribe(w, d, v)
      PROVE  LockUse'
  <2>1. LockFree(w) /\ \A x \in Workers : step[x] \notin WriteSteps
    BY <1>a, <1>1, FreeLock DEF Subscribe, Lock
  <2>2. HoldsLock'
    BY <1>a, <1>1, <2>1
       DEF Subscribe, Begin, Lock, LockFree, TypeOK, HoldsLock, WriteSteps, locks, locals, request
  <2>3. WriteOrder'
    BY <1>a, <1>1, <2>1
       DEF Subscribe, Begin, TypeOK, LocalsOK, WriteOrder, WriteSteps, Records,
           store, locals, request
  <2> QED BY <2>2, <2>3 DEF LockUse
<1>2. ASSUME NEW w \in Workers, SetDeliveryPoint(w)
      PROVE  LockUse'
  <2>1. \A x \in Workers : step[x] \in WriteSteps => x = w
    BY <1>a, <1>2, OneWriter DEF SetDeliveryPoint, WriteSteps
  <2>2. HoldsLock'
    BY <1>a, <1>2, <2>1
       DEF SetDeliveryPoint, TypeOK, HoldsLock, WriteSteps, locks, locals, request
  <2>3. WriteOrder'
    BY <1>a, <1>2, <2>1
       DEF SetDeliveryPoint, TypeOK, LocalsOK, WriteOrder, WriteSteps, Records,
           store, locals, request
  <2> QED BY <2>2, <2>3 DEF LockUse
<1>3. ASSUME NEW w \in Workers, AddToSubscriber(w)
      PROVE  LockUse'
  <2>1. \A x \in Workers : step[x] \in WriteSteps => x = w
    BY <1>a, <1>3, OneWriter DEF AddToSubscriber, WriteSteps
  <2>2. HoldsLock'
    BY <1>a, <1>3, <2>1
       DEF AddToSubscriber, TypeOK, HoldsLock, WriteSteps, locks, locals, request
  <2>3. WriteOrder'
    BY <1>a, <1>3, <2>1
       DEF AddToSubscriber, SubscribeScript, TypeOK, LocalsOK, WriteOrder, WriteSteps, Records,
           store, locals, request
  <2> QED BY <2>2, <2>3 DEF LockUse
<1>4. ASSUME NEW w \in Workers, SetBinding(w)
      PROVE  LockUse'
  <2>1. \A x \in Workers : step[x] \in WriteSteps => x = w
    BY <1>a, <1>4, OneWriter DEF SetBinding, WriteSteps
  <2>2. HoldsLock'
    BY <1>a, <1>4, <2>1
       DEF SetBinding, Finish, Begin, Unlock, TypeOK, HoldsLock, WriteSteps, locks, locals, request
  <2>3. WriteOrder'
    BY <1>a, <1>4, <2>1
       DEF SetBinding, Finish, Begin, TypeOK, LocalsOK, WriteOrder, WriteSteps, Records,
           store, locals, request
  <2> QED BY <2>2, <2>3 DEF LockUse
<1>5. ASSUME NEW w \in Workers, NEW d \in Devices, Unsubscribe(w, d)
      PROVE  LockUse'
  <2>1. LockFree(w) /\ \A x \in Workers : step[x] \notin WriteSteps
    BY <1>a, <1>5, FreeLock DEF Unsubscribe, Lock
  <2>2. HoldsLock'
    BY <1>a, <1>5, <2>1
       DEF Unsubscribe, Begin, Lock, LockFree, TypeOK, HoldsLock, WriteSteps, locks, locals, request
  <2>3. WriteOrder'
    BY <1>a, <1>5, <2>1
       DEF Unsubscribe, Begin, TypeOK, LocalsOK, WriteOrder, WriteSteps, Records,
           store, locals, request
  <2> QED BY <2>2, <2>3 DEF LockUse
<1>6. ASSUME NEW w \in Workers, NEW s \in SubKeys, UnsubscribeAll(w, s)
      PROVE  LockUse'
  <2>1. LockFree(w) /\ \A x \in Workers : step[x] \notin WriteSteps
    BY <1>a, <1>6, FreeLock DEF UnsubscribeAll, Lock
  <2>2. HoldsLock'
    BY <1>a, <1>6, <2>1
       DEF UnsubscribeAll, Begin, Lock, LockFree, TypeOK, HoldsLock, WriteSteps, locks, locals, request
  <2>3. WriteOrder'
    BY <1>a, <1>6, <2>1
       DEF UnsubscribeAll, Begin, IndexAgrees, HomeOnly, TypeOK, LocalsOK, WriteOrder, WriteSteps, Records,
           store, locals, request
  <2> QED BY <2>2, <2>3 DEF LockUse
<1>7. ASSUME NEW w \in Workers, RemoveFromSubscriber(w)
      PROVE  LockUse'
  <2>1. \A x \in Workers : step[x] \in WriteSteps => x = w
    BY <1>a, <1>7, OneWriter DEF RemoveFromSubscriber, WriteSteps
  <2>2. HoldsLock'
    BY <1>a, <1>7, <2>1
       DEF RemoveFromSubscriber, TypeOK, HoldsLock, WriteSteps, locks, locals, request
  <2>3. WriteOrder'
    BY <1>a, <1>7, <2>1
       DEF RemoveFromSubscriber, UnsubscribeScript, IndexAgrees, HomeOnly, TypeOK, LocalsOK, WriteOrder, WriteSteps, Records,
           store, locals, request
  <2> QED BY <2>2, <2>3 DEF LockUse
<1>8. ASSUME NEW w \in Workers, RemoveRecord(w)
      PROVE  LockUse'
  <2>1. \A x \in Workers : step[x] \in WriteSteps => x = w
    BY <1>a, <1>8, OneWriter DEF RemoveRecord, WriteSteps
  <2>2. HoldsLock'
    BY <1>a, <1>8, <2>1
       DEF RemoveRecord, TypeOK, HoldsLock, WriteSteps, locks, locals, request
  <2>3. WriteOrder'
    BY <1>a, <1>8, <2>1
       DEF RemoveRecord, TypeOK, LocalsOK, WriteOrder, WriteSteps, Records,
           store, locals, request
  <2> QED BY <2>2, <2>3 DEF LockUse
<1>9. ASSUME NEW w \in Workers, RemoveBinding(w)
      PROVE  LockUse'
  <2>1. \A x \in Workers : step[x] \in WriteSteps => x = w
    BY <1>a, <1>9, OneWriter DEF RemoveBinding, WriteSteps
  <2>2. HoldsLock'
    BY <1>a, <1>9, <2>1
       DEF RemoveBinding, Finish, Begin, Unlock, TypeOK, HoldsLock, WriteSteps, locks, locals, request
  <2>3. WriteOrder'
    BY <1>a, <1>9, <2>1
       DEF RemoveBinding, Finish, Begin, TypeOK, LocalsOK, WriteOrder, WriteSteps, Records,
           store, locals, request
  <2> QED BY <2>2, <2>3 DEF LockUse
<1>10. ASSUME NEW w \in Workers, NEW s \in SubKeys, Push(w, s)
      PROVE  LockUse'
  <2>2. HoldsLock'
    BY <1>a, <1>10
       DEF Push, Matched, Begin, RLock, TypeOK, HoldsLock, WriteSteps, locks, locals, request
  <2>3. WriteOrder'
    BY <1>a, <1>10
       DEF Push, Matched, Begin, TypeOK, LocalsOK, WriteOrder, WriteSteps, Records,
           store, locals, request
  <2> QED BY <2>2, <2>3 DEF LockUse
<1>11. ASSUME NEW w \in Workers, GetDeliveryPoint(w)
      PROVE  LockUse'
  <2>2. HoldsLock'
    BY <1>a, <1>11
       DEF GetDeliveryPoint, RUnlock, TypeOK, HoldsLock, WriteSteps, locks, locals, request
  <2>3. WriteOrder'
    BY <1>a, <1>11
       DEF GetDeliveryPoint, TypeOK, LocalsOK, WriteOrder, WriteSteps, Records,
           store, locals, request
  <2> QED BY <2>2, <2>3 DEF LockUse
<1>12. ASSUME NEW w \in Workers, ForgetLock(w)
      PROVE  LockUse'
  <2>1. LockFree(w) /\ \A x \in Workers : step[x] \notin WriteSteps
    BY <1>a, <1>12, FreeLock DEF ForgetLock, Lock
  <2>2. HoldsLock'
    BY <1>a, <1>12, <2>1
       DEF ForgetLock, Lock, LockFree, TypeOK, HoldsLock, WriteSteps, locks, locals, request
  <2>3. WriteOrder'
    BY <1>a, <1>12, <2>1
       DEF ForgetLock, TypeOK, LocalsOK, WriteOrder, WriteSteps, Records,
           store, locals, request
  <2> QED BY <2>2, <2>3 DEF LockUse
<1>13. ASSUME NEW w \in Workers, ForgetKeeps(w)
      PROVE  LockUse'
  <2>1. \A x \in Workers : step[x] \in WriteSteps => x = w
    BY <1>a, <1>13, OneWriter DEF ForgetKeeps, WriteSteps
  <2>2. HoldsLock'
    BY <1>a, <1>13, <2>1
       DEF ForgetKeeps, NextOrphan, Unlock, TypeOK, HoldsLock, WriteSteps, locks, locals, request
  <2>3. WriteOrder'
    BY <1>a, <1>13, <2>1
       DEF ForgetKeeps, NextOrphan, TypeOK, LocalsOK, WriteOrder, WriteSteps, Records,
           store, locals, request
  <2> QED BY <2>2, <2>3 DEF LockUse
<1>14. ASSUME NEW w \in Workers, ForgetCheck(w)
      PROVE  LockUse'
  <2>1. \A x \in Workers : step[x] \in WriteSteps => x = w
    BY <1>a, <1>14, OneWriter DEF ForgetCheck, WriteSteps
  <2>2. HoldsLock'
    BY <1>a, <1>14, <2>1
       DEF ForgetCheck, TypeOK, HoldsLock, WriteSteps, locks, locals, request
  <2>3. WriteOrder'
    BY <1>a, <1>14, <2>1
       DEF ForgetCheck, TypeOK, LocalsOK, WriteOrder, WriteSteps, Records,
           store, locals, request
  <2> QED BY <2>2, <2>3 DEF LockUse
<1>15. ASSUME NEW w \in Workers, ForgetScript(w)
      PROVE  LockUse'
  <2>1. \A x \in Workers : step[x] \in WriteSteps => x = w
    BY <1>a, <1>15, OneWriter DEF ForgetScript, WriteSteps
  <2>2. HoldsLock'
    BY <1>a, <1>15, <2>1
       DEF ForgetScript, TypeOK, HoldsLock, WriteSteps, locks, locals, request
  <2>3. WriteOrder'
    BY <1>a, <1>15, <2>1
       DEF ForgetScript, UnsubscribeScript, TypeOK, LocalsOK, WriteOrder, WriteSteps, Records,
           store, locals, request
  <2> QED BY <2>2, <2>3 DEF LockUse
<1>16. ASSUME NEW w \in Workers, ForgetBinding(w)
      PROVE  LockUse'
  <2>1. \A x \in Workers : step[x] \in WriteSteps => x = w
    BY <1>a, <1>16, OneWriter DEF ForgetBinding, WriteSteps
  <2>2. HoldsLock'
    BY <1>a, <1>16, <2>1
       DEF ForgetBinding, NextOrphan, Unlock, TypeOK, HoldsLock, WriteSteps, locks, locals, request
  <2>3. WriteOrder'
    BY <1>a, <1>16, <2>1
       DEF ForgetBinding, NextOrphan, TypeOK, LocalsOK, WriteOrder, WriteSteps, Records,
           store, locals, request
  <2> QED BY <2>2, <2>3 DEF LockUse
<1>17. ASSUME NEW w \in Workers, NEW d \in Devices, DeviceGone(w, d)
      PROVE  LockUse'
  <2>1. LockFree(w) /\ \A x \in Workers : step[x] \notin WriteSteps
    BY <1>a, <1>17, FreeLock DEF DeviceGone, Lock
  <2>2. HoldsLock'
    BY <1>a, <1>17, <2>1
       DEF DeviceGone, Lock, LockFree, TypeOK, HoldsLock, WriteSteps, locks, locals, request
  <2>3. WriteOrder'
    BY <1>a, <1>17, <2>1
       DEF DeviceGone, TypeOK, LocalsOK, WriteOrder, WriteSteps, Records,
           store, locals, request
  <2> QED BY <2>2, <2>3 DEF LockUse
<1>18. ASSUME NEW w \in Workers, NEW d \in Devices, DeviceChanged(w, d)
      PROVE  LockUse'
  <2>2. HoldsLock'
    BY <1>a, <1>18
       DEF DeviceChanged, Answered, TypeOK, HoldsLock, WriteSteps, locks, locals, request
  <2>3. WriteOrder'
    BY <1>a, <1>18
       DEF DeviceChanged, Answered, TypeOK, LocalsOK, WriteOrder, WriteSteps, Records,
           store, locals, request
  <2> QED BY <2>2, <2>3 DEF LockUse
<1>19. ASSUME NEW w \in Workers, RemoveUnchanged(w)
      PROVE  LockUse'
  <2>1. \A x \in Workers : step[x] \in WriteSteps => x = w
    BY <1>a, <1>19, OneWriter DEF RemoveUnchanged, WriteSteps
  <2>2. HoldsLock'
    BY <1>a, <1>19, <2>1
       DEF RemoveUnchanged, Answered, Unlock, TypeOK, HoldsLock, WriteSteps, locks, locals, request
  <2>3. WriteOrder'
    BY <1>a, <1>19, <2>1
       DEF RemoveUnchanged, Answered, RemoveUnchangedScript, UnsubscribeScript, TypeOK, LocalsOK, WriteOrder, WriteSteps, Records,
           store, locals, request
  <2> QED BY <2>2, <2>3 DEF LockUse
<1>20. ASSUME NEW w \in Workers, PushDone(w)
      PROVE  LockUse'
  <2>2. HoldsLock'
    BY <1>a, <1>20
       DEF PushDone, Finish, Begin, TypeOK, HoldsLock, WriteSteps, locks, locals, request
  <2>3. WriteOrder'
    BY <1>a, <1>20
       DEF PushDone, Finish, Begin, TypeOK, LocalsOK, WriteOrder, WriteSteps, Records,
           store, locals, request
  <2> QED BY <2>2, <2>3 DEF LockUse
<1>21. ASSUME NEW w \in Workers, NEW s \in SubKeys, Query(w, s)
      PROVE  LockUse'
  <2>2. HoldsLock'
    BY <1>a, <1>21
       DEF Query, Begin, TypeOK, HoldsLock, WriteSteps, locks, locals, request
  <2>3. WriteOrder'
    BY <1>a, <1>21
       DEF Query, Begin, TypeOK, LocalsOK, WriteOrder, WriteSteps, Records,
           store, locals, request
  <2> QED BY <2>2, <2>3 DEF LockUse
<1>22. ASSUME NEW w \in Workers, QueryMGet(w)
      PROVE  LockUse'
  <2>2. HoldsLock'
    BY <1>a, <1>22
       DEF QueryMGet, Finish, Begin, TypeOK, HoldsLock, WriteSteps, locks, locals, request
  <2>3. WriteOrder'
    <3>1. CASE Finish(w)
      BY <1>a, <1>22, <3>1 DEF QueryMGet, Finish, Begin, TypeOK, WriteOrder, store
    <3>2. CASE ~Finish(w)
      BY <1>a, <1>22, <3>2 DEF QueryMGet, TypeOK, WriteOrder, store, request
    <3> QED BY <3>1, <3>2
  <2> QED BY <2>2, <2>3 DEF LockUse
<1>23. ASSUME NEW w \in Workers, QueryClean(w)
      PROVE  LockUse'
  <2>2. HoldsLock'
    BY <1>a, <1>23
       DEF QueryClean, NextMissing, Finish, Begin, TypeOK, HoldsLock, WriteSteps, locks, locals, request
  <2>3. WriteOrder'
    BY <1>a, <1>23
       DEF QueryClean, NextMissing, Finish, Begin, UnsubscribeScript, TypeOK, LocalsOK, WriteOrder, WriteSteps, Records,
           store, locals, request
  <2> QED BY <2>2, <2>3 DEF LockUse
<1>24. ASSUME NEW w \in Workers, Abort(w)
      PROVE  LockUse'
  <2>2. HoldsLock'
    BY <1>a, <1>24
       DEF Abort, ReleaseAll, Finish, Begin, TypeOK, HoldsLock, WriteSteps, locks, locals, request
  <2>3. WriteOrder'
    BY <1>a, <1>24
       DEF Abort, ReleaseAll, Finish, Begin, TypeOK, LocalsOK, WriteOrder, WriteSteps, Records,
           store, locals, request
  <2> QED BY <2>2, <2>3 DEF LockUse
<1>26. ASSUME NEW w \in Workers, ForgetFails(w)
      PROVE  LockUse'
  <2>1. \A x \in Workers : step[x] \in WriteSteps => x = w
    BY <1>a, <1>26, OneWriter DEF ForgetFails, WriteSteps
  <2>2. HoldsLock'
    BY <1>a, <1>26, <2>1
       DEF ForgetFails, NextOrphan, Unlock, TypeOK, HoldsLock, WriteSteps, locks, locals, request
  <2>3. WriteOrder'
    BY <1>a, <1>26, <2>1
       DEF ForgetFails, NextOrphan, TypeOK, LocalsOK, WriteOrder, WriteSteps, Records,
           store, locals, request
  <2> QED BY <2>2, <2>3 DEF LockUse
<1>27. ASSUME NEW w \in Workers, QueryCleanFails(w)
      PROVE  LockUse'
  <2>2. HoldsLock'
    BY <1>a, <1>27
       DEF QueryCleanFails, NextMissing, Finish, Begin, TypeOK, HoldsLock, WriteSteps, locks, locals, request
  <2>3. WriteOrder'
    <3>1. CASE Finish(w)
      BY <1>a, <1>27, <3>1
         DEF QueryCleanFails, Finish, Begin, TypeOK, WriteOrder, store
    <3>2. CASE ~Finish(w)
      <4>1. /\ step[w] = "query.clean"
            /\ \A x \in Workers : x # w => devs'[x] = devs[x]
            /\ UNCHANGED <<step, sub, dev, record, deviceSet>>
        BY <1>a, <1>27, <3>2
           DEF QueryCleanFails, NextMissing, TypeOK, store, request
      <4> QED BY <1>a, <4>1 DEF WriteOrder
    <3> QED BY <3>1, <3>2
  <2> QED BY <2>2, <2>3 DEF LockUse
<1>25. ASSUME UNCHANGED vars PROVE LockUse'
  <2>1. HoldsLock'
    BY <1>a, <1>25 DEF vars, HoldsLock
  <2>2. WriteOrder'
    BY <1>a, <1>25 DEF vars, WriteOrder
  <2> QED BY <2>1, <2>2 DEF LockUse
<1>c. LockUse'
  BY <1>1, <1>2, <1>3, <1>4, <1>5, <1>6, <1>7, <1>8, <1>9, <1>10, <1>11, <1>12,
     <1>13, <1>14, <1>15, <1>16, <1>17, <1>18, <1>19, <1>20, <1>21, <1>22, <1>23, <1>24, <1>25,
     <1>26, <1>27
     DEF Next, Request, Progress
<1> QED BY <1>b, <1>c DEF LockedInv

(* The unsubscribe script takes names out of device sets and adds none. *)
LEMMA UnsubscribeShrinks ==
    ASSUME TypeOK, NEW s \in SubKeys, NEW d \in Devices, UnsubscribeScript(s, d)
    PROVE  \A k \in SubKeys : /\ deviceSet'[k] \subseteq deviceSet[k]
                              /\ deviceSet[k] \ {d} \subseteq deviceSet'[k]
                              /\ k = s => d \notin deviceSet'[k]
BY DEF TypeOK, UnsubscribeScript

(* No step of a single process makes an orphan. *)
LEMMA StepNoOrphan ==
    ASSUME SingleProcess, FixedSub = Home, LockedInv, [Next]_vars,
           NEW d \in Devices, Orphan(d)'
    PROVE  Orphan(d)
<1> USE StoreAssumption
<1>a. TypeOK /\ LocalsOK /\ HoldsLock /\ WriteOrder
  BY DEF LockedInv, LockUse, SharedInv
<1>b. d \in deviceSet'[Home[d]] /\ record'[d] = NoRecord /\ Home[d] \in SubKeys
  BY DEF Orphan
<1>1. ASSUME NEW w \in Workers, NEW e \in Devices, NEW v \in Values, Subscribe(w, e, v) PROVE Orphan(d)
  BY <1>b, <1>1 DEF Subscribe, Orphan, store
<1>2. ASSUME NEW w \in Workers, SetDeliveryPoint(w) PROVE Orphan(d)
  <2>1. deviceSet' = deviceSet /\ dev[w] \in Devices /\ value[w] \in Values
    BY <1>a, <1>2 DEF SetDeliveryPoint, LocalsOK
  <2> QED BY <1>a, <1>b, <1>2, <2>1 DEF SetDeliveryPoint, TypeOK, Orphan
<1>3. ASSUME NEW w \in Workers, AddToSubscriber(w) PROVE Orphan(d)
  <2>1. record' = record /\ record[dev[w]] # NoRecord
    BY <1>a, <1>3 DEF AddToSubscriber, WriteOrder
  <2> QED BY <1>a, <1>b, <1>3, <2>1 DEF AddToSubscriber, SubscribeScript, TypeOK, Orphan
<1>4. ASSUME NEW w \in Workers, SetBinding(w) PROVE Orphan(d)
  BY <1>b, <1>4 DEF SetBinding, Orphan
<1>5. ASSUME NEW w \in Workers, NEW e \in Devices, Unsubscribe(w, e) PROVE Orphan(d)
  BY <1>b, <1>5 DEF Unsubscribe, Orphan, store
<1>6. ASSUME NEW w \in Workers, NEW s \in SubKeys, UnsubscribeAll(w, s) PROVE Orphan(d)
  BY <1>b, <1>6 DEF UnsubscribeAll, Orphan, store
<1>7. ASSUME NEW w \in Workers, RemoveFromSubscriber(w) PROVE Orphan(d)
  <2>1. PICK e \in devs[w] : UnsubscribeScript(sub[w], e)
    BY <1>7 DEF RemoveFromSubscriber
  <2>2. e \in Devices /\ sub[w] \in SubKeys /\ record' = record
    BY <1>a, <1>7 DEF RemoveFromSubscriber, LocalsOK, TypeOK
  <2> QED BY <1>a, <1>b, <2>1, <2>2, UnsubscribeShrinks DEF Orphan
<1>8. ASSUME NEW w \in Workers, RemoveRecord(w) PROVE Orphan(d)
  <2>1. deviceSet' = deviceSet /\ dev[w] \notin deviceSet[Home[dev[w]]]
    BY <1>a, <1>8 DEF RemoveRecord, WriteOrder
  <2> QED BY <1>a, <1>b, <1>8, <2>1 DEF RemoveRecord, TypeOK, Orphan
<1>9. ASSUME NEW w \in Workers, RemoveBinding(w) PROVE Orphan(d)
  BY <1>b, <1>9 DEF RemoveBinding, Orphan
<1>10. ASSUME NEW w \in Workers, NEW s \in SubKeys, Push(w, s) PROVE Orphan(d)
  BY <1>b, <1>10 DEF Push, Orphan, store
<1>11. ASSUME NEW w \in Workers, GetDeliveryPoint(w) PROVE Orphan(d)
  BY <1>b, <1>11 DEF GetDeliveryPoint, Orphan, store
<1>12. ASSUME NEW w \in Workers, ForgetLock(w) PROVE Orphan(d)
  BY <1>b, <1>12 DEF ForgetLock, Orphan, store
<1>13. ASSUME NEW w \in Workers, ForgetKeeps(w) PROVE Orphan(d)
  BY <1>b, <1>13 DEF ForgetKeeps, Orphan, store
<1>14. ASSUME NEW w \in Workers, ForgetCheck(w) PROVE Orphan(d)
  BY <1>b, <1>14 DEF ForgetCheck, Orphan, store
<1>15. ASSUME NEW w \in Workers, ForgetScript(w) PROVE Orphan(d)
  <2>1. dev[w] \in Devices /\ sub[w] \in SubKeys /\ record' = record
    BY <1>a, <1>15 DEF ForgetScript, LocalsOK
  <2>2. UnsubscribeScript(sub[w], dev[w])
    BY <1>15 DEF ForgetScript
  <2> QED BY <1>a, <1>b, <2>1, <2>2, UnsubscribeShrinks DEF Orphan
<1>16. ASSUME NEW w \in Workers, ForgetBinding(w) PROVE Orphan(d)
  BY <1>b, <1>16 DEF ForgetBinding, Orphan
<1>17. ASSUME NEW w \in Workers, NEW e \in Devices, DeviceGone(w, e) PROVE Orphan(d)
  BY <1>b, <1>17 DEF DeviceGone, Orphan, store
<1>18. ASSUME NEW w \in Workers, NEW e \in Devices, DeviceChanged(w, e) PROVE Orphan(d)
  BY <1>b, <1>18 DEF DeviceChanged, Orphan, store
<1>19. ASSUME NEW w \in Workers, RemoveUnchanged(w) PROVE Orphan(d)
  <2>1. dev[w] \in Devices
    BY <1>a, <1>19 DEF RemoveUnchanged, LocalsOK
  <2>2. CASE UNCHANGED store
    BY <1>b, <2>2 DEF store, Orphan
  <2>3. CASE /\ UnsubscribeScript(Home[dev[w]], dev[w])
             /\ record' = [record EXCEPT ![dev[w]] = NoRecord]
    <3>1. d # dev[w] /\ d \in deviceSet[Home[d]]
      BY <1>a, <1>b, <2>1, <2>3, UnsubscribeShrinks
    <3> QED BY <1>a, <1>b, <2>3, <3>1 DEF Orphan, TypeOK
  <2> QED BY <1>19, <2>2, <2>3 DEF RemoveUnchanged, RemoveUnchangedScript
<1>20. ASSUME NEW w \in Workers, PushDone(w) PROVE Orphan(d)
  BY <1>b, <1>20 DEF PushDone, Orphan, store
<1>21. ASSUME NEW w \in Workers, NEW s \in SubKeys, Query(w, s) PROVE Orphan(d)
  BY <1>b, <1>21 DEF Query, Orphan, store
<1>22. ASSUME NEW w \in Workers, QueryMGet(w) PROVE Orphan(d)
  BY <1>b, <1>22 DEF QueryMGet, Orphan, store
<1>23. ASSUME NEW w \in Workers, QueryClean(w) PROVE Orphan(d)
  <2>1. PICK e \in devs[w] : UnsubscribeScript(sub[w], e)
    BY <1>23 DEF QueryClean, NextMissing
  <2>2. e \in Devices /\ sub[w] \in SubKeys /\ record' = record
    BY <1>a, <1>23 DEF QueryClean, LocalsOK, TypeOK
  <2> QED BY <1>a, <1>b, <2>1, <2>2, UnsubscribeShrinks DEF Orphan
<1>24. ASSUME NEW w \in Workers, Abort(w) PROVE Orphan(d)
  BY <1>b, <1>24 DEF Abort, Orphan, store
<1>26. ASSUME NEW w \in Workers, ForgetFails(w) PROVE Orphan(d)
  BY <1>b, <1>26 DEF ForgetFails, Orphan
<1>27. ASSUME NEW w \in Workers, QueryCleanFails(w) PROVE Orphan(d)
  BY <1>b, <1>27 DEF QueryCleanFails, Orphan, store
<1>25. ASSUME UNCHANGED vars PROVE Orphan(d)
  BY <1>b, <1>25 DEF vars, Orphan
<1> QED
  BY <1>1, <1>2, <1>3, <1>4, <1>5, <1>6, <1>7, <1>8, <1>9, <1>10, <1>11, <1>12,
     <1>13, <1>14, <1>15, <1>16, <1>17, <1>18, <1>19, <1>20, <1>21, <1>22, <1>23, <1>24, <1>25,
     <1>26, <1>27
     DEF Next, Request, Progress

(* A step moves the worker that takes it and no other. *)
LEMMA OnlyTheActorMoves ==
    ASSUME TypeOK, NEW w \in Workers, Request(w) \/ Progress(w) \/ Abort(w),
           NEW x \in Workers, x # w
    PROVE  step'[x] = step[x]
<1>a. step \in [Workers -> Steps]
  BY DEF TypeOK
<1> USE <1>a DEF Goto, Begin, Finish
<1>1. ASSUME NEW d \in Devices, NEW v \in Values, Subscribe(w, d, v) PROVE step'[x] = step[x]
  BY <1>1 DEF Subscribe
<1>2. ASSUME NEW d \in Devices, Unsubscribe(w, d) PROVE step'[x] = step[x]
  BY <1>2 DEF Unsubscribe
<1>3. ASSUME NEW s \in SubKeys, UnsubscribeAll(w, s) PROVE step'[x] = step[x]
  BY <1>3 DEF UnsubscribeAll
<1>4. ASSUME NEW s \in SubKeys, Push(w, s) PROVE step'[x] = step[x]
  BY <1>4 DEF Push
<1>5. ASSUME NEW s \in SubKeys, Query(w, s) PROVE step'[x] = step[x]
  BY <1>5 DEF Query
<1>6. ASSUME SetDeliveryPoint(w) PROVE step'[x] = step[x]
  BY <1>6 DEF SetDeliveryPoint
<1>7. ASSUME AddToSubscriber(w) PROVE step'[x] = step[x]
  BY <1>7 DEF AddToSubscriber
<1>8. ASSUME SetBinding(w) PROVE step'[x] = step[x]
  BY <1>8 DEF SetBinding
<1>9. ASSUME RemoveFromSubscriber(w) PROVE step'[x] = step[x]
  BY <1>9 DEF RemoveFromSubscriber
<1>10. ASSUME RemoveRecord(w) PROVE step'[x] = step[x]
  BY <1>10 DEF RemoveRecord
<1>11. ASSUME RemoveBinding(w) PROVE step'[x] = step[x]
  BY <1>11 DEF RemoveBinding
<1>12. ASSUME GetDeliveryPoint(w) PROVE step'[x] = step[x]
  BY <1>12 DEF GetDeliveryPoint
<1>13. ASSUME ForgetLock(w) PROVE step'[x] = step[x]
  BY <1>13 DEF ForgetLock
<1>14. ASSUME ForgetKeeps(w) PROVE step'[x] = step[x]
  BY <1>14 DEF ForgetKeeps, NextOrphan
<1>15. ASSUME ForgetCheck(w) PROVE step'[x] = step[x]
  BY <1>15 DEF ForgetCheck
<1>16. ASSUME ForgetScript(w) PROVE step'[x] = step[x]
  BY <1>16 DEF ForgetScript
<1>17. ASSUME ForgetBinding(w) PROVE step'[x] = step[x]
  BY <1>17 DEF ForgetBinding, NextOrphan
<1>18. ASSUME NEW d \in Devices, DeviceGone(w, d) PROVE step'[x] = step[x]
  BY <1>18 DEF DeviceGone
<1>19. ASSUME NEW d \in Devices, DeviceChanged(w, d) PROVE step'[x] = step[x]
  BY <1>19 DEF DeviceChanged
<1>20. ASSUME RemoveUnchanged(w) PROVE step'[x] = step[x]
  BY <1>20 DEF RemoveUnchanged
<1>21. ASSUME PushDone(w) PROVE step'[x] = step[x]
  BY <1>21 DEF PushDone
<1>22. ASSUME QueryMGet(w) PROVE step'[x] = step[x]
  BY <1>22 DEF QueryMGet
<1>23. ASSUME QueryClean(w) PROVE step'[x] = step[x]
  BY <1>23 DEF QueryClean, NextMissing
<1>24. ASSUME Abort(w) PROVE step'[x] = step[x]
  BY <1>24 DEF Abort
<1>26. ASSUME ForgetFails(w) PROVE step'[x] = step[x]
  BY <1>26 DEF ForgetFails, NextOrphan
<1>27. ASSUME QueryCleanFails(w) PROVE step'[x] = step[x]
  BY <1>27 DEF QueryCleanFails, NextMissing
<1> QED
  BY <1>1, <1>2, <1>3, <1>4, <1>5, <1>6, <1>7, <1>8, <1>9, <1>10, <1>11,
     <1>12, <1>13, <1>14, <1>15, <1>16, <1>17, <1>18, <1>19, <1>20, <1>21,
     <1>22, <1>23, <1>24, <1>26, <1>27
     DEF Request, Progress

(* In a single process the cleanup of a push tears down no live device. *)
LEMMA StepSparesLive ==
    ASSUME SingleProcess, LockedInv, Next, NEW x \in Workers,
           step[x] = "push.script", step'[x] = "push.bind",
           NEW d \in Devices
    PROVE  ~TornDown(d)
<1> USE StoreAssumption DEF Goto
<1>a. TypeOK /\ LocalsOK /\ WriteOrder /\ Home[d] \in SubKeys
  BY DEF LockedInv, LockUse, SharedInv
<1>1. ForgetScript(x)
  <2>1. Request(x) \/ Progress(x) \/ Abort(x)
    BY <1>a, OnlyTheActorMoves DEF Next
  <2>2. ~Request(x)
    BY DEF Request, Subscribe, Unsubscribe, UnsubscribeAll, Push, Query
  <2>3. ~Abort(x)
    BY <1>a DEF Abort, ReleaseAll, Finish, Begin, TypeOK
  <2>4. ~ForgetFails(x)
    BY <1>a DEF ForgetFails, NextOrphan, TypeOK
  <2> QED
    BY <2>1, <2>2, <2>3, <2>4 DEF Progress, SetDeliveryPoint, AddToSubscriber,
       SetBinding, RemoveFromSubscriber, RemoveRecord, RemoveBinding,
       GetDeliveryPoint, ForgetLock, ForgetKeeps, ForgetCheck,
       ForgetBinding, DeviceGone, DeviceChanged, RemoveUnchanged, PushDone,
       QueryMGet, QueryClean, QueryCleanFails
<1>2. /\ UnsubscribeScript(sub[x], dev[x]) /\ record[dev[x]] = NoRecord
      /\ dev[x] \in Devices /\ sub[x] \in SubKeys
  BY <1>a, <1>1 DEF ForgetScript, WriteOrder, LocalsOK
<1> QED BY <1>a, <1>2, UnsubscribeShrinks DEF TornDown, Live

(* The step of a push that ends a removal is the script. *)
LEMMA GoneStepIs ==
    ASSUME SharedInv, Next, NEW x \in Workers,
           step[x] = "gone.script", step'[x] = "push.send"
    PROVE  RemoveUnchanged(x)
<1> USE DEF Goto
<1>a. TypeOK
  BY DEF SharedInv
<1>1. Request(x) \/ Progress(x) \/ Abort(x)
  BY <1>a, OnlyTheActorMoves DEF Next
<1>2. ~Request(x)
  BY DEF Request, Subscribe, Unsubscribe, UnsubscribeAll, Push, Query
<1>3. ~Abort(x)
  BY <1>a DEF Abort, ReleaseAll, Finish, Begin, TypeOK
<1> QED
  BY <1>1, <1>2, <1>3 DEF Progress, SetDeliveryPoint, AddToSubscriber,
     SetBinding, RemoveFromSubscriber, RemoveRecord, RemoveBinding,
     GetDeliveryPoint, ForgetLock, ForgetKeeps, ForgetCheck, ForgetScript,
     ForgetBinding, ForgetFails, NextOrphan, DeviceGone, DeviceChanged,
     PushDone, QueryMGet, QueryClean, QueryCleanFails

(* A removal of a gone device touches that device only, unchanged. *)
LEMMA StepGoneSpares ==
    ASSUME SharedInv, Next, NEW x \in Workers,
           step[x] = "gone.script", step'[x] = "push.send",
           NEW d \in Devices, TornDown(d)
    PROVE  d = dev[x] /\ record[d] = pairs[x][d]
<1> USE StoreAssumption DEF Goto
<1>a. TypeOK /\ LocalsOK /\ Home[d] \in SubKeys
  BY DEF SharedInv
<1>1. RemoveUnchanged(x)
  BY GoneStepIs
<1>2. dev[x] \in Devices /\ FixedSub[dev[x]] \in SubKeys
  BY <1>a, <1>1 DEF RemoveUnchanged, LocalsOK
<1>3. CASE UNCHANGED store
  BY <1>3 DEF store, TornDown, Live
<1>4. CASE UnsubscribeScript(FixedSub[dev[x]], dev[x]) /\ record[dev[x]] = pairs[x][dev[x]]
  BY <1>a, <1>2, <1>4, UnsubscribeShrinks DEF TornDown, Live
<1> QED BY <1>1, <1>3, <1>4 DEF RemoveUnchanged, RemoveUnchangedScript

(***************************************************************************)
(* A single process makes no orphans, for any number of concurrent         *)
(* requests and wherever they fail: the write lock and the order of the    *)
(* writes suffice.  FixedSub = Home says no subscription was made with a   *)
(* list of subscribers.                                                    *)
(***************************************************************************)
THEOREM NoOrphansMade ==
    ASSUME SingleProcess, FixedSub = Home PROVE Spec => NoNewOrphan
<1>1. LockedInv /\ [Next]_vars => LockedInv'
  BY StepLocked
<1>2. LockedInv /\ [Next]_vars => [\A d \in Devices : Orphan(d)' => Orphan(d)]_vars
  BY StepNoOrphan
<1> QED BY InitLocked, <1>1, <1>2, PTL DEF Spec, NoNewOrphan

(***************************************************************************)
(* forgetOrphanedDeliveryPoints never tears down a re-subscribed device    *)
(* while there is one process: its second look under the write lock is     *)
(* still true when its script runs.                                        *)
(***************************************************************************)
THEOREM PushCleanupIsSafe == ASSUME SingleProcess PROVE Spec => PushSparesLive
<1>1. LockedInv /\ [Next]_vars => LockedInv'
  BY StepLocked
<1>2. LockedInv /\ [Next]_vars
         => [\A w \in Workers :
               step[w] = "push.script" /\ step'[w] = "push.bind"
                 => \A d \in Devices : ~TornDown(d)]_vars
  BY StepSparesLive
<1> QED BY InitLocked, <1>1, <1>2, PTL DEF Spec, PushSparesLive

(***************************************************************************)
(* removeUnchangedScript never removes a device re-subscribed with other   *)
(* contents, with any number of processes writing.                         *)
(***************************************************************************)
THEOREM GoneRemovalIsSafe == Spec => GoneSparesResubscribed
<1>1. SharedInv /\ [Next]_vars
         => [\A w \in Workers :
               step[w] = "gone.script" /\ step'[w] = "push.send"
                 => \A d \in Devices :
                      TornDown(d) => d = dev[w] /\ record[d] = pairs[w][d]]_vars
  BY StepGoneSpares
<1> QED BY InitShared, StepShared, <1>1, PTL DEF Spec, GoneSparesResubscribed

-----------------------------------------------------------------------------
(* What a cleanup and an /unsubscribe of everything have left to do *)

(* A step touches the locals of the worker that takes it and no other. *)
LEMMA OthersKeep ==
    ASSUME TypeOK, NEW w \in Workers, Request(w) \/ Progress(w) \/ Abort(w),
           NEW x \in Workers, x # w
    PROVE  /\ sub'[x] = sub[x] /\ all'[x] = all[x] /\ dev'[x] = dev[x]
           /\ devs'[x] = devs[x] /\ missing'[x] = missing[x]
<1> DEFINE Kept == /\ sub'[x] = sub[x] /\ all'[x] = all[x] /\ dev'[x] = dev[x]
                   /\ devs'[x] = devs[x] /\ missing'[x] = missing[x]
<1>a. /\ sub \in [Workers -> SubKeys \cup {Nobody}] /\ all \in [Workers -> BOOLEAN]
      /\ dev \in [Workers -> Devices \cup {Nobody}]
      /\ devs \in [Workers -> SUBSET Devices] /\ missing \in [Workers -> SUBSET Devices]
  BY DEF TypeOK
<1> USE <1>a DEF Begin, Finish, locals, request
<1>1. ASSUME NEW d \in Devices, NEW v \in Values, Subscribe(w, d, v) PROVE Kept
  BY <1>1 DEF Subscribe
<1>2. ASSUME NEW d \in Devices, Unsubscribe(w, d) PROVE Kept
  BY <1>2 DEF Unsubscribe
<1>3. ASSUME NEW s \in SubKeys, UnsubscribeAll(w, s) PROVE Kept
  BY <1>3 DEF UnsubscribeAll
<1>4. ASSUME NEW s \in SubKeys, Push(w, s) PROVE Kept
  BY <1>4 DEF Push, Matched
<1>5. ASSUME NEW s \in SubKeys, Query(w, s) PROVE Kept
  BY <1>5 DEF Query
<1>6. ASSUME SetDeliveryPoint(w) PROVE Kept
  BY <1>6 DEF SetDeliveryPoint
<1>7. ASSUME AddToSubscriber(w) PROVE Kept
  BY <1>7 DEF AddToSubscriber
<1>8. ASSUME SetBinding(w) PROVE Kept
  BY <1>8 DEF SetBinding
<1>9. ASSUME RemoveFromSubscriber(w) PROVE Kept
  BY <1>9 DEF RemoveFromSubscriber
<1>10. ASSUME RemoveRecord(w) PROVE Kept
  BY <1>10 DEF RemoveRecord
<1>11. ASSUME RemoveBinding(w) PROVE Kept
  BY <1>11 DEF RemoveBinding
<1>12. ASSUME GetDeliveryPoint(w) PROVE Kept
  BY <1>12 DEF GetDeliveryPoint
<1>13. ASSUME ForgetLock(w) PROVE Kept
  BY <1>13 DEF ForgetLock
<1>14. ASSUME ForgetKeeps(w) PROVE Kept
  BY <1>14 DEF ForgetKeeps, NextOrphan
<1>15. ASSUME ForgetCheck(w) PROVE Kept
  BY <1>15 DEF ForgetCheck
<1>16. ASSUME ForgetScript(w) PROVE Kept
  BY <1>16 DEF ForgetScript
<1>17. ASSUME ForgetBinding(w) PROVE Kept
  BY <1>17 DEF ForgetBinding, NextOrphan
<1>18. ASSUME ForgetFails(w) PROVE Kept
  BY <1>18 DEF ForgetFails, NextOrphan
<1>19. ASSUME NEW d \in Devices, DeviceGone(w, d) PROVE Kept
  BY <1>19 DEF DeviceGone
<1>20. ASSUME NEW d \in Devices, DeviceChanged(w, d) PROVE Kept
  BY <1>20 DEF DeviceChanged, Answered
<1>21. ASSUME RemoveUnchanged(w) PROVE Kept
  BY <1>21 DEF RemoveUnchanged, Answered
<1>22. ASSUME PushDone(w) PROVE Kept
  BY <1>22 DEF PushDone
<1>23. ASSUME QueryMGet(w) PROVE Kept
  BY <1>23 DEF QueryMGet
<1>24. ASSUME QueryClean(w) PROVE Kept
  BY <1>24 DEF QueryClean, NextMissing
<1>25. ASSUME QueryCleanFails(w) PROVE Kept
  BY <1>25 DEF QueryCleanFails, NextMissing
<1>26. ASSUME Abort(w) PROVE Kept
  BY <1>26 DEF Abort
<1> QED
  BY <1>1, <1>2, <1>3, <1>4, <1>5, <1>6, <1>7, <1>8, <1>9, <1>10, <1>11,
     <1>12, <1>13, <1>14, <1>15, <1>16, <1>17, <1>18, <1>19, <1>20, <1>21, <1>22,
     <1>23, <1>24, <1>25, <1>26
     DEF Request, Progress

(* Only the script of a /subscribe puts a name into a device set. *)
LEMMA OnlySubscribeAdds ==
    ASSUME TypeOK, LocalsOK, NEW w \in Workers,
           Request(w) \/ Progress(w) \/ Abort(w), step[w] # "sub.script",
           NEW k \in SubKeys
    PROVE  deviceSet'[k] \subseteq deviceSet[k]
<1> DEFINE Shrinks == deviceSet'[k] \subseteq deviceSet[k]
<1> USE StoreAssumption
<1>1. ASSUME NEW d \in Devices, NEW v \in Values, Subscribe(w, d, v) PROVE Shrinks
  BY <1>1 DEF Subscribe, store
<1>2. ASSUME NEW d \in Devices, Unsubscribe(w, d) PROVE Shrinks
  BY <1>2 DEF Unsubscribe, store
<1>3. ASSUME NEW s \in SubKeys, UnsubscribeAll(w, s) PROVE Shrinks
  BY <1>3 DEF UnsubscribeAll, store
<1>4. ASSUME NEW s \in SubKeys, Push(w, s) PROVE Shrinks
  BY <1>4 DEF Push, store
<1>5. ASSUME NEW s \in SubKeys, Query(w, s) PROVE Shrinks
  BY <1>5 DEF Query, store
<1>6. ASSUME SetDeliveryPoint(w) PROVE Shrinks
  BY <1>6 DEF SetDeliveryPoint, store
<1>7. ASSUME AddToSubscriber(w) PROVE Shrinks
  BY <1>7 DEF AddToSubscriber
<1>8. ASSUME SetBinding(w) PROVE Shrinks
  BY <1>8 DEF SetBinding, store
<1>9. ASSUME RemoveFromSubscriber(w) PROVE Shrinks
  <2>1. PICK e \in devs[w] : UnsubscribeScript(sub[w], e)
    BY <1>9 DEF RemoveFromSubscriber
  <2>2. e \in Devices /\ sub[w] \in SubKeys
    BY <1>9 DEF RemoveFromSubscriber, LocalsOK, TypeOK
  <2> QED BY <2>1, <2>2, UnsubscribeShrinks
<1>10. ASSUME RemoveRecord(w) PROVE Shrinks
  BY <1>10 DEF RemoveRecord, store
<1>11. ASSUME RemoveBinding(w) PROVE Shrinks
  BY <1>11 DEF RemoveBinding, store
<1>12. ASSUME GetDeliveryPoint(w) PROVE Shrinks
  BY <1>12 DEF GetDeliveryPoint, store
<1>13. ASSUME ForgetLock(w) PROVE Shrinks
  BY <1>13 DEF ForgetLock, store
<1>14. ASSUME ForgetKeeps(w) PROVE Shrinks
  BY <1>14 DEF ForgetKeeps, store
<1>15. ASSUME ForgetCheck(w) PROVE Shrinks
  BY <1>15 DEF ForgetCheck, store
<1>16. ASSUME ForgetScript(w) PROVE Shrinks
  <2>1. UnsubscribeScript(sub[w], dev[w]) /\ dev[w] \in Devices /\ sub[w] \in SubKeys
    BY <1>16 DEF ForgetScript, LocalsOK
  <2> QED BY <2>1, UnsubscribeShrinks
<1>17. ASSUME ForgetBinding(w) PROVE Shrinks
  BY <1>17 DEF ForgetBinding, store
<1>18. ASSUME ForgetFails(w) PROVE Shrinks
  BY <1>18 DEF ForgetFails, store
<1>19. ASSUME NEW d \in Devices, DeviceGone(w, d) PROVE Shrinks
  BY <1>19 DEF DeviceGone, store
<1>20. ASSUME NEW d \in Devices, DeviceChanged(w, d) PROVE Shrinks
  BY <1>20 DEF DeviceChanged, store
<1>21. ASSUME RemoveUnchanged(w) PROVE Shrinks
  <2>1. dev[w] \in Devices /\ FixedSub[dev[w]] \in SubKeys
    BY <1>21 DEF RemoveUnchanged, LocalsOK
  <2>2. UNCHANGED store \/ UnsubscribeScript(FixedSub[dev[w]], dev[w])
    BY <1>21 DEF RemoveUnchanged, RemoveUnchangedScript
  <2> QED BY <2>1, <2>2, UnsubscribeShrinks DEF store
<1>22. ASSUME PushDone(w) PROVE Shrinks
  BY <1>22 DEF PushDone, store
<1>23. ASSUME QueryMGet(w) PROVE Shrinks
  BY <1>23 DEF QueryMGet, store
<1>24. ASSUME QueryClean(w) PROVE Shrinks
  <2>1. PICK e \in devs[w] : UnsubscribeScript(sub[w], e)
    BY <1>24 DEF QueryClean
  <2>2. e \in Devices /\ sub[w] \in SubKeys
    BY <1>24 DEF QueryClean, LocalsOK, TypeOK
  <2> QED BY <2>1, <2>2, UnsubscribeShrinks
<1>25. ASSUME QueryCleanFails(w) PROVE Shrinks
  BY <1>25 DEF QueryCleanFails, store
<1>26. ASSUME Abort(w) PROVE Shrinks
  BY <1>26 DEF Abort, store
<1> QED
  BY <1>1, <1>2, <1>3, <1>4, <1>5, <1>6, <1>7, <1>8, <1>9, <1>10, <1>11,
     <1>12, <1>13, <1>14, <1>15, <1>16, <1>17, <1>18, <1>19, <1>20, <1>21, <1>22,
     <1>23, <1>24, <1>25, <1>26
     DEF Request, Progress

(* An /unsubscribe of everything still lists every name the subscriber has. *)
StillListed(w) ==
    step[w] \in {"unsub.script", "unsub.record", "unsub.bind"} /\ all[w]
       => deviceSet[sub[w]] \subseteq devs[w]

(* A push to a named subscriber reads, and cleans up, names of that         *)
(* subscriber only; the one its script has just removed stays removed.      *)
CleansAtHome(w) ==
    /\ sub[w] \notin Patterns =>
          /\ step[w] = "push.read" => \A d \in devs[w] : Home[d] = sub[w]
          /\ step[w] \in {"push.read", "push.lock", "push.check", "push.script", "push.bind"}
                => \A d \in missing[w] : Home[d] = sub[w]
          /\ step[w] \in {"push.script", "push.bind"} => Home[dev[w]] = sub[w]
          /\ step[w] = "push.bind" => dev[w] \notin deviceSet[sub[w]]

CleanupInv == LockedInv /\ \A w \in Workers : StillListed(w) /\ CleansAtHome(w)

(* The worker that takes a step keeps both. *)
LEMMA OwnCleanup ==
    ASSUME LockedInv, NEW w \in Workers, StillListed(w), CleansAtHome(w),
           Request(w) \/ Progress(w) \/ Abort(w)
    PROVE  StillListed(w)' /\ CleansAtHome(w)'
<1> DEFINE Kept == StillListed(w)' /\ CleansAtHome(w)'
<1>a. TypeOK /\ LocalsOK /\ IndexAgrees /\ WriteOrder
  BY DEF LockedInv, LockUse, SharedInv
<1>b. /\ step \in [Workers -> Steps] /\ sub \in [Workers -> SubKeys \cup {Nobody}]
      /\ all \in [Workers -> BOOLEAN] /\ dev \in [Workers -> Devices \cup {Nobody}]
      /\ devs \in [Workers -> SUBSET Devices] /\ missing \in [Workers -> SUBSET Devices]
      /\ deviceSet \in [SubKeys -> SUBSET Devices]
  BY <1>a DEF TypeOK
<1>c. \A s \in SubKeys : \A d \in deviceSet[s] : Home[d] = s
  BY <1>a DEF IndexAgrees, HomeOnly
<1> USE StoreAssumption, <1>b DEF Goto, Begin, Finish, locals, request, StillListed, CleansAtHome
<1>1. ASSUME NEW d \in Devices, NEW v \in Values, Subscribe(w, d, v) PROVE Kept
  BY <1>1 DEF Subscribe, store
<1>2. ASSUME NEW d \in Devices, Unsubscribe(w, d) PROVE Kept
  BY <1>2 DEF Unsubscribe, store
<1>3. ASSUME NEW s \in SubKeys, UnsubscribeAll(w, s) PROVE Kept
  BY <1>3 DEF UnsubscribeAll, store
<1>4. ASSUME NEW s \in SubKeys, Push(w, s) PROVE Kept
  <2>1. PICK D \in (SUBSET Matched(s)) \ {{}} :
          Begin(w, "push.read", s, Nobody, NoRecord, FALSE, D)
    BY <1>4 DEF Push
  <2>2. s \notin Patterns => \A d \in D : Home[d] = s
    BY <1>c, <2>1 DEF Matched
  <2> QED BY <2>1, <2>2
<1>5. ASSUME NEW s \in SubKeys, Query(w, s) PROVE Kept
  BY <1>5 DEF Query, store
<1>6. ASSUME SetDeliveryPoint(w) PROVE Kept
  BY <1>6 DEF SetDeliveryPoint, store
<1>7. ASSUME AddToSubscriber(w) PROVE Kept
  BY <1>7 DEF AddToSubscriber, store
<1>8. ASSUME SetBinding(w) PROVE Kept
  BY <1>8 DEF SetBinding, store
<1>9. ASSUME RemoveFromSubscriber(w) PROVE Kept
  <2>1. PICK d \in devs[w] :
          /\ UnsubscribeScript(sub[w], d) /\ devs' = [devs EXCEPT ![w] = @ \ {d}]
    BY <1>9 DEF RemoveFromSubscriber
  <2>2. d \in Devices /\ sub[w] \in SubKeys
    BY <1>a, <1>9 DEF RemoveFromSubscriber, LocalsOK
  <2>3. deviceSet'[sub[w]] \subseteq deviceSet[sub[w]] /\ d \notin deviceSet'[sub[w]]
    BY <1>a, <2>1, <2>2, UnsubscribeShrinks
  <2> QED BY <1>9, <2>1, <2>2, <2>3 DEF RemoveFromSubscriber
<1>10. ASSUME RemoveRecord(w) PROVE Kept
  BY <1>10 DEF RemoveRecord, store
<1>11. ASSUME RemoveBinding(w) PROVE Kept
  BY <1>11 DEF RemoveBinding, store
<1>12. ASSUME GetDeliveryPoint(w) PROVE Kept
  BY <1>12 DEF GetDeliveryPoint, store
<1>13. ASSUME ForgetLock(w) PROVE Kept
  BY <1>13 DEF ForgetLock, store
<1>14. ASSUME ForgetKeeps(w) PROVE Kept
  BY <1>14 DEF ForgetKeeps, NextOrphan, store
<1>15. ASSUME ForgetCheck(w) PROVE Kept
  BY <1>15 DEF ForgetCheck, store
<1>16. ASSUME ForgetScript(w) PROVE Kept
  <2>1. UnsubscribeScript(sub[w], dev[w]) /\ dev[w] \in Devices /\ sub[w] \in SubKeys
    BY <1>a, <1>16 DEF ForgetScript, LocalsOK
  <2>2. dev[w] \notin deviceSet'[sub[w]]
    BY <1>a, <2>1, UnsubscribeShrinks
  <2> QED BY <1>16, <2>2 DEF ForgetScript
<1>17. ASSUME ForgetBinding(w) PROVE Kept
  BY <1>17 DEF ForgetBinding, NextOrphan, store
<1>18. ASSUME ForgetFails(w) PROVE Kept
  BY <1>18 DEF ForgetFails, NextOrphan, store
<1>19. ASSUME NEW d \in Devices, DeviceGone(w, d) PROVE Kept
  BY <1>19 DEF DeviceGone, store
<1>20. ASSUME NEW d \in Devices, DeviceChanged(w, d) PROVE Kept
  BY <1>20 DEF DeviceChanged, Answered, store
<1>21. ASSUME RemoveUnchanged(w) PROVE Kept
  BY <1>21 DEF RemoveUnchanged, Answered, store
<1>22. ASSUME PushDone(w) PROVE Kept
  BY <1>22 DEF PushDone, store
<1>23. ASSUME QueryMGet(w) PROVE Kept
  BY <1>23 DEF QueryMGet, store
<1>24. ASSUME QueryClean(w) PROVE Kept
  <2>1. step'[w] \in {"idle", "query.clean"}
    BY <1>24 DEF QueryClean, NextMissing
  <2> QED BY <2>1
<1>25. ASSUME QueryCleanFails(w) PROVE Kept
  <2>1. step'[w] \in {"idle", "query.clean"}
    BY <1>25 DEF QueryCleanFails, NextMissing
  <2> QED BY <2>1
<1>26. ASSUME Abort(w) PROVE Kept
  BY <1>26 DEF Abort, store
<1> QED
  BY <1>1, <1>2, <1>3, <1>4, <1>5, <1>6, <1>7, <1>8, <1>9, <1>10, <1>11,
     <1>12, <1>13, <1>14, <1>15, <1>16, <1>17, <1>18, <1>19, <1>20, <1>21, <1>22,
     <1>23, <1>24, <1>25, <1>26
     DEF Request, Progress

(* In one process the steps of other workers keep both. *)
LEMMA StepCleanup ==
    ASSUME SingleProcess, CleanupInv, [Next]_vars
    PROVE  CleanupInv'
<1>a. LockedInv /\ TypeOK /\ LocalsOK /\ HoldsLock
  BY DEF CleanupInv, LockedInv, LockUse, SharedInv
<1>b. LockedInv'
  BY <1>a, StepLocked
<1>1. ASSUME NEW w \in Workers, Request(w) \/ Progress(w) \/ Abort(w), NEW x \in Workers
      PROVE  StillListed(x)' /\ CleansAtHome(x)'
  <2>1. CASE x = w
    BY <1>a, <1>1, <2>1, OwnCleanup DEF CleanupInv
  <2>2. CASE x # w
    <3>1. /\ step'[x] = step[x] /\ sub'[x] = sub[x] /\ all'[x] = all[x]
          /\ dev'[x] = dev[x] /\ devs'[x] = devs[x] /\ missing'[x] = missing[x]
      BY <1>a, <1>1, <2>2, OnlyTheActorMoves, OthersKeep
    <3>2. ASSUME step[x] \in {"unsub.script", "unsub.record", "unsub.bind", "push.bind"}
          PROVE  deviceSet'[sub[x]] \subseteq deviceSet[sub[x]]
      <4>1. step[w] # "sub.script"
        BY <1>a, <2>2, <3>2, OneWriter DEF WriteSteps
      <4>2. sub[x] \in SubKeys
        BY <1>a, <3>2 DEF LocalsOK
      <4> QED BY <1>a, <1>1, <4>1, <4>2, OnlySubscribeAdds
    <3>3. StillListed(x) /\ CleansAtHome(x)
      BY DEF CleanupInv
    <3>4. StillListed(x)'
      BY <3>1, <3>2, <3>3 DEF StillListed
    <3>5. CleansAtHome(x)'
      BY <3>1, <3>2, <3>3 DEF CleansAtHome
    <3> QED BY <3>4, <3>5
  <2> QED BY <2>1, <2>2
<1>2. ASSUME UNCHANGED vars, NEW x \in Workers
      PROVE  StillListed(x)' /\ CleansAtHome(x)'
  BY <1>2 DEF CleanupInv, vars, StillListed, CleansAtHome
<1> QED BY <1>b, <1>1, <1>2 DEF CleanupInv, Next

LEMMA InitCleanup == Init => CleanupInv
<1> SUFFICES ASSUME Init PROVE CleanupInv
  OBVIOUS
<1>1. \A w \in Workers : StillListed(w) /\ CleansAtHome(w)
  BY DEF Init, StillListed, CleansAtHome
<1> QED BY <1>1, InitLocked DEF CleanupInv

(* A name the cleanup of a push to a named subscriber has dealt with is no *)
(* orphan when the cleanup goes on.                                        *)
LEMMA StepForgets ==
    ASSUME CleanupInv, Next, NEW x \in Workers, sub[x] \notin Patterns,
           step[x] = "push.bind", step'[x] # "push.bind", step'[x] # "idle"
    PROVE  ~Orphan(dev[x])' /\ dev'[x] = dev[x]
<1> USE StoreAssumption DEF Goto
<1>a. TypeOK /\ LocalsOK /\ CleansAtHome(x)
  BY DEF CleanupInv, LockedInv, SharedInv
<1>1. dev[x] \in Devices /\ Home[dev[x]] = sub[x] /\ dev[x] \notin deviceSet[Home[dev[x]]]
  BY <1>a DEF LocalsOK, CleansAtHome
<1>2. Request(x) \/ Progress(x) \/ Abort(x)
  BY <1>a, OnlyTheActorMoves DEF Next
<1>3. ~Request(x)
  BY DEF Request, Subscribe, Unsubscribe, UnsubscribeAll, Push, Query
<1>4. ~Abort(x)
  BY <1>a DEF Abort, ReleaseAll, Finish, Begin, TypeOK
<1>5. ForgetBinding(x) \/ ForgetFails(x)
  BY <1>2, <1>3, <1>4 DEF Progress, SetDeliveryPoint, AddToSubscriber,
     SetBinding, RemoveFromSubscriber, RemoveRecord, RemoveBinding,
     GetDeliveryPoint, ForgetLock, ForgetKeeps, ForgetCheck, ForgetScript,
     DeviceGone, DeviceChanged, RemoveUnchanged, PushDone,
     QueryMGet, QueryClean, QueryCleanFails
<1>6. deviceSet' = deviceSet /\ dev' = dev
  BY <1>5 DEF ForgetBinding, ForgetFails
<1> QED BY <1>1, <1>6 DEF Orphan

(***************************************************************************)
(* In a single process an /unsubscribe of every device leaves none, for    *)
(* any number of devices and of requests beside it: the names are listed   *)
(* under the write lock that keeps every /subscribe out until the last of  *)
(* them is gone.                                                           *)
(***************************************************************************)
THEOREM AllAreRemoved == ASSUME SingleProcess PROVE Spec => []AllMeansAll
<1>1. CleanupInv /\ [Next]_vars => CleanupInv'
  BY StepCleanup
<1>2. CleanupInv => AllMeansAll
  <2> SUFFICES ASSUME CleanupInv, NEW w \in Workers, step[w] = "unsub.bind", all[w], devs[w] = {}
               PROVE  deviceSet[sub[w]] = {}
    BY DEF AllMeansAll
  <2>1. StillListed(w)
    BY DEF CleanupInv
  <2> QED BY <2>1 DEF StillListed
<1> QED BY InitCleanup, <1>1, <1>2, PTL DEF Spec

(***************************************************************************)
(* In a single process the cleanup of a push to a named subscriber does    *)
(* forget the orphans it deals with: no /subscribe of the name can come    *)
(* between its script and the end of its turn.                             *)
(***************************************************************************)
THEOREM OrphansForgotten == ASSUME SingleProcess PROVE Spec => OrphansAreForgotten
<1>1. CleanupInv /\ [Next]_vars => CleanupInv'
  BY StepCleanup
<1>2. CleanupInv /\ [Next]_vars
         => [\A w \in Workers :
               step[w] = "push.bind" /\ step'[w] # "push.bind" /\ sub[w] \notin Patterns
                 => \/ step'[w] = "idle"
                    \/ \A d \in Devices : d = dev[w] => ~Orphan(d)']_vars
  <2> SUFFICES ASSUME CleanupInv, Next, NEW w \in Workers, sub[w] \notin Patterns,
                      step[w] = "push.bind", step'[w] # "push.bind", step'[w] # "idle",
                      NEW d \in Devices, d = dev[w]
               PROVE  ~Orphan(d)'
    OBVIOUS
  <2>1. ~Orphan(dev[w])' /\ dev'[w] = dev[w]
    BY StepForgets
  <2> QED BY <2>1 DEF Orphan
<1> QED BY InitCleanup, <1>1, <1>2, PTL DEF Spec, OrphansAreForgotten

-----------------------------------------------------------------------------
(* The rebuild of the index *)

(* Staging keys hold members of their own kind. *)
StagingOK ==
    /\ staging[IndexKey] \subseteq SubKeys
    /\ \A t \in Types : staging[t] \subseteq Devices

(* What each stage of a rebuild loops over, and what it has at hand. *)
LoopOK(r) ==
    /\ at[r] \in {"walk", "types", "index"} => must[r] \subseteq SubKeys
    /\ at[r] = "prune" => must[r] \subseteq Types
    /\ at[r] \in {"clear", "rename"} => must[r] \subseteq Keys
    /\ at[r] \in {"types", "index"} => cur[r] \in SubKeys
    /\ at[r] \in {"idle", "clear"} => staged[r] = {} /\ late[r] = {}
    /\ at[r] # "types" => names[r] = {}

(* A rebuild that is alone is the only one. *)
AloneOK == \A r \in Rebuilders : alone[r] /\ at[r] # "idle" => Active = {r}

BaseInv ==
    /\ RebuildTypeOK /\ HomeOnly /\ StagingOK
    /\ \A r \in Rebuilders : LoopOK(r)
    /\ AloneOK

Publishing(r) == at[r] \in {"prune", "rename"}

(* Up to the devices of X a set holds the devices of a type that are in D,  *)
(* the device sets.                                                         *)
Tells(set, t, D, X) ==
    \A d \in Devices \ X : TypeOf[d] = t => (d \in set <=> d \in D[Home[d]])

(* Up to X a set holds the subscribers that have devices.  A subscriber with *)
(* a device that is not in doubt is in it, although others are in doubt.     *)
Indexes(idx, D, X) ==
    /\ \A s \in SubKeys : \A d \in D[s] \ X : s \in idx
    /\ \A s \in idx : D[s] # {} \/ DevicesOf(s) \cap X # {}

KeyRight(k, X) ==
    IF k = IndexKey THEN Indexes(index, deviceSet, X)
    ELSE Tells(typeSet[k], k, deviceSet, X)

(* Devices that the live indexes may be wrong about: a rebuild that has not *)
(* begun to publish has done no harm.                                       *)
Doubtful == suspect \cup UNION {late[r] : r \in {q \in Rebuilders : Publishing(q)}}

(* The live indexes of a database that is marked, or that was empty.        *)
LiveRight ==
    (marker \/ measured) /\ ~spoiled => \A k \in Keys : KeyRight(k, Doubtful)

(* The live keys that a rebuild is done with. *)
Published(r) ==
    {k \in Keys : \/ at[r] = "prune" /\ k \notin staged[r] \cup must[r]
                  \/ at[r] = "rename" /\ k \notin must[r]}

PublishedRight ==
    \A r \in Rebuilders : alone[r] \/ ~spoiled =>
       \A k \in Published(r) : KeyRight(k, late[r])

(* Subscribers a rebuild has come to. *)
Visited(r) ==
    {s \in SubKeys : \/ at[r] \in {"walk", "types", "index"} /\ s \notin must[r]
                     \/ Publishing(r)}

(* Staging keys that a rebuild has filled, or is filling. *)
Held(r) ==
    {k \in Keys : \/ at[r] \in {"walk", "types", "index", "prune"}
                  \/ at[r] = "rename" /\ k \in must[r]}

(* The subscriber whose devices are being staged. *)
InHand(r) == IF at[r] \in {"types", "index"} THEN {cur[r]} ELSE {}

Cleared(r) ==
    /\ at[r] = "clear" => \A k \in Keys \ must[r] : staging[k] = {}
    /\ at[r] \in {"walk", "types", "index"} =>
          \A s \in must[r] : /\ s \notin staging[IndexKey]
                             /\ \A d \in DevicesOf(s) : d \notin staging[TypeOf[d]]

AtHand(r) ==
    /\ \A k \in Held(r) : k \in staged[r] <=> staging[k] # {}
    /\ at[r] = "rename" => must[r] \subseteq staged[r]
    /\ InHand(r) \subseteq Visited(r)
    /\ at[r] = "types" => names[r] \subseteq DevicesOf(cur[r])

TypesStaged(r) ==
    \A d \in Devices \ late[r] :
       Home[d] \in Visited(r) /\ TypeOf[d] \in Held(r) =>
          (d \in deviceSet[Home[d]] <=> d \in staging[TypeOf[d]] \cup names[r])

IndexStaged(r) ==
    IndexKey \in Held(r) =>
       /\ \A d \in Devices \ late[r] :
             Home[d] \in Visited(r) /\ d \in deviceSet[Home[d]]
                => Home[d] \in staging[IndexKey] \cup InHand(r)
       /\ \A s \in staging[IndexKey] \cup InHand(r) :
             deviceSet[s] # {} \/ DevicesOf(s) \cap late[r] # {}

(* What a rebuild that is alone has staged tells of every device whose      *)
(* subscriber it has come to and that has not been written since.           *)
StagedRight(r) == Cleared(r) /\ AtHand(r) /\ TypesStaged(r) /\ IndexStaged(r)

RebuildInv ==
    /\ BaseInv /\ LiveRight /\ PublishedRight
    /\ \A r \in Rebuilders : alone[r] => StagedRight(r)

-----------------------------------------------------------------------------
(* Types *)

LEMMA InitBase == RebuildInit => BaseInv
<1> SUFFICES ASSUME RebuildInit PROVE BaseInv
  OBVIOUS
<1> USE StoreAssumption, RebuildAssumption
<1>1. PICK S \in SUBSET Devices :
         /\ record \in [Devices -> Records]
         /\ deviceSet = [s \in SubKeys |-> {d \in S : Home[d] = s}]
         /\ bound = S
  BY DEF RebuildInit
<1>2. PICK T \in SUBSET Devices :
         /\ index = {Home[d] : d \in T}
         /\ typeSet = [t \in Types |-> {d \in T : TypeOf[d] = t}]
  BY DEF RebuildInit
<1>3. TypeOK
  BY <1>1, <1>2 DEF RebuildInit, LockInit, TypeOK, Records, Steps, Unread
<1>4. RebuildTypeOK
  <2>1. /\ marker \in BOOLEAN /\ measured \in BOOLEAN /\ spoiled \in BOOLEAN
        /\ alone \in [Rebuilders -> BOOLEAN]
    BY Zenon DEF RebuildInit
  <2>2. requests \in 0 .. MaxRequests /\ rebuilds \in 0 .. MaxRebuilds
    BY DEF RebuildInit
  <2>3. at \in [Rebuilders -> Stages]
    BY DEF RebuildInit, Stages
  <2>4. staging \in [Keys -> SUBSET (SubKeys \cup Devices)]
    BY DEF RebuildInit
  <2>5. /\ must \in [Rebuilders -> SUBSET (SubKeys \cup Keys)]
        /\ cur \in [Rebuilders -> SubKeys \cup {Nobody}]
        /\ names \in [Rebuilders -> SUBSET Devices]
        /\ staged \in [Rebuilders -> SUBSET Keys]
        /\ late \in [Rebuilders -> SUBSET Devices]
        /\ suspect \subseteq Devices
    BY DEF RebuildInit
  <2> QED BY <1>3, <2>1, <2>2, <2>3, <2>4, <2>5 DEF RebuildTypeOK
<1>5. HomeOnly
  BY <1>1 DEF HomeOnly
<1>6. StagingOK /\ AloneOK /\ \A r \in Rebuilders : LoopOK(r)
  BY DEF RebuildInit, StagingOK, AloneOK, LoopOK, Keys, Active
<1> QED BY <1>4, <1>5, <1>6 DEF BaseInv

(* What the scripts do to the device sets and to the live indexes. *)
LEMMA ScriptEffect ==
    ASSUME TypeOK, NEW d \in Devices,
           \/ SubscribeScript(Home[d], d) \/ UnsubscribeScript(Home[d], d)
    PROVE  /\ deviceSet' \in [SubKeys -> SUBSET Devices]
           /\ index' \subseteq SubKeys
           /\ typeSet' \in [Types -> SUBSET Devices]
           /\ \A e \in Devices \ {d} : \A s \in SubKeys : e \in deviceSet'[s] <=> e \in deviceSet[s]
           /\ \A e \in Devices \ {d} : \A t \in Types : e \in typeSet'[t] <=> e \in typeSet[t]
           /\ \A s \in SubKeys \ {Home[d]} :
                 deviceSet'[s] = deviceSet[s] /\ (s \in index' <=> s \in index)
<1> USE StoreAssumption DEF TypeOK
<1>1. CASE SubscribeScript(Home[d], d)
  BY <1>1 DEF SubscribeScript
<1>2. CASE UnsubscribeScript(Home[d], d)
  BY <1>2 DEF UnsubscribeScript
<1> QED BY <1>1, <1>2

(* After a script the live indexes are right about the device it was for,   *)
(* unless it had nothing to do.                                             *)
LEMMA ScriptRight ==
    ASSUME TypeOK, HomeOnly, NEW d \in Devices,
           \/ SubscribeScript(Home[d], d) \/ UnsubscribeScript(Home[d], d)
    PROVE  /\ HomeOnly'
           /\ d \in deviceSet[Home[d]] \cup deviceSet'[Home[d]] =>
                 (d \in typeSet'[TypeOf[d]] <=> d \in deviceSet'[Home[d]])
           /\ d \notin deviceSet[Home[d]] \cup deviceSet'[Home[d]] =>
                 (d \in typeSet'[TypeOf[d]] <=> d \in typeSet[TypeOf[d]])
           /\ deviceSet'[Home[d]] = {} => Home[d] \notin index'
           /\ d \in deviceSet'[Home[d]] => Home[d] \in index'
           /\ deviceSet'[Home[d]] # {} /\ Home[d] \in index => Home[d] \in index'
<1> USE StoreAssumption DEF TypeOK
<1>1. CASE SubscribeScript(Home[d], d)
  BY <1>1 DEF SubscribeScript, HomeOnly
<1>2. CASE UnsubscribeScript(Home[d], d)
  BY <1>2 DEF UnsubscribeScript, HomeOnly
<1> QED BY <1>1, <1>2

(* One of the requests that go on. *)
LEMMA WritingIs ==
    ASSUME NEW d \in Devices, Writing(d)
    PROVE  /\ SubscribeScript(Home[d], d) \/ UnsubscribeScript(Home[d], d)
           /\ requests < MaxRequests /\ requests' = requests + 1
           /\ late' = [r \in Rebuilders |->
                         IF deviceSet' # deviceSet /\ TooLate(r, d)
                         THEN late[r] \cup {d} ELSE late[r]]
           /\ suspect' = IF d \in deviceSet[Home[d]] \cup deviceSet'[Home[d]]
                         THEN suspect \ {d} ELSE suspect
           /\ UNCHANGED <<record, bound, writer, readers, step, sub, value, all, dev,
                          devs, missing, pairs, marker, measured, staging, at, must,
                          cur, names, staged, rebuilds, alone, spoiled>>
BY DEF Writing, Land, locks, locals, rebuildVars

LEMMA WritingBase == ASSUME BaseInv, NEW d \in Devices, Writing(d) PROVE BaseInv'
<1> USE StoreAssumption, RebuildAssumption
<1>a. RebuildTypeOK /\ TypeOK /\ HomeOnly /\ StagingOK /\ AloneOK /\ \A r \in Rebuilders : LoopOK(r)
  BY DEF BaseInv, RebuildTypeOK
<1>b. SubscribeScript(Home[d], d) \/ UnsubscribeScript(Home[d], d)
  BY WritingIs
<1>1. TypeOK'
  BY <1>a, <1>b, ScriptEffect, WritingIs DEF TypeOK
<1>2. HomeOnly'
  BY <1>a, <1>b, ScriptRight
<1>3. /\ late' \in [Rebuilders -> SUBSET Devices] /\ suspect' \subseteq Devices
      /\ requests' \in 0 .. MaxRequests
  BY <1>a, WritingIs DEF RebuildTypeOK
<1>4. RebuildTypeOK'
  BY <1>a, <1>1, <1>3, WritingIs DEF RebuildTypeOK
<1>5. StagingOK' /\ AloneOK'
  BY <1>a, WritingIs DEF StagingOK, AloneOK, Active
<1>6. ASSUME NEW r \in Rebuilders PROVE LoopOK(r)'
  BY <1>a, WritingIs DEF LoopOK, TooLate
<1> QED BY <1>2, <1>4, <1>5, <1>6 DEF BaseInv

(* A rebuild touches the variables of its own, and no other rebuild stays   *)
(* alone while it is under way.                                             *)
LEMMA OthersKept ==
    ASSUME BaseInv, NEW r \in Rebuilders, Rebuilding(r), NEW q \in Rebuilders, q # r
    PROVE  /\ at'[q] = at[q] /\ must'[q] = must[q] /\ cur'[q] = cur[q]
           /\ names'[q] = names[q] /\ staged'[q] = staged[q] /\ late'[q] = late[q]
           /\ alone'[q] => alone[q] /\ at[q] = "idle"
<1> DEFINE Kept == /\ at'[q] = at[q] /\ must'[q] = must[q] /\ cur'[q] = cur[q]
                   /\ names'[q] = names[q] /\ staged'[q] = staged[q] /\ late'[q] = late[q]
                   /\ alone'[q] => alone[q] /\ at[q] = "idle"
<1>a. /\ at \in [Rebuilders -> Stages] /\ must \in [Rebuilders -> SUBSET (SubKeys \cup Keys)]
      /\ cur \in [Rebuilders -> SubKeys \cup {Nobody}] /\ names \in [Rebuilders -> SUBSET Devices]
      /\ staged \in [Rebuilders -> SUBSET Keys] /\ late \in [Rebuilders -> SUBSET Devices]
      /\ alone \in [Rebuilders -> BOOLEAN]
  BY DEF BaseInv, RebuildTypeOK
<1>b. alone[q] /\ at[q] # "idle" => at[r] = "idle"
  BY DEF BaseInv, AloneOK, Active
<1> USE <1>a, <1>b DEF Enter, End, history
<1>1. ASSUME Rebuild(r) PROVE Kept
  BY <1>1 DEF Rebuild
<1>2. ASSUME BeginWalk(r) PROVE Kept
  BY <1>2 DEF BeginWalk
<1>3. ASSUME NEW k \in Keys, ClearKey(r, k) PROVE Kept
  BY <1>3 DEF ClearKey
<1>4. ASSUME NEW k \in Keys, Rename(r, k) PROVE Kept
  BY <1>4 DEF Rename
<1>5. ASSUME NEW s \in SubKeys, Visit(r, s) PROVE Kept
  BY <1>5 DEF Visit
<1>6. ASSUME NEW t \in Types, StageType(r, t) PROVE Kept
  BY <1>6 DEF StageType
<1>7. ASSUME NEW t \in Types, PruneType(r, t) PROVE Kept
  BY <1>7 DEF PruneType
<1>8. ASSUME StageSubscriber(r) PROVE Kept
  BY <1>8 DEF StageSubscriber
<1>9. ASSUME PruneIndex(r) PROVE Kept
  BY <1>9 DEF PruneIndex
<1>10. ASSUME BeginRename(r) PROVE Kept
  BY <1>10 DEF BeginRename
<1>11. ASSUME markSubscriberIndexBuilt(r) PROVE Kept
  BY <1>11 DEF markSubscriberIndexBuilt
<1>12. ASSUME Fail(r) PROVE Kept
  BY <1>12 DEF Fail
<1> QED
  BY <1>1, <1>2, <1>3, <1>4, <1>5, <1>6, <1>7, <1>8, <1>9, <1>10, <1>11, <1>12
     DEF Rebuilding

LEMMA RebuildingBase == ASSUME BaseInv, NEW r \in Rebuilders, Rebuilding(r) PROVE BaseInv'
<1> USE StoreAssumption, RebuildAssumption
<1>a. RebuildTypeOK /\ TypeOK /\ HomeOnly /\ StagingOK /\ AloneOK /\ LoopOK(r)
  BY DEF BaseInv, RebuildTypeOK
<1>b. HomeOnly'
  <2>1. UNCHANGED deviceSet
    BY DEF Rebuilding, Rebuild, BeginWalk, ClearKey, Rename, Visit, StageType, PruneType,
       StageSubscriber, PruneIndex, BeginRename, markSubscriberIndexBuilt, Fail, End, vars
  <2> QED BY <1>a, <2>1 DEF HomeOnly
<1> DEFINE Own == RebuildTypeOK' /\ StagingOK' /\ LoopOK(r)'
<1>1. ASSUME Rebuild(r) PROVE Own
  <2>1. TypeOK'
    BY <1>a, <1>1 DEF Rebuild, Enter, TypeOK, StagingOK, Keys, vars, locks, locals
  <2>a. alone' \in [Rebuilders -> BOOLEAN]
    <3>1. alone' = [q \in Rebuilders |-> IF q = r THEN Active = {} ELSE alone[q] /\ at[q] = "idle"]
      BY <1>1 DEF Rebuild
    <3>2. \A q \in Rebuilders :
             (IF q = r THEN Active = {} ELSE alone[q] /\ at[q] = "idle") \in BOOLEAN
      BY Zenon
    <3> QED BY <3>1, <3>2, Zenon
  <2>b. at' \in [Rebuilders -> Stages] /\ must' \in [Rebuilders -> SUBSET (SubKeys \cup Keys)]
    BY <1>a, <1>1 DEF Rebuild, Enter, RebuildTypeOK, Stages
  <2>c. rebuilds' \in 0 .. MaxRebuilds
    BY <1>a, <1>1 DEF Rebuild, RebuildTypeOK
  <2>2. RebuildTypeOK'
    BY <1>a, <1>1, <2>1, <2>a, <2>b, <2>c DEF Rebuild, RebuildTypeOK, history
  <2>3. StagingOK'
    BY <1>a, <1>1 DEF Rebuild, Enter, TypeOK, RebuildTypeOK, StagingOK, LoopOK, Keys
  <2>4. LoopOK(r)'
    BY <1>a, <1>1 DEF Rebuild, Enter, TypeOK, RebuildTypeOK, LoopOK, Stages, Keys, history
  <2> QED BY <2>2, <2>3, <2>4
<1>2. ASSUME BeginWalk(r) PROVE Own
  <2>1. TypeOK'
    BY <1>a, <1>2 DEF BeginWalk, Enter, TypeOK, StagingOK, Keys, vars, locks, locals
  <2>2. RebuildTypeOK'
    BY <1>a, <1>2, <2>1 DEF BeginWalk, Enter, TypeOK, RebuildTypeOK, LoopOK, Stages, Keys, vars, history
  <2>3. StagingOK'
    BY <1>a, <1>2 DEF BeginWalk, Enter, TypeOK, RebuildTypeOK, StagingOK, LoopOK, Keys
  <2>4. LoopOK(r)'
    BY <1>a, <1>2 DEF BeginWalk, Enter, TypeOK, RebuildTypeOK, LoopOK, Stages, Keys, history
  <2> QED BY <2>2, <2>3, <2>4
<1>3. ASSUME NEW k \in Keys, ClearKey(r, k) PROVE Own
  <2>1. TypeOK'
    BY <1>a, <1>3 DEF ClearKey, Enter, TypeOK, StagingOK, Keys, vars, locks, locals
  <2>2. RebuildTypeOK'
    BY <1>a, <1>3, <2>1 DEF ClearKey, Enter, TypeOK, RebuildTypeOK, LoopOK, Stages, Keys, vars, history
  <2>3. StagingOK'
    BY <1>a, <1>3 DEF ClearKey, Enter, TypeOK, RebuildTypeOK, StagingOK, LoopOK, Keys
  <2>4. LoopOK(r)'
    BY <1>a, <1>3 DEF ClearKey, Enter, TypeOK, RebuildTypeOK, LoopOK, Stages, Keys, history
  <2> QED BY <2>2, <2>3, <2>4
<1>4. ASSUME NEW k \in Keys, Rename(r, k) PROVE Own
  <2>1. TypeOK'
    BY <1>a, <1>4 DEF Rename, Enter, TypeOK, StagingOK, Keys, vars, locks, locals
  <2>2. RebuildTypeOK'
    BY <1>a, <1>4, <2>1 DEF Rename, Enter, TypeOK, RebuildTypeOK, LoopOK, Stages, Keys, vars, history
  <2>3. StagingOK'
    BY <1>a, <1>4 DEF Rename, Enter, TypeOK, RebuildTypeOK, StagingOK, LoopOK, Keys
  <2>4. LoopOK(r)'
    BY <1>a, <1>4 DEF Rename, Enter, TypeOK, RebuildTypeOK, LoopOK, Stages, Keys, history
  <2> QED BY <2>2, <2>3, <2>4
<1>5. ASSUME NEW s \in SubKeys, Visit(r, s) PROVE Own
  <2>1. TypeOK'
    BY <1>a, <1>5 DEF Visit, Enter, TypeOK, StagingOK, Keys, vars, locks, locals
  <2>2. RebuildTypeOK'
    <3>1. CASE deviceSet[s] = {}
      BY <1>a, <1>5, <2>1, <3>1 DEF Visit, RebuildTypeOK, history
    <3>2. CASE deviceSet[s] # {}
      <4>1. deviceSet[s] \subseteq Devices
        BY <1>a DEF TypeOK
      <4> QED BY <1>a, <1>5, <2>1, <3>2, <4>1 DEF Visit, Enter, RebuildTypeOK, Stages, history
    <3> QED BY <3>1, <3>2
  <2>3. StagingOK'
    BY <1>a, <1>5 DEF Visit, Enter, TypeOK, RebuildTypeOK, StagingOK, LoopOK, Keys
  <2>4. LoopOK(r)'
    BY <1>a, <1>5 DEF Visit, Enter, TypeOK, RebuildTypeOK, LoopOK, Stages, Keys, history
  <2> QED BY <2>2, <2>3, <2>4
<1>6. ASSUME NEW t \in Types, StageType(r, t) PROVE Own
  <2>1. TypeOK'
    BY <1>a, <1>6 DEF StageType, Enter, TypeOK, StagingOK, Keys, vars, locks, locals
  <2>2. RebuildTypeOK'
    BY <1>a, <1>6, <2>1 DEF StageType, Enter, TypeOK, RebuildTypeOK, LoopOK, Stages, Keys, vars, history
  <2>3. StagingOK'
    BY <1>a, <1>6 DEF StageType, Enter, TypeOK, RebuildTypeOK, StagingOK, LoopOK, Keys
  <2>4. LoopOK(r)'
    BY <1>a, <1>6 DEF StageType, Enter, TypeOK, RebuildTypeOK, LoopOK, Stages, Keys, history
  <2> QED BY <2>2, <2>3, <2>4
<1>7. ASSUME NEW t \in Types, PruneType(r, t) PROVE Own
  <2>1. TypeOK'
    BY <1>a, <1>7 DEF PruneType, Enter, TypeOK, StagingOK, Keys, vars, locks, locals
  <2>2. RebuildTypeOK'
    BY <1>a, <1>7, <2>1 DEF PruneType, Enter, TypeOK, RebuildTypeOK, LoopOK, Stages, Keys, vars, history
  <2>3. StagingOK'
    BY <1>a, <1>7 DEF PruneType, Enter, TypeOK, RebuildTypeOK, StagingOK, LoopOK, Keys
  <2>4. LoopOK(r)'
    BY <1>a, <1>7 DEF PruneType, Enter, TypeOK, RebuildTypeOK, LoopOK, Stages, Keys, history
  <2> QED BY <2>2, <2>3, <2>4
<1>8. ASSUME StageSubscriber(r) PROVE Own
  <2>1. TypeOK'
    BY <1>a, <1>8 DEF StageSubscriber, Enter, TypeOK, StagingOK, Keys, vars, locks, locals
  <2>2. RebuildTypeOK'
    BY <1>a, <1>8, <2>1 DEF StageSubscriber, Enter, TypeOK, RebuildTypeOK, LoopOK, Stages, Keys, vars, history
  <2>3. StagingOK'
    BY <1>a, <1>8 DEF StageSubscriber, Enter, TypeOK, RebuildTypeOK, StagingOK, LoopOK, Keys
  <2>4. LoopOK(r)'
    BY <1>a, <1>8 DEF StageSubscriber, Enter, TypeOK, RebuildTypeOK, LoopOK, Stages, Keys, history
  <2> QED BY <2>2, <2>3, <2>4
<1>9. ASSUME PruneIndex(r) PROVE Own
  <2>1. TypeOK'
    BY <1>a, <1>9 DEF PruneIndex, Enter, TypeOK, StagingOK, Keys, vars, locks, locals
  <2>2. RebuildTypeOK'
    BY <1>a, <1>9, <2>1 DEF PruneIndex, Enter, TypeOK, RebuildTypeOK, LoopOK, Stages, Keys, vars, history
  <2>3. StagingOK'
    BY <1>a, <1>9 DEF PruneIndex, Enter, TypeOK, RebuildTypeOK, StagingOK, LoopOK, Keys
  <2>4. LoopOK(r)'
    BY <1>a, <1>9 DEF PruneIndex, Enter, TypeOK, RebuildTypeOK, LoopOK, Stages, Keys, history
  <2> QED BY <2>2, <2>3, <2>4
<1>10. ASSUME BeginRename(r) PROVE Own
  <2>1. TypeOK'
    BY <1>a, <1>10 DEF BeginRename, Enter, TypeOK, StagingOK, Keys, vars, locks, locals
  <2>2. RebuildTypeOK'
    BY <1>a, <1>10, <2>1 DEF BeginRename, Enter, TypeOK, RebuildTypeOK, LoopOK, Stages, Keys, vars, history
  <2>3. StagingOK'
    BY <1>a, <1>10 DEF BeginRename, Enter, TypeOK, RebuildTypeOK, StagingOK, LoopOK, Keys
  <2>4. LoopOK(r)'
    BY <1>a, <1>10 DEF BeginRename, Enter, TypeOK, RebuildTypeOK, LoopOK, Stages, Keys, history
  <2> QED BY <2>2, <2>3, <2>4
<1>11. ASSUME markSubscriberIndexBuilt(r) PROVE Own
  <2>1. TypeOK'
    BY <1>a, <1>11 DEF markSubscriberIndexBuilt, End, Enter, TypeOK, StagingOK, Keys, vars, locks, locals
  <2>2. RebuildTypeOK'
    BY <1>a, <1>11, <2>1 DEF markSubscriberIndexBuilt, End, Enter, TypeOK, RebuildTypeOK, LoopOK, Stages, Keys, vars, history
  <2>3. StagingOK'
    BY <1>a, <1>11 DEF markSubscriberIndexBuilt, End, Enter, TypeOK, RebuildTypeOK, StagingOK, LoopOK, Keys
  <2>4. LoopOK(r)'
    BY <1>a, <1>11 DEF markSubscriberIndexBuilt, End, Enter, TypeOK, RebuildTypeOK, LoopOK, Stages, Keys, history
  <2> QED BY <2>2, <2>3, <2>4
<1>12. ASSUME Fail(r) PROVE Own
  <2>1. TypeOK'
    BY <1>a, <1>12 DEF Fail, End, Enter, TypeOK, StagingOK, Keys, vars, locks, locals
  <2>2. RebuildTypeOK'
    BY <1>a, <1>12, <2>1 DEF Fail, End, Enter, TypeOK, RebuildTypeOK, LoopOK, Stages, Keys, vars, history
  <2>3. StagingOK'
    BY <1>a, <1>12 DEF Fail, End, Enter, TypeOK, RebuildTypeOK, StagingOK, LoopOK, Keys
  <2>4. LoopOK(r)'
    BY <1>a, <1>12 DEF Fail, End, Enter, TypeOK, RebuildTypeOK, LoopOK, Stages, Keys, history
  <2> QED BY <2>2, <2>3, <2>4
<1>13. Own
  BY <1>1, <1>2, <1>3, <1>4, <1>5, <1>6, <1>7, <1>8, <1>9, <1>10, <1>11, <1>12
     DEF Rebuilding
<1>14. ASSUME NEW q \in Rebuilders PROVE LoopOK(q)'
  <2>1. CASE q = r
    BY <1>13, <2>1
  <2>2. CASE q # r
    <3>1. LoopOK(q)
      BY DEF BaseInv
    <3> QED BY <2>2, <3>1, OthersKept DEF LoopOK
  <2> QED BY <2>1, <2>2
<1>15. AloneOK'
  <2> SUFFICES ASSUME NEW q \in Rebuilders, alone'[q], at'[q] # "idle" PROVE Active' = {q}
    BY DEF AloneOK
  <2>1. q = r
    BY OthersKept
  <2>2. \A p \in Rebuilders \ {r} : at[p] = "idle"
    <3>1. CASE at[r] = "idle"
      <4>1. Rebuild(r)
        BY <3>1 DEF Rebuilding, Rebuild, BeginWalk, ClearKey, Rename, Visit, StageType, PruneType,
           StageSubscriber, PruneIndex, BeginRename, markSubscriberIndexBuilt, Fail
      <4>2. Active = {}
        BY <1>a, <2>1, <4>1 DEF Rebuild, RebuildTypeOK
      <4> QED BY <4>2 DEF Active
    <3>2. CASE at[r] # "idle"
      <4>1. alone[r]
        BY <1>a, <2>1, <3>2 DEF Rebuilding, Rebuild, BeginWalk, ClearKey, Rename, Visit, StageType,
           PruneType, StageSubscriber, PruneIndex, BeginRename, markSubscriberIndexBuilt, Fail, End
      <4> QED BY <1>a, <3>2, <4>1 DEF AloneOK, Active
    <3> QED BY <3>1, <3>2
  <2>3. \A p \in Rebuilders \ {r} : at'[p] = "idle"
    BY <2>2, OthersKept
  <2> QED BY <2>1, <2>3 DEF Active
<1> QED BY <1>b, <1>13, <1>14, <1>15 DEF BaseInv

LEMMA StepBase == BaseInv /\ [RebuildNext]_allVars => BaseInv'
<1> SUFFICES ASSUME BaseInv, [RebuildNext]_allVars PROVE BaseInv'
  OBVIOUS
<1>1. ASSUME NEW d \in Devices, Writing(d) PROVE BaseInv'
  BY <1>1, WritingBase
<1>2. ASSUME NEW r \in Rebuilders, Rebuilding(r) PROVE BaseInv'
  BY <1>2, RebuildingBase
<1>3. ASSUME \/ Prepare \/ PrepareMarks \/ UNCHANGED allVars PROVE BaseInv'
  <2>1. /\ UNCHANGED <<vars, requests, history, staging, at, must, cur, names, staged,
                       rebuilds, alone>>
        /\ marker' \in BOOLEAN /\ measured' \in BOOLEAN
    BY <1>3 DEF Prepare, PrepareMarks, allVars, rebuildVars, BaseInv, RebuildTypeOK
  <2>2. TypeOK'
    BY <2>1 DEF BaseInv, RebuildTypeOK, TypeOK, vars
  <2>3. RebuildTypeOK'
    BY <2>1, <2>2 DEF BaseInv, RebuildTypeOK, history
  <2>4. HomeOnly' /\ StagingOK' /\ AloneOK' /\ \A r \in Rebuilders : LoopOK(r)'
    BY <2>1 DEF BaseInv, HomeOnly, StagingOK, AloneOK, Active, LoopOK, vars, history
  <2> QED BY <2>3, <2>4 DEF BaseInv
<1> QED BY <1>1, <1>2, <1>3 DEF RebuildNext

(***************************************************************************)
(* Type correctness of the rebuild, for any number of them.                *)
(***************************************************************************)
THEOREM RebuildTypes == RebuildSpec => []RebuildTypeOK
<1>1. BaseInv => RebuildTypeOK
  BY DEF BaseInv
<1> QED BY InitBase, StepBase, <1>1, PTL DEF RebuildSpec

-----------------------------------------------------------------------------
(* The scripts of the requests *)

(* With more in doubt a key is still right. *)
LEMMA MoreDoubt ==
    ASSUME NEW k \in Keys, NEW X, NEW Y, X \subseteq Y, KeyRight(k, X)
    PROVE  KeyRight(k, Y)
BY DEF KeyRight, Indexes, Tells

(* A script keeps a live key right, and settles the doubt about its device  *)
(* unless it had nothing to do.                                             *)
LEMMA ScriptKeeps ==
    ASSUME TypeOK, HomeOnly, NEW d \in Devices,
           SubscribeScript(Home[d], d) \/ UnsubscribeScript(Home[d], d),
           NEW k \in Keys, NEW X, NEW Y, X \ {d} \subseteq Y,
           d \in X /\ d \notin Y => d \in deviceSet[Home[d]] \cup deviceSet'[Home[d]],
           KeyRight(k, X)
    PROVE  IF k = IndexKey THEN Indexes(index', deviceSet', Y)
           ELSE Tells(typeSet'[k], k, deviceSet', Y)
<1> USE StoreAssumption, RebuildAssumption
<1>a. Home[d] \in SubKeys /\ TypeOf[d] \in Types
  OBVIOUS
<1>b. \A e \in Devices : Home[e] \in SubKeys /\ TypeOf[e] \in Types
  OBVIOUS
<1>c. /\ deviceSet \in [SubKeys -> SUBSET Devices] /\ deviceSet' \in [SubKeys -> SUBSET Devices]
      /\ index \subseteq SubKeys /\ index' \subseteq SubKeys
  BY ScriptEffect DEF TypeOK
<1>1. CASE k = IndexKey
  <2>a. Indexes(index, deviceSet, X)
    BY <1>1 DEF KeyRight
  <2>1. ASSUME NEW s \in SubKeys, NEW e \in deviceSet'[s] \ Y PROVE s \in index'
    <3>1. CASE s # Home[d]
      <4>1. deviceSet'[s] = deviceSet[s] /\ (s \in index' <=> s \in index)
        BY <3>1, ScriptEffect
      <4>2. e # d
        BY <1>a, <1>c, <2>1, <3>1, <4>1 DEF HomeOnly
      <4> QED BY <2>a, <2>1, <4>1, <4>2 DEF Indexes
    <3>2. CASE s = Home[d] /\ e = d
      BY <2>1, <3>2, ScriptRight
    <3>3. CASE s = Home[d] /\ e # d
      <4>1. e \in deviceSet[s] \ X
        BY <1>c, <2>1, <3>3, ScriptEffect
      <4>2. s \in index
        BY <2>a, <4>1 DEF Indexes
      <4> QED BY <2>1, <3>3, <4>2, ScriptRight
    <3> QED BY <3>1, <3>2, <3>3
  <2>2. ASSUME NEW s \in index', deviceSet'[s] = {} PROVE DevicesOf(s) \cap Y # {}
    <3>1. s # Home[d]
      BY <2>2, ScriptRight
    <3>2. s \in index /\ deviceSet[s] = {}
      BY <1>c, <2>2, <3>1, ScriptEffect
    <3>3. DevicesOf(s) \cap X # {}
      BY <2>a, <3>2 DEF Indexes
    <3> QED BY <3>1, <3>3 DEF DevicesOf
  <2> QED BY <1>1, <2>1, <2>2 DEF Indexes
<1>2. CASE k # IndexKey
  <2>a. Tells(typeSet[k], k, deviceSet, X) /\ k \in Types
    BY <1>2 DEF KeyRight, Keys
  <2>1. ASSUME NEW e \in Devices \ Y, TypeOf[e] = k
        PROVE  e \in typeSet'[k] <=> e \in deviceSet'[Home[e]]
    <3>1. CASE e # d
      BY <1>b, <2>a, <2>1, <3>1, ScriptEffect DEF Tells
    <3>2. CASE e = d /\ d \in deviceSet[Home[d]] \cup deviceSet'[Home[d]]
      BY <2>1, <3>2, ScriptRight
    <3>3. CASE e = d /\ d \notin deviceSet[Home[d]] \cup deviceSet'[Home[d]]
      BY <2>a, <2>1, <3>3, ScriptRight DEF Tells
    <3> QED BY <3>1, <3>2, <3>3
  <2> QED BY <1>2, <2>1 DEF Tells
<1> QED BY <1>1, <1>2

(* The live keys stay right while requests write. *)
LEMMA WritingLive ==
    ASSUME BaseInv, LiveRight, PublishedRight, NEW d \in Devices, Writing(d)
    PROVE  LiveRight' /\ PublishedRight'
<1>a. TypeOK /\ HomeOnly /\ late \in [Rebuilders -> SUBSET Devices]
  BY DEF BaseInv, RebuildTypeOK
<1>b. SubscribeScript(Home[d], d) \/ UnsubscribeScript(Home[d], d)
  BY WritingIs
<1>c. \A r \in Rebuilders : late[r] \subseteq late'[r] /\ at'[r] = at[r]
  BY <1>a, WritingIs
<1>1. ASSUME NEW k \in Keys, (marker \/ measured) /\ ~spoiled
      PROVE  KeyRight(k, Doubtful)'
  <2>1. KeyRight(k, Doubtful)
    BY <1>1 DEF LiveRight
  <2>2. PICK X : X = Doubtful
    OBVIOUS
  <2>3. PICK Y : Y = Doubtful'
    OBVIOUS
  <2>4. X \ {d} \subseteq Y
    BY <1>c, <2>2, <2>3, WritingIs DEF Doubtful, Publishing
  <2>5. d \in X /\ d \notin Y => d \in deviceSet[Home[d]] \cup deviceSet'[Home[d]]
    BY <1>c, <2>2, <2>3, WritingIs DEF Doubtful, Publishing
  <2>6. IF k = IndexKey THEN Indexes(index', deviceSet', Y)
        ELSE Tells(typeSet'[k], k, deviceSet', Y)
    BY <1>a, <1>b, <2>1, <2>2, <2>4, <2>5, ScriptKeeps
  <2> QED BY <2>3, <2>6 DEF KeyRight
<1>2. LiveRight'
  BY <1>1, WritingIs DEF LiveRight
<1>3. ASSUME NEW r \in Rebuilders, alone[r] \/ ~spoiled, NEW k \in Published(r)
      PROVE  KeyRight(k, late[r])'
  <2>1. KeyRight(k, late[r]) /\ k \in Keys
    BY <1>3 DEF PublishedRight, Published
  <2>2. PICK X : X = late[r]
    OBVIOUS
  <2>3. PICK Y : Y = late'[r]
    OBVIOUS
  <2>4. X \subseteq Y
    BY <1>c, <2>2, <2>3
  <2>6. IF k = IndexKey THEN Indexes(index', deviceSet', Y)
        ELSE Tells(typeSet'[k], k, deviceSet', Y)
    BY <1>a, <1>b, <2>1, <2>2, <2>4, ScriptKeeps
  <2> QED BY <2>3, <2>6 DEF KeyRight
<1>4. PublishedRight'
  BY <1>3, WritingIs DEF PublishedRight, Published
<1> QED BY <1>2, <1>4

(* What has been staged stays right but for the devices written too late. *)
LEMMA WritingStaged ==
    ASSUME BaseInv, NEW d \in Devices, Writing(d), NEW r \in Rebuilders, StagedRight(r)
    PROVE  StagedRight(r)'
<1> USE StoreAssumption, RebuildAssumption
<1>a. TypeOK /\ HomeOnly /\ late \in [Rebuilders -> SUBSET Devices] /\ LoopOK(r)
  BY DEF BaseInv, RebuildTypeOK
<1>b. SubscribeScript(Home[d], d) \/ UnsubscribeScript(Home[d], d)
  BY WritingIs
<1>c. /\ late[r] \subseteq late'[r] /\ late'[r] \subseteq late[r] \cup {d}
      /\ deviceSet' # deviceSet /\ TooLate(r, d) => d \in late'[r]
  BY <1>a, WritingIs
<1>d. /\ Visited(r)' = Visited(r) /\ Held(r)' = Held(r) /\ InHand(r)' = InHand(r)
      /\ UNCHANGED <<at, must, cur, names, staged, staging>>
  BY WritingIs DEF Visited, Held, InHand, Publishing
<1>e. Cleared(r) /\ AtHand(r) /\ TypesStaged(r) /\ IndexStaged(r)
  BY DEF StagedRight
<1>1. Cleared(r)' /\ AtHand(r)'
  BY <1>d, <1>e DEF Cleared, AtHand
<1>2. ASSUME NEW e \in Devices \ late'[r], Home[e] \in Visited(r),
             TypeOf[e] \in Held(r) \/ IndexKey \in Held(r)
      PROVE  e \in deviceSet'[Home[e]] <=> e \in deviceSet[Home[e]]
  <2>1. CASE e # d
    BY <1>a, <1>b, <2>1, ScriptEffect
  <2>2. CASE e = d
    <3>1. TooLate(r, d)
      BY <1>2, <2>2 DEF TooLate, Visited, Held, Publishing
    <3>2. deviceSet' = deviceSet
      BY <1>2, <1>c, <2>2, <3>1
    <3> QED BY <3>2
  <2> QED BY <2>1, <2>2
<1>3. TypesStaged(r)'
  BY <1>c, <1>d, <1>e, <1>2 DEF TypesStaged
<1>4. ASSUME IndexKey \in Held(r), NEW s \in staging[IndexKey] \cup InHand(r), deviceSet'[s] = {}
      PROVE  DevicesOf(s) \cap late'[r] # {}
  <2>0. s \in SubKeys
    BY <1>a, <1>4 DEF BaseInv, StagingOK, InHand, LoopOK
  <2>1. CASE deviceSet[s] = {}
    BY <1>4, <1>c, <1>e, <2>1 DEF IndexStaged
  <2>2. CASE deviceSet[s] # {}
    <3>1. s = Home[d]
      BY <1>a, <1>b, <1>4, <2>0, <2>2, ScriptEffect
    <3>2. s \in Visited(r)
      BY <1>4, <1>e, <2>0 DEF Cleared, AtHand, Visited, Held, Publishing
    <3>3. TooLate(r, d)
      BY <1>4, <3>1, <3>2 DEF TooLate, Visited, Held, Publishing
    <3>4. d \in late'[r]
      BY <1>4, <1>c, <2>2, <3>3
    <3> QED BY <3>1, <3>4 DEF DevicesOf
  <2> QED BY <2>1, <2>2
<1>5. IndexStaged(r)'
  BY <1>c, <1>d, <1>e, <1>2, <1>4 DEF IndexStaged
<1> QED BY <1>1, <1>3, <1>5 DEF StagedRight

-----------------------------------------------------------------------------
(* The steps of a rebuild that is alone *)

LEMMA OwnStaged ==
    ASSUME BaseInv, NEW r \in Rebuilders, Rebuilding(r), alone[r] => StagedRight(r), alone'[r]
    PROVE  StagedRight(r)'
<1> USE StoreAssumption, RebuildAssumption
<1>a. /\ at \in [Rebuilders -> Stages] /\ must \in [Rebuilders -> SUBSET (SubKeys \cup Keys)]
      /\ cur \in [Rebuilders -> SubKeys \cup {Nobody}] /\ names \in [Rebuilders -> SUBSET Devices]
      /\ staged \in [Rebuilders -> SUBSET Keys] /\ late \in [Rebuilders -> SUBSET Devices]
      /\ staging \in [Keys -> SUBSET (SubKeys \cup Devices)]
      /\ deviceSet \in [SubKeys -> SUBSET Devices]
  BY DEF BaseInv, RebuildTypeOK, TypeOK
<1>b. HomeOnly /\ StagingOK /\ LoopOK(r)
  BY DEF BaseInv
<1>c. ASSUME at'[r] = "idle" PROVE StagedRight(r)'
  BY <1>c DEF StagedRight, Cleared, AtHand, TypesStaged, IndexStaged, Visited, Held, InHand, Publishing
<1>d. ASSUME ~Rebuild(r)
      PROVE  Cleared(r) /\ AtHand(r) /\ TypesStaged(r) /\ IndexStaged(r) /\ deviceSet' = deviceSet
  <2>1. alone' = alone /\ deviceSet' = deviceSet
    BY <1>d DEF Rebuilding, BeginWalk, ClearKey, Rename, Visit, StageType, PruneType,
       StageSubscriber, PruneIndex, BeginRename, markSubscriberIndexBuilt, Fail, End, vars
  <2> QED BY <2>1 DEF StagedRight
<1>e. IndexKey \in Keys /\ Types \subseteq Keys /\ \A d \in Devices : TypeOf[d] \in Keys /\ Home[d] \in SubKeys
  BY DEF Keys
<1> DEFINE Right == StagedRight(r)'
<1>1. ASSUME Rebuild(r) PROVE Right
  BY <1>a, <1>1 DEF Rebuild, Enter, StagedRight, Cleared, AtHand, TypesStaged, IndexStaged, Visited, Held, InHand, Publishing
<1>2. ASSUME BeginWalk(r) PROVE Right
  <2>a. ~Rebuild(r)
    BY <1>2 DEF BeginWalk, Rebuild
  <2>b. Cleared(r) /\ AtHand(r) /\ TypesStaged(r) /\ IndexStaged(r) /\ deviceSet' = deviceSet
    BY <1>d, <2>a
  <2>1. Cleared(r)'
    BY <1>a, <1>b, <1>e, <1>2, <2>b DEF BeginWalk, Enter, LoopOK, StagingOK, history, Cleared, Cleared, AtHand, Visited, Held, InHand, Publishing, HomeOnly, DevicesOf
  <2>2. AtHand(r)'
    BY <1>a, <1>b, <1>e, <1>2, <2>b DEF BeginWalk, Enter, LoopOK, StagingOK, history, AtHand, Cleared, AtHand, Visited, Held, InHand, Publishing, HomeOnly, DevicesOf
  <2>3. TypesStaged(r)'
    BY <1>a, <1>b, <1>e, <1>2, <2>b DEF BeginWalk, Enter, LoopOK, StagingOK, history, TypesStaged, Cleared, AtHand, Visited, Held, InHand, Publishing, HomeOnly, DevicesOf
  <2>4. IndexStaged(r)'
    BY <1>a, <1>b, <1>e, <1>2, <2>b DEF BeginWalk, Enter, LoopOK, StagingOK, history, IndexStaged, Cleared, AtHand, Visited, Held, InHand, Publishing, HomeOnly, DevicesOf
  <2> QED BY <2>1, <2>2, <2>3, <2>4 DEF StagedRight
<1>3. ASSUME NEW k \in Keys, ClearKey(r, k) PROVE Right
  <2>a. ~Rebuild(r)
    BY <1>3 DEF ClearKey, Rebuild
  <2>b. Cleared(r) /\ AtHand(r) /\ TypesStaged(r) /\ IndexStaged(r) /\ deviceSet' = deviceSet
    BY <1>d, <2>a
  <2>1. Cleared(r)'
    BY <1>a, <1>b, <1>e, <1>3, <2>b DEF ClearKey, Enter, LoopOK, StagingOK, history, Cleared, Cleared, AtHand, Visited, Held, InHand, Publishing
  <2>2. AtHand(r)'
    BY <1>a, <1>b, <1>e, <1>3, <2>b DEF ClearKey, Enter, LoopOK, StagingOK, history, AtHand, Cleared, AtHand, Visited, Held, InHand, Publishing
  <2>3. TypesStaged(r)'
    BY <1>a, <1>b, <1>e, <1>3, <2>b DEF ClearKey, Enter, LoopOK, StagingOK, history, TypesStaged, Cleared, AtHand, Visited, Held, InHand, Publishing
  <2>4. IndexStaged(r)'
    BY <1>a, <1>b, <1>e, <1>3, <2>b DEF ClearKey, Enter, LoopOK, StagingOK, history, IndexStaged, Cleared, AtHand, Visited, Held, InHand, Publishing
  <2> QED BY <2>1, <2>2, <2>3, <2>4 DEF StagedRight
<1>4. ASSUME NEW k \in Keys, Rename(r, k) PROVE Right
  <2>a. ~Rebuild(r)
    BY <1>4 DEF Rename, Rebuild
  <2>b. Cleared(r) /\ AtHand(r) /\ TypesStaged(r) /\ IndexStaged(r) /\ deviceSet' = deviceSet
    BY <1>d, <2>a
  <2>1. Cleared(r)'
    BY <1>a, <1>b, <1>e, <1>4, <2>b DEF Rename, Enter, LoopOK, StagingOK, history, Cleared, Cleared, AtHand, Visited, Held, InHand, Publishing
  <2>2. AtHand(r)'
    BY <1>a, <1>b, <1>e, <1>4, <2>b DEF Rename, Enter, LoopOK, StagingOK, history, AtHand, Cleared, AtHand, Visited, Held, InHand, Publishing
  <2>3. TypesStaged(r)'
    BY <1>a, <1>b, <1>e, <1>4, <2>b DEF Rename, Enter, LoopOK, StagingOK, history, TypesStaged, Cleared, AtHand, Visited, Held, InHand, Publishing
  <2>4. IndexStaged(r)'
    BY <1>a, <1>b, <1>e, <1>4, <2>b DEF Rename, Enter, LoopOK, StagingOK, history, IndexStaged, Cleared, AtHand, Visited, Held, InHand, Publishing
  <2> QED BY <2>1, <2>2, <2>3, <2>4 DEF StagedRight
<1>5. ASSUME NEW s \in SubKeys, Visit(r, s) PROVE Right
  <2>a. ~Rebuild(r)
    BY <1>5 DEF Visit, Rebuild
  <2>b. Cleared(r) /\ AtHand(r) /\ TypesStaged(r) /\ IndexStaged(r) /\ deviceSet' = deviceSet
    BY <1>d, <2>a
  <2>1. Cleared(r)'
    BY <1>a, <1>b, <1>e, <1>5, <2>b DEF Visit, Enter, LoopOK, StagingOK, history, Cleared, Cleared, AtHand, Visited, Held, InHand, Publishing, HomeOnly, DevicesOf
  <2>2. AtHand(r)'
    BY <1>a, <1>b, <1>e, <1>5, <2>b DEF Visit, Enter, LoopOK, StagingOK, history, AtHand, Cleared, AtHand, Visited, Held, InHand, Publishing, HomeOnly, DevicesOf
  <2>3. TypesStaged(r)'
    BY <1>a, <1>b, <1>e, <1>5, <2>b DEF Visit, Enter, LoopOK, StagingOK, history, TypesStaged, Cleared, AtHand, Visited, Held, InHand, Publishing, HomeOnly, DevicesOf
  <2>4. IndexStaged(r)'
    BY <1>a, <1>b, <1>e, <1>5, <2>b DEF Visit, Enter, LoopOK, StagingOK, history, IndexStaged, Cleared, AtHand, Visited, Held, InHand, Publishing, HomeOnly, DevicesOf
  <2> QED BY <2>1, <2>2, <2>3, <2>4 DEF StagedRight
<1>6. ASSUME NEW t \in Types, StageType(r, t) PROVE Right
  <2>a. ~Rebuild(r)
    BY <1>6 DEF StageType, Rebuild
  <2>b. Cleared(r) /\ AtHand(r) /\ TypesStaged(r) /\ IndexStaged(r) /\ deviceSet' = deviceSet
    BY <1>d, <2>a
  <2>1. Cleared(r)'
    BY <1>a, <1>b, <1>e, <1>6, <2>b DEF StageType, Enter, LoopOK, StagingOK, history, Cleared, Cleared, AtHand, Visited, Held, InHand, Publishing, HomeOnly, DevicesOf
  <2>2. AtHand(r)'
    BY <1>a, <1>b, <1>e, <1>6, <2>b DEF StageType, Enter, LoopOK, StagingOK, history, AtHand, Cleared, AtHand, Visited, Held, InHand, Publishing, HomeOnly, DevicesOf
  <2>3. TypesStaged(r)'
    BY <1>a, <1>b, <1>e, <1>6, <2>b DEF StageType, Enter, LoopOK, StagingOK, history, TypesStaged, Cleared, AtHand, Visited, Held, InHand, Publishing, HomeOnly, DevicesOf
  <2>4. IndexStaged(r)'
    BY <1>a, <1>b, <1>e, <1>6, <2>b DEF StageType, Enter, LoopOK, StagingOK, history, IndexStaged, Cleared, AtHand, Visited, Held, InHand, Publishing, HomeOnly, DevicesOf
  <2> QED BY <2>1, <2>2, <2>3, <2>4 DEF StagedRight
<1>7. ASSUME NEW t \in Types, PruneType(r, t) PROVE Right
  <2>a. ~Rebuild(r)
    BY <1>7 DEF PruneType, Rebuild
  <2>b. Cleared(r) /\ AtHand(r) /\ TypesStaged(r) /\ IndexStaged(r) /\ deviceSet' = deviceSet
    BY <1>d, <2>a
  <2>1. Cleared(r)'
    BY <1>a, <1>b, <1>e, <1>7, <2>b DEF PruneType, Enter, LoopOK, StagingOK, history, Cleared, Cleared, AtHand, Visited, Held, InHand, Publishing
  <2>2. AtHand(r)'
    BY <1>a, <1>b, <1>e, <1>7, <2>b DEF PruneType, Enter, LoopOK, StagingOK, history, AtHand, Cleared, AtHand, Visited, Held, InHand, Publishing
  <2>3. TypesStaged(r)'
    BY <1>a, <1>b, <1>e, <1>7, <2>b DEF PruneType, Enter, LoopOK, StagingOK, history, TypesStaged, Cleared, AtHand, Visited, Held, InHand, Publishing
  <2>4. IndexStaged(r)'
    BY <1>a, <1>b, <1>e, <1>7, <2>b DEF PruneType, Enter, LoopOK, StagingOK, history, IndexStaged, Cleared, AtHand, Visited, Held, InHand, Publishing
  <2> QED BY <2>1, <2>2, <2>3, <2>4 DEF StagedRight
<1>8. ASSUME StageSubscriber(r) PROVE Right
  <2>a. ~Rebuild(r)
    BY <1>8 DEF StageSubscriber, Rebuild
  <2>b. Cleared(r) /\ AtHand(r) /\ TypesStaged(r) /\ IndexStaged(r) /\ deviceSet' = deviceSet
    BY <1>d, <2>a
  <2>1. Cleared(r)'
    BY <1>a, <1>b, <1>e, <1>8, <2>b DEF StageSubscriber, Enter, LoopOK, StagingOK, history, Cleared, Cleared, AtHand, Visited, Held, InHand, Publishing, HomeOnly, DevicesOf
  <2>2. AtHand(r)'
    BY <1>a, <1>b, <1>e, <1>8, <2>b DEF StageSubscriber, Enter, LoopOK, StagingOK, history, AtHand, Cleared, AtHand, Visited, Held, InHand, Publishing, HomeOnly, DevicesOf
  <2>3. TypesStaged(r)'
    BY <1>a, <1>b, <1>e, <1>8, <2>b DEF StageSubscriber, Enter, LoopOK, StagingOK, history, TypesStaged, Cleared, AtHand, Visited, Held, InHand, Publishing, HomeOnly, DevicesOf
  <2>4. IndexStaged(r)'
    BY <1>a, <1>b, <1>e, <1>8, <2>b DEF StageSubscriber, Enter, LoopOK, StagingOK, history, IndexStaged, Cleared, AtHand, Visited, Held, InHand, Publishing, HomeOnly, DevicesOf
  <2> QED BY <2>1, <2>2, <2>3, <2>4 DEF StagedRight
<1>9. ASSUME PruneIndex(r) PROVE Right
  <2>a. ~Rebuild(r)
    BY <1>9 DEF PruneIndex, Rebuild
  <2>b. Cleared(r) /\ AtHand(r) /\ TypesStaged(r) /\ IndexStaged(r) /\ deviceSet' = deviceSet
    BY <1>d, <2>a
  <2>1. Cleared(r)'
    BY <1>a, <1>b, <1>e, <1>9, <2>b DEF PruneIndex, Enter, LoopOK, StagingOK, history, Cleared, Cleared, AtHand, Visited, Held, InHand, Publishing
  <2>2. AtHand(r)'
    BY <1>a, <1>b, <1>e, <1>9, <2>b DEF PruneIndex, Enter, LoopOK, StagingOK, history, AtHand, Cleared, AtHand, Visited, Held, InHand, Publishing
  <2>3. TypesStaged(r)'
    BY <1>a, <1>b, <1>e, <1>9, <2>b DEF PruneIndex, Enter, LoopOK, StagingOK, history, TypesStaged, Cleared, AtHand, Visited, Held, InHand, Publishing
  <2>4. IndexStaged(r)'
    BY <1>a, <1>b, <1>e, <1>9, <2>b DEF PruneIndex, Enter, LoopOK, StagingOK, history, IndexStaged, Cleared, AtHand, Visited, Held, InHand, Publishing
  <2> QED BY <2>1, <2>2, <2>3, <2>4 DEF StagedRight
<1>10. ASSUME BeginRename(r) PROVE Right
  <2>a. ~Rebuild(r)
    BY <1>10 DEF BeginRename, Rebuild
  <2>b. Cleared(r) /\ AtHand(r) /\ TypesStaged(r) /\ IndexStaged(r) /\ deviceSet' = deviceSet
    BY <1>d, <2>a
  <2>1. Cleared(r)'
    BY <1>a, <1>b, <1>e, <1>10, <2>b DEF BeginRename, Enter, LoopOK, StagingOK, history, Cleared, Cleared, AtHand, Visited, Held, InHand, Publishing
  <2>2. AtHand(r)'
    BY <1>a, <1>b, <1>e, <1>10, <2>b DEF BeginRename, Enter, LoopOK, StagingOK, history, AtHand, Cleared, AtHand, Visited, Held, InHand, Publishing
  <2>3. TypesStaged(r)'
    BY <1>a, <1>b, <1>e, <1>10, <2>b DEF BeginRename, Enter, LoopOK, StagingOK, history, TypesStaged, Cleared, AtHand, Visited, Held, InHand, Publishing
  <2>4. IndexStaged(r)'
    BY <1>a, <1>b, <1>e, <1>10, <2>b DEF BeginRename, Enter, LoopOK, StagingOK, history, IndexStaged, Cleared, AtHand, Visited, Held, InHand, Publishing
  <2> QED BY <2>1, <2>2, <2>3, <2>4 DEF StagedRight
<1>11. ASSUME markSubscriberIndexBuilt(r) PROVE Right
  <2>1. at'[r] = "idle"
    BY <1>a, <1>11 DEF markSubscriberIndexBuilt, End, Enter
  <2> QED BY <1>c, <2>1
<1>12. ASSUME Fail(r) PROVE Right
  <2>1. at'[r] = "idle"
    BY <1>a, <1>12 DEF Fail, End, Enter
  <2> QED BY <1>c, <2>1
<1> QED
  BY <1>1, <1>2, <1>3, <1>4, <1>5, <1>6, <1>7, <1>8, <1>9, <1>10, <1>11, <1>12
     DEF Rebuilding

(* A rebuild that publishes changes the live keys it is then done with. *)
LEMMA LiveChange ==
    ASSUME BaseInv, NEW r \in Rebuilders, Rebuilding(r), NEW k \in Keys, k \notin Published(r)'
    PROVE  /\ deviceSet' = deviceSet
           /\ k = IndexKey => index' = index
           /\ k # IndexKey => typeSet'[k] = typeSet[k]
<1> DEFINE Same == /\ deviceSet' = deviceSet
                   /\ k = IndexKey => index' = index
                   /\ k # IndexKey => typeSet'[k] = typeSet[k]
<1>a. /\ typeSet \in [Types -> SUBSET Devices] /\ at \in [Rebuilders -> Stages]
      /\ must \in [Rebuilders -> SUBSET (SubKeys \cup Keys)] /\ LoopOK(r)
      /\ (k # IndexKey => k \in Types) /\ IndexKey \notin Types
  BY RebuildAssumption DEF BaseInv, RebuildTypeOK, TypeOK, Keys
<1>1. ASSUME NEW j \in Keys, Rename(r, j) PROVE Same
  BY <1>a, <1>1 DEF Rename, Published
<1>2. ASSUME NEW t \in Types, PruneType(r, t) PROVE Same
  BY <1>a, <1>2 DEF PruneType, Published
<1>3. ASSUME PruneIndex(r) PROVE Same
  BY <1>a, <1>3 DEF PruneIndex, Published, Enter
<1>4. ASSUME UNCHANGED vars PROVE Same
  BY <1>4 DEF vars
<1> QED
  BY <1>1, <1>2, <1>3, <1>4 DEF Rebuilding, Rebuild, BeginWalk, ClearKey, Visit, StageType,
     StageSubscriber, BeginRename, markSubscriberIndexBuilt, Fail, End

(* What a rebuild that is alone publishes is right but for what was late. *)
LEMMA OwnPublished ==
    ASSUME BaseInv, PublishedRight, NEW r \in Rebuilders, Rebuilding(r),
           alone[r] => StagedRight(r), alone'[r] \/ ~spoiled', NEW k \in Published(r)'
    PROVE  KeyRight(k, late[r])'
<1> USE StoreAssumption, RebuildAssumption
<1>a. /\ at \in [Rebuilders -> Stages] /\ must \in [Rebuilders -> SUBSET (SubKeys \cup Keys)]
      /\ staged \in [Rebuilders -> SUBSET Keys] /\ late \in [Rebuilders -> SUBSET Devices]
      /\ staging \in [Keys -> SUBSET (SubKeys \cup Devices)]
      /\ deviceSet \in [SubKeys -> SUBSET Devices] /\ typeSet \in [Types -> SUBSET Devices]
      /\ names \in [Rebuilders -> SUBSET Devices]
  BY DEF BaseInv, RebuildTypeOK, TypeOK
<1>b. HomeOnly /\ StagingOK /\ LoopOK(r) /\ k \in Keys
  BY DEF BaseInv, Published
<1>c. \A d \in Devices : TypeOf[d] \in Types /\ Home[d] \in SubKeys
  OBVIOUS
<1>d. at'[r] \in {"prune", "rename"}
  BY DEF Published
<1>e. ASSUME k \in Published(r), UNCHANGED <<deviceSet, late>>, alone[r] \/ ~spoiled,
             k = IndexKey => index' = index, k # IndexKey => typeSet'[k] = typeSet[k]
      PROVE  KeyRight(k, late[r])'
  <2>1. KeyRight(k, late[r])
    BY <1>e DEF PublishedRight
  <2> QED BY <1>e, <2>1 DEF KeyRight
<1>1. ASSUME PruneIndex(r) PROVE KeyRight(k, late[r])'
  <2>1. alone[r] /\ at[r] = "walk" /\ must[r] = {} /\ names[r] = {}
    BY <1>b, <1>1 DEF PruneIndex, LoopOK
  <2>2. k = IndexKey /\ IndexKey \notin staged[r] /\ index' = {} /\ UNCHANGED <<deviceSet, late>>
    BY <1>a, <1>b, <1>1 DEF PruneIndex, Published, Enter, Keys
  <2>3. staging[IndexKey] = {}
    BY <2>1, <2>2 DEF StagedRight, AtHand, Held, Keys
  <2>4. \A s \in SubKeys : \A d \in deviceSet[s] \ late[r] : FALSE
    BY <1>a, <1>b, <2>1, <2>3 DEF StagedRight, IndexStaged, Held, InHand, Visited, Keys, HomeOnly
  <2> QED BY <2>2, <2>4 DEF KeyRight, Indexes
<1>2. ASSUME NEW t \in Types, PruneType(r, t) PROVE KeyRight(k, late[r])'
  <2>1. alone[r] /\ at[r] = "prune" /\ names[r] = {} /\ UNCHANGED <<deviceSet, late, index>>
    BY <1>b, <1>2 DEF PruneType, LoopOK
  <2>2. CASE k # t
    <3>1. k \in Published(r) /\ (k # IndexKey => typeSet'[k] = typeSet[k])
      BY <1>a, <1>b, <1>2, <2>2 DEF PruneType, Published, Keys
    <3> QED BY <1>e, <2>1, <3>1
  <2>3. CASE k = t
    <3>1. t \notin staged[r] /\ typeSet'[t] = {}
      BY <1>a, <1>2, <2>3 DEF PruneType, Published
    <3>2. staging[t] = {}
      BY <2>1, <3>1 DEF StagedRight, AtHand, Held, Keys
    <3>3. \A d \in Devices \ late[r] : TypeOf[d] = t => d \notin deviceSet[Home[d]]
      BY <1>c, <2>1, <3>2 DEF StagedRight, TypesStaged, Held, Visited, Publishing, Keys
    <3>4. t # IndexKey
      OBVIOUS
    <3> QED BY <2>1, <2>3, <3>1, <3>3, <3>4 DEF KeyRight, Tells
  <2> QED BY <2>2, <2>3
<1>3. ASSUME BeginRename(r) PROVE KeyRight(k, late[r])'
  <2>1. /\ k \in Published(r) /\ UNCHANGED <<deviceSet, late, index, typeSet, alone, spoiled>>
    BY <1>a, <1>b, <1>3 DEF BeginRename, Published, Enter, vars, history
  <2> QED BY <1>e, <2>1
<1>4. ASSUME NEW j \in Keys, Rename(r, j) PROVE KeyRight(k, late[r])'
  <2>1. alone[r] /\ at[r] = "rename" /\ names[r] = {} /\ j \in must[r] /\ UNCHANGED <<deviceSet, late>>
    BY <1>b, <1>4 DEF Rename, LoopOK
  <2>2. CASE k # j
    <3>1. /\ k \in Published(r) /\ (k = IndexKey => index' = index)
          /\ (k # IndexKey => typeSet'[k] = typeSet[k])
      BY <1>a, <1>b, <1>4, <2>2 DEF Rename, Published, Keys
    <3> QED BY <1>e, <2>1, <3>1
  <2>3. CASE k = j /\ k = IndexKey
    <3>1. index' = staging[IndexKey]
      BY <1>4, <2>3 DEF Rename
    <3>2. IndexStaged(r) /\ IndexKey \in Held(r) /\ Visited(r) = SubKeys /\ InHand(r) = {}
      BY <1>b, <2>1, <2>3 DEF StagedRight, Held, Visited, InHand, Publishing
    <3>3. Indexes(staging[IndexKey], deviceSet, late[r])
      BY <1>a, <1>b, <1>c, <3>2 DEF IndexStaged, Indexes, HomeOnly
    <3> QED BY <2>1, <2>3, <3>1, <3>3 DEF KeyRight
  <2>4. CASE k = j /\ k # IndexKey
    <3>1. typeSet'[k] = staging[k] /\ k \in Types
      BY <1>a, <1>b, <1>4, <2>4 DEF Rename, Keys
    <3>2. TypesStaged(r) /\ k \in Held(r) /\ Visited(r) = SubKeys
      BY <1>b, <2>1, <2>4 DEF StagedRight, Held, Visited, Publishing
    <3>3. Tells(staging[k], k, deviceSet, late[r])
      BY <1>c, <2>1, <3>2 DEF TypesStaged, Tells
    <3> QED BY <2>1, <2>4, <3>1, <3>3 DEF KeyRight
  <2> QED BY <2>2, <2>3, <2>4
<1>5. PruneIndex(r) \/ (\E t \in Types : PruneType(r, t)) \/ BeginRename(r) \/ \E j \in Keys : Rename(r, j)
  BY <1>a, <1>d DEF Rebuilding, Rebuild, BeginWalk, ClearKey, Visit, StageType, StageSubscriber,
     markSubscriberIndexBuilt, Fail, End, Enter
<1> QED BY <1>1, <1>2, <1>3, <1>4, <1>5

(* Whoever publishes while others are under way spoils the index. *)
LEMMA SpoiledStep ==
    ASSUME BaseInv, NEW r \in Rebuilders, Rebuilding(r), ~spoiled'
    PROVE  /\ alone[r] \/ ~spoiled
           /\ \/ alone[r] \/ UNCHANGED <<index, typeSet>>
           /\ \/ ~spoiled \/ markSubscriberIndexBuilt(r)
<1> DEFINE Fits == /\ alone[r] \/ ~spoiled
                   /\ \/ alone[r] \/ UNCHANGED <<index, typeSet>>
                   /\ \/ ~spoiled \/ markSubscriberIndexBuilt(r)
<1>1. ASSUME PruneIndex(r) PROVE Fits
  BY <1>1 DEF PruneIndex
<1>2. ASSUME NEW t \in Types, PruneType(r, t) PROVE Fits
  BY <1>2 DEF PruneType
<1>3. ASSUME NEW k \in Keys, Rename(r, k) PROVE Fits
  BY <1>3 DEF Rename
<1>4. ASSUME markSubscriberIndexBuilt(r) PROVE Fits
  BY <1>4 DEF markSubscriberIndexBuilt, End, vars
<1>5. ASSUME UNCHANGED <<index, typeSet, spoiled>> PROVE Fits
  BY <1>5
<1> QED
  BY <1>1, <1>2, <1>3, <1>4, <1>5 DEF Rebuilding, Rebuild, BeginWalk, ClearKey, Visit,
     StageType, StageSubscriber, BeginRename, Fail, End, vars, history

LEMMA RebuildingPublished ==
    ASSUME BaseInv, PublishedRight, NEW r \in Rebuilders, Rebuilding(r), alone[r] => StagedRight(r)
    PROVE  PublishedRight'
<1> SUFFICES ASSUME NEW q \in Rebuilders, alone'[q] \/ ~spoiled', NEW k \in Published(q)'
             PROVE  KeyRight(k, late[q])'
  BY DEF PublishedRight
<1>1. CASE q = r
  BY <1>1, OwnPublished
<1>2. CASE q # r
  <2>1. /\ at'[q] = at[q] /\ must'[q] = must[q] /\ staged'[q] = staged[q] /\ late'[q] = late[q]
        /\ alone'[q] => at[q] = "idle"
    BY <1>2, OthersKept
  <2>2. k \in Published(q) /\ k \in Keys /\ at[q] # "idle"
    BY <2>1 DEF Published
  <2>3. ~spoiled'
    BY <2>1, <2>2
  <2>4. ~spoiled /\ UNCHANGED <<index, typeSet>>
    <3>1. CASE Rebuild(r)
      BY <2>3, <3>1 DEF Rebuild, vars, history
    <3>2. CASE ~Rebuild(r)
      <4>1. at[r] # "idle"
        BY <3>2 DEF Rebuilding, Rebuild, BeginWalk, ClearKey, Rename, Visit, StageType, PruneType,
           StageSubscriber, PruneIndex, BeginRename, markSubscriberIndexBuilt, Fail
      <4>2. ~alone[r]
        BY <1>2, <2>2, <4>1 DEF BaseInv, AloneOK, Active
      <4> QED BY <2>3, <4>2, SpoiledStep
    <3> QED BY <3>1, <3>2
  <2>5. deviceSet' = deviceSet
    BY DEF Rebuilding, Rebuild, BeginWalk, ClearKey, Rename, Visit, StageType, PruneType,
       StageSubscriber, PruneIndex, BeginRename, markSubscriberIndexBuilt, Fail, End, vars
  <2>6. KeyRight(k, late[q])
    BY <2>2, <2>4 DEF PublishedRight
  <2> QED BY <2>1, <2>4, <2>5, <2>6 DEF KeyRight
<1> QED BY <1>1, <1>2

(* The end of a rebuild does not make the code's promise larger. *)
LEMMA DoubtStays ==
    ASSUME BaseInv, NEW r \in Rebuilders, Rebuilding(r), ~markSubscriberIndexBuilt(r)
    PROVE  Doubtful \subseteq Doubtful'
<1>a. /\ at \in [Rebuilders -> Stages] /\ late \in [Rebuilders -> SUBSET Devices]
  BY DEF BaseInv, RebuildTypeOK
<1>1. \A q \in Rebuilders \ {r} : late'[q] = late[q] /\ at'[q] = at[q]
  BY OthersKept
<1>2. CASE Fail(r)
  <2>1. suspect' = IF Publishing(r) THEN suspect \cup late[r] ELSE suspect
    BY <1>2 DEF Fail, Publishing
  <2> QED BY <1>1, <2>1 DEF Doubtful, Publishing
<1>3. CASE ~Fail(r)
  <2>1. suspect' = suspect /\ late' = late /\ (Publishing(r) => Publishing(r)')
    BY <1>a, <1>3 DEF Rebuilding, Rebuild, BeginWalk, ClearKey, Rename, Visit, StageType,
       PruneType, StageSubscriber, PruneIndex, BeginRename, Enter, Publishing, history
  <2> QED BY <1>1, <2>1 DEF Doubtful, Publishing
<1> QED BY <1>2, <1>3

LEMMA RebuildingLive ==
    ASSUME BaseInv, LiveRight, PublishedRight, NEW r \in Rebuilders, Rebuilding(r),
           alone[r] => StagedRight(r)
    PROVE  LiveRight'
<1> SUFFICES ASSUME marker' \/ measured', ~spoiled', NEW k \in Keys PROVE KeyRight(k, Doubtful)'
  BY DEF LiveRight
<1>1. CASE markSubscriberIndexBuilt(r)
  <2>1. alone[r] \/ ~spoiled
    BY SpoiledStep
  <2>2. k \in Published(r)
    BY <1>1 DEF markSubscriberIndexBuilt, Published
  <2>3. KeyRight(k, late[r])
    BY <2>1, <2>2 DEF PublishedRight
  <2>4. late[r] \subseteq Doubtful' /\ UNCHANGED <<index, typeSet, deviceSet>>
    BY <1>1 DEF markSubscriberIndexBuilt, End, vars, Doubtful
  <2>5. PICK Y : Y = Doubtful'
    OBVIOUS
  <2>6. KeyRight(k, Y)
    BY <2>3, <2>4, <2>5, MoreDoubt
  <2> QED BY <2>4, <2>5, <2>6 DEF KeyRight
<1>2. CASE ~markSubscriberIndexBuilt(r) /\ k \in Published(r)'
  <2>1. KeyRight(k, late[r])'
    BY <1>2, OwnPublished
  <2>2. late'[r] \subseteq Doubtful'
    BY <1>2 DEF Published, Doubtful, Publishing
  <2> QED BY <2>1, <2>2 DEF KeyRight, Indexes, Tells
<1>3. CASE ~markSubscriberIndexBuilt(r) /\ k \notin Published(r)'
  <2>1. marker' = marker /\ measured' = measured /\ ~spoiled
    <3>1. ~spoiled
      BY <1>3, SpoiledStep
    <3>2. marker' = marker /\ measured' = measured
      BY <1>3 DEF Rebuilding, Rebuild, BeginWalk, ClearKey, Rename, Visit, StageType, PruneType,
         StageSubscriber, PruneIndex, BeginRename, Fail, End
    <3> QED BY <3>1, <3>2
  <2>2. KeyRight(k, Doubtful)
    BY <2>1 DEF LiveRight
  <2>3. /\ deviceSet' = deviceSet /\ (k = IndexKey => index' = index)
        /\ k # IndexKey => typeSet'[k] = typeSet[k]
    BY <1>3, LiveChange
  <2>4. PICK Y : Y = Doubtful'
    OBVIOUS
  <2>5. KeyRight(k, Y)
    BY <1>3, <2>2, <2>4, DoubtStays, MoreDoubt
  <2> QED BY <2>3, <2>4, <2>5 DEF KeyRight
<1> QED BY <1>1, <1>2, <1>3

-----------------------------------------------------------------------------
(* Processes that start, and the theorem *)

(* An empty database is indexed as it is. *)
LEMMA PrepareLive ==
    ASSUME BaseInv, LiveRight, Prepare \/ PrepareMarks \/ UNCHANGED allVars
    PROVE  LiveRight'
<1>a. UNCHANGED <<deviceSet, index, typeSet, spoiled, suspect, late, at>>
  BY DEF Prepare, PrepareMarks, allVars, vars, history, rebuildVars
<1>b. Doubtful' = Doubtful
  BY <1>a DEF Doubtful, Publishing
<1>1. CASE Prepare
  <2>1. ASSUME NEW k \in Keys PROVE KeyRight(k, Doubtful)
    BY <1>1, StoreAssumption DEF Prepare, KeyRight, Indexes, Tells, Keys
  <2> QED BY <1>a, <1>b, <2>1 DEF LiveRight, KeyRight
<1>2. CASE PrepareMarks \/ UNCHANGED allVars
  <2>1. marker' \/ measured' => marker \/ measured
    BY <1>2 DEF PrepareMarks, allVars, rebuildVars
  <2> QED BY <1>a, <1>b, <2>1 DEF LiveRight, KeyRight
<1> QED BY <1>1, <1>2

LEMMA InitRebuild == RebuildInit => RebuildInv
<1> SUFFICES ASSUME RebuildInit PROVE RebuildInv
  OBVIOUS
<1>1. LiveRight
  BY DEF RebuildInit, LiveRight
<1>2. PublishedRight
  BY DEF RebuildInit, PublishedRight, Published
<1>3. \A r \in Rebuilders : StagedRight(r)
  BY DEF RebuildInit, StagedRight, Cleared, AtHand, TypesStaged, IndexStaged, Visited, Held,
     InHand, Publishing
<1> QED BY <1>1, <1>2, <1>3, InitBase DEF RebuildInv

LEMMA StepRebuild == RebuildInv /\ [RebuildNext]_allVars => RebuildInv'
<1> SUFFICES ASSUME RebuildInv, [RebuildNext]_allVars PROVE RebuildInv'
  OBVIOUS
<1>a. BaseInv /\ LiveRight /\ PublishedRight /\ \A r \in Rebuilders : alone[r] => StagedRight(r)
  BY DEF RebuildInv
<1>b. BaseInv'
  BY <1>a, StepBase
<1>1. ASSUME NEW d \in Devices, Writing(d) PROVE RebuildInv'
  <2>1. alone' = alone
    BY <1>1, WritingIs
  <2>2. \A r \in Rebuilders : alone'[r] => StagedRight(r)'
    BY <1>a, <1>1, <2>1, WritingStaged
  <2> QED BY <1>a, <1>b, <1>1, <2>2, WritingLive DEF RebuildInv
<1>2. ASSUME NEW r \in Rebuilders, Rebuilding(r) PROVE RebuildInv'
  <2>1. ASSUME NEW q \in Rebuilders, alone'[q] PROVE StagedRight(q)'
    <3>1. CASE q = r
      BY <1>a, <1>2, <2>1, <3>1, OwnStaged
    <3>2. CASE q # r
      <4>1. at'[q] = "idle"
        BY <1>a, <1>2, <2>1, <3>2, OthersKept
      <4> QED BY <4>1 DEF StagedRight, Cleared, AtHand, TypesStaged, IndexStaged, Visited,
                 Held, InHand, Publishing
    <3> QED BY <3>1, <3>2
  <2>2. LiveRight' /\ PublishedRight'
    BY <1>a, <1>2, RebuildingLive, RebuildingPublished
  <2> QED BY <1>b, <2>1, <2>2 DEF RebuildInv
<1>3. ASSUME Prepare \/ PrepareMarks \/ UNCHANGED allVars PROVE RebuildInv'
  <2>1. LiveRight'
    BY <1>a, <1>3, PrepareLive
  <2>2. /\ UNCHANGED <<deviceSet, index, typeSet, spoiled, late, at, must, cur, names, staged>>
        /\ UNCHANGED <<staging, alone>>
    BY <1>3 DEF Prepare, PrepareMarks, allVars, vars, history, rebuildVars
  <2>3. PublishedRight'
    BY <1>a, <2>2 DEF PublishedRight, Published, KeyRight
  <2>4. ASSUME NEW r \in Rebuilders, alone'[r] PROVE StagedRight(r)'
    <3>1. StagedRight(r)
      BY <1>a, <2>2, <2>4
    <3> QED BY <2>2, <3>1 DEF StagedRight, Cleared, AtHand, TypesStaged, IndexStaged, Visited,
               Held, InHand, Publishing
  <2> QED BY <1>b, <2>1, <2>3, <2>4 DEF RebuildInv
<1> QED BY <1>1, <1>2, <1>3 DEF RebuildNext

(***************************************************************************)
(* Once marked, the index a wildcard push and /stats read is right about   *)
(* every device that no rebuild may have missed, at every moment, for any  *)
(* number of requests and of rebuilds that overlap, fail or are repeated.  *)
(***************************************************************************)
THEOREM MarkedIsRight == RebuildSpec => []MarkedMeansRight
<1>1. RebuildInv => MarkedMeansRight
  <2> SUFFICES ASSUME RebuildInv, marker, ~spoiled
               PROVE  /\ \A d \in Devices \ Excused :
                            d \in typeSet[TypeOf[d]] <=> d \in deviceSet[Home[d]]
                      /\ \A s \in SubKeys : DevicesOf(s) \cap Excused = {} =>
                            (s \in index <=> deviceSet[s] # {})
    BY DEF MarkedMeansRight
  <2> USE StoreAssumption, RebuildAssumption
  <2>1. Doubtful \subseteq Excused
    BY DEF Doubtful, Excused
  <2>2. \A k \in Keys : KeyRight(k, Excused)
    BY <2>1, MoreDoubt DEF RebuildInv, LiveRight
  <2>3. ASSUME NEW d \in Devices \ Excused
        PROVE  d \in typeSet[TypeOf[d]] <=> d \in deviceSet[Home[d]]
    <3>1. TypeOf[d] \in Keys /\ TypeOf[d] # IndexKey
      BY DEF Keys
    <3> QED BY <2>2, <3>1 DEF KeyRight, Tells
  <2>4. ASSUME NEW s \in SubKeys, DevicesOf(s) \cap Excused = {}
        PROVE  s \in index <=> deviceSet[s] # {}
    <3>1. Indexes(index, deviceSet, Excused)
      BY <2>2 DEF KeyRight, Keys
    <3>2. deviceSet[s] \subseteq DevicesOf(s)
      BY DEF RebuildInv, BaseInv, RebuildTypeOK, TypeOK, HomeOnly, DevicesOf
    <3> QED BY <2>4, <3>1, <3>2 DEF Indexes
  <2> QED BY <2>3, <2>4
<1> QED BY InitRebuild, StepRebuild, <1>1, PTL DEF RebuildSpec
=============================================================================
