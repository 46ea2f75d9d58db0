------------------------- MODULE ProviderStoreProofs -------------------------
(***************************************************************************)
(* A service has at most one provider per push service type, for any       *)
(* number of processes, requests, providers and attempts; and, in a single *)
(* process, no provider set names a missing record, the service list names *)
(* every service in use, a binding changes with its provider only, and a   *)
(* refusal to add a provider is true.                                      *)
(***************************************************************************)
EXTENDS ProviderStore, FiniteSetTheorems, TLAPS

(* A request to add or remove a provider names one, and a device is known   *)
(* where one is needed.                                                     *)
LocalsOK ==
    \A w \in Workers :
       /\ step[w] \in { "add.watch", "add.smembers", "add.get", "add.exec",
                        "rm.set", "rm.exists", "rm.list", "rm.record",
                        "sub.bind", "push.send" }
             => psp[w] \in Providers
       /\ step[w] \in { "sub.smembers", "sub.get", "sub.choose", "sub.tie", "sub.bind",
                        "push.smembers", "push.get", "push.choose", "push.tie" }
             => dev[w] \in Devices

(* Until its watch is spoilt, an /addpsp has the provider set as it is. *)
WatchHolds ==
    \A w \in Workers :
       step[w] \in {"add.get", "add.exec"} /\ w \notin dirty => names[w] = members

ProviderInv == TypeOK /\ LocalsOK /\ WatchHolds /\ OnePerType

(* The operations of dblock keep its types. *)
LEMMA LockTypes ==
    ASSUME TypeOK, NEW w \in Workers,
           Lock(w) \/ RLock(w) \/ Unlock(w) \/ RUnlock(w) \/ ReleaseAll(w)
    PROVE  /\ writer' \in [Procs -> Workers \cup {Nobody}]
           /\ readers' \in [Procs -> SUBSET Workers]
<1> USE ProviderAssumption DEF TypeOK
<1>1. CASE Lock(w)
  BY <1>1 DEF Lock
<1>2. CASE RLock(w)
  BY <1>2 DEF RLock
<1>3. CASE Unlock(w)
  BY <1>3 DEF Unlock
<1>4. CASE RUnlock(w)
  BY <1>4 DEF RUnlock
<1>5. CASE ReleaseAll(w)
  BY <1>5 DEF ReleaseAll
<1> QED BY <1>1, <1>2, <1>3, <1>4, <1>5

(* A request that begins or ends has well-typed locals. *)
LEMMA BeginTypes ==
    ASSUME TypeOK, NEW w \in Workers, NEW s \in Steps,
           NEW p \in Providers \cup {NoProvider}, NEW r \in BOOLEAN,
           NEW d \in Devices \cup {Nobody}, Begin(w, s, p, r, d)
    PROVE  /\ step' \in [Workers -> Steps]
           /\ psp' \in [Workers -> Providers \cup {NoProvider}]
           /\ replace' \in [Workers -> BOOLEAN]
           /\ tries' \in [Workers -> 0..Attempts]
           /\ dev' \in [Workers -> Devices \cup {Nobody}]
           /\ names' \in [Workers -> SUBSET Providers]
           /\ left' \in [Workers -> SUBSET Providers]
           /\ found' \in [Workers -> SUBSET Providers]
<1>1. 0 \in 0..Attempts
  BY ProviderAssumption
<1> QED BY <1>1 DEF Begin, Goto, TypeOK

(* A request that ends leaves its variables well typed. *)
LEMMA FinishTypes ==
    ASSUME TypeOK, NEW w \in Workers, Finish(w)
    PROVE  /\ step' \in [Workers -> Steps]
           /\ psp' \in [Workers -> Providers \cup {NoProvider}]
           /\ replace' \in [Workers -> BOOLEAN]
           /\ tries' \in [Workers -> 0..Attempts]
           /\ dev' \in [Workers -> Devices \cup {Nobody}]
           /\ names' \in [Workers -> SUBSET Providers]
           /\ left' \in [Workers -> SUBSET Providers]
           /\ found' \in [Workers -> SUBSET Providers]
<1>1. "idle" \in Steps /\ FALSE \in BOOLEAN
  BY DEF Steps
<1> QED BY <1>1, BeginTypes DEF Finish

(* One GET of a pass, or its end, keeps the types of what the pass has read. *)
LEMMA ReadTypes ==
    ASSUME TypeOK, NEW w \in Workers, NEW s \in Steps, ReadRecord(w, s)
    PROVE  /\ step' \in [Workers -> Steps]
           /\ names' \in [Workers -> SUBSET Providers]
           /\ left' \in [Workers -> SUBSET Providers]
           /\ found' \in [Workers -> SUBSET Providers]
<1>1. CASE left[w] = {} /\ Goto(w, s) /\ UNCHANGED reading
  BY <1>1 DEF TypeOK, Goto, reading
<1>2. ASSUME NEW p \in left[w],
             left' = [left EXCEPT ![w] = @ \ {p}],
             found' = [found EXCEPT ![w] = IF p \in records THEN @ \cup {p} ELSE @],
             UNCHANGED <<step, names>>
      PROVE  /\ step' \in [Workers -> Steps]
             /\ names' \in [Workers -> SUBSET Providers]
             /\ left' \in [Workers -> SUBSET Providers]
             /\ found' \in [Workers -> SUBSET Providers]
  <2>1. p \in Providers
    BY <1>2 DEF TypeOK
  <2> QED BY <1>2, <2>1 DEF TypeOK
<1> QED BY <1>1, <1>2 DEF ReadRecord

(* Every step keeps the types. *)
LEMMA StepTypes == TypeOK /\ LocalsOK /\ [Next]_vars => TypeOK'
<1> SUFFICES ASSUME TypeOK, LocalsOK, [Next]_vars PROVE TypeOK'
  OBVIOUS
<1> USE ProviderAssumption
<1>0. TypeOK /\ LocalsOK
  OBVIOUS
<1>1. ASSUME NEW w \in Workers, NEW p \in Providers, NEW r \in BOOLEAN, AddProvider(w, p, r)
      PROVE  TypeOK'
  <2>1. Lock(w) /\ Begin(w, "add.watch", p, r, Nobody) /\ "add.watch" \in Steps
    BY <1>1 DEF AddProvider, Steps
  <2> QED BY <1>0, <1>1, <2>1, LockTypes, BeginTypes DEF AddProvider, TypeOK, store
<1>2. ASSUME NEW w \in Workers, NEW p \in Providers, RemoveProvider(w, p)
      PROVE  TypeOK'
  <2>1. Lock(w) /\ Begin(w, "rm.set", p, FALSE, Nobody) /\ "rm.set" \in Steps
    BY <1>2 DEF RemoveProvider, Steps
  <2> QED BY <1>0, <1>2, <2>1, LockTypes, BeginTypes DEF RemoveProvider, TypeOK, store
<1>3. ASSUME NEW w \in Workers, NEW d \in Devices, Subscribe(w, d)
      PROVE  TypeOK'
  <2>1. Lock(w) /\ Begin(w, "sub.smembers", NoProvider, FALSE, d) /\ "sub.smembers" \in Steps
    BY <1>3 DEF Subscribe, Steps
  <2> QED BY <1>0, <1>3, <2>1, LockTypes, BeginTypes DEF Subscribe, TypeOK, store
<1>4. ASSUME NEW w \in Workers, NEW d \in Devices, Push(w, d)
      PROVE  TypeOK'
  <2>1. RLock(w) /\ Begin(w, "push.smembers", NoProvider, FALSE, d) /\ "push.smembers" \in Steps
    BY <1>4 DEF Push, Steps
  <2> QED BY <1>0, <1>4, <2>1, LockTypes, BeginTypes DEF Push, TypeOK, store
<1>5. ASSUME NEW w \in Workers, Rebuild(w)
      PROVE  TypeOK'
  BY <1>0, <1>5, LockTypes DEF Rebuild, TypeOK, LocalsOK, Steps, Goto, store,
     request, reading, locks
<1>6. ASSUME NEW w \in Workers, Watch(w)
      PROVE  TypeOK'
  BY <1>0, <1>6 DEF Watch, TypeOK, LocalsOK, Steps, Goto, store, request,
     reading, locks
<1>7. ASSUME NEW w \in Workers, AddSMembers(w)
      PROVE  TypeOK'
  BY <1>0, <1>7 DEF AddSMembers, ReadNames, TypeOK, LocalsOK, Steps, Goto,
     store, request, reading, locks
<1>8. ASSUME NEW w \in Workers, AddGet(w)
      PROVE  TypeOK'
  <2>1. ReadRecord(w, "add.exec") /\ "add.exec" \in Steps
    BY <1>8 DEF AddGet, Steps
  <2> QED BY <1>0, <1>8, <2>1, ReadTypes DEF AddGet, TypeOK, store, request, locks
<1>9. ASSUME NEW w \in Workers, AddRefused(w)
      PROVE  TypeOK'
  BY <1>0, <1>9, LockTypes, FinishTypes DEF AddRefused, TypeOK, LocalsOK,
     Steps, Goto, store, request, reading, locks
<1>10. ASSUME NEW w \in Workers, AddExec(w)
      PROVE  TypeOK'
  BY <1>0, <1>10, LockTypes, FinishTypes DEF AddExec, WriteMembers, Watchers,
     TypeOK, LocalsOK, Steps, Goto, store, request, reading, locks
<1>11. ASSUME NEW w \in Workers, AddRetry(w)
      PROVE  TypeOK'
  <2>1. CASE tries[w] + 1 = Attempts /\ Unlock(w) /\ Finish(w)
    BY <1>0, <1>11, <2>1, LockTypes, FinishTypes DEF AddRetry, TypeOK, store
  <2>2. CASE /\ tries[w] + 1 < Attempts
             /\ tries' = [tries EXCEPT ![w] = @ + 1]
             /\ Goto(w, "add.watch")
             /\ UNCHANGED <<locks, request, reading>>
    <3>1. tries[w] + 1 \in 0..Attempts
      BY <1>0, <2>2 DEF TypeOK
    <3>2. tries' \in [Workers -> 0..Attempts]
      BY <1>0, <2>2, <3>1 DEF TypeOK
    <3> QED BY <1>0, <1>11, <2>2, <3>2 DEF AddRetry, TypeOK, Steps, Goto, store,
          request, reading, locks
  <2> QED BY <1>11, <2>1, <2>2 DEF AddRetry
<1>12. ASSUME NEW w \in Workers, RemoveMember(w)
      PROVE  TypeOK'
  BY <1>0, <1>12 DEF RemoveMember, WriteMembers, Watchers, TypeOK, LocalsOK,
     Steps, Goto, store, request, reading, locks
<1>13. ASSUME NEW w \in Workers, RemoveExists(w)
      PROVE  TypeOK'
  BY <1>0, <1>13 DEF RemoveExists, TypeOK, LocalsOK, Steps, Goto, store,
     request, reading, locks
<1>14. ASSUME NEW w \in Workers, Unlist(w)
      PROVE  TypeOK'
  BY <1>0, <1>14 DEF Unlist, TypeOK, LocalsOK, Steps, Goto, store, request,
     reading, locks
<1>15. ASSUME NEW w \in Workers, RemoveRecord(w)
      PROVE  TypeOK'
  BY <1>0, <1>15, LockTypes, FinishTypes DEF RemoveRecord, TypeOK, LocalsOK,
     Steps, Goto, store, request, reading, locks
<1>16. ASSUME NEW w \in Workers, SubSMembers(w)
      PROVE  TypeOK'
  BY <1>0, <1>16 DEF SubSMembers, ReadNames, TypeOK, LocalsOK, Steps, Goto,
     store, request, reading, locks
<1>17. ASSUME NEW w \in Workers, SubGet(w)
      PROVE  TypeOK'
  <2>1. ReadRecord(w, "sub.choose") /\ "sub.choose" \in Steps
    BY <1>17 DEF SubGet, Steps
  <2> QED BY <1>0, <1>17, <2>1, ReadTypes DEF SubGet, TypeOK, store, request, locks
<1>18. ASSUME NEW w \in Workers, SubChoose(w)
      PROVE  TypeOK'
  BY <1>0, <1>18 DEF SubChoose, Choose, Candidates, TypeOK, LocalsOK, Steps,
     Goto, store, request, reading, locks
<1>19. ASSUME NEW w \in Workers, SubTie(w)
      PROVE  TypeOK'
  BY <1>0, <1>19 DEF SubTie, Choose, Candidates, TypeOK, LocalsOK, Steps,
     Goto, store, request, reading, locks
<1>20. ASSUME NEW w \in Workers, SubRefused(w)
      PROVE  TypeOK'
  BY <1>0, <1>20, LockTypes, FinishTypes DEF SubRefused, TypeOK, LocalsOK,
     Steps, Goto, store, request, reading, locks
<1>21. ASSUME NEW w \in Workers, SubBind(w)
      PROVE  TypeOK'
  BY <1>0, <1>21, LockTypes, FinishTypes DEF SubBind, TypeOK, LocalsOK, Steps,
     Goto, store, request, reading, locks
<1>22. ASSUME NEW w \in Workers, PushSMembers(w)
      PROVE  TypeOK'
  BY <1>0, <1>22 DEF PushSMembers, ReadNames, TypeOK, LocalsOK, Steps, Goto,
     store, request, reading, locks
<1>23. ASSUME NEW w \in Workers, PushGet(w)
      PROVE  TypeOK'
  <2>1. ReadRecord(w, "push.choose") /\ "push.choose" \in Steps
    BY <1>23 DEF PushGet, Steps
  <2> QED BY <1>0, <1>23, <2>1, ReadTypes DEF PushGet, TypeOK, store, request, locks
<1>24. ASSUME NEW w \in Workers, PushChoose(w)
      PROVE  TypeOK'
  <2>1. PICK p \in Providers \cup {NoProvider}, s \in Steps : Choose(w, p, s)
    BY <1>0, <1>24 DEF PushChoose, Candidates, TypeOK, Steps
  <2>2. /\ writer' \in [Procs -> Workers \cup {Nobody}]
        /\ readers' \in [Procs -> SUBSET Workers]
    BY <1>0, <1>24, LockTypes DEF PushChoose, TypeOK, locks
  <2> QED BY <1>0, <2>1, <2>2 DEF Choose, TypeOK, Goto, store, reading
<1>25. ASSUME NEW w \in Workers, PushTie(w)
      PROVE  TypeOK'
  BY <1>0, <1>25, LockTypes DEF PushTie, Choose, Candidates, TypeOK, LocalsOK,
     Steps, Goto, store, request, reading, locks
<1>26. ASSUME NEW w \in Workers, PushSkips(w)
      PROVE  TypeOK'
  BY <1>0, <1>26, LockTypes, FinishTypes DEF PushSkips, TypeOK, LocalsOK,
     Steps, Goto, store, request, reading, locks
<1>27. ASSUME NEW w \in Workers, ModifyProvider(w)
      PROVE  TypeOK'
  BY <1>0, <1>27 DEF ModifyProvider, TypeOK, LocalsOK, Steps, Goto, store,
     request, reading, locks
<1>28. ASSUME NEW w \in Workers, PushDone(w)
      PROVE  TypeOK'
  BY <1>0, <1>28, FinishTypes DEF PushDone, TypeOK, LocalsOK, Steps, Goto,
     store, request, reading, locks
<1>29. ASSUME NEW w \in Workers, RebuildMGet(w)
      PROVE  TypeOK'
  BY <1>0, <1>29, LockTypes, FinishTypes DEF RebuildMGet, TypeOK, LocalsOK,
     Steps, Goto, store, request, reading, locks
<1>30. ASSUME NEW w \in Workers, RebuildAdd(w)
      PROVE  TypeOK'
  BY <1>0, <1>30, LockTypes, FinishTypes DEF RebuildAdd, TypeOK, LocalsOK,
     Steps, Goto, store, request, reading, locks
<1>31. ASSUME NEW w \in Workers, Abort(w)
      PROVE  TypeOK'
  BY <1>0, <1>31, LockTypes, FinishTypes DEF Abort, TypeOK, LocalsOK, Steps,
     Goto, store, request, reading, locks
<1>32. CASE UNCHANGED vars
  BY <1>0, <1>32 DEF vars, TypeOK
<1> QED
  BY <1>1, <1>2, <1>3, <1>4, <1>5, <1>6, <1>7, <1>8, <1>9, <1>10, <1>11,
     <1>12, <1>13, <1>14, <1>15, <1>16, <1>17, <1>18, <1>19, <1>20, <1>21,
     <1>22, <1>23, <1>24, <1>25, <1>26, <1>27, <1>28, <1>29, <1>30, <1>31,
     <1>32
     DEF Next, Request, Progress

(* Every step keeps what a request has read well typed. *)
LEMMA StepLocals == TypeOK /\ LocalsOK /\ [Next]_vars => LocalsOK'
<1> SUFFICES ASSUME TypeOK, LocalsOK, [Next]_vars PROVE LocalsOK'
  OBVIOUS
<1> USE ProviderAssumption
<1>0. TypeOK /\ LocalsOK
  OBVIOUS
<1>1. ASSUME NEW w \in Workers, NEW p \in Providers, NEW r \in BOOLEAN, AddProvider(w, p, r)
      PROVE  LocalsOK'
  BY <1>0, <1>1 DEF AddProvider, Begin, TypeOK, LocalsOK, Goto, request,
     reading
<1>2. ASSUME NEW w \in Workers, NEW p \in Providers, RemoveProvider(w, p)
      PROVE  LocalsOK'
  BY <1>0, <1>2 DEF RemoveProvider, Begin, TypeOK, LocalsOK, Goto, request,
     reading
<1>3. ASSUME NEW w \in Workers, NEW d \in Devices, Subscribe(w, d)
      PROVE  LocalsOK'
  BY <1>0, <1>3 DEF Subscribe, Begin, TypeOK, LocalsOK, Goto, request, reading
<1>4. ASSUME NEW w \in Workers, NEW d \in Devices, Push(w, d)
      PROVE  LocalsOK'
  BY <1>0, <1>4 DEF Push, Begin, TypeOK, LocalsOK, Goto, request, reading
<1>5. ASSUME NEW w \in Workers, Rebuild(w)
      PROVE  LocalsOK'
  BY <1>0, <1>5 DEF Rebuild, TypeOK, LocalsOK, Goto, request, reading
<1>6. ASSUME NEW w \in Workers, Watch(w)
      PROVE  LocalsOK'
  BY <1>0, <1>6 DEF Watch, TypeOK, LocalsOK, Goto, request, reading
<1>7. ASSUME NEW w \in Workers, AddSMembers(w)
      PROVE  LocalsOK'
  BY <1>0, <1>7 DEF AddSMembers, ReadNames, TypeOK, LocalsOK, Goto, request,
     reading
<1>8. ASSUME NEW w \in Workers, AddGet(w)
      PROVE  LocalsOK'
  BY <1>0, <1>8 DEF AddGet, ReadRecord, TypeOK, LocalsOK, Goto, request,
     reading
<1>9. ASSUME NEW w \in Workers, AddRefused(w)
      PROVE  LocalsOK'
  BY <1>0, <1>9 DEF AddRefused, Finish, Begin, TypeOK, LocalsOK, Goto,
     request, reading
<1>10. ASSUME NEW w \in Workers, AddExec(w)
      PROVE  LocalsOK'
  BY <1>0, <1>10 DEF AddExec, Finish, Begin, TypeOK, LocalsOK, Goto, request,
     reading
<1>11. ASSUME NEW w \in Workers, AddRetry(w)
      PROVE  LocalsOK'
  BY <1>0, <1>11 DEF AddRetry, Finish, Begin, TypeOK, LocalsOK, Goto, request,
     reading
<1>12. ASSUME NEW w \in Workers, RemoveMember(w)
      PROVE  LocalsOK'
  BY <1>0, <1>12 DEF RemoveMember, TypeOK, LocalsOK, Goto, request, reading
<1>13. ASSUME NEW w \in Workers, RemoveExists(w)
      PROVE  LocalsOK'
  BY <1>0, <1>13 DEF RemoveExists, TypeOK, LocalsOK, Goto, request, reading
<1>14. ASSUME NEW w \in Workers, Unlist(w)
      PROVE  LocalsOK'
  BY <1>0, <1>14 DEF Unlist, TypeOK, LocalsOK, Goto, request, reading
<1>15. ASSUME NEW w \in Workers, RemoveRecord(w)
      PROVE  LocalsOK'
  BY <1>0, <1>15 DEF RemoveRecord, Finish, Begin, TypeOK, LocalsOK, Goto,
     request, reading
<1>16. ASSUME NEW w \in Workers, SubSMembers(w)
      PROVE  LocalsOK'
  BY <1>0, <1>16 DEF SubSMembers, ReadNames, TypeOK, LocalsOK, Goto, request,
     reading
<1>17. ASSUME NEW w \in Workers, SubGet(w)
      PROVE  LocalsOK'
  BY <1>0, <1>17 DEF SubGet, ReadRecord, TypeOK, LocalsOK, Goto, request,
     reading
<1>18. ASSUME NEW w \in Workers, SubChoose(w)
      PROVE  LocalsOK'
  BY <1>0, <1>18 DEF SubChoose, Choose, Candidates, TypeOK, LocalsOK, Goto,
     request, reading
<1>19. ASSUME NEW w \in Workers, SubTie(w)
      PROVE  LocalsOK'
  BY <1>0, <1>19 DEF SubTie, Choose, Candidates, TypeOK, LocalsOK, Goto,
     request, reading
<1>20. ASSUME NEW w \in Workers, SubRefused(w)
      PROVE  LocalsOK'
  BY <1>0, <1>20 DEF SubRefused, Finish, Begin, TypeOK, LocalsOK, Goto,
     request, reading
<1>21. ASSUME NEW w \in Workers, SubBind(w)
      PROVE  LocalsOK'
  BY <1>0, <1>21 DEF SubBind, Finish, Begin, TypeOK, LocalsOK, Goto, request,
     reading
<1>22. ASSUME NEW w \in Workers, PushSMembers(w)
      PROVE  LocalsOK'
  BY <1>0, <1>22 DEF PushSMembers, ReadNames, TypeOK, LocalsOK, Goto, request,
     reading
<1>23. ASSUME NEW w \in Workers, PushGet(w)
      PROVE  LocalsOK'
  BY <1>0, <1>23 DEF PushGet, ReadRecord, TypeOK, LocalsOK, Goto, request,
     reading
<1>24. ASSUME NEW w \in Workers, PushChoose(w)
      PROVE  LocalsOK'
  BY <1>0, <1>24 DEF PushChoose, Choose, Candidates, TypeOK, LocalsOK, Goto,
     request, reading
<1>25. ASSUME NEW w \in Workers, PushTie(w)
      PROVE  LocalsOK'
  BY <1>0, <1>25 DEF PushTie, Choose, Candidates, TypeOK, LocalsOK, Goto,
     request, reading
<1>26. ASSUME NEW w \in Workers, PushSkips(w)
      PROVE  LocalsOK'
  BY <1>0, <1>26 DEF PushSkips, Finish, Begin, TypeOK, LocalsOK, Goto,
     request, reading
<1>27. ASSUME NEW w \in Workers, ModifyProvider(w)
      PROVE  LocalsOK'
  BY <1>0, <1>27 DEF ModifyProvider, TypeOK, LocalsOK, Goto, request, reading
<1>28. ASSUME NEW w \in Workers, PushDone(w)
      PROVE  LocalsOK'
  BY <1>0, <1>28 DEF PushDone, Finish, Begin, TypeOK, LocalsOK, Goto, request,
     reading
<1>29. ASSUME NEW w \in Workers, RebuildMGet(w)
      PROVE  LocalsOK'
  BY <1>0, <1>29 DEF RebuildMGet, Finish, Begin, TypeOK, LocalsOK, Goto,
     request, reading
<1>30. ASSUME NEW w \in Workers, RebuildAdd(w)
      PROVE  LocalsOK'
  BY <1>0, <1>30 DEF RebuildAdd, Finish, Begin, TypeOK, LocalsOK, Goto,
     request, reading
<1>31. ASSUME NEW w \in Workers, Abort(w)
      PROVE  LocalsOK'
  BY <1>0, <1>31 DEF Abort, Finish, Begin, TypeOK, LocalsOK, Goto, request,
     reading
<1>32. CASE UNCHANGED vars
  BY <1>0, <1>32 DEF vars, LocalsOK
<1> QED
  BY <1>1, <1>2, <1>3, <1>4, <1>5, <1>6, <1>7, <1>8, <1>9, <1>10, <1>11,
     <1>12, <1>13, <1>14, <1>15, <1>16, <1>17, <1>18, <1>19, <1>20, <1>21,
     <1>22, <1>23, <1>24, <1>25, <1>26, <1>27, <1>28, <1>29, <1>30, <1>31,
     <1>32
     DEF Next, Request, Progress

(* Every step keeps: a WATCH that still holds means nothing has changed. *)
LEMMA StepWatch == TypeOK /\ WatchHolds /\ [Next]_vars => WatchHolds'
<1> SUFFICES ASSUME TypeOK, WatchHolds, [Next]_vars PROVE WatchHolds'
  OBVIOUS
<1> USE ProviderAssumption
<1>0. TypeOK /\ WatchHolds
  OBVIOUS
<1>1. ASSUME NEW w \in Workers, NEW p \in Providers, NEW r \in BOOLEAN, AddProvider(w, p, r)
      PROVE  WatchHolds'
  BY <1>0, <1>1 DEF AddProvider, Begin, TypeOK, WatchHolds, Goto, store,
     request, reading
<1>2. ASSUME NEW w \in Workers, NEW p \in Providers, RemoveProvider(w, p)
      PROVE  WatchHolds'
  BY <1>0, <1>2 DEF RemoveProvider, Begin, TypeOK, WatchHolds, Goto, store,
     request, reading
<1>3. ASSUME NEW w \in Workers, NEW d \in Devices, Subscribe(w, d)
      PROVE  WatchHolds'
  BY <1>0, <1>3 DEF Subscribe, Begin, TypeOK, WatchHolds, Goto, store,
     request, reading
<1>4. ASSUME NEW w \in Workers, NEW d \in Devices, Push(w, d)
      PROVE  WatchHolds'
  BY <1>0, <1>4 DEF Push, Begin, TypeOK, WatchHolds, Goto, store, request,
     reading
<1>5. ASSUME NEW w \in Workers, Rebuild(w)
      PROVE  WatchHolds'
  BY <1>0, <1>5 DEF Rebuild, TypeOK, WatchHolds, Goto, store, request, reading
<1>6. ASSUME NEW w \in Workers, Watch(w)
      PROVE  WatchHolds'
  BY <1>0, <1>6 DEF Watch, TypeOK, WatchHolds, Goto, store, request, reading
<1>7. ASSUME NEW w \in Workers, AddSMembers(w)
      PROVE  WatchHolds'
  BY <1>0, <1>7 DEF AddSMembers, ReadNames, TypeOK, WatchHolds, Goto, store,
     request, reading
<1>8. ASSUME NEW w \in Workers, AddGet(w)
      PROVE  WatchHolds'
  BY <1>0, <1>8 DEF AddGet, ReadRecord, TypeOK, WatchHolds, Goto, store,
     request, reading
<1>9. ASSUME NEW w \in Workers, AddRefused(w)
      PROVE  WatchHolds'
  BY <1>0, <1>9 DEF AddRefused, Finish, Begin, TypeOK, WatchHolds, Goto,
     store, request, reading
<1>10. ASSUME NEW w \in Workers, AddExec(w)
      PROVE  WatchHolds'
  BY <1>0, <1>10 DEF AddExec, WriteMembers, Watchers, Finish, Begin, TypeOK,
     WatchHolds, Goto, store, request, reading
<1>11. ASSUME NEW w \in Workers, AddRetry(w)
      PROVE  WatchHolds'
  BY <1>0, <1>11 DEF AddRetry, Finish, Begin, TypeOK, WatchHolds, Goto, store,
     request, reading
<1>12. ASSUME NEW w \in Workers, RemoveMember(w)
      PROVE  WatchHolds'
  BY <1>0, <1>12 DEF RemoveMember, WriteMembers, Watchers, TypeOK, WatchHolds,
     Goto, store, request, reading
<1>13. ASSUME NEW w \in Workers, RemoveExists(w)
      PROVE  WatchHolds'
  BY <1>0, <1>13 DEF RemoveExists, TypeOK, WatchHolds, Goto, store, request,
     reading
<1>14. ASSUME NEW w \in Workers, Unlist(w)
      PROVE  WatchHolds'
  BY <1>0, <1>14 DEF Unlist, TypeOK, WatchHolds, Goto, store, request, reading
<1>15. ASSUME NEW w \in Workers, RemoveRecord(w)
      PROVE  WatchHolds'
  BY <1>0, <1>15 DEF RemoveRecord, Finish, Begin, TypeOK, WatchHolds, Goto,
     store, request, reading
<1>16. ASSUME NEW w \in Workers, SubSMembers(w)
      PROVE  WatchHolds'
  BY <1>0, <1>16 DEF SubSMembers, ReadNames, TypeOK, WatchHolds, Goto, store,
     request, reading
<1>17. ASSUME NEW w \in Workers, SubGet(w)
      PROVE  WatchHolds'
  BY <1>0, <1>17 DEF SubGet, ReadRecord, TypeOK, WatchHolds, Goto, store,
     request, reading
<1>18. ASSUME NEW w \in Workers, SubChoose(w)
      PROVE  WatchHolds'
  BY <1>0, <1>18 DEF SubChoose, Choose, Candidates, TypeOK, WatchHolds, Goto,
     store, request, reading
<1>19. ASSUME NEW w \in Workers, SubTie(w)
      PROVE  WatchHolds'
  BY <1>0, <1>19 DEF SubTie, Choose, Candidates, TypeOK, WatchHolds, Goto,
     store, request, reading
<1>20. ASSUME NEW w \in Workers, SubRefused(w)
      PROVE  WatchHolds'
  BY <1>0, <1>20 DEF SubRefused, Finish, Begin, TypeOK, WatchHolds, Goto,
     store, request, reading
<1>21. ASSUME NEW w \in Workers, SubBind(w)
      PROVE  WatchHolds'
  BY <1>0, <1>21 DEF SubBind, Finish, Begin, TypeOK, WatchHolds, Goto, store,
     request, reading
<1>22. ASSUME NEW w \in Workers, PushSMembers(w)
      PROVE  WatchHolds'
  BY <1>0, <1>22 DEF PushSMembers, ReadNames, TypeOK, WatchHolds, Goto, store,
     request, reading
<1>23. ASSUME NEW w \in Workers, PushGet(w)
      PROVE  WatchHolds'
  BY <1>0, <1>23 DEF PushGet, ReadRecord, TypeOK, WatchHolds, Goto, store,
     request, reading
<1>24. ASSUME NEW w \in Workers, PushChoose(w)
      PROVE  WatchHolds'
  BY <1>0, <1>24 DEF PushChoose, Choose, Candidates, TypeOK, WatchHolds, Goto,
     store, request, reading
<1>25. ASSUME NEW w \in Workers, PushTie(w)
      PROVE  WatchHolds'
  BY <1>0, <1>25 DEF PushTie, Choose, Candidates, TypeOK, WatchHolds, Goto,
     store, request, reading
<1>26. ASSUME NEW w \in Workers, PushSkips(w)
      PROVE  WatchHolds'
  BY <1>0, <1>26 DEF PushSkips, Finish, Begin, TypeOK, WatchHolds, Goto,
     store, request, reading
<1>27. ASSUME NEW w \in Workers, ModifyProvider(w)
      PROVE  WatchHolds'
  BY <1>0, <1>27 DEF ModifyProvider, TypeOK, WatchHolds, Goto, store, request,
     reading
<1>28. ASSUME NEW w \in Workers, PushDone(w)
      PROVE  WatchHolds'
  BY <1>0, <1>28 DEF PushDone, Finish, Begin, TypeOK, WatchHolds, Goto, store,
     request, reading
<1>29. ASSUME NEW w \in Workers, RebuildMGet(w)
      PROVE  WatchHolds'
  BY <1>0, <1>29 DEF RebuildMGet, Finish, Begin, TypeOK, WatchHolds, Goto,
     store, request, reading
<1>30. ASSUME NEW w \in Workers, RebuildAdd(w)
      PROVE  WatchHolds'
  BY <1>0, <1>30 DEF RebuildAdd, Finish, Begin, TypeOK, WatchHolds, Goto,
     store, request, reading
<1>31. ASSUME NEW w \in Workers, Abort(w)
      PROVE  WatchHolds'
  BY <1>0, <1>31 DEF Abort, Finish, Begin, TypeOK, WatchHolds, Goto, store,
     request, reading
<1>32. CASE UNCHANGED vars
  BY <1>0, <1>32 DEF vars, WatchHolds
<1> QED
  BY <1>1, <1>2, <1>3, <1>4, <1>5, <1>6, <1>7, <1>8, <1>9, <1>10, <1>11,
     <1>12, <1>13, <1>14, <1>15, <1>16, <1>17, <1>18, <1>19, <1>20, <1>21,
     <1>22, <1>23, <1>24, <1>25, <1>26, <1>27, <1>28, <1>29, <1>30, <1>31,
     <1>32
     DEF Next, Request, Progress

(* Every step keeps one provider per type in a service. *)
LEMMA StepOnePerType == ProviderInv /\ [Next]_vars => OnePerType'
<1> SUFFICES ASSUME ProviderInv, [Next]_vars PROVE OnePerType'
  OBVIOUS
<1>0. TypeOK /\ LocalsOK /\ WatchHolds /\ OnePerType
  BY DEF ProviderInv
<1>1. ASSUME NEW w \in Workers, NEW p \in Providers, NEW r \in BOOLEAN, AddProvider(w, p, r)
      PROVE  OnePerType'
  <2>1. UNCHANGED members
    BY <1>1 DEF AddProvider, store
  <2> QED BY <1>0, <2>1 DEF OnePerType
<1>2. ASSUME NEW w \in Workers, NEW p \in Providers, RemoveProvider(w, p)
      PROVE  OnePerType'
  <2>1. UNCHANGED members
    BY <1>2 DEF RemoveProvider, store
  <2> QED BY <1>0, <2>1 DEF OnePerType
<1>3. ASSUME NEW w \in Workers, NEW d \in Devices, Subscribe(w, d)
      PROVE  OnePerType'
  <2>1. UNCHANGED members
    BY <1>3 DEF Subscribe, store
  <2> QED BY <1>0, <2>1 DEF OnePerType
<1>4. ASSUME NEW w \in Workers, NEW d \in Devices, Push(w, d)
      PROVE  OnePerType'
  <2>1. UNCHANGED members
    BY <1>4 DEF Push, store
  <2> QED BY <1>0, <2>1 DEF OnePerType
<1>5. ASSUME NEW w \in Workers, Rebuild(w)
      PROVE  OnePerType'
  <2>1. UNCHANGED members
    BY <1>5 DEF Rebuild, store
  <2> QED BY <1>0, <2>1 DEF OnePerType
<1>6. ASSUME NEW w \in Workers, Watch(w)
      PROVE  OnePerType'
  <2>1. UNCHANGED members
    BY <1>6 DEF Watch, store
  <2> QED BY <1>0, <2>1 DEF OnePerType
<1>7. ASSUME NEW w \in Workers, AddSMembers(w)
      PROVE  OnePerType'
  <2>1. UNCHANGED members
    BY <1>7 DEF AddSMembers, store
  <2> QED BY <1>0, <2>1 DEF OnePerType
<1>8. ASSUME NEW w \in Workers, AddGet(w)
      PROVE  OnePerType'
  <2>1. UNCHANGED members
    BY <1>8 DEF AddGet, store
  <2> QED BY <1>0, <2>1 DEF OnePerType
<1>9. ASSUME NEW w \in Workers, AddRefused(w)
      PROVE  OnePerType'
  <2>1. UNCHANGED members
    BY <1>9 DEF AddRefused, store
  <2> QED BY <1>0, <2>1 DEF OnePerType
<1>10. ASSUME NEW w \in Workers, AddExec(w)
      PROVE  OnePerType'
  <2>1. psp[w] \in Providers /\ names[w] = members /\ found[w] \subseteq Providers
    BY <1>0, <1>10 DEF AddExec, LocalsOK, WatchHolds, TypeOK
  <2>2. members' = (members \cup {psp[w]}) \ (Superseded(w) \ {psp[w]})
    BY <1>10 DEF AddExec, WriteMembers
  <2>3. \A p \in members' : p = psp[w] \/ (p \in members /\ TypeOf[p] # TypeOf[psp[w]])
    BY <2>1, <2>2 DEF Superseded, Conflicts
  <2> QED BY <1>0, <2>3 DEF OnePerType
<1>11. ASSUME NEW w \in Workers, AddRetry(w)
      PROVE  OnePerType'
  <2>1. UNCHANGED members
    BY <1>11 DEF AddRetry, store
  <2> QED BY <1>0, <2>1 DEF OnePerType
<1>12. ASSUME NEW w \in Workers, RemoveMember(w)
      PROVE  OnePerType'
  BY <1>0, <1>12 DEF RemoveMember, WriteMembers, OnePerType
<1>13. ASSUME NEW w \in Workers, RemoveExists(w)
      PROVE  OnePerType'
  <2>1. UNCHANGED members
    BY <1>13 DEF RemoveExists, store
  <2> QED BY <1>0, <2>1 DEF OnePerType
<1>14. ASSUME NEW w \in Workers, Unlist(w)
      PROVE  OnePerType'
  <2>1. UNCHANGED members
    BY <1>14 DEF Unlist, store
  <2> QED BY <1>0, <2>1 DEF OnePerType
<1>15. ASSUME NEW w \in Workers, RemoveRecord(w)
      PROVE  OnePerType'
  <2>1. UNCHANGED members
    BY <1>15 DEF RemoveRecord, store
  <2> QED BY <1>0, <2>1 DEF OnePerType
<1>16. ASSUME NEW w \in Workers, SubSMembers(w)
      PROVE  OnePerType'
  <2>1. UNCHANGED members
    BY <1>16 DEF SubSMembers, store
  <2> QED BY <1>0, <2>1 DEF OnePerType
<1>17. ASSUME NEW w \in Workers, SubGet(w)
      PROVE  OnePerType'
  <2>1. UNCHANGED members
    BY <1>17 DEF SubGet, store
  <2> QED BY <1>0, <2>1 DEF OnePerType
<1>18. ASSUME NEW w \in Workers, SubChoose(w)
      PROVE  OnePerType'
  <2>1. UNCHANGED members
    BY <1>18 DEF SubChoose, Choose, store
  <2> QED BY <1>0, <2>1 DEF OnePerType
<1>19. ASSUME NEW w \in Workers, SubTie(w)
      PROVE  OnePerType'
  <2>1. UNCHANGED members
    BY <1>19 DEF SubTie, Choose, store
  <2> QED BY <1>0, <2>1 DEF OnePerType
<1>20. ASSUME NEW w \in Workers, SubRefused(w)
      PROVE  OnePerType'
  <2>1. UNCHANGED members
    BY <1>20 DEF SubRefused, store
  <2> QED BY <1>0, <2>1 DEF OnePerType
<1>21. ASSUME NEW w \in Workers, SubBind(w)
      PROVE  OnePerType'
  <2>1. UNCHANGED members
    BY <1>21 DEF SubBind, store
  <2> QED BY <1>0, <2>1 DEF OnePerType
<1>22. ASSUME NEW w \in Workers, PushSMembers(w)
      PROVE  OnePerType'
  <2>1. UNCHANGED members
    BY <1>22 DEF PushSMembers, store
  <2> QED BY <1>0, <2>1 DEF OnePerType
<1>23. ASSUME NEW w \in Workers, PushGet(w)
      PROVE  OnePerType'
  <2>1. UNCHANGED members
    BY <1>23 DEF PushGet, store
  <2> QED BY <1>0, <2>1 DEF OnePerType
<1>24. ASSUME NEW w \in Workers, PushChoose(w)
      PROVE  OnePerType'
  <2>1. UNCHANGED members
    BY <1>24 DEF PushChoose, Choose, store
  <2> QED BY <1>0, <2>1 DEF OnePerType
<1>25. ASSUME NEW w \in Workers, PushTie(w)
      PROVE  OnePerType'
  <2>1. UNCHANGED members
    BY <1>25 DEF PushTie, Choose, store
  <2> QED BY <1>0, <2>1 DEF OnePerType
<1>26. ASSUME NEW w \in Workers, PushSkips(w)
      PROVE  OnePerType'
  <2>1. UNCHANGED members
    BY <1>26 DEF PushSkips, store
  <2> QED BY <1>0, <2>1 DEF OnePerType
<1>27. ASSUME NEW w \in Workers, ModifyProvider(w)
      PROVE  OnePerType'
  <2>1. UNCHANGED members
    BY <1>27 DEF ModifyProvider, store
  <2> QED BY <1>0, <2>1 DEF OnePerType
<1>28. ASSUME NEW w \in Workers, PushDone(w)
      PROVE  OnePerType'
  <2>1. UNCHANGED members
    BY <1>28 DEF PushDone, store
  <2> QED BY <1>0, <2>1 DEF OnePerType
<1>29. ASSUME NEW w \in Workers, RebuildMGet(w)
      PROVE  OnePerType'
  <2>1. UNCHANGED members
    BY <1>29 DEF RebuildMGet, store
  <2> QED BY <1>0, <2>1 DEF OnePerType
<1>30. ASSUME NEW w \in Workers, RebuildAdd(w)
      PROVE  OnePerType'
  <2>1. UNCHANGED members
    BY <1>30 DEF RebuildAdd, store
  <2> QED BY <1>0, <2>1 DEF OnePerType
<1>31. ASSUME NEW w \in Workers, Abort(w)
      PROVE  OnePerType'
  <2>1. UNCHANGED members
    BY <1>31 DEF Abort, store
  <2> QED BY <1>0, <2>1 DEF OnePerType
<1>32. CASE UNCHANGED vars
  BY <1>0, <1>32 DEF vars, OnePerType
<1> QED
  BY <1>1, <1>2, <1>3, <1>4, <1>5, <1>6, <1>7, <1>8, <1>9, <1>10, <1>11,
     <1>12, <1>13, <1>14, <1>15, <1>16, <1>17, <1>18, <1>19, <1>20, <1>21,
     <1>22, <1>23, <1>24, <1>25, <1>26, <1>27, <1>28, <1>29, <1>30, <1>31,
     <1>32
     DEF Next, Request, Progress

(* The initial state. *)
LEMMA InitTypes == Init => TypeOK /\ LocalsOK /\ WatchHolds
<1> SUFFICES ASSUME Init PROVE TypeOK /\ LocalsOK /\ WatchHolds
  OBVIOUS
<1>1. 0 \in 0..Attempts
  BY ProviderAssumption
<1>2. TypeOK
  <2>1. listed \in BOOLEAN
    BY DEF Init
  <2> QED BY <1>1, <2>1 DEF Init, LockInit, TypeOK, Steps
<1>3. LocalsOK /\ WatchHolds
  BY DEF Init, LocalsOK, WatchHolds
<1> QED BY <1>2, <1>3

(***************************************************************************)
(* The type invariant of the provider store.                               *)
(***************************************************************************)
THEOREM ProviderTypes == Spec => []TypeOK
<1>1. TypeOK /\ LocalsOK /\ [Next]_vars => (TypeOK /\ LocalsOK)'
  BY StepTypes, StepLocals
<1> QED BY InitTypes, <1>1, PTL DEF Spec

(***************************************************************************)
(* Unless the database is older than the rule, a service never has two     *)
(* providers of one type: the WATCH makes the set /addpsp decided on the   *)
(* set it replaces, whatever other processes do.                           *)
(***************************************************************************)
THEOREM AtMostOnePerType == ASSUME ~Legacy PROVE Spec => []OnePerType
<1>1. Init => ProviderInv
  BY InitTypes DEF Init, ProviderInv, OnePerType
<1>2. ProviderInv /\ [Next]_vars => ProviderInv'
  BY StepTypes, StepLocals, StepWatch, StepOnePerType DEF ProviderInv
<1>3. ProviderInv => OnePerType
  BY DEF ProviderInv
<1> QED BY <1>1, <1>2, <1>3, PTL DEF Spec

(***************************************************************************)
(* One process: what dblock adds                                           *)
(***************************************************************************)
(* All requests run in one process, as in an installation of one uniqush.  *)
SingleProcess == \A u, v \in Workers : ProcOf[u] = ProcOf[v]

(* The steps made under the write lock, and under the read lock. *)
Writing == { "add.watch", "add.smembers", "add.get", "add.exec",
             "rm.set", "rm.exists", "rm.list", "rm.record",
             "sub.smembers", "sub.get", "sub.choose", "sub.tie", "sub.bind",
             "rebuild.mget", "rebuild.add" }
Reading == { "push.smembers", "push.get", "push.choose", "push.tie" }

LocksHeld ==
    \A w \in Workers :
       /\ step[w] \in Writing => writer[ProcOf[w]] = w
       /\ step[w] \in Reading => w \in readers[ProcOf[w]] /\ writer[ProcOf[w]] = Nobody

(* How a step of w uses the lock. *)
TakesLock(w) == step[w] = "idle" /\ step'[w] \in Writing /\ Lock(w)
TakesRLock(w) == step[w] = "idle" /\ step'[w] \in Reading /\ RLock(w)
KeepsLock(w) ==
    /\ UNCHANGED locks
    /\ \/ step[w] \in Writing /\ step'[w] \in Writing
       \/ step[w] \in Reading /\ step'[w] \in Reading
       \/ step[w] = "push.send" /\ step'[w] \in {"idle", "push.send"}
GivesLock(w) == step[w] \in Writing /\ step'[w] = "idle" /\ Unlock(w)
GivesRLock(w) == step[w] \in Reading /\ step'[w] \in {"idle", "push.send"} /\ RUnlock(w)
DropsAll(w) == step'[w] = "idle" /\ ReleaseAll(w)

UsesLock(w) ==
    \/ TakesLock(w) \/ TakesRLock(w) \/ KeepsLock(w)
    \/ GivesLock(w) \/ GivesRLock(w) \/ DropsAll(w)

(* A step of w leaves the other requests where they are. *)
OthersStay(w) ==
    /\ step' = [step EXCEPT ![w] = step'[w]]
    /\ \A v \in Workers \ {w} :
          /\ psp'[v] = psp[v] /\ dev'[v] = dev[v]
          /\ left'[v] = left[v] /\ found'[v] = found[v]

LEMMA StepUses ==
    ASSUME TypeOK, NEW w \in Workers, Request(w) \/ Progress(w) \/ ModifyProvider(w) \/ Abort(w)
    PROVE  UsesLock(w) /\ OthersStay(w)
<1> USE DEF OthersStay
<1>1. ASSUME NEW p \in Providers, NEW r \in BOOLEAN, AddProvider(w, p, r) PROVE UsesLock(w) /\ OthersStay(w)
  BY <1>1 DEF AddProvider, TakesLock, UsesLock, TypeOK, Goto, Begin, request, reading,
     Writing, Reading
<1>2. ASSUME NEW p \in Providers, RemoveProvider(w, p) PROVE UsesLock(w) /\ OthersStay(w)
  BY <1>2 DEF RemoveProvider, TakesLock, UsesLock, TypeOK, Goto, Begin, request, reading,
     Writing, Reading
<1>3. ASSUME NEW d \in Devices, Subscribe(w, d) PROVE UsesLock(w) /\ OthersStay(w)
  BY <1>3 DEF Subscribe, TakesLock, UsesLock, TypeOK, Goto, Begin, request, reading,
     Writing, Reading
<1>4. ASSUME NEW d \in Devices, Push(w, d) PROVE UsesLock(w) /\ OthersStay(w)
  BY <1>4 DEF Push, TakesRLock, UsesLock, TypeOK, Goto, Begin, request, reading, Writing,
     Reading
<1>5. CASE Rebuild(w)
  BY <1>5 DEF Rebuild, TakesLock, UsesLock, TypeOK, Goto, Begin, request, reading,
     Writing, Reading
<1>6. CASE Watch(w)
  BY <1>6 DEF Watch, KeepsLock, UsesLock, TypeOK, Goto, Begin, request, reading, Writing,
     Reading
<1>7. CASE AddSMembers(w)
  BY <1>7 DEF AddSMembers, ReadNames, KeepsLock, UsesLock, TypeOK, Goto, Begin, request,
     reading, Writing, Reading
<1>8. CASE AddGet(w)
  BY <1>8 DEF AddGet, ReadRecord, KeepsLock, UsesLock, TypeOK, Goto, Begin, request,
     reading, Writing, Reading
<1>9. CASE AddRefused(w)
  BY <1>9 DEF AddRefused, Finish, GivesLock, UsesLock, TypeOK, Goto, Begin, request,
     reading, Writing, Reading
<1>10. CASE AddExec(w)
  BY <1>10 DEF AddExec, Finish, GivesLock, UsesLock, TypeOK, Goto, Begin, request,
     reading, Writing, Reading
<1>11. CASE AddRetry(w)
  BY <1>11 DEF AddRetry, Finish, GivesLock, KeepsLock, UsesLock, TypeOK, Goto, Begin,
     request, reading, Writing, Reading
<1>12. CASE RemoveMember(w)
  BY <1>12 DEF RemoveMember, KeepsLock, UsesLock, TypeOK, Goto, Begin, request, reading,
     Writing, Reading
<1>13. CASE RemoveExists(w)
  BY <1>13 DEF RemoveExists, KeepsLock, UsesLock, TypeOK, Goto, Begin, request, reading,
     Writing, Reading
<1>14. CASE Unlist(w)
  BY <1>14 DEF Unlist, KeepsLock, UsesLock, TypeOK, Goto, Begin, request, reading,
     Writing, Reading
<1>15. CASE RemoveRecord(w)
  BY <1>15 DEF RemoveRecord, Finish, GivesLock, UsesLock, TypeOK, Goto, Begin, request,
     reading, Writing, Reading
<1>16. CASE SubSMembers(w)
  BY <1>16 DEF SubSMembers, ReadNames, KeepsLock, UsesLock, TypeOK, Goto, Begin, request,
     reading, Writing, Reading
<1>17. CASE SubGet(w)
  BY <1>17 DEF SubGet, ReadRecord, KeepsLock, UsesLock, TypeOK, Goto, Begin, request,
     reading, Writing, Reading
<1>18. CASE SubChoose(w)
  BY <1>18 DEF SubChoose, Choose, KeepsLock, UsesLock, TypeOK, Goto, Begin, request,
     reading, Writing, Reading
<1>19. CASE SubTie(w)
  BY <1>19 DEF SubTie, Choose, KeepsLock, UsesLock, TypeOK, Goto, Begin, request, reading,
     Writing, Reading
<1>20. CASE SubRefused(w)
  BY <1>20 DEF SubRefused, Finish, GivesLock, UsesLock, TypeOK, Goto, Begin, request,
     reading, Writing, Reading
<1>21. CASE SubBind(w)
  BY <1>21 DEF SubBind, Finish, GivesLock, UsesLock, TypeOK, Goto, Begin, request,
     reading, Writing, Reading
<1>22. CASE PushSMembers(w)
  BY <1>22 DEF PushSMembers, ReadNames, KeepsLock, UsesLock, TypeOK, Goto, Begin, request,
     reading, Writing, Reading
<1>23. CASE PushGet(w)
  BY <1>23 DEF PushGet, ReadRecord, KeepsLock, UsesLock, TypeOK, Goto, Begin, request,
     reading, Writing, Reading
<1>24. CASE PushChoose(w)
  BY <1>24 DEF PushChoose, Choose, KeepsLock, GivesRLock, UsesLock, TypeOK, Goto, Begin,
     request, reading, Writing, Reading
<1>25. CASE PushTie(w)
  BY <1>25 DEF PushTie, Choose, GivesRLock, UsesLock, TypeOK, Goto, Begin, request,
     reading, Writing, Reading
<1>26. CASE PushSkips(w)
  BY <1>26 DEF PushSkips, Finish, GivesRLock, UsesLock, TypeOK, Goto, Begin, request,
     reading, Writing, Reading
<1>27. CASE ModifyProvider(w)
  BY <1>27 DEF ModifyProvider, KeepsLock, UsesLock, TypeOK, Goto, Begin, request, reading,
     Writing, Reading
<1>28. CASE PushDone(w)
  BY <1>28 DEF PushDone, Finish, KeepsLock, UsesLock, TypeOK, Goto, Begin, request,
     reading, Writing, Reading
<1>29. CASE RebuildMGet(w)
  BY <1>29 DEF RebuildMGet, Finish, GivesLock, KeepsLock, UsesLock, TypeOK, Goto, Begin,
     request, reading, Writing, Reading
<1>30. CASE RebuildAdd(w)
  BY <1>30 DEF RebuildAdd, Finish, GivesLock, UsesLock, TypeOK, Goto, Begin, request,
     reading, Writing, Reading
<1>31. CASE Abort(w)
  BY <1>31 DEF Abort, Finish, DropsAll, UsesLock, TypeOK, Goto, Begin, request, reading,
     Writing, Reading
<1> QED
  BY <1>1, <1>2, <1>3, <1>4, <1>5, <1>6, <1>7, <1>8, <1>9, <1>10, <1>11, <1>12, <1>13,
     <1>14, <1>15, <1>16, <1>17, <1>18, <1>19, <1>20, <1>21, <1>22, <1>23, <1>24, <1>25,
     <1>26, <1>27, <1>28, <1>29, <1>30, <1>31 DEF Request, Progress

LEMMA HeldStep ==
    ASSUME TypeOK, LocksHeld, [Next]_vars
    PROVE  LocksHeld'
<1>1. CASE UNCHANGED vars
  BY <1>1 DEF vars, LocksHeld
<1>2. ASSUME NEW w \in Workers, UsesLock(w), OthersStay(w) PROVE LocksHeld'
  <2> USE ProviderAssumption DEF TypeOK, LocksHeld
  <2>0. /\ \A v \in Workers \ {w} : step'[v] = step[v]
        /\ \A v \in Workers : ProcOf[v] \in Procs /\ v # Nobody
        /\ Writing \cap Reading = {} /\ "idle" \notin Writing \cup Reading
        /\ "push.send" \notin Writing \cup Reading
    BY <1>2 DEF OthersStay, Writing, Reading
  <2>1. CASE TakesLock(w)
    BY <2>0, <2>1 DEF TakesLock, Lock, LockFree
  <2>2. CASE TakesRLock(w)
    BY <2>0, <2>2 DEF TakesRLock, RLock
  <2>3. CASE KeepsLock(w)
    BY <2>0, <2>3 DEF KeepsLock, locks
  <2>4. CASE GivesLock(w)
    BY <2>0, <2>4 DEF GivesLock, Unlock
  <2>5. CASE GivesRLock(w)
    BY <2>0, <2>5 DEF GivesRLock, RUnlock
  <2>6. CASE DropsAll(w)
    BY <2>0, <2>6 DEF DropsAll, ReleaseAll
  <2> QED
    BY <1>2, <2>1, <2>2, <2>3, <2>4, <2>5, <2>6 DEF UsesLock
<1> QED
  BY <1>1, <1>2, StepUses DEF Next

(* The lock in one process: a writer is alone, and so is who finds it free. *)
LEMMA Alone ==
    ASSUME SingleProcess, LocksHeld, NEW w \in Workers, NEW v \in Workers
    PROVE  /\ step[w] \in Writing /\ v # w => step[v] \notin Writing \cup Reading
           /\ LockFree(w) => step[v] \notin Writing \cup Reading
<1>1. ProcOf[v] = ProcOf[w] /\ v # Nobody /\ w # Nobody
  BY ProviderAssumption DEF SingleProcess
<1> QED
  BY <1>1 DEF LocksHeld, LockFree

(* What a request that chooses a provider has read is what the store holds. *)
ReadsTruly(w) ==
    /\ step[w] \in { "sub.get", "sub.choose", "sub.tie", "sub.bind",
                     "push.get", "push.choose", "push.tie" }
          => left[w] \subseteq members /\ found[w] = (members \ left[w]) \cap records
    /\ step[w] \in {"sub.choose", "sub.tie", "sub.bind", "push.choose", "push.tie"}
          => left[w] = {}
    /\ step[w] \in {"sub.tie", "push.tie"} => Cardinality(Candidates(w)) > 1
    /\ step[w] = "sub.bind" =>
          Candidates(w) = {psp[w]} \/ psp[w] = binding[dev[w]]

(* A provider on its way out has left the set; a service is taken off the   *)
(* list when its set is empty.                                              *)
RemovesInOrder(w) ==
    /\ step[w] \in {"rm.exists", "rm.list", "rm.record"} => psp[w] \notin members
    /\ step[w] = "rm.list" => members = {}

Steady(w) == ReadsTruly(w) /\ RemovesInOrder(w)

Kept == NoDangling /\ ServiceIsListed /\ \A w \in Workers : Steady(w)

(* Whoever is not under the lock has nothing to keep. *)
LEMMA SteadyOutside ==
    ASSUME NEW v \in Workers, step'[v] \notin Writing \cup Reading
    PROVE  Steady(v)'
BY DEF Steady, ReadsTruly, RemovesInOrder, Writing, Reading

(* The others stay steady when the store stays as it is. *)
LEMMA SteadyOthers ==
    ASSUME NEW w \in Workers, NEW v \in Workers \ {w}, OthersStay(w), TypeOK,
           UNCHANGED <<members, records, binding>>, Steady(v)
    PROVE  Steady(v)'
<1>1. /\ step'[v] = step[v] /\ psp'[v] = psp[v] /\ dev'[v] = dev[v]
      /\ left'[v] = left[v] /\ found'[v] = found[v]
  BY DEF OthersStay, TypeOK
<1>2. Candidates(v)' = Candidates(v)
  BY <1>1 DEF Candidates
<1> QED
  BY <1>1, <1>2 DEF Steady, ReadsTruly, RemovesInOrder

(* A step that leaves the store alone, or is made by one who is alone.      *)
LEMMA OthersSteady ==
    ASSUME SingleProcess, TypeOK, LocksHeld, Kept, NEW w \in Workers, OthersStay(w),
           \/ UNCHANGED <<members, records, binding>>
           \/ step[w] \in Writing
           \/ LockFree(w)
    PROVE  \A v \in Workers \ {w} : Steady(v)'
<1> SUFFICES ASSUME NEW v \in Workers \ {w} PROVE Steady(v)'
  OBVIOUS
<1>1. CASE UNCHANGED <<members, records, binding>>
  BY <1>1, SteadyOthers DEF Kept
<1>2. CASE step[w] \in Writing \/ LockFree(w)
  <2>1. step[v] \notin Writing \cup Reading
    BY <1>2, Alone
  <2>2. step'[v] = step[v]
    BY DEF OthersStay, TypeOK
  <2> QED
    BY <2>1, <2>2, SteadyOutside
<1> QED
  BY <1>1, <1>2

(* A step changes the store only under the lock. *)
Apart(w) ==
    \/ UNCHANGED <<members, records, binding>>
    \/ step[w] \in Writing
    \/ LockFree(w)

LEMMA StepKeeps ==
    ASSUME SingleProcess, TypeOK, LocalsOK, LocksHeld, Kept, NEW w \in Workers,
           Request(w) \/ Progress(w) \/ ModifyProvider(w) \/ Abort(w)
    PROVE  NoDangling' /\ ServiceIsListed' /\ Steady(w)' /\ Apart(w)
<1> USE ProviderAssumption
<1>0. NoDangling /\ ServiceIsListed /\ Steady(w)
  BY DEF Kept
<1>00. ASSUME UNCHANGED store PROVE NoDangling' /\ ServiceIsListed' /\ Apart(w)
  BY <1>0, <1>00 DEF store, NoDangling, ServiceIsListed, Apart
<1>01. ASSUME step'[w] = "idle" PROVE Steady(w)'
  BY <1>01, SteadyOutside DEF Writing, Reading
<1>1. ASSUME NEW p \in Providers, NEW r \in BOOLEAN, AddProvider(w, p, r) PROVE NoDangling' /\ ServiceIsListed' /\ Steady(w)' /\ Apart(w)
  <2>1. UNCHANGED store /\ step'[w] \in {"add.watch"}
    BY <1>1 DEF AddProvider, Begin, Goto, TypeOK
  <2>2. Steady(w)'
    BY <2>1 DEF Steady, ReadsTruly, RemovesInOrder
  <2> QED
    BY <1>00, <2>1, <2>2
<1>2. ASSUME NEW p \in Providers, RemoveProvider(w, p) PROVE NoDangling' /\ ServiceIsListed' /\ Steady(w)' /\ Apart(w)
  <2>1. UNCHANGED store /\ step'[w] \in {"rm.set"}
    BY <1>2 DEF RemoveProvider, Begin, Goto, TypeOK
  <2>2. Steady(w)'
    BY <2>1 DEF Steady, ReadsTruly, RemovesInOrder
  <2> QED
    BY <1>00, <2>1, <2>2
<1>3. ASSUME NEW d \in Devices, Subscribe(w, d) PROVE NoDangling' /\ ServiceIsListed' /\ Steady(w)' /\ Apart(w)
  <2>1. UNCHANGED store /\ step'[w] \in {"sub.smembers"}
    BY <1>3 DEF Subscribe, Begin, Goto, TypeOK
  <2>2. Steady(w)'
    BY <2>1 DEF Steady, ReadsTruly, RemovesInOrder
  <2> QED
    BY <1>00, <2>1, <2>2
<1>4. ASSUME NEW d \in Devices, Push(w, d) PROVE NoDangling' /\ ServiceIsListed' /\ Steady(w)' /\ Apart(w)
  <2>1. UNCHANGED store /\ step'[w] \in {"push.smembers"}
    BY <1>4 DEF Push, Begin, Goto, TypeOK
  <2>2. Steady(w)'
    BY <2>1 DEF Steady, ReadsTruly, RemovesInOrder
  <2> QED
    BY <1>00, <2>1, <2>2
<1>5. CASE Rebuild(w)
  <2>1. UNCHANGED store /\ step'[w] \in {"rebuild.mget"}
    BY <1>5 DEF Rebuild, Begin, Goto, TypeOK
  <2>2. Steady(w)'
    BY <2>1 DEF Steady, ReadsTruly, RemovesInOrder
  <2> QED
    BY <1>00, <2>1, <2>2
<1>6. CASE Watch(w)
  <2>1. UNCHANGED store /\ step'[w] \in {"add.smembers"}
    BY <1>6 DEF Watch, Begin, Goto, TypeOK
  <2>2. Steady(w)'
    BY <2>1 DEF Steady, ReadsTruly, RemovesInOrder
  <2> QED
    BY <1>00, <2>1, <2>2
<1>7. CASE AddSMembers(w)
  <2>1. UNCHANGED store /\ step'[w] \in {"add.get"}
    BY <1>7 DEF AddSMembers, ReadNames, Begin, Goto, TypeOK
  <2>2. Steady(w)'
    BY <2>1 DEF Steady, ReadsTruly, RemovesInOrder
  <2> QED
    BY <1>00, <2>1, <2>2
<1>8. CASE AddGet(w)
  <2>1. UNCHANGED store /\ step'[w] \in {"add.get", "add.exec"}
    BY <1>8 DEF AddGet, ReadRecord, Begin, Goto, TypeOK
  <2>2. Steady(w)'
    BY <2>1 DEF Steady, ReadsTruly, RemovesInOrder
  <2> QED
    BY <1>00, <2>1, <2>2
<1>9. CASE AddRefused(w)
  <2>1. UNCHANGED store /\ step'[w] = "idle"
    BY <1>9 DEF AddRefused, Finish, Begin, Goto, TypeOK
  <2> QED
    BY <1>00, <1>01, <2>1
<1>10. CASE AddExec(w)
  <2>1. /\ members' = (members \cup {psp[w]}) \ (Superseded(w) \ {psp[w]})
        /\ records' = (records \cup {psp[w]}) \ (Superseded(w) \ {psp[w]})
        /\ listed' = TRUE /\ step'[w] = "idle" /\ step[w] \in Writing
    BY <1>10 DEF AddExec, WriteMembers, Finish, Begin, Goto, TypeOK, Writing
  <2>2. NoDangling' /\ ServiceIsListed'
    BY <1>0, <2>1 DEF NoDangling, ServiceIsListed
  <2> QED
    BY <1>01, <2>1, <2>2 DEF Apart
<1>11. CASE AddRetry(w)
  <2>1. UNCHANGED store /\ step'[w] \in {"add.watch", "idle"}
    BY <1>11 DEF AddRetry, Finish, Begin, Goto, TypeOK
  <2>2. Steady(w)'
    BY <2>1 DEF Steady, ReadsTruly, RemovesInOrder
  <2> QED
    BY <1>00, <2>1, <2>2
<1>12. CASE RemoveMember(w)
  <2>1. /\ members' = members \ {psp[w]} /\ UNCHANGED <<records, listed, psp>>
        /\ step'[w] = "rm.exists" /\ step[w] \in Writing
    BY <1>12 DEF RemoveMember, WriteMembers, Goto, TypeOK, Writing, request
  <2>2. NoDangling' /\ ServiceIsListed'
    BY <1>0, <2>1 DEF NoDangling, ServiceIsListed
  <2>3. Steady(w)'
    BY <2>1 DEF Steady, ReadsTruly, RemovesInOrder
  <2> QED
    BY <2>1, <2>2, <2>3 DEF Apart
<1>13. CASE RemoveExists(w)
  <2>1. /\ UNCHANGED <<store, psp>> /\ step[w] = "rm.exists"
        /\ step'[w] = IF members = {} THEN "rm.list" ELSE "rm.record"
    BY <1>13 DEF RemoveExists, Goto, TypeOK, request
  <2>2. Steady(w)'
    BY <1>0, <2>1 DEF Steady, ReadsTruly, RemovesInOrder, store
  <2> QED
    BY <1>00, <2>1, <2>2
<1>14. CASE Unlist(w)
  <2>1. /\ UNCHANGED <<members, records, binding, psp>> /\ step[w] = "rm.list"
        /\ step'[w] = "rm.record"
    BY <1>14 DEF Unlist, Goto, TypeOK, request
  <2>2. NoDangling' /\ ServiceIsListed'
    BY <1>0, <2>1 DEF NoDangling, ServiceIsListed, Steady, RemovesInOrder
  <2>3. Steady(w)'
    BY <1>0, <2>1 DEF Steady, ReadsTruly, RemovesInOrder
  <2> QED
    BY <2>1, <2>2, <2>3 DEF Apart
<1>15. CASE RemoveRecord(w)
  <2>1. /\ records' = records \ {psp[w]} /\ UNCHANGED <<members, listed>>
        /\ step[w] = "rm.record" /\ step'[w] = "idle" /\ step[w] \in Writing
    BY <1>15 DEF RemoveRecord, Finish, Begin, Goto, TypeOK, Writing
  <2>2. NoDangling' /\ ServiceIsListed'
    BY <1>0, <2>1 DEF NoDangling, ServiceIsListed, Steady, RemovesInOrder
  <2> QED
    BY <1>01, <2>1, <2>2 DEF Apart
<1>16. CASE SubSMembers(w)
  <2>1. /\ UNCHANGED store /\ left'[w] = members /\ found'[w] = {}
        /\ step'[w] = "sub.get"
    BY <1>16 DEF SubSMembers, ReadNames, Goto, TypeOK
  <2>2. Steady(w)'
    BY <2>1 DEF Steady, ReadsTruly, RemovesInOrder, store
  <2> QED
    BY <1>00, <2>1, <2>2
<1>17. CASE SubGet(w)
  <2>1. UNCHANGED store /\ step[w] = "sub.get"
    BY <1>17 DEF SubGet
  <2>2. CASE left[w] = {} /\ Goto(w, "sub.choose") /\ UNCHANGED reading
    <3>1. step'[w] = "sub.choose" /\ left'[w] = {} /\ found'[w] = found[w]
      BY <2>2 DEF Goto, TypeOK, reading
    <3> QED
      BY <1>0, <1>00, <2>1, <2>2, <3>1 DEF Steady, ReadsTruly, RemovesInOrder, store
  <2>3. ASSUME NEW p \in left[w],
               left' = [left EXCEPT ![w] = @ \ {p}],
               found' = [found EXCEPT ![w] = IF p \in records THEN @ \cup {p} ELSE @],
               UNCHANGED <<step, names>>
        PROVE  Steady(w)'
    <3>1. /\ step'[w] = "sub.get" /\ left'[w] = left[w] \ {p}
          /\ found'[w] = IF p \in records THEN found[w] \cup {p} ELSE found[w]
      BY <2>1, <2>3 DEF TypeOK
    <3> QED
      BY <1>0, <2>1, <2>3, <3>1 DEF Steady, ReadsTruly, RemovesInOrder, store
  <2> QED
    BY <1>17, <1>00, <2>1, <2>2, <2>3 DEF SubGet, ReadRecord
<1>18. CASE SubChoose(w)
  <2>1. UNCHANGED <<store, dev, left, found>> /\ step[w] = "sub.choose"
    BY <1>18 DEF SubChoose, Choose, reading
  <2>2. Candidates(w)' = Candidates(w)
    BY <2>1 DEF Candidates
  <2>3. ASSUME NEW p \in Candidates(w), Candidates(w) = {p}, Choose(w, p, "sub.bind")
        PROVE  Steady(w)'
    <3>1. step'[w] = "sub.bind" /\ psp'[w] = p
      BY <2>3 DEF Choose, Goto, TypeOK
    <3> QED
      BY <1>0, <2>1, <2>2, <2>3, <3>1 DEF Steady, ReadsTruly, RemovesInOrder, store
  <2>4. CASE Cardinality(Candidates(w)) > 1 /\ Choose(w, NoProvider, "sub.tie")
    <3>1. step'[w] = "sub.tie"
      BY <2>4 DEF Choose, Goto, TypeOK
    <3>2. Steady(w)'
      BY <1>0, <2>1, <2>2, <2>4, <3>1 DEF Steady, ReadsTruly, RemovesInOrder, store
    <3> QED
      BY <1>00, <2>1, <3>2
  <2> QED
    BY <1>18, <1>00, <2>1, <2>3, <2>4 DEF SubChoose
<1>19. CASE SubTie(w)
  <2>1. /\ UNCHANGED <<store, dev, left, found>> /\ step[w] = "sub.tie"
        /\ psp'[w] = binding[dev[w]] /\ step'[w] = "sub.bind"
    BY <1>19 DEF SubTie, Choose, Goto, TypeOK, reading
  <2>2. Candidates(w)' = Candidates(w)
    BY <2>1 DEF Candidates
  <2>3. Steady(w)'
    BY <1>0, <2>1, <2>2 DEF Steady, ReadsTruly, RemovesInOrder, store
  <2> QED
    BY <1>00, <2>1, <2>3
<1>20. CASE SubRefused(w)
  <2>1. UNCHANGED store /\ step'[w] = "idle"
    BY <1>20 DEF SubRefused, Finish, Begin, Goto, TypeOK
  <2> QED
    BY <1>00, <1>01, <2>1
<1>21. CASE SubBind(w)
  <2>1. /\ UNCHANGED <<members, records, listed>>
        /\ step'[w] = "idle" /\ step[w] \in Writing
    BY <1>21 DEF SubBind, Finish, Begin, Goto, TypeOK, Writing
  <2>2. NoDangling' /\ ServiceIsListed'
    BY <1>0, <2>1 DEF NoDangling, ServiceIsListed
  <2> QED
    BY <1>01, <2>1, <2>2 DEF Apart
<1>22. CASE PushSMembers(w)
  <2>1. /\ UNCHANGED store /\ left'[w] = members /\ found'[w] = {}
        /\ step'[w] = "push.get"
    BY <1>22 DEF PushSMembers, ReadNames, Goto, TypeOK
  <2>2. Steady(w)'
    BY <2>1 DEF Steady, ReadsTruly, RemovesInOrder, store
  <2> QED
    BY <1>00, <2>1, <2>2
<1>23. CASE PushGet(w)
  <2>1. UNCHANGED store /\ step[w] = "push.get"
    BY <1>23 DEF PushGet
  <2>2. CASE left[w] = {} /\ Goto(w, "push.choose") /\ UNCHANGED reading
    <3>1. step'[w] = "push.choose" /\ left'[w] = {} /\ found'[w] = found[w]
      BY <2>2 DEF Goto, TypeOK, reading
    <3> QED
      BY <1>0, <1>00, <2>1, <2>2, <3>1 DEF Steady, ReadsTruly, RemovesInOrder, store
  <2>3. ASSUME NEW p \in left[w],
               left' = [left EXCEPT ![w] = @ \ {p}],
               found' = [found EXCEPT ![w] = IF p \in records THEN @ \cup {p} ELSE @],
               UNCHANGED <<step, names>>
        PROVE  Steady(w)'
    <3>1. /\ step'[w] = "push.get" /\ left'[w] = left[w] \ {p}
          /\ found'[w] = IF p \in records THEN found[w] \cup {p} ELSE found[w]
      BY <2>1, <2>3 DEF TypeOK
    <3> QED
      BY <1>0, <2>1, <2>3, <3>1 DEF Steady, ReadsTruly, RemovesInOrder, store
  <2> QED
    BY <1>23, <1>00, <2>1, <2>2, <2>3 DEF PushGet, ReadRecord
<1>24. CASE PushChoose(w)
  <2>1. UNCHANGED <<store, dev, left, found>> /\ step[w] = "push.choose"
    BY <1>24 DEF PushChoose, Choose, reading
  <2>2. Candidates(w)' = Candidates(w)
    BY <2>1 DEF Candidates
  <2>3. ASSUME NEW p \in Candidates(w), Candidates(w) = {p}, Choose(w, p, "push.send")
        PROVE  Steady(w)'
    <3>1. step'[w] = "push.send" /\ psp'[w] = p
      BY <2>3 DEF Choose, Goto, TypeOK
    <3> QED
      BY <1>0, <2>1, <2>2, <2>3, <3>1 DEF Steady, ReadsTruly, RemovesInOrder, store
  <2>4. CASE Cardinality(Candidates(w)) > 1 /\ Choose(w, NoProvider, "push.tie")
    <3>1. step'[w] = "push.tie"
      BY <2>4 DEF Choose, Goto, TypeOK
    <3>2. Steady(w)'
      BY <1>0, <2>1, <2>2, <2>4, <3>1 DEF Steady, ReadsTruly, RemovesInOrder, store
    <3> QED
      BY <1>00, <2>1, <3>2
  <2> QED
    BY <1>24, <1>00, <2>1, <2>3, <2>4 DEF PushChoose
<1>25. CASE PushTie(w)
  <2>1. /\ UNCHANGED <<store, dev, left, found>> /\ step[w] = "push.tie"
        /\ psp'[w] = binding[dev[w]] /\ step'[w] = "push.send"
    BY <1>25 DEF PushTie, Choose, Goto, TypeOK, reading
  <2>2. Candidates(w)' = Candidates(w)
    BY <2>1 DEF Candidates
  <2>3. Steady(w)'
    BY <1>0, <2>1, <2>2 DEF Steady, ReadsTruly, RemovesInOrder, store
  <2> QED
    BY <1>00, <2>1, <2>3
<1>26. CASE PushSkips(w)
  <2>1. UNCHANGED store /\ step'[w] = "idle"
    BY <1>26 DEF PushSkips, Finish, Begin, Goto, TypeOK
  <2> QED
    BY <1>00, <1>01, <2>1
<1>27. CASE ModifyProvider(w)
  <2>1. /\ UNCHANGED <<members, listed>> /\ records' = records \cup {psp[w]}
        /\ step' = step /\ step[w] = "push.send" /\ LockFree(w)
    BY <1>27 DEF ModifyProvider
  <2>2. NoDangling' /\ ServiceIsListed'
    BY <1>0, <2>1 DEF NoDangling, ServiceIsListed
  <2>3. Steady(w)'
    BY <2>1, SteadyOutside DEF Writing, Reading
  <2> QED
    BY <2>1, <2>2, <2>3 DEF Apart
<1>28. CASE PushDone(w)
  <2>1. UNCHANGED store /\ step'[w] = "idle"
    BY <1>28 DEF PushDone, Finish, Begin, Goto, TypeOK
  <2> QED
    BY <1>00, <1>01, <2>1
<1>29. CASE RebuildMGet(w)
  <2>1. UNCHANGED store /\ step'[w] \in {"rebuild.add", "idle"}
    BY <1>29 DEF RebuildMGet, Finish, Begin, Goto, TypeOK
  <2>2. Steady(w)'
    BY <2>1 DEF Steady, ReadsTruly, RemovesInOrder
  <2> QED
    BY <1>00, <2>1, <2>2
<1>30. CASE RebuildAdd(w)
  <2>1. /\ UNCHANGED <<members, records, binding>> /\ listed' = TRUE
        /\ step'[w] = "idle"
    BY <1>30 DEF RebuildAdd, Finish, Begin, Goto, TypeOK
  <2>2. NoDangling' /\ ServiceIsListed'
    BY <1>0, <2>1 DEF NoDangling, ServiceIsListed
  <2> QED
    BY <1>01, <2>1, <2>2 DEF Apart
<1>31. CASE Abort(w)
  <2>1. UNCHANGED store /\ step'[w] = "idle"
    BY <1>31 DEF Abort, Finish, Begin, Goto, TypeOK
  <2> QED
    BY <1>00, <1>01, <2>1
<1> QED
  BY <1>1, <1>2, <1>3, <1>4, <1>5, <1>6, <1>7, <1>8, <1>9, <1>10, <1>11, <1>12, <1>13,
     <1>14, <1>15, <1>16, <1>17, <1>18, <1>19, <1>20, <1>21, <1>22, <1>23, <1>24, <1>25,
     <1>26, <1>27, <1>28, <1>29, <1>30, <1>31 DEF Request, Progress

LEMMA KeptStep ==
    ASSUME SingleProcess, TypeOK, LocalsOK, LocksHeld, Kept, [Next]_vars
    PROVE  Kept'
<1>1. CASE UNCHANGED vars
  <2>1. UNCHANGED <<records, members, listed, binding, step, psp, dev, left, found>>
    BY <1>1 DEF vars
  <2>2. \A w \in Workers : Candidates(w)' = Candidates(w)
    BY <2>1 DEF Candidates
  <2> QED
    BY <2>1, <2>2
    DEF Kept, NoDangling, ServiceIsListed, Steady, ReadsTruly, RemovesInOrder
<1>2. ASSUME NEW w \in Workers, Request(w) \/ Progress(w) \/ ModifyProvider(w) \/ Abort(w)
      PROVE  Kept'
  <2>1. OthersStay(w) /\ NoDangling' /\ ServiceIsListed' /\ Steady(w)' /\ Apart(w)
    BY <1>2, StepUses, StepKeeps
  <2>2. \A v \in Workers \ {w} : Steady(v)'
    BY <2>1, OthersSteady DEF Apart
  <2> QED
    BY <2>1, <2>2 DEF Kept
<1> QED
  BY <1>1, <1>2 DEF Next

ProcessInv == TypeOK /\ LocalsOK /\ LocksHeld /\ Kept

LEMMA InitProcess == Init => ProcessInv
<1> SUFFICES ASSUME Init PROVE ProcessInv
  OBVIOUS
<1>1. TypeOK /\ LocalsOK
  BY InitTypes
<1>2. \A w \in Workers : step[w] = "idle"
  BY DEF Init
<1>3. LocksHeld
  BY <1>2 DEF LocksHeld, Writing, Reading
<1>4. Kept
  <2>1. NoDangling /\ ServiceIsListed
    BY DEF Init, NoDangling, ServiceIsListed
  <2> QED
    BY <1>2, <2>1 DEF Kept, Steady, ReadsTruly, RemovesInOrder
<1> QED
  BY <1>1, <1>3, <1>4 DEF ProcessInv

LEMMA ProcessStep ==
    ASSUME SingleProcess, ProcessInv, [Next]_vars
    PROVE  ProcessInv'
BY StepTypes, StepLocals, HeldStep, KeptStep DEF ProcessInv

(***************************************************************************)
(* In one process every name in a service's provider set has its record:   *)
(* /rmpsp takes the name out first, and the lock keeps /addpsp from        *)
(* putting it back before the record is gone.                              *)
(***************************************************************************)
THEOREM NoneDangles == ASSUME SingleProcess PROVE Spec => []NoDangling
<1>1. ProcessInv => NoDangling
  BY DEF ProcessInv, Kept
<1>2. ProcessInv /\ [Next]_vars => ProcessInv'
  BY ProcessStep
<1> QED BY <1>1, <1>2, InitProcess, PTL DEF Spec

(***************************************************************************)
(* In one process a service with a provider is in the set of services: the *)
(* EXISTS of /rmpsp still holds when its SREM is carried out.              *)
(***************************************************************************)
THEOREM ListedWhileServing == ASSUME SingleProcess PROVE Spec => []ServiceIsListed
<1>1. ProcessInv => ServiceIsListed
  BY DEF ProcessInv, Kept
<1>2. ProcessInv /\ [Next]_vars => ProcessInv'
  BY ProcessStep
<1> QED BY <1>1, <1>2, InitProcess, PTL DEF Spec

(* The pass of a request that has read everything gives what can serve. *)
LEMMA TrueCandidates ==
    ASSUME ProcessInv, NEW w \in Workers,
           step[w] \in {"sub.choose", "sub.tie", "sub.bind", "push.choose", "push.tie"}
    PROVE  Candidates(w) = Serving(DevType[dev[w]])
<1>1. left[w] = {} /\ found[w] = (members \ left[w]) \cap records
  BY DEF ProcessInv, Kept, Steady, ReadsTruly
<1>2. found[w] = members \cap records
  BY <1>1
<1> QED
  BY <1>2 DEF Candidates, Serving

(***************************************************************************)
(* In one process /subscribe leaves a device with its provider while that  *)
(* one can serve it, old data with several of its type included.           *)
(***************************************************************************)
THEOREM BindingsStick == ASSUME SingleProcess PROVE Spec => BindingSticks
<1> DEFINE Sticks == \A d \in Devices :
                        binding'[d] # binding[d] => binding[d] \notin Serving(DevType[d])
<1>1. ProcessInv /\ [Next]_vars => [Sticks]_vars
  <2> SUFFICES ASSUME ProcessInv, Next PROVE Sticks
    OBVIOUS
  <2>1. CASE UNCHANGED binding
    BY <2>1
  <2>2. ASSUME NEW w \in Workers, SubBind(w) PROVE Sticks
    <3>1. /\ binding' = [binding EXCEPT ![dev[w]] = psp[w]] /\ step[w] = "sub.bind"
      BY <2>2 DEF SubBind
    <3>2. dev[w] \in Devices
      BY <3>1 DEF ProcessInv, LocalsOK
    <3>3. Candidates(w) = Serving(DevType[dev[w]])
      BY <3>1, TrueCandidates
    <3>4. Candidates(w) = {psp[w]} \/ psp[w] = binding[dev[w]]
      BY <3>1 DEF ProcessInv, Kept, Steady, ReadsTruly
    <3>5. binding \in [Devices -> Providers \cup {NoProvider}]
      BY DEF ProcessInv, TypeOK
    <3> QED
      BY <3>1, <3>2, <3>3, <3>4, <3>5
  <2>3. ASSUME NEW w \in Workers, Request(w) \/ ModifyProvider(w) \/ Abort(w) PROVE UNCHANGED binding
    BY <2>3 DEF Request, AddProvider, RemoveProvider, Subscribe, Push, Rebuild, ModifyProvider,
       Abort, store
  <2>4. ASSUME NEW w \in Workers, Progress(w), ~SubBind(w) PROVE UNCHANGED binding
    BY <2>4 DEF Progress, Watch, AddSMembers, AddGet, AddRefused, AddExec, AddRetry, RemoveMember,
       RemoveExists, Unlist, RemoveRecord, SubSMembers, SubGet, SubChoose, SubTie, SubRefused,
       PushSMembers, PushGet, PushChoose, PushTie, PushSkips, PushDone, RebuildMGet, RebuildAdd,
       Choose, store
  <2> QED
    BY <2>1, <2>2, <2>3, <2>4 DEF Next
<1>2. ProcessInv /\ [Next]_vars => ProcessInv'
  BY ProcessStep
<1> QED BY <1>1, <1>2, InitProcess, PTL DEF Spec, BindingSticks

(***************************************************************************)
(* In one process no request is refused, and no device skipped by a push,  *)
(* on the strength of reads that have become stale.                        *)
(***************************************************************************)
THEOREM RefusalsAreTrue == ASSUME SingleProcess PROVE Spec => NoFalseRefusal
<1> DEFINE Truly == \A w \in Workers : SubRefused(w) \/ PushSkips(w) => ~Determined(dev[w])
<1>1. ProcessInv => Truly
  <2> SUFFICES ASSUME ProcessInv, NEW w \in Workers, SubRefused(w) \/ PushSkips(w)
               PROVE  ~Determined(dev[w])
    OBVIOUS
  <2>1. \/ step[w] \in {"sub.choose", "push.choose"} /\ Candidates(w) = {}
        \/ step[w] \in {"sub.tie", "push.tie"} /\ binding[dev[w]] \notin Candidates(w)
    BY DEF SubRefused, PushSkips
  <2>2. Candidates(w) = Serving(DevType[dev[w]])
    BY <2>1, TrueCandidates
  <2>3. Cardinality(Candidates(w)) # 1 /\ binding[dev[w]] \notin Candidates(w)
    <3>1. CASE step[w] \in {"sub.choose", "push.choose"} /\ Candidates(w) = {}
      BY <3>1, FS_EmptySet
    <3>2. CASE step[w] \in {"sub.tie", "push.tie"} /\ binding[dev[w]] \notin Candidates(w)
      <4>1. Cardinality(Candidates(w)) > 1
        BY <3>2 DEF ProcessInv, Kept, Steady, ReadsTruly
      <4> QED
        BY <3>2, <4>1
    <3> QED
      BY <2>1, <3>1, <3>2
  <2> QED
    BY <2>2, <2>3 DEF Determined
<1>2. ProcessInv /\ [Next]_vars => ProcessInv'
  BY ProcessStep
<1> QED BY <1>1, <1>2, InitProcess, PTL DEF Spec, NoFalseRefusal
=============================================================================
