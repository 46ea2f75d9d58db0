--------------------------- MODULE ShutdownProofs ---------------------------
(***************************************************************************)
(* A stop waits for what was being served, saves it, and closes errChan    *)
(* once, for any requests, any number of /stop and any number of retries.  *)
(***************************************************************************)
EXTENDS Shutdown, FiniteSetTheorems, TLAPS

(* The requests that were counted and not yet done with. *)
Busy == {j \in Jobs : ~IsRetry(j) /\ job[j] \in InService}

(* The counter is the number of requests being served, and one more when   *)
(* an Add has panicked.                                                    *)
Leak == IF leaked THEN 1 ELSE 0
Counted == waitGroup = Cardinality(Busy) + Leak

(* Once a Wait has returned, whatever is being served came after it. *)
BusyAreLate == WaitReturned => Busy \subseteq late

(* A Wait was released with nothing being served. *)
BusyCrossed == (\E s \in Stoppers : stopper[s] = "woken") /\ Busy # {} => crossed

(* An Add panics because of a waiter, who then waits for ever. *)
LeakedWaits == leaked => Waiting # {}

(* Only retries sleep, so that nothing uncounted turns into a request. *)
SleepersAreRetries == \A j \in Jobs : job[j] = "asleep" => IsRetry(j)

(* errChan is closed by a stop that is still there to be blamed. *)
ClosedByStop == ~errOpen => \E s \in Stoppers : stopper[s] \in {"closed", "finalized"}

(* A stop that got past FlushCache has left nothing of its own unsaved. *)
SavedIsSaved ==
    (\E s \in Stoppers : stopper[s] \in {"saved", "closed", "finalized"}) /\ ~saveFailed
        => unsaved = {}

(* The process exits by the hand of a stop. *)
ExitedByStop == process = "exited" => \E s \in Stoppers : stopper[s] = "finalized"

Inv ==
    /\ TypeOK
    /\ Counted
    /\ BusyAreLate
    /\ BusyCrossed
    /\ LeakedWaits
    /\ SleepersAreRetries
    /\ ClosedByStop
    /\ SavedIsSaved
    /\ ExitedByStop
    /\ QuietStopIsClean

-----------------------------------------------------------------------------
(* There are finitely many jobs, each a request with a number. *)
LEMMA JobsFinite == IsFiniteSet(Jobs)
<1>1. IsFiniteSet(Served) /\ IsFiniteSet(Retried)
    BY FS_Subset, ShutdownAssumption DEF Served, Pushes
<1>2. IsFiniteSet({0})
    BY FS_Singleton
<1>3. IsFiniteSet(1..MaxRetries)
    BY FS_Interval, ShutdownAssumption
<1>4. IsFiniteSet(Served \X {0}) /\ IsFiniteSet(Retried \X (1..MaxRetries))
    BY <1>1, <1>2, <1>3, FS_Product
<1> QED
    BY <1>4, FS_Union DEF Jobs

LEMMA JobNumbers ==
    ASSUME NEW j \in Jobs
    PROVE  /\ j = <<j[1], j[2]>> /\ j[1] \in Requests /\ j[2] \in 0..MaxRetries
           /\ IsRetry(j) \in BOOLEAN
           /\ None \notin Jobs
BY ShutdownAssumption DEF Jobs, Served, Pushes, IsRetry

(* A request begins by being in service. *)
LEMMA BeginsInService ==
    ASSUME NEW j \in Jobs
    PROVE  Begins(j) \in InService
<1>1. CASE j \in Served \X {0}
    <2>1. Kind[j[1]] \in {"change", "push", "notice", "adm"}
        BY <1>1, ShutdownAssumption DEF Served, Kinds
    <2> QED
        BY <2>1 DEF Begins, KindOf, InService
<1>2. CASE j \in Retried \X (1..MaxRetries)
    <2>1. Kind[j[1]] \in {"push", "notice", "adm"}
        BY <1>2, ShutdownAssumption DEF Pushes
    <2> QED
        BY <2>1 DEF Begins, KindOf, InService
<1> QED
    BY <1>1, <1>2 DEF Jobs

(* The counter when a request is counted, and when it is done with. *)
LEMMA BusyFinite ==
    /\ IsFiniteSet(Busy)
    /\ Cardinality(Busy) \in Nat
    /\ Cardinality(Busy) = 0 <=> Busy = {}
<1>1. Busy \in SUBSET Jobs
    BY DEF Busy
<1>2. IsFiniteSet(Busy)
    BY <1>1, JobsFinite, FS_Subset
<1> QED
    BY <1>2, FS_EmptySet, FS_CardinalityType

LEMMA CountAdds ==
    ASSUME NEW j \in Jobs, j \notin Busy, Busy' = Busy \cup {j}
    PROVE  Cardinality(Busy)' = Cardinality(Busy) + 1
BY BusyFinite, FS_AddElement

LEMMA DoneSubtracts ==
    ASSUME NEW j \in Busy, Busy' = Busy \ {j}
    PROVE  /\ Cardinality(Busy)' = Cardinality(Busy) - 1
           /\ Cardinality(Busy) - 1 \in Nat
<1>1. Cardinality(Busy) # 0
    BY BusyFinite
<1>2. Cardinality(Busy \ {j}) = Cardinality(Busy) - 1
    BY BusyFinite, FS_RemoveElement
<1> QED
    BY <1>1, <1>2, BusyFinite

-----------------------------------------------------------------------------
(* What the steps do to the requests that are being served. *)

(* A step of a job that goes on without beginning or ending. *)
LEMMA GoesOn ==
    ASSUME NEW j \in Jobs, TypeOK, NEW from, NEW to, Goes(j, from, to),
           (from \in InService /\ to \in InService) \/ IsRetry(j)
           \/ (from \notin InService /\ to \notin InService)
    PROVE  Busy' = Busy
BY DEF Busy, Goes, TypeOK, IsRetry

LEMMA GoesIn ==
    ASSUME NEW j \in Jobs, TypeOK, NEW from, NEW to, Goes(j, from, to),
           ~IsRetry(j), from \notin InService, to \in InService
    PROVE  Busy' = Busy \cup {j} /\ j \notin Busy
BY DEF Busy, Goes, TypeOK, IsRetry

LEMMA GoesOut ==
    ASSUME NEW j \in Jobs, TypeOK, NEW from, NEW to, Goes(j, from, to),
           ~IsRetry(j), from \in InService, to \notin InService
    PROVE  Busy' = Busy \ {j} /\ j \in Busy
BY DEF Busy, Goes, TypeOK, IsRetry

(* A job that is left has its place outside, whichever it is. *)
LEMMA LeftIsOut ==
    ASSUME NEW j \in Jobs
    PROVE  Left(j) \in {"none", "over", "releasing"} /\ Ended(j) \in {"none", "over"}
BY DEF Left, Ended

(* What a step that begins no request does to the count: a job that ends   *)
(* takes itself out of it.                                                 *)
Ends ==
    /\ waitGroup' \in Nat
    /\ Counted'
    /\ Busy' \subseteq Busy

LEMMA DoneEnds ==
    ASSUME NEW j \in Jobs, Inv, Done(j), leaked' = leaked,
           IF IsRetry(j) THEN Busy' = Busy ELSE j \in Busy /\ Busy' = Busy \ {j}
    PROVE  Ends
<1>1. CASE IsRetry(j)
    BY <1>1 DEF Done, Ends, Inv, TypeOK, Counted, Leak
<1>2. CASE ~IsRetry(j)
    <2>1. waitGroup' = waitGroup - 1
        BY <1>2 DEF Done
    <2>2. /\ Cardinality(Busy)' = Cardinality(Busy) - 1
          /\ Cardinality(Busy) - 1 \in Nat
        BY <1>2, DoneSubtracts
    <2>3. Leak' = Leak /\ Leak \in {0, 1} /\ Cardinality(Busy) \in Nat
        BY BusyFinite DEF Leak
    <2>4. waitGroup = Cardinality(Busy) + Leak
        BY DEF Inv, Counted
    <2>5. waitGroup' = (Cardinality(Busy) - 1) + Leak /\ waitGroup' \in Nat
        BY <2>1, <2>2, <2>3, <2>4
    <2>6. Counted'
        BY <2>2, <2>3, <2>5 DEF Counted
    <2> QED
        BY <1>2, <2>5, <2>6 DEF Ends
<1> QED
    BY <1>1, <1>2

(* A step that leaves the counter and the served requests alone ends       *)
(* nothing either.                                                         *)
LEMMA QuietEnds ==
    ASSUME Inv, Busy' = Busy, waitGroup' = waitGroup, leaked' = leaked
    PROVE  Ends
BY DEF Ends, Inv, TypeOK, Counted, Leak

(* What is common to the steps of a job that is served or retried. *)
LEMMA JobKeepsInv ==
    ASSUME NEW j \in Jobs, Inv, process = "up",
           UNCHANGED <<process, stopper, errOpen, saveFailed, arrivals>>,
           Ends,
           unsaved' = unsaved \/ (unsaved' = unsaved \cup {j} /\ j \in Busy \ late),
           TypeOK', SleepersAreRetries'
    PROVE  Inv'
<1>0. UNCHANGED <<late, crossed, leaked>> /\ WaitReturned' = WaitReturned
    BY DEF arrivals, WaitReturned
<1>1. BusyAreLate' /\ BusyCrossed'
    BY <1>0 DEF Inv, Ends, BusyAreLate, BusyCrossed
<1>2. ClosedByStop' /\ LeakedWaits'
    BY <1>0 DEF Inv, ClosedByStop, LeakedWaits, Waiting
<1>3. SavedIsSaved'
    <2> SUFFICES ASSUME NEW s \in Stoppers, stopper[s] \in {"saved", "closed", "finalized"},
                        ~saveFailed
                 PROVE  unsaved' = {}
        BY DEF SavedIsSaved
    <2>1. unsaved = {} /\ WaitReturned
        BY DEF Inv, SavedIsSaved, WaitReturned, Returned
    <2> QED
        BY <2>1 DEF Inv, BusyAreLate
<1>4. ExitedByStop' /\ QuietStopIsClean'
    BY DEF ExitedByStop, QuietStopIsClean
<1>5. Counted'
    BY DEF Ends
<1> QED
    BY <1>1, <1>2, <1>3, <1>4, <1>5 DEF Inv

-----------------------------------------------------------------------------
(* The actions. *)

LEMMA UncountedKeeps ==
    ASSUME NEW j \in Jobs, Inv, AnswerUncounted(j)
    PROVE  Inv'
<1>1. /\ Goes(j, "none", Ended(j))
      /\ UNCHANGED <<process, waitGroup, stopper, backend, store, arrivals>>
    BY DEF AnswerUncounted
<1>2. Busy' = Busy
    BY <1>1, LeftIsOut, GoesOn DEF Inv, InService
<1>3. TypeOK' /\ SleepersAreRetries' /\ process = "up"
    BY <1>1, LeftIsOut DEF Inv, TypeOK, SleepersAreRetries, Goes, backend, store, arrivals
<1> QED
    BY <1>1, <1>2, <1>3, QuietEnds, JobKeepsInv DEF backend, store, arrivals

LEMMA CountKeeps ==
    ASSUME NEW j \in Jobs, Inv, Count(j)
    PROVE  Inv'
<1> USE DEF Inv
<1>1. /\ ~IsRetry(j) /\ Goes(j, "none", Begins(j))
      /\ waitGroup' = waitGroup + 1
      /\ late' = IF WaitReturned THEN late \cup {j} ELSE late
      /\ crossed' = (crossed \/ \E s \in Stoppers : stopper[s] = "woken")
      /\ UNCHANGED <<process, stopper, backend, store, leaked>>
    BY DEF Count
<1>2. Begins(j) \in InService
    BY BeginsInService
<1>3. Busy' = Busy \cup {j} /\ j \notin Busy
    BY <1>1, <1>2, GoesIn DEF InService
<1>4. Counted'
    <2>1. Cardinality(Busy)' = Cardinality(Busy) + 1 /\ Cardinality(Busy) \in Nat
        BY <1>3, CountAdds, BusyFinite
    <2>2. Leak' = Leak /\ Leak \in {0, 1}
        BY <1>1 DEF Leak
    <2> QED
        BY <1>1, <2>1, <2>2 DEF Counted
<1>5. TypeOK' /\ SleepersAreRetries' /\ process = "up"
    BY <1>1, <1>2 DEF TypeOK, SleepersAreRetries, Goes, InService, backend, store
<1>6. WaitReturned' = WaitReturned
    BY <1>1 DEF WaitReturned
<1>7. BusyAreLate' /\ BusyCrossed' /\ LeakedWaits'
    BY <1>1, <1>3, <1>6 DEF BusyAreLate, BusyCrossed, LeakedWaits, Waiting
<1>8. ClosedByStop' /\ SavedIsSaved' /\ ExitedByStop' /\ QuietStopIsClean'
    BY <1>1, <1>5 DEF ClosedByStop, SavedIsSaved, ExitedByStop, QuietStopIsClean, backend, store
<1> QED
    BY <1>4, <1>5, <1>7, <1>8

LEMMA AddPanicsKeeps ==
    ASSUME NEW j \in Jobs, Inv, AddPanics(j)
    PROVE  Inv'
<1> USE DEF Inv
<1>1. /\ waitGroup = 0 /\ Waiting # {}
      /\ Goes(j, "none", Ended(j))
      /\ waitGroup' = waitGroup + 1 /\ leaked' = TRUE
      /\ UNCHANGED <<process, stopper, backend, store, late, crossed>>
    BY DEF AddPanics
<1>2. Busy' = Busy
    BY <1>1, LeftIsOut, GoesOn DEF InService
<1>3. Counted'
    <2>1. Cardinality(Busy) \in Nat /\ Leak \in {0, 1}
        BY BusyFinite DEF Leak
    <2>2. Cardinality(Busy) = 0
        BY <1>1, <2>1 DEF Counted
    <2>3. Cardinality(Busy)' = 0 /\ Leak' = 1 /\ waitGroup' = 1
        BY <1>1, <1>2, <2>2 DEF Leak
    <2> QED
        BY <2>3 DEF Counted
<1>4. TypeOK' /\ SleepersAreRetries' /\ process = "up"
    BY <1>1, LeftIsOut DEF TypeOK, SleepersAreRetries, Goes, backend, store
<1>5. WaitReturned' = WaitReturned
    BY <1>1 DEF WaitReturned
<1>6. BusyAreLate' /\ BusyCrossed' /\ LeakedWaits'
    BY <1>1, <1>2, <1>5 DEF BusyAreLate, BusyCrossed, LeakedWaits, Waiting
<1>7. ClosedByStop' /\ SavedIsSaved' /\ ExitedByStop' /\ QuietStopIsClean'
    BY <1>1, <1>4 DEF ClosedByStop, SavedIsSaved, ExitedByStop, QuietStopIsClean, backend, store
<1> QED
    BY <1>3, <1>4, <1>6, <1>7

(* With the counter at zero nothing is being served and nothing has leaked. *)
LEMMA ZeroIsQuiet ==
    ASSUME Inv, waitGroup = 0
    PROVE  Busy = {} /\ ~leaked
<1>1. Cardinality(Busy) \in Nat /\ Leak \in {0, 1}
    BY BusyFinite DEF Leak
<1>2. Cardinality(Busy) = 0 /\ Leak = 0
    BY <1>1 DEF Inv, Counted
<1> QED
    BY <1>2, BusyFinite DEF Leak

LEMMA ReleaseKeeps ==
    ASSUME NEW j \in Jobs, Inv, Release(j)
    PROVE  Inv'
<1> USE DEF Inv
<1>1. /\ Goes(j, "releasing", Ended(j))
      /\ stopper' = [s \in Stoppers |->
                        IF waitGroup = 0 /\ s \in Waiting THEN "woken" ELSE stopper[s]]
      /\ UNCHANGED <<process, waitGroup, backend, store, arrivals>>
    BY DEF Release
<1>2. Busy' = Busy
    BY <1>1, LeftIsOut, GoesOn DEF InService
<1>3. Counted' /\ UNCHANGED <<late, crossed, leaked>>
    BY <1>1, <1>2 DEF Counted, Leak, arrivals
<1>4. TypeOK' /\ SleepersAreRetries' /\ process = "up"
    BY <1>1, <1>3, LeftIsOut DEF TypeOK, SleepersAreRetries, Goes, backend, store
<1>5. \A s \in Stoppers : stopper'[s] = stopper[s]
                             \/ (stopper[s] = "waiting" /\ stopper'[s] = "woken")
    BY <1>1 DEF Waiting
<1>6. BusyAreLate'
    BY <1>2, <1>3, <1>5 DEF BusyAreLate, WaitReturned, Returned
<1>7. BusyCrossed' /\ LeakedWaits'
    <2>1. CASE waitGroup = 0
        BY <1>2, <1>3, <2>1, ZeroIsQuiet DEF BusyCrossed, LeakedWaits
    <2>2. CASE waitGroup # 0
        <3>1. \A s \in Stoppers : stopper'[s] = stopper[s]
            BY <1>1, <2>2
        <3> QED
            BY <1>2, <1>3, <3>1 DEF BusyCrossed, LeakedWaits, Waiting
    <2> QED
        BY <2>1, <2>2
<1>8. ClosedByStop' /\ SavedIsSaved' /\ ExitedByStop' /\ QuietStopIsClean'
    BY <1>1, <1>4, <1>5 DEF ClosedByStop, SavedIsSaved, ExitedByStop, QuietStopIsClean, backend, store
<1> QED
    BY <1>3, <1>4, <1>6, <1>7, <1>8

LEMMA ChangeKeeps ==
    ASSUME NEW j \in Jobs, Inv, Change(j)
    PROVE  Inv'
<1>1. /\ Goes(j, "changing", Left(j)) /\ Written(j) /\ Done(j)
      /\ UNCHANGED <<process, stopper, backend, arrivals>>
    BY DEF Change
<1>2. IF IsRetry(j) THEN Busy' = Busy ELSE j \in Busy /\ Busy' = Busy \ {j}
    BY <1>1, LeftIsOut, GoesOn, GoesOut DEF Inv, InService
<1>3. Ends
    BY <1>1, <1>2, DoneEnds DEF arrivals
<1>4. unsaved' = unsaved \/ (unsaved' = unsaved \cup {j} /\ j \in Busy \ late)
    BY <1>1, <1>2 DEF Written
<1>5. TypeOK' /\ SleepersAreRetries' /\ process = "up"
    BY <1>1, <1>3, LeftIsOut
       DEF Inv, TypeOK, SleepersAreRetries, Goes, Written, Ends, backend, arrivals
<1> QED
    BY <1>1, <1>3, <1>4, <1>5, JobKeepsInv DEF Written, backend, arrivals

LEMMA NoticeKeeps ==
    ASSUME NEW j \in Jobs, Inv, Notice(j)
    PROVE  Inv'
<1>1. /\ Goes(j, "noticing", "sending") /\ errLoop' = "busy"
      /\ UNCHANGED <<process, waitGroup, stopper, errOpen, locker, store, arrivals>>
    BY DEF Notice
<1>2. Busy' = Busy
    BY <1>1, GoesOn DEF Inv, InService
<1>3. TypeOK' /\ SleepersAreRetries' /\ process = "up"
    BY <1>1 DEF Inv, TypeOK, SleepersAreRetries, Goes, InService, store, arrivals
<1> QED
    BY <1>1, <1>2, <1>3, QuietEnds, JobKeepsInv DEF store, arrivals

LEMMA LockPspKeeps ==
    ASSUME NEW j \in Jobs, Inv, LockPsp(j)
    PROVE  Inv'
<1>1. /\ Goes(j, "asking", "locking") /\ locker' = j
      /\ UNCHANGED <<process, waitGroup, stopper, errOpen, errLoop, store, arrivals>>
    BY DEF LockPsp
<1>2. Busy' = Busy
    BY <1>1, GoesOn DEF Inv, InService
<1>3. TypeOK' /\ SleepersAreRetries' /\ process = "up"
    BY <1>1 DEF Inv, TypeOK, SleepersAreRetries, Goes, InService, store, arrivals
<1> QED
    BY <1>1, <1>2, <1>3, QuietEnds, JobKeepsInv DEF store, arrivals

LEMMA TokenKeeps ==
    ASSUME NEW j \in Jobs, Inv, Token(j)
    PROVE  Inv'
<1>1. locker' = None /\ UNCHANGED <<process, stopper, errOpen, errLoop, store, arrivals>>
    BY DEF Token
<1>2. CASE Goes(j, "locking", "sending") /\ UNCHANGED waitGroup
    <2>1. Busy' = Busy
        BY <1>2, GoesOn DEF Inv, InService
    <2>2. TypeOK' /\ SleepersAreRetries' /\ process = "up"
        BY <1>1, <1>2 DEF Inv, TypeOK, SleepersAreRetries, Goes, InService, store, arrivals
    <2> QED
        BY <1>1, <1>2, <2>1, <2>2, QuietEnds, JobKeepsInv DEF store, arrivals
<1>3. CASE Goes(j, "locking", Left(j)) /\ Done(j)
    <2>1. IF IsRetry(j) THEN Busy' = Busy ELSE j \in Busy /\ Busy' = Busy \ {j}
        BY <1>3, LeftIsOut, GoesOn, GoesOut DEF Inv, InService
    <2>2. Ends
        BY <1>1, <1>3, <2>1, DoneEnds DEF arrivals
    <2>3. TypeOK' /\ SleepersAreRetries' /\ process = "up"
        BY <1>1, <1>3, <2>2, LeftIsOut
           DEF Inv, TypeOK, SleepersAreRetries, Goes, Ends, store, arrivals
    <2> QED
        BY <1>1, <2>2, <2>3, JobKeepsInv DEF store, arrivals
<1> QED
    BY <1>2, <1>3 DEF Token

LEMMA SentKeeps ==
    ASSUME NEW j \in Jobs, Inv, Sent(j)
    PROVE  Inv'
<1> DEFINE next == <<j[1], j[2] + 1>>
<1>1. /\ process = "up" /\ job[j] = "sending" /\ Written(j) /\ Done(j)
      /\ UNCHANGED <<process, stopper, backend, arrivals>>
    BY DEF Sent
<1>2. /\ j # next
      /\ next \in Jobs => IsRetry(next)
    BY JobNumbers, ShutdownAssumption DEF IsRetry
<1>3. /\ job' \in [Jobs -> {"none", "asleep", "releasing", "over"} \cup InService]
      /\ job'[j] = Left(j)
      /\ \A i \in Jobs \ {j} : job'[i] = job[i] \/ (i = next /\ job'[i] = "asleep")
    <2>1. CASE job' = [job EXCEPT ![j] = Left(j)]
        BY <2>1, LeftIsOut DEF Inv, TypeOK
    <2>2. CASE job' = [job EXCEPT ![j] = Left(j), ![next] = "asleep"]
        BY <1>2, <2>2, LeftIsOut DEF Inv, TypeOK
    <2> QED
        BY <2>1, <2>2 DEF Sent
<1>4. IF IsRetry(j) THEN Busy' = Busy ELSE j \in Busy /\ Busy' = Busy \ {j}
    <2>1. \A i \in Jobs \ {j} : i \in Busy' <=> i \in Busy
        BY <1>2, <1>3 DEF Busy, IsRetry
    <2>2. j \notin Busy'
        BY <1>3, LeftIsOut DEF Busy, InService
    <2>3. j \in Busy <=> ~IsRetry(j)
        BY <1>1 DEF Busy, InService
    <2>4. Busy \subseteq Jobs /\ Busy' \subseteq Jobs
        BY DEF Busy
    <2> QED
        BY <2>1, <2>2, <2>3, <2>4
<1>5. Ends
    BY <1>1, <1>4, DoneEnds DEF arrivals
<1>6. unsaved' = unsaved \/ (unsaved' = unsaved \cup {j} /\ j \in Busy \ late)
    BY <1>1, <1>4 DEF Written
<1>7. TypeOK'
    BY <1>1, <1>3, <1>5 DEF Inv, TypeOK, Written, Ends, backend, arrivals
<1>8. SleepersAreRetries'
    BY <1>2, <1>3, LeftIsOut DEF Inv, SleepersAreRetries, IsRetry
<1> QED
    BY <1>1, <1>5, <1>6, <1>7, <1>8, JobKeepsInv DEF Written, backend, arrivals

LEMMA RetryWakesKeeps ==
    ASSUME NEW j \in Jobs, Inv, RetryWakes(j)
    PROVE  Inv'
<1>1. /\ Goes(j, "asleep", Begins(j))
      /\ UNCHANGED <<process, waitGroup, stopper, backend, store, arrivals>>
    BY DEF RetryWakes
<1>2. IsRetry(j)
    BY <1>1 DEF Inv, SleepersAreRetries, Goes
<1>3. Busy' = Busy
    BY <1>1, <1>2, GoesOn DEF Inv
<1>4. TypeOK' /\ SleepersAreRetries' /\ process = "up"
    BY <1>1, BeginsInService DEF Inv, TypeOK, SleepersAreRetries, Goes, InService, backend, store, arrivals
<1> QED
    BY <1>1, <1>3, <1>4, QuietEnds, JobKeepsInv DEF backend, store, arrivals

LEMMA NoticePanicsKeeps ==
    ASSUME NEW j \in Jobs, Inv, NoticePanics(j)
    PROVE  Inv'
<1> USE DEF Inv
<1>1. /\ job[j] = "noticing" /\ ~errOpen /\ process' = "panicked"
      /\ UNCHANGED <<job, waitGroup, stopper, backend, store, arrivals>>
    BY DEF NoticePanics
<1>2. Busy' = Busy
    BY <1>1 DEF Busy
<1>3. QuietStopIsClean'
    <2>1. CASE IsRetry(j)
        BY <1>1, <2>1 DEF QuietStopIsClean
    <2>2. CASE ~IsRetry(j)
        <3>1. j \in Busy
            BY <1>1, <2>2 DEF Busy, InService
        <3>2. WaitReturned
            BY <1>1 DEF ClosedByStop, WaitReturned, Returned
        <3>3. late' # {}
            BY <1>1, <3>1, <3>2 DEF BusyAreLate, arrivals
        <3> QED
            BY <3>3 DEF QuietStopIsClean
    <2> QED
        BY <2>1, <2>2
<1>4. TypeOK' /\ Counted' /\ BusyAreLate' /\ BusyCrossed' /\ LeakedWaits' /\ SleepersAreRetries'
    BY <1>1, <1>2 DEF TypeOK, Counted, Leak, BusyAreLate, BusyCrossed, LeakedWaits, Waiting,
                      SleepersAreRetries, WaitReturned, backend, store, arrivals
<1>5. ClosedByStop' /\ SavedIsSaved' /\ ExitedByStop'
    BY <1>1 DEF ClosedByStop, SavedIsSaved, ExitedByStop, backend, store
<1> QED
    BY <1>3, <1>4, <1>5

LEMMA LogNoticeKeeps ==
    ASSUME Inv, LogNotice
    PROVE  Inv'
<1> USE DEF Inv
<1>1. /\ process = "up" /\ errLoop' = "ready"
      /\ UNCHANGED <<process, job, waitGroup, stopper, errOpen, locker, store, arrivals>>
    BY DEF LogNotice
<1>2. Busy' = Busy
    BY <1>1 DEF Busy
<1>3. TypeOK' /\ Counted' /\ BusyAreLate' /\ BusyCrossed' /\ LeakedWaits' /\ SleepersAreRetries'
    BY <1>1, <1>2 DEF TypeOK, Counted, Leak, BusyAreLate, BusyCrossed, LeakedWaits, Waiting,
                      SleepersAreRetries, WaitReturned, store, arrivals
<1>4. ClosedByStop' /\ SavedIsSaved' /\ ExitedByStop' /\ QuietStopIsClean'
    BY <1>1 DEF ClosedByStop, SavedIsSaved, ExitedByStop, QuietStopIsClean, store, arrivals
<1> QED
    BY <1>3, <1>4

-----------------------------------------------------------------------------
(* The steps of a stop leave the jobs alone. *)

LEMMA StopKeepsJobs ==
    ASSUME Inv, UNCHANGED <<job, waitGroup, arrivals>>
    PROVE  /\ Busy' = Busy /\ Counted' /\ SleepersAreRetries'
           /\ UNCHANGED <<late, crossed, leaked>>
BY DEF Inv, Busy, Counted, Leak, SleepersAreRetries, arrivals

(* A stop that neither waits nor is released leaves those who do alone. *)
LEMMA StopKeepsWaits ==
    ASSUME NEW s \in Stoppers, Inv, Busy' = Busy, UNCHANGED <<late, crossed, leaked>>,
           stopper[s] # "waiting", NEW to, to # "woken",
           stopper' = [stopper EXCEPT ![s] = to]
    PROVE  /\ BusyCrossed' /\ LeakedWaits'
           /\ to \notin Returned \/ WaitReturned => BusyAreLate'
<1>1. \A t \in Stoppers : stopper'[t] = IF t = s THEN to ELSE stopper[t]
    BY DEF Inv, TypeOK
<1>2. BusyCrossed'
    BY <1>1 DEF Inv, BusyCrossed
<1>3. LeakedWaits'
    BY <1>1 DEF Inv, LeakedWaits, Waiting
<1>4. to \notin Returned \/ WaitReturned => BusyAreLate'
    BY <1>1 DEF Inv, BusyAreLate, WaitReturned
<1> QED
    BY <1>2, <1>3, <1>4

LEMMA StopKeeps ==
    ASSUME NEW s \in Stoppers, Inv, Stop(s)
    PROVE  Inv'
<1> USE DEF Inv
<1> DEFINE to == IF waitGroup = 0 THEN "waited" ELSE "waiting"
<1>1. /\ Stops(s, "none", to)
      /\ UNCHANGED <<process, job, waitGroup, backend, store, arrivals>>
    BY DEF Stop
<1>2. /\ Busy' = Busy /\ Counted' /\ SleepersAreRetries'
      /\ UNCHANGED <<late, crossed, leaked>>
    BY <1>1, StopKeepsJobs
<1>3. TypeOK'
    BY <1>1, <1>2 DEF TypeOK, Stops, backend, store
<1>4. BusyCrossed' /\ LeakedWaits' /\ (to \notin Returned \/ WaitReturned => BusyAreLate')
    BY <1>1, <1>2, StopKeepsWaits DEF Stops
<1>5. BusyAreLate'
    <2>1. CASE waitGroup = 0
        BY <1>2, <2>1, ZeroIsQuiet DEF BusyAreLate
    <2>2. CASE waitGroup # 0
        BY <1>4, <2>2 DEF Returned
    <2> QED
        BY <2>1, <2>2
<1>6. ClosedByStop' /\ SavedIsSaved'
    BY <1>1 DEF ClosedByStop, SavedIsSaved, Stops, TypeOK, backend, store
<1>7. ExitedByStop' /\ QuietStopIsClean'
    BY <1>1 DEF ExitedByStop, QuietStopIsClean, Stops
<1> QED
    BY <1>2, <1>3, <1>4, <1>5, <1>6, <1>7

(* A panic of signalSetup ends the process, one of a handler its stop. *)
LEMMA PanicKeeps ==
    ASSUME NEW s \in Stoppers, Inv, process = "up", Panics(s),
           stopper[s] \in {"woken", "saved"},
           UNCHANGED <<job, waitGroup, backend, store, arrivals>>,
           \/ crossed
           \/ \E t \in Stoppers : t # s /\ stopper[t] # "none"
    PROVE  Inv'
<1> USE DEF Inv
<1>1. /\ Busy' = Busy /\ Counted' /\ SleepersAreRetries'
      /\ UNCHANGED <<late, crossed, leaked>>
    BY StopKeepsJobs
<1>2. CASE s = Signal
    <2>1. process' = "panicked" /\ UNCHANGED stopper
        BY <1>2 DEF Panics
    <2>2. TypeOK' /\ BusyAreLate' /\ BusyCrossed' /\ LeakedWaits'
        BY <1>1, <2>1 DEF TypeOK, BusyAreLate, BusyCrossed, LeakedWaits, Waiting, WaitReturned,
                          backend, store
    <2>3. ClosedByStop' /\ SavedIsSaved' /\ ExitedByStop'
        BY <2>1 DEF ClosedByStop, SavedIsSaved, ExitedByStop, backend, store
    <2>4. QuietStopIsClean'
        BY <1>1, <2>1 DEF QuietStopIsClean
    <2> QED
        BY <1>1, <2>2, <2>3, <2>4
<1>3. CASE s # Signal
    <2>1. stopper' = [stopper EXCEPT ![s] = "recovered"] /\ UNCHANGED process
        BY <1>3 DEF Panics
    <2>2. TypeOK'
        BY <1>1, <2>1 DEF TypeOK, backend, store
    <2>3. BusyAreLate' /\ BusyCrossed' /\ LeakedWaits'
        <3>1. /\ stopper[s] # "waiting" /\ "recovered" # "woken"
              /\ "recovered" \notin Returned
            BY DEF Returned
        <3>2. /\ BusyCrossed' /\ LeakedWaits'
              /\ "recovered" \notin Returned \/ WaitReturned => BusyAreLate'
            BY <1>1, <2>1, <3>1, StopKeepsWaits
        <3> QED
            BY <3>1, <3>2
    <2>4. ClosedByStop' /\ SavedIsSaved'
        BY <2>1 DEF ClosedByStop, SavedIsSaved, TypeOK, backend, store
    <2>5. ExitedByStop' /\ QuietStopIsClean'
        BY <2>1 DEF ExitedByStop, QuietStopIsClean
    <2> QED
        BY <1>1, <2>2, <2>3, <2>4, <2>5
<1> QED
    BY <1>2, <1>3

LEMMA WaitReturnsKeeps ==
    ASSUME NEW s \in Stoppers, Inv, WaitReturns(s)
    PROVE  Inv'
<1> USE DEF Inv
<1>1. /\ process = "up" /\ stopper[s] = "woken"
      /\ UNCHANGED <<job, waitGroup, backend, store, arrivals>>
    BY DEF WaitReturns
<1>2. CASE waitGroup = 0 /\ Waiting = {}
    <2>1. Stops(s, "woken", "waited") /\ UNCHANGED process
        BY <1>2 DEF WaitReturns
    <2>2. /\ Busy' = Busy /\ Counted' /\ SleepersAreRetries'
          /\ UNCHANGED <<late, crossed, leaked>>
        BY <1>1, StopKeepsJobs
    <2>3. TypeOK'
        BY <1>1, <2>1, <2>2 DEF TypeOK, Stops, backend, store
    <2>4. BusyCrossed' /\ LeakedWaits'
        BY <1>1, <2>1, <2>2, StopKeepsWaits DEF Stops
    <2>5. BusyAreLate'
        BY <1>2, <2>2, ZeroIsQuiet DEF BusyAreLate
    <2>6. ClosedByStop' /\ SavedIsSaved'
        BY <1>1, <2>1 DEF ClosedByStop, SavedIsSaved, Stops, TypeOK, backend, store
    <2>7. ExitedByStop' /\ QuietStopIsClean'
        BY <1>1, <2>1 DEF ExitedByStop, QuietStopIsClean
    <2> QED
        BY <2>2, <2>3, <2>4, <2>5, <2>6, <2>7
<1>3. CASE Waiting # {}
    <2>1. Panics(s)
        BY <1>3 DEF WaitReturns
    <2>2. \E t \in Stoppers : t # s /\ stopper[t] # "none"
        BY <1>1, <1>3 DEF Waiting
    <2> QED
        BY <1>1, <2>1, <2>2, PanicKeeps
<1>4. CASE waitGroup # 0 /\ Waiting = {}
    <2>1. Panics(s)
        BY <1>4 DEF WaitReturns
    <2>2. Leak = 0
        BY <1>4 DEF LeakedWaits, Leak
    <2>3. Busy # {}
        BY <1>4, <2>2, BusyFinite DEF Counted
    <2>4. crossed
        BY <1>1, <2>3 DEF BusyCrossed
    <2> QED
        BY <1>1, <2>1, <2>4, PanicKeeps
<1> QED
    BY <1>2, <1>3, <1>4

LEMMA FlushCacheKeeps ==
    ASSUME NEW s \in Stoppers, Inv, FlushCache(s)
    PROVE  Inv'
<1> USE DEF Inv
<1>1. /\ Stops(s, "waited", "saved")
      /\ \/ unsaved' = {} /\ UNCHANGED saveFailed
         \/ saveFailed' = TRUE /\ UNCHANGED unsaved
      /\ UNCHANGED <<process, job, waitGroup, backend, arrivals>>
    BY DEF FlushCache
<1>2. /\ Busy' = Busy /\ Counted' /\ SleepersAreRetries'
      /\ UNCHANGED <<late, crossed, leaked>>
    BY <1>1, StopKeepsJobs
<1>3. TypeOK'
    BY <1>1, <1>2 DEF TypeOK, Stops, backend
<1>4. BusyAreLate' /\ BusyCrossed' /\ LeakedWaits'
    BY <1>1, <1>2, StopKeepsWaits DEF Stops, WaitReturned, Returned
<1>5. SavedIsSaved'
    BY <1>1 DEF SavedIsSaved
<1>6. ClosedByStop'
    BY <1>1 DEF ClosedByStop, Stops, TypeOK, backend
<1>7. ExitedByStop' /\ QuietStopIsClean'
    BY <1>1 DEF ExitedByStop, QuietStopIsClean, Stops
<1> QED
    BY <1>2, <1>3, <1>4, <1>5, <1>6, <1>7

LEMMA CloseErrChanKeeps ==
    ASSUME NEW s \in Stoppers, Inv, CloseErrChan(s)
    PROVE  Inv'
<1> USE DEF Inv
<1>1. /\ process = "up" /\ stopper[s] = "saved"
      /\ UNCHANGED <<job, waitGroup, errLoop, locker, store, arrivals>>
    BY DEF CloseErrChan
<1>2. CASE errOpen
    <2>1. Stops(s, "saved", "closed") /\ errOpen' = FALSE /\ UNCHANGED process
        BY <1>2 DEF CloseErrChan
    <2>2. /\ Busy' = Busy /\ Counted' /\ SleepersAreRetries'
          /\ UNCHANGED <<late, crossed, leaked>>
        BY <1>1, StopKeepsJobs
    <2>3. TypeOK'
        BY <1>1, <2>1, <2>2 DEF TypeOK, Stops, store
    <2>4. BusyAreLate' /\ BusyCrossed' /\ LeakedWaits'
        BY <1>1, <2>1, <2>2, StopKeepsWaits DEF Stops, WaitReturned, Returned
    <2>5. ClosedByStop'
        BY <2>1 DEF ClosedByStop, Stops, TypeOK
    <2>6. SavedIsSaved'
        BY <1>1, <2>1 DEF SavedIsSaved, Stops, store
    <2>7. ExitedByStop' /\ QuietStopIsClean'
        BY <1>1, <2>1 DEF ExitedByStop, QuietStopIsClean
    <2> QED
        BY <2>2, <2>3, <2>4, <2>5, <2>6, <2>7
<1>3. CASE ~errOpen
    <2>1. Panics(s) /\ UNCHANGED errOpen
        BY <1>3 DEF CloseErrChan
    <2>2. \E t \in Stoppers : t # s /\ stopper[t] # "none"
        BY <1>1, <1>3 DEF ClosedByStop
    <2> QED
        BY <1>1, <2>1, <2>2, PanicKeeps DEF backend
<1> QED
    BY <1>2, <1>3

LEMMA FinalizeKeeps ==
    ASSUME NEW s \in Stoppers, Inv, Finalize(s)
    PROVE  Inv'
<1> USE DEF Inv
<1>1. /\ Stops(s, "closed", "finalized")
      /\ UNCHANGED <<process, job, waitGroup, backend, store, arrivals>>
    BY DEF Finalize
<1>2. /\ Busy' = Busy /\ Counted' /\ SleepersAreRetries'
      /\ UNCHANGED <<late, crossed, leaked>>
    BY <1>1, StopKeepsJobs
<1>3. TypeOK'
    BY <1>1, <1>2 DEF TypeOK, Stops, backend, store
<1>4. BusyAreLate' /\ BusyCrossed' /\ LeakedWaits'
    BY <1>1, <1>2, StopKeepsWaits DEF Stops, WaitReturned, Returned
<1>5. ClosedByStop' /\ SavedIsSaved'
    BY <1>1 DEF ClosedByStop, SavedIsSaved, Stops, TypeOK, backend, store
<1>6. ExitedByStop' /\ QuietStopIsClean'
    BY <1>1 DEF ExitedByStop, QuietStopIsClean, Stops
<1> QED
    BY <1>2, <1>3, <1>4, <1>5, <1>6

LEMMA ExitKeeps ==
    ASSUME NEW s \in Stoppers, Inv, Exit(s)
    PROVE  Inv'
<1> USE DEF Inv
<1>1. /\ stopper[s] = "finalized" /\ process' = "exited"
      /\ UNCHANGED <<job, waitGroup, stopper, backend, store, arrivals>>
    BY DEF Exit
<1>2. /\ Busy' = Busy /\ Counted' /\ SleepersAreRetries'
      /\ UNCHANGED <<late, crossed, leaked>>
    BY <1>1, StopKeepsJobs
<1>3. TypeOK' /\ BusyAreLate' /\ BusyCrossed' /\ LeakedWaits'
    BY <1>1, <1>2 DEF TypeOK, BusyAreLate, BusyCrossed, LeakedWaits, Waiting, WaitReturned,
                      backend, store
<1>4. ClosedByStop' /\ SavedIsSaved' /\ ExitedByStop' /\ QuietStopIsClean'
    BY <1>1 DEF ClosedByStop, SavedIsSaved, ExitedByStop, QuietStopIsClean, backend, store
<1> QED
    BY <1>2, <1>3, <1>4

-----------------------------------------------------------------------------
LEMMA InitInv == Init => Inv
<1> SUFFICES ASSUME Init PROVE Inv
    OBVIOUS
<1>1. Busy = {}
    BY DEF Init, Busy, InService
<1>2. Counted
    BY <1>1, FS_EmptySet DEF Init, Counted, Leak
<1>3. TypeOK
    BY DEF Init, TypeOK
<1>4. BusyAreLate /\ BusyCrossed /\ LeakedWaits /\ SleepersAreRetries /\ ClosedByStop
    BY <1>1 DEF Init, BusyAreLate, BusyCrossed, LeakedWaits, SleepersAreRetries, ClosedByStop
<1>5. SavedIsSaved /\ ExitedByStop /\ QuietStopIsClean
    BY DEF Init, SavedIsSaved, ExitedByStop, QuietStopIsClean
<1> QED
    BY <1>2, <1>3, <1>4, <1>5 DEF Inv

LEMMA StutterKeeps ==
    ASSUME Inv, UNCHANGED vars
    PROVE  Inv'
<1>1. UNCHANGED <<process, job, waitGroup, stopper, errOpen, errLoop, locker, unsaved,
                  saveFailed, late, crossed, leaked>>
    BY DEF vars
<1>2. Busy' = Busy /\ Counted' /\ SleepersAreRetries'
    BY <1>1, StopKeepsJobs DEF arrivals
<1>3. TypeOK' /\ BusyAreLate' /\ BusyCrossed' /\ LeakedWaits'
    BY <1>1, <1>2 DEF Inv, TypeOK, BusyAreLate, BusyCrossed, LeakedWaits, Waiting, WaitReturned
<1>4. ClosedByStop' /\ SavedIsSaved' /\ ExitedByStop' /\ QuietStopIsClean'
    BY <1>1 DEF Inv, ClosedByStop, SavedIsSaved, ExitedByStop, QuietStopIsClean
<1> QED
    BY <1>2, <1>3, <1>4 DEF Inv

LEMMA NextInv == Inv /\ [Next]_vars => Inv'
<1> SUFFICES ASSUME Inv, [Next]_vars PROVE Inv'
    OBVIOUS
<1>1. ASSUME NEW j \in Jobs, AnswerUncounted(j) \/ Count(j) \/ AddPanics(j) PROVE Inv'
    BY <1>1, UncountedKeeps, CountKeeps, AddPanicsKeeps
<1>2. ASSUME NEW s \in Stoppers, Stop(s) PROVE Inv'
    BY <1>2, StopKeeps
<1>3. ASSUME NEW j \in Jobs, JobStep(j) PROVE Inv'
    BY <1>3, ChangeKeeps, ReleaseKeeps, NoticeKeeps, NoticePanicsKeeps, LockPspKeeps, TokenKeeps, SentKeeps,
       RetryWakesKeeps DEF JobStep
<1>4. ASSUME NEW s \in Stoppers, StopStep(s) PROVE Inv'
    BY <1>4, WaitReturnsKeeps, FlushCacheKeeps, CloseErrChanKeeps, FinalizeKeeps, ExitKeeps
       DEF StopStep
<1> QED
    BY <1>1, <1>2, <1>3, <1>4, LogNoticeKeeps, StutterKeeps DEF Next, Works

LEMMA InvHolds == Spec => []Inv
BY InitInv, NextInv, PTL DEF Spec

(***************************************************************************)
(* The counter of the wait group never goes below zero (which would        *)
(* panic), and every other variable keeps its type: each Done of ServeHTTP *)
(* has had its Add, even after an Add that panicked.                       *)
(***************************************************************************)
THEOREM StopTypes == Spec => []TypeOK
<1>1. Inv => TypeOK
    BY DEF Inv
<1> QED
    BY <1>1, InvHolds, PTL

(***************************************************************************)
(* For any requests and any number of stops: when the process exits,       *)
(* whatever is still being served was counted after a Wait had returned,   *)
(* or is a retry, which stop does not count.                               *)
(***************************************************************************)
THEOREM StopIsGraceful == Spec => []GracefulStop
<1>1. Inv => GracefulStop
    <2> SUFFICES ASSUME Inv, process = "exited", NEW j \in Jobs, job[j] \in InService
                 PROVE  j \in late \/ IsRetry(j)
        BY DEF GracefulStop
    <2>1. WaitReturned
        BY DEF Inv, ExitedByStop, WaitReturned, Returned
    <2>2. IsRetry(j) \/ j \in Busy
        BY DEF Busy
    <2> QED
        BY <2>1, <2>2 DEF Inv, BusyAreLate
<1> QED
    BY <1>1, InvHolds, PTL

(***************************************************************************)
(* For any requests and any number of stops: what FlushCache could have    *)
(* saved is saved when the process exits, unless redis refused.            *)
(***************************************************************************)
THEOREM StopSaves == Spec => []SavedBeforeExit
<1>1. Inv => SavedBeforeExit
    BY DEF Inv, ExitedByStop, SavedIsSaved, SavedBeforeExit
<1> QED
    BY <1>1, InvHolds, PTL

(***************************************************************************)
(* For any requests, however often they come: a panic that ends the        *)
(* process needs a request counted once a Wait was released, a retry, or a *)
(* second stop.                                                            *)
(***************************************************************************)
THEOREM OneStopIsClean == Spec => []QuietStopIsClean
<1>1. Inv => QuietStopIsClean
    BY DEF Inv
<1> QED
    BY <1>1, InvHolds, PTL
=============================================================================
