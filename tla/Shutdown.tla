------------------------------ MODULE Shutdown ------------------------------
(***************************************************************************)
(* How uniqush stops: ServeHTTP and stop (restapi.go), called by /stop or  *)
(* by the goroutine that waits for SIGTERM (restapi_unix.go), Finalize and *)
(* the goroutines the backend leaves behind (pushbackend.go), and the main *)
(* goroutine (configparser.go).  The jobs are the requests and the retries *)
(* of their pushes; an ADM push also needs the one goroutine that holds    *)
(* the tokens (srv/adm.go).                                                *)
(***************************************************************************)
EXTENDS Naturals, FiniteSets

CONSTANTS
    Requests,       \* the requests that may come, again and again
    Kind,           \* what each asks for
    Signal,         \* signalSetup's goroutine
    Retried,        \* bound: the pushes that may be retried; each comes once
    MaxRetries,     \* bound: retries of one of them
    None

Kinds == {"change", "push", "notice", "adm", "stop"}

Served == {r \in Requests : Kind[r] # "stop"}
Pushes == {r \in Requests : Kind[r] \in {"push", "notice", "adm"}}
Stoppers == {r \in Requests : Kind[r] = "stop"} \cup {Signal}

ASSUME ShutdownAssumption ==
    /\ IsFiniteSet(Requests)
    /\ Kind \in [Requests -> Kinds]
    /\ Retried \subseteq Pushes /\ MaxRetries \in Nat
    /\ None \notin Requests \cup (Requests \X Nat) /\ Signal \notin Requests

(* The k-th call of pushImpl for a request; the first is the request. *)
Jobs == (Served \X {0}) \cup (Retried \X (1..MaxRetries))

KindOf(j) == Kind[j[1]]
IsRetry(j) == j[2] > 0

VARIABLES
    process,        \* "up", "exited" or "panicked"
    job,            \* where each job is
    waitGroup,      \* api.waitGroup's counter
    stopper,        \* where each caller of stop is
    errOpen,        \* errChan is not closed
    errLoop,        \* processError
    locker,         \* the job admPspLocker is asking a token for
    unsaved,        \* requests that may have written to redis since its last SAVE, the
                    \* late ones left out
    saveFailed,     \* history: FlushCache returned an error, which is ignored
    late,           \* history: requests counted after some Wait had returned
    crossed,        \* history: a request was counted while a Wait was returning
    leaked          \* an Add panicked: its increment is never taken back

vars == <<process, job, waitGroup, stopper, errOpen, errLoop, locker,
          unsaved, saveFailed, late, crossed, leaked>>

InService == {"changing", "noticing", "asking", "locking", "sending"}

TypeOK ==
    /\ process \in {"up", "exited", "panicked"}
    /\ job \in [Jobs -> {"none", "asleep", "releasing", "over"} \cup InService]
    /\ waitGroup \in Nat
    /\ stopper \in [Stoppers -> {"none", "waiting", "woken", "waited", "saved", "closed",
                                 "finalized", "recovered"}]
    /\ errOpen \in BOOLEAN /\ saveFailed \in BOOLEAN
    /\ errLoop \in {"ready", "busy"}
    /\ locker \in Jobs \cup {None}
    /\ unsaved \subseteq Jobs /\ late \subseteq Jobs
    /\ crossed \in BOOLEAN /\ leaked \in BOOLEAN

Init ==
    /\ process = "up"
    /\ job = [j \in Jobs |-> "none"]
    /\ waitGroup = 0
    /\ stopper = [s \in Stoppers |-> "none"]
    /\ errOpen = TRUE /\ errLoop = "ready"
    /\ locker = None
    /\ unsaved = {} /\ saveFailed = FALSE
    /\ late = {} /\ crossed = FALSE /\ leaked = FALSE

Goes(j, from, to) ==
    /\ process = "up"
    /\ job[j] = from
    /\ job' = [job EXCEPT ![j] = to]

backend == <<errOpen, errLoop, locker>>
store == <<unsaved, saveFailed>>
arrivals == <<late, crossed, leaked>>

-----------------------------------------------------------------------------
(* ServeHTTP *)

(* Clients may ask for the same again. *)
Ended(j) == IF j[1] \in Retried THEN "over" ELSE "none"

(* A request that is not authorized, or for one of the paths that are      *)
(* answered before the count.                                              *)
AnswerUncounted(j) ==
    /\ ~IsRetry(j)
    /\ Goes(j, "none", Ended(j))
    /\ UNCHANGED <<process, waitGroup, stopper, backend, store, arrivals>>

(* A change is made; a push reaches the Push of its service type. *)
Begins(j) ==
    CASE KindOf(j) = "change" -> "changing"
      [] KindOf(j) = "push"   -> "sending"
      [] KindOf(j) = "notice" -> "noticing"
      [] KindOf(j) = "adm"    -> "asking"

Returned == {"waited", "saved", "closed", "finalized"}
WaitReturned == \E s \in Stoppers : stopper[s] \in Returned
Waiting == {s \in Stoppers : stopper[s] = "waiting"}

(* waitGroup.Add(1).  The listener is open until stop has waited, and the  *)
(* connections that are open bring requests until the process ends.        *)
Count(j) ==
    /\ ~IsRetry(j)
    /\ waitGroup > 0 \/ Waiting = {}
    /\ Goes(j, "none", Begins(j))
    /\ waitGroup' = waitGroup + 1
    /\ late' = IF WaitReturned THEN late \cup {j} ELSE late
    /\ crossed' = (crossed \/ \E s \in Stoppers : stopper[s] = "woken")
    /\ UNCHANGED <<process, stopper, backend, store, leaked>>

(* Add, between the decrement of the last Done and its release of the      *)
(* waiters: it panics, before the handler has deferred its Done.           *)
AddPanics(j) ==
    /\ ~IsRetry(j)
    /\ waitGroup = 0 /\ Waiting # {}
    /\ Goes(j, "none", Ended(j))
    /\ waitGroup' = waitGroup + 1
    /\ leaked' = TRUE
    /\ UNCHANGED <<process, stopper, backend, store, late, crossed>>

(* The Done that makes the counter zero has the waiters to release. *)
Left(j) ==
    IF ~IsRetry(j) /\ waitGroup = 1 /\ Waiting # {} THEN "releasing" ELSE Ended(j)

(* waitGroup.Done(), before the server sends the response; nobody waits    *)
(* for a retry.                                                            *)
Done(j) ==
    waitGroup' = IF IsRetry(j) THEN waitGroup ELSE waitGroup - 1

(* The rest of the last Done: it wakes the waiters, or, when the counter   *)
(* has changed meanwhile, panics in a handler and wakes nobody.  That it   *)
(* looks at the counter and resets it is one step.                         *)
Release(j) ==
    /\ Goes(j, "releasing", Ended(j))
    /\ stopper' = [s \in Stoppers |->
                      IF waitGroup = 0 /\ s \in Waiting THEN "woken" ELSE stopper[s]]
    /\ UNCHANGED <<process, waitGroup, backend, store, arrivals>>

(* What a request, accepted or refused, may have written to redis. *)
Written(j) ==
    /\ unsaved' = IF IsRetry(j) \/ j \in late THEN unsaved ELSE unsaved \cup {j}
    /\ UNCHANGED saveFailed

Change(j) ==
    /\ Goes(j, "changing", Left(j))
    /\ Written(j)
    /\ Done(j)
    /\ UNCHANGED <<process, stopper, backend, arrivals>>

-----------------------------------------------------------------------------
(* A push: the request's, or a retry's *)

(* uniqush.http2=0: APNs reports it on errChan, which has no buffer. *)
Notice(j) ==
    /\ errOpen /\ errLoop = "ready"
    /\ Goes(j, "noticing", "sending")
    /\ errLoop' = "busy"
    /\ UNCHANGED <<process, waitGroup, stopper, errOpen, locker, store, arrivals>>

(* A send on a closed channel, in a goroutine of the push: nobody recovers. *)
NoticePanics(j) ==
    /\ process = "up" /\ job[j] = "noticing" /\ ~errOpen
    /\ process' = "panicked"
    /\ UNCHANGED <<job, waitGroup, stopper, backend, store, arrivals>>

(* lockPsp: the request is handed to admPspLocker when that is free. *)
LockPsp(j) ==
    /\ locker = None
    /\ Goes(j, "asking", "locking")
    /\ locker' = j
    /\ UNCHANGED <<process, waitGroup, stopper, errOpen, errLoop, store, arrivals>>

(* Defect: admPspLocker returns when it cannot get a token. *)
TokenOnce(j) ==
    /\ locker = j
    /\ \/ Goes(j, "locking", "sending") /\ locker' = None /\ UNCHANGED waitGroup
       \/ Goes(j, "locking", Left(j)) /\ Done(j) /\ UNCHANGED locker
    /\ UNCHANGED <<process, stopper, errOpen, errLoop, store, arrivals>>

(* admPspLocker answers with a token, old or new, or with an error, which  *)
(* ends the push.  Its HTTP client has no timeout.                         *)
Token(j) ==
    /\ locker = j
    /\ \/ Goes(j, "locking", "sending") /\ UNCHANGED waitGroup
       \/ Goes(j, "locking", Left(j)) /\ Done(j)
    /\ locker' = None
    /\ UNCHANGED <<process, stopper, errOpen, errLoop, store, arrivals>>

(* The push service has answered; fixRetryError may leave a goroutine. *)
Sent(j) ==
    /\ process = "up" /\ job[j] = "sending"
    /\ \/ job' = [job EXCEPT ![j] = Left(j)]
       \/ /\ <<j[1], j[2] + 1>> \in Jobs
          /\ job' = [job EXCEPT ![j] = Left(j), ![<<j[1], j[2] + 1>>] = "asleep"]
    /\ Written(j)
    /\ Done(j)
    /\ UNCHANGED <<process, stopper, backend, arrivals>>

(* time.After fires. *)
RetryWakes(j) ==
    /\ Goes(j, "asleep", Begins(j))
    /\ UNCHANGED <<process, waitGroup, stopper, backend, store, arrivals>>

(* processError logs the notice. *)
LogNotice ==
    /\ process = "up" /\ errLoop = "busy"
    /\ errLoop' = "ready"
    /\ UNCHANGED <<process, job, waitGroup, stopper, errOpen, locker, store, arrivals>>

-----------------------------------------------------------------------------
(* stop *)

Stops(s, from, to) ==
    /\ process = "up"
    /\ stopper[s] = from
    /\ stopper' = [stopper EXCEPT ![s] = to]

(* Defect: SIGTERM ends the process without the wait. *)
ExitOnSignal(s) ==
    /\ Stops(s, "none", CASE s = Signal -> "finalized"
                          [] waitGroup = 0 -> "waited"
                          [] OTHER -> "waiting")
    /\ UNCHANGED <<process, job, waitGroup, backend, store, arrivals>>

(* Defect: stop closes errChan itself, before Finalize does. *)
CloseFirst(s) ==
    /\ Stops(s, "none", IF waitGroup = 0 THEN "waited" ELSE "waiting")
    /\ errOpen' = FALSE
    /\ UNCHANGED <<process, job, waitGroup, errLoop, locker, store, arrivals>>

(* waitGroup.Wait() *)
Stop(s) ==
    /\ Stops(s, "none", IF waitGroup = 0 THEN "waited" ELSE "waiting")
    /\ UNCHANGED <<process, job, waitGroup, backend, store, arrivals>>

(* A panic of the handler is recovered by the server, one of signalSetup   *)
(* is not.                                                                 *)
Panics(s) ==
    IF s = Signal
    THEN process' = "panicked" /\ UNCHANGED stopper
    ELSE stopper' = [stopper EXCEPT ![s] = "recovered"] /\ UNCHANGED process

(* The wait group panics when it was used again before Wait returned. *)
WaitReturns(s) ==
    /\ process = "up" /\ stopper[s] = "woken"
    /\ IF waitGroup = 0 /\ Waiting = {}
       THEN Stops(s, "woken", "waited") /\ UNCHANGED process
       ELSE Panics(s)
    /\ UNCHANGED <<job, waitGroup, backend, store, arrivals>>

(* Defect: the save goes on in the background. *)
SaveInBackground(s) ==
    /\ Stops(s, "waited", "saved")
    /\ UNCHANGED <<process, job, waitGroup, backend, store, arrivals>>

(* FlushCache: redis saves; an error is not looked at. *)
FlushCache(s) ==
    /\ Stops(s, "waited", "saved")
    /\ \/ unsaved' = {} /\ UNCHANGED saveFailed
       \/ saveFailed' = TRUE /\ UNCHANGED unsaved
    /\ UNCHANGED <<process, job, waitGroup, backend, arrivals>>

(* close(errChan) *)
CloseErrChan(s) ==
    /\ process = "up" /\ stopper[s] = "saved"
    /\ IF errOpen
       THEN Stops(s, "saved", "closed") /\ errOpen' = FALSE /\ UNCHANGED process
       ELSE Panics(s) /\ UNCHANGED errOpen
    /\ UNCHANGED <<job, waitGroup, errLoop, locker, store, arrivals>>

(* psm.Finalize(), listener.Close(): no new connection, but the ones that  *)
(* are open bring requests until the process ends.                         *)
Finalize(s) ==
    /\ Stops(s, "closed", "finalized")
    /\ UNCHANGED <<process, job, waitGroup, backend, store, arrivals>>

(* stopChan <- true: Run returns, and the process ends with what is left. *)
Exit(s) ==
    /\ process = "up" /\ stopper[s] = "finalized"
    /\ process' = "exited"
    /\ UNCHANGED <<job, waitGroup, stopper, backend, store, arrivals>>

-----------------------------------------------------------------------------
JobStep(j) ==
    \/ Change(j) \/ Release(j) \/ Notice(j) \/ NoticePanics(j) \/ LockPsp(j) \/ Token(j)
    \/ Sent(j) \/ RetryWakes(j)

StopStep(s) ==
    \/ WaitReturns(s) \/ FlushCache(s) \/ CloseErrChan(s) \/ Finalize(s) \/ Exit(s)

Works ==
    \/ \E j \in Jobs : JobStep(j)
    \/ \E s \in Stoppers : StopStep(s)
    \/ LogNotice

Next ==
    \/ \E j \in Jobs : AnswerUncounted(j) \/ Count(j) \/ AddPanics(j)
    \/ \E s \in Stoppers : Stop(s)
    \/ Works

(* Some goroutine that can go on does: push services and redis answer.     *)
(* That no goroutine in particular is promised a turn is enough, because   *)
(* every one of them ends.  A request or a stop need not come, and nothing *)
(* says that requests stop coming.                                         *)
Fairness == WF_vars(Works)

Spec == Init /\ [][Next]_vars /\ Fairness

-----------------------------------------------------------------------------
(* Properties *)

(***************************************************************************)
(* A stop is graceful: every change and push that was counted before a     *)
(* Wait returned, whoever else is stopping, retrying or arriving, has      *)
(* finished by the time the process exits.  Only requests that slipped in  *)
(* between Wait and the exit are cut short.                                *)
(***************************************************************************)
GracefulStop ==
    process = "exited" =>
        \A j \in Jobs : job[j] \in InService => j \in late \/ IsRetry(j)

(***************************************************************************)
(* What a request wrote before Wait returned is in redis's last snapshot   *)
(* when the process exits, unless the SAVE itself failed.                  *)
(***************************************************************************)
SavedBeforeExit ==
    process = "exited" /\ ~saveFailed => unsaved = {}

(***************************************************************************)
(* One stop of a server nobody sends anything more to once its Wait has    *)
(* been released does not panic, unless a retry wakes up after it: errChan *)
(* is closed once, and no push the stop waited for finds it closed.        *)
(***************************************************************************)
QuietStopIsClean ==
    process = "panicked" =>
        \/ late # {} \/ crossed
        \/ \E j \in Jobs : IsRetry(j) /\ job[j] # "none"
        \/ \E s, t \in Stoppers : s # t /\ stopper[s] # "none" /\ stopper[t] # "none"

(***************************************************************************)
(* A stop ends, provided that requests stop arriving: then, once called,   *)
(* the process exits or panics, or this call's own panic is recovered,     *)
(* however the requests, the retries, the token goroutine and other stops  *)
(* interleave.  The one thing that leaves a stop waiting for ever is a     *)
(* request whose Add met the last Done.                                    *)
(***************************************************************************)
StopEnds ==
    <>[][~\E j \in Jobs : Count(j)]_vars =>
        \A s \in Stoppers :
            stopper[s] # "none" ~> process # "up" \/ stopper[s] = "recovered" \/ leaked
=============================================================================
