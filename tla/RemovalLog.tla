----------------------------- MODULE RemovalLog -----------------------------
(***************************************************************************)
(* The log of one service's removed devices (db/removed.go): a redis       *)
(* stream that a script appends to and trims, and /removed, which reads it *)
(* in three commands while pushes go on appending.                         *)
(*                                                                         *)
(* The ids of a stream only grow, entries are added at one end and trimmed *)
(* from the other: the entries are numbered 1, 2, ..., and the stream is   *)
(* first..last.  0 stands for a missing key and for the cursor "0".        *)
(***************************************************************************)
EXTENDS Integers

CONSTANTS
    MaxLen,     \* removedLogLength
    MaxLimit,   \* maxRemovedPerQuery
    MaxRecorded \* bound: removals in one behaviour

ASSUME LogAssumption ==
    /\ MaxLen \in Nat \ {0}
    /\ MaxLimit \in Nat \ {0}
    /\ MaxRecorded \in Nat

VARIABLES
    first, last,    \* the stream removed.dp:<service>
    trimmed,        \* removed.dp.trimmed:<service>
    step,           \* where /removed is
    since,          \* its cursor parameter
    limit,          \* its limit parameter
    batch,          \* the entries it has read
    removed,        \* the entries of the last answer
    next,           \* its cursor
    truncated       \* its truncated flag

stream == <<first, last, trimmed>>
response == <<removed, next, truncated>>
vars == <<first, last, trimmed, step, since, limit, batch, removed, next, truncated>>

TypeOK ==
    /\ first \in Nat \ {0} /\ last \in Nat /\ first <= last + 1
    /\ trimmed \in Nat
    /\ step \in {"idle", "newest", "read", "marker"}
    /\ since \in Nat
    /\ limit \in 1..MaxLimit
    /\ batch \subseteq Nat
    /\ removed \subseteq Nat
    /\ next \in Nat
    /\ truncated \in BOOLEAN

Init ==
    /\ first = 1 /\ last = 0 /\ trimmed = 0
    /\ step = "idle"
    /\ since = 0
    /\ limit = 1
    /\ batch = {}
    /\ removed = {}
    /\ next = 0
    /\ truncated = FALSE

-----------------------------------------------------------------------------
(* Defect: XADD MAXLEN, which does not say what it trimmed. *)
RecordForgets ==
    LET excess == (last + 1 - first) + 1 - MaxLen IN
    /\ last < MaxRecorded
    /\ last' = last + 1
    /\ first' = IF excess > 0 THEN first + excess ELSE first
    /\ UNCHANGED <<trimmed, step, since, limit, batch, response>>

(* recordRemovedScript *)
Record ==
    LET excess == (last + 1 - first) + 1 - MaxLen IN
    /\ last < MaxRecorded
    /\ last' = last + 1
    /\ IF excess > 0
       THEN trimmed' = first + excess - 1 /\ first' = first + excess
       ELSE UNCHANGED <<first, trimmed>>
    /\ UNCHANGED <<step, since, limit, batch, response>>

-----------------------------------------------------------------------------
(* /removed, asked with the cursor of the last answer, one kept from before *)
(* or none, or one that was handed out for another service.                 *)
Query(n, c) ==
    /\ step = "idle"
    /\ step' = "newest"
    /\ limit' = n
    /\ since' = c
    /\ UNCHANGED <<stream, batch, response>>

(* A cursor is refused if it is past the newest entry. *)
InvalidCursor ==
    /\ step = "newest"
    /\ last < since
    /\ step' = "idle"
    /\ UNCHANGED <<stream, since, limit, batch, response>>

XRevRange ==
    /\ step = "newest"
    /\ last >= since
    /\ step' = "read"
    /\ UNCHANGED <<stream, since, limit, batch, response>>

(* The oldest limit entries after the cursor. *)
XRead ==
    LET from == IF since + 1 >= first THEN since + 1 ELSE first
        upto == IF from + limit - 1 <= last THEN from + limit - 1 ELSE last
    IN  /\ step = "read"
        /\ batch' = from..upto
        /\ step' = "marker"
        /\ UNCHANGED <<stream, since, limit, response>>

Newest(S) == CHOOSE i \in S : \A j \in S : j <= i

(* Defect: a truncated answer gives back the cursor it was asked with. *)
AnswerStays ==
    /\ step = "marker"
    /\ truncated' = (trimmed # 0 /\ since < trimmed)
    /\ next' = IF batch = {} \/ truncated' THEN since ELSE Newest(batch)
    /\ removed' = batch
    /\ step' = "idle"
    /\ UNCHANGED <<stream, since, limit, batch>>

(* The trim marker is read last, and the answer goes out with its cursor. *)
Answer ==
    /\ step = "marker"
    /\ truncated' = (trimmed # 0 /\ since < trimmed)
    /\ next' = IF batch = {} THEN since ELSE Newest(batch)
    /\ removed' = batch
    /\ step' = "idle"
    /\ UNCHANGED <<stream, since, limit, batch>>

(* The answer is lost, or redis fails: the caller asks again. *)
Lost ==
    /\ step # "idle"
    /\ step' = "idle"
    /\ UNCHANGED <<stream, since, limit, batch, response>>

Progress == InvalidCursor \/ XRevRange \/ XRead \/ Answer

Next ==
    \/ Record
    \/ (\E n \in 1..MaxLimit, c \in 0..MaxRecorded + 1 : Query(n, c))
    \/ Progress
    \/ Lost

Spec == Init /\ [][Next]_vars

(***************************************************************************)
(* A caller keeps asking, and its answers arrive often enough: fairness of *)
(* the caller, not of uniqush.                                             *)
(***************************************************************************)
PollSpec ==
    /\ Spec
    /\ WF_vars(\E n \in 1..MaxLimit : Query(n, next))
    /\ SF_vars(InvalidCursor) /\ SF_vars(XRevRange) /\ SF_vars(XRead)
    /\ SF_vars(Answer)

-----------------------------------------------------------------------------
(* Properties *)

(***************************************************************************)
(* /removed keeps the promise of RemovalFeed although the stream is        *)
(* trimmed between its commands: no removal is skipped in silence.         *)
(***************************************************************************)
Feed == INSTANCE RemovalFeed WITH
    recorded <- last, asked <- since, answer <- removed

NoSilentLoss == Feed!Spec

(***************************************************************************)
(* The stream is never longer than the length it is trimmed to, and the    *)
(* marker names the newest entry that is no longer in it, which is what    *)
(* the reader's test relies on.                                            *)
(***************************************************************************)
MarkerIsExact ==
    /\ last - first + 1 <= MaxLen
    /\ trimmed = first - 1

(***************************************************************************)
(* An answer never hands out a cursor ahead of the log, whatever cursor it *)
(* was asked with: the caller would be told nothing for as long as the log *)
(* takes to catch up.                                                      *)
(***************************************************************************)
CursorNotAhead == [][Answer => next' <= last]_vars

(***************************************************************************)
(* A caller that from some time on asks with the cursor it was given last  *)
(* catches up once removals stop, whatever was trimmed ahead of it.        *)
(***************************************************************************)
CatchesUp ==
    /\ <>[](last = MaxRecorded)
    /\ <>[][\A n \in 1..MaxLimit, c \in 0..MaxRecorded + 1 :
               Query(n, c) => c = next]_vars
    => <>[](next = MaxRecorded)

=============================================================================
