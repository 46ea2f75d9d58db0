-------------------------- MODULE RemovalLogProofs --------------------------
(***************************************************************************)
(* /removed implements RemovalFeed for every log length, limit and number  *)
(* of removals.                                                            *)
(***************************************************************************)
EXTENDS RemovalLog, TLAPS

(* What a query has read: the entries from..upto were the next ones after   *)
(* the cursor, or later ones if those had been trimmed by then.             *)
BatchIs(from, upto) ==
    /\ batch = from..upto
    /\ from > since /\ upto <= last
    /\ from = since + 1 \/ from <= first

LogInv ==
    /\ TypeOK
    /\ MarkerIsExact
    /\ step \in {"read", "marker"} => since <= last
    /\ step = "marker" => \E from, upto \in Nat : BatchIs(from, upto)

(* The newest entry of a batch is its last number. *)
LEMMA NewestOfInterval ==
    ASSUME NEW a \in Nat, NEW b \in Nat, a <= b
    PROVE  Newest(a..b) = b
<1>1. b \in a..b /\ \A j \in a..b : j <= b
  OBVIOUS
<1>2. \A i \in a..b : (\A j \in a..b : j <= i) => i = b
  OBVIOUS
<1> QED BY <1>1, <1>2 DEF Newest

(* The initial state. *)
LEMMA InitLog == Init => LogInv
<1> SUFFICES ASSUME Init PROVE LogInv
  OBVIOUS
<1>1. 1 \in 1..MaxLimit /\ 0 <= MaxLen
  BY LogAssumption
<1>2. TypeOK
  <2>1. first \in Nat \ {0} /\ last \in Nat /\ first <= last + 1 /\ trimmed \in Nat
    BY DEF Init
  <2>2. since \in Nat /\ next \in Nat /\ limit \in 1..MaxLimit
    BY <1>1 DEF Init
  <2>3. batch \subseteq Nat /\ removed \subseteq Nat
    BY DEF Init
  <2>4. step \in {"idle", "newest", "read", "marker"} /\ truncated \in BOOLEAN
    BY DEF Init
  <2> QED BY <2>1, <2>2, <2>3, <2>4 DEF TypeOK
<1>3. MarkerIsExact
  BY LogAssumption DEF Init, MarkerIsExact
<1> QED BY <1>2, <1>3 DEF Init, LogInv

(* Every command of the script and of the reader keeps the invariant. *)
LEMMA StepLog == LogInv /\ [Next]_vars => LogInv'
<1> SUFFICES ASSUME LogInv, [Next]_vars PROVE LogInv'
  OBVIOUS
<1> USE LogAssumption
<1>0. TypeOK /\ MarkerIsExact
  BY DEF LogInv
<1>1. CASE Record
  <2>1. TypeOK' /\ MarkerIsExact'
    BY <1>0, <1>1 DEF Record, TypeOK, MarkerIsExact, response
  <2>2. first' >= first /\ last' >= last /\ UNCHANGED <<step, since, batch>>
    BY <1>0, <1>1 DEF Record, TypeOK
  <2>3. (step \in {"read", "marker"} => since <= last)'
    BY <1>0, <2>1, <2>2 DEF LogInv, TypeOK
  <2>4. ASSUME step' = "marker" PROVE \E from, upto \in Nat : BatchIs(from, upto)'
    <3>1. PICK from, upto \in Nat : BatchIs(from, upto)
      BY <2>2, <2>4 DEF LogInv
    <3>2. BatchIs(from, upto)'
      BY <1>0, <2>1, <2>2, <3>1 DEF BatchIs, TypeOK
    <3> QED BY <3>2
  <2> QED BY <2>1, <2>3, <2>4 DEF LogInv
<1>2. ASSUME NEW n \in 1..MaxLimit, NEW c \in 0..MaxRecorded + 1, Query(n, c)
      PROVE  LogInv'
  BY <1>0, <1>2 DEF Query, LogInv, TypeOK, MarkerIsExact, stream, response
<1>3. CASE InvalidCursor \/ Lost
  BY <1>0, <1>3 DEF InvalidCursor, Lost, LogInv, TypeOK, MarkerIsExact, stream, response
<1>4. CASE XRevRange
  BY <1>0, <1>4 DEF XRevRange, LogInv, TypeOK, MarkerIsExact, stream, response
<1>5. CASE XRead
  <2> DEFINE from == IF since + 1 >= first THEN since + 1 ELSE first
             upto == IF from + limit - 1 <= last THEN from + limit - 1 ELSE last
  <2>1. since <= last
    BY <1>5 DEF XRead, LogInv
  <2>2. from \in Nat /\ upto \in Nat
    BY <1>0 DEF TypeOK
  <2>3. batch' = from..upto /\ step' = "marker" /\ UNCHANGED <<stream, since, limit, response>>
    BY <1>5 DEF XRead
  <2>4. BatchIs(from, upto)'
    BY <1>0, <2>2, <2>3 DEF BatchIs, TypeOK, stream
  <2>5. TypeOK'
    BY <1>0, <2>2, <2>3 DEF TypeOK, stream, response
  <2> QED BY <1>0, <2>1, <2>2, <2>3, <2>4, <2>5 DEF LogInv, MarkerIsExact, stream
<1>6. CASE Answer
  <2>1. next' \in Nat
    <3>1. PICK from, upto \in Nat : BatchIs(from, upto)
      BY <1>6 DEF Answer, LogInv
    <3>2. CASE from <= upto
      BY <1>6, <3>1, <3>2, NewestOfInterval DEF Answer, BatchIs
    <3>3. CASE from > upto
      <4>1. batch = {}
        BY <3>1, <3>3 DEF BatchIs
      <4> QED BY <1>0, <1>6, <4>1 DEF Answer, TypeOK
    <3> QED BY <3>2, <3>3
  <2>2. TypeOK'
    BY <1>0, <1>6, <2>1 DEF Answer, TypeOK, stream
  <2> QED BY <1>0, <1>6, <2>2 DEF Answer, LogInv, MarkerIsExact, stream
<1>7. CASE UNCHANGED vars
  BY <1>0, <1>7 DEF vars, LogInv, TypeOK, MarkerIsExact, BatchIs
<1> QED BY <1>1, <1>2, <1>3, <1>4, <1>5, <1>6, <1>7 DEF Next, Progress

(***************************************************************************)
(* The type invariant of the log and its reader.                           *)
(***************************************************************************)
THEOREM LogTypes == Spec => []TypeOK
<1>1. LogInv => TypeOK
  BY DEF LogInv
<1> QED BY InitLog, StepLog, <1>1, PTL DEF Spec

(***************************************************************************)
(* The trim marker is exact whenever the script is not running, which is   *)
(* always: for every removedLogLength.                                     *)
(***************************************************************************)
THEOREM MarkerExact == Spec => []MarkerIsExact
<1>1. LogInv => MarkerIsExact
  BY DEF LogInv
<1> QED BY InitLog, StepLog, <1>1, PTL DEF Spec

(* Every answer is one RemovalFeed allows. *)
LEMMA AnswerIsPoll ==
    ASSUME LogInv, Answer
    PROVE  /\ next' \in since..last
           /\ Feed!Poll(next')
<1> USE LogAssumption
<1>0. TypeOK /\ MarkerIsExact /\ since <= last
  BY DEF LogInv, Answer
<1>1. PICK from, upto \in Nat : BatchIs(from, upto)
  BY DEF Answer, LogInv
<1>2. removed' = from..upto /\ UNCHANGED <<last, since>>
  BY <1>1 DEF Answer, BatchIs, stream
<1>3. truncated' \in BOOLEAN /\ (~truncated' => from = since + 1)
  <2>1. trimmed # 0 /\ since < trimmed => truncated'
    BY DEF Answer
  <2>2. truncated' \in BOOLEAN
    BY DEF Answer
  <2>3. from # since + 1 => trimmed # 0 /\ since < trimmed
    BY <1>0, <1>1 DEF BatchIs, TypeOK, MarkerIsExact
  <2> QED BY <2>1, <2>2, <2>3
<1>4. CASE from <= upto
  <2>1. next' = upto
    <3>1. from \in batch
      BY <1>1, <1>4 DEF BatchIs
    <3> QED BY <1>1, <1>4, <3>1, NewestOfInterval DEF Answer, BatchIs
  <2>2. upto \in since..last /\ upto \in from..upto /\ from..upto \subseteq (since + 1)..upto
    BY <1>0, <1>1, <1>4 DEF BatchIs, TypeOK
  <2> QED BY <1>2, <1>3, <2>1, <2>2 DEF Feed!Poll
<1>5. CASE from > upto
  <2>1. batch = {} /\ from..upto = {}
    BY <1>1, <1>5 DEF BatchIs
  <2>2. next' = since
    BY <2>1 DEF Answer
  <2>3. since \in since..last /\ (since + 1)..since = {}
    BY <1>0 DEF TypeOK
  <2> QED BY <1>2, <1>3, <2>1, <2>2, <2>3 DEF Feed!Poll
<1> QED BY <1>1, <1>4, <1>5

(***************************************************************************)
(* /removed implements RemovalFeed: no removal is left out of an answer in *)
(* silence, although the stream is appended to and trimmed between the     *)
(* three commands of a query.                                              *)
(***************************************************************************)
THEOREM LogImplementsFeed == Spec => NoSilentLoss
<1>1. Init => Feed!Init
  BY DEF Init, Feed!Init
<1>2. LogInv /\ [Next]_vars => [Feed!Next]_(Feed!vars)
  <2> SUFFICES ASSUME LogInv, [Next]_vars PROVE [Feed!Next]_(Feed!vars)
    OBVIOUS
  <2>1. CASE Record
    BY <2>1 DEF Record, response, Feed!Next, Feed!Record
  <2>2. ASSUME NEW n \in 1..MaxLimit, NEW c \in 0..MaxRecorded + 1, Query(n, c)
        PROVE  Feed!Ask
    BY <2>2, LogAssumption DEF Query, stream, response, Feed!Ask
  <2>3. CASE InvalidCursor \/ XRevRange \/ XRead \/ Lost
    BY <2>3 DEF InvalidCursor, XRevRange, XRead, Lost, stream, response, Feed!vars
  <2>4. CASE Answer
    BY <2>4, AnswerIsPoll DEF Feed!Next
  <2>5. CASE UNCHANGED vars
    BY <2>5 DEF vars, Feed!vars
  <2> QED BY <2>1, <2>2, <2>3, <2>4, <2>5 DEF Next, Progress, Feed!Next
<1> QED BY <1>1, <1>2, InitLog, StepLog, PTL DEF Spec, NoSilentLoss, Feed!Spec

(***************************************************************************)
(* No answer hands out a cursor ahead of the log.                          *)
(***************************************************************************)
THEOREM CursorsNotAhead == Spec => CursorNotAhead
<1>1. LogInv /\ [Next]_vars => [Answer => next' <= last]_vars
  <2>1. ASSUME LogInv, Answer PROVE next' <= last
    BY <2>1, AnswerIsPoll DEF LogInv, TypeOK
  <2> QED BY <2>1
<1> QED BY <1>1, InitLog, StepLog, PTL DEF Spec, CursorNotAhead

=============================================================================
