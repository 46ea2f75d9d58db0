--------------------------- MODULE ApnsTokenProofs ---------------------------
(***************************************************************************)
(* The provider tokens of APNs, for any number of processes and batches    *)
(* and for every lifetime, floor and margin that satisfy the assumption:   *)
(* what is signed and kept, what is presented to APNs and what is          *)
(* concluded from its answers.                                             *)
(***************************************************************************)
EXTENDS ApnsToken, FiniteSetTheorems, TLAPS

-----------------------------------------------------------------------------
(* Buckets *)

LEMMA IntervalFacts ==
    /\ Interval \in Nat /\ Interval > 1 /\ Floor < Interval
    /\ Interval < Lifetime /\ Lifetime < 2 * Interval
    /\ Lifetime \in Nat /\ Floor \in Nat /\ Floor > 0
BY ConstantsAssumption DEF Interval

\* The bucket of a time is the last multiple of Interval that is not later.
LEMMA BucketFacts ==
    ASSUME NEW t \in Nat
    PROVE  /\ issuedAtBucket(t) \in Nat
           /\ IssuedAt(issuedAtBucket(t)) \in Nat
           /\ IssuedAt(issuedAtBucket(t)) <= t
           /\ t < IssuedAt(issuedAtBucket(t)) + Interval
<1> DEFINE I == Interval
           k == t \div I
<1>1. I \in Nat /\ I > 0
  BY IntervalFacts
<1> HIDE DEF I
<1>2. k \in Int /\ I * k <= t /\ t < I * k + I
  BY <1>1
<1>3. k >= 0
  BY <1>1, <1>2
<1> QED
  BY <1>1, <1>2, <1>3 DEF issuedAtBucket, IssuedAt, I

\* A later bucket was issued at least an interval later.
LEMMA IssuedFacts ==
    ASSUME NEW j \in Int, NEW k \in Int
    PROVE  /\ IssuedAt(j) \in Int
           /\ j < k => IssuedAt(j) + Interval <= IssuedAt(k)
           /\ IssuedAt(k - 1) = IssuedAt(k) - Interval
           /\ IssuedAt(j) < IssuedAt(k) => j < k
<1> DEFINE I == Interval
<1>1. I \in Nat /\ I > 0
  BY IntervalFacts
<1> HIDE DEF I
<1>2. j * I \in Int /\ k * I \in Int
  BY <1>1
<1>3. (k - 1) * I = k * I - I
  BY <1>1
<1>4. ASSUME NEW a \in Int, NEW b \in Int, a < b
      PROVE  a * I + I <= b * I
  <2>1. b * I = a * I + (b - a) * I
    BY <1>1
  <2>2. (b - a) * I >= I
    BY <1>1, <1>4
  <2> QED
    BY <1>1, <2>1, <2>2
<1>5. j * I < k * I => j < k
  <2>1. CASE k < j
    BY <1>1, <1>2, <1>4, <2>1
  <2> QED
    BY <1>1, <1>2, <2>1
<1> QED
  BY <1>1, <1>2, <1>3, <1>4, <1>5 DEF IssuedAt, I

LEMMA BucketMonotone ==
    ASSUME NEW t \in Nat, NEW u \in Nat, t <= u
    PROVE  issuedAtBucket(t) <= issuedAtBucket(u)
<1> DEFINE j == issuedAtBucket(t)
           k == issuedAtBucket(u)
<1>1. /\ j \in Nat /\ IssuedAt(j) \in Nat /\ IssuedAt(j) <= t
      /\ k \in Nat /\ IssuedAt(k) \in Nat /\ u < IssuedAt(k) + Interval
  BY BucketFacts
<1> HIDE DEF j, k
<1>2. k < j => IssuedAt(k) + Interval <= IssuedAt(j)
  BY <1>1, IssuedFacts
<1> QED
  BY <1>1, <1>2, IntervalFacts DEF j, k

-----------------------------------------------------------------------------
(* What a process reads off its clock *)

Types == TypeOK /\ now >= Start

Current(p) == issuedAtBucket(Clock(p))

LEMMA ClockFacts ==
    ASSUME Types, NEW p \in Processes
    PROVE  /\ Clock(p) \in Nat /\ Clock(p) >= Interval
           /\ Current(p) \in Nat /\ Current(p) >= 1
           /\ IssuedAt(Current(p)) \in Nat
           /\ IssuedAt(Current(p)) <= Clock(p)
           /\ Clock(p) < IssuedAt(Current(p)) + Interval
<1>1. Offset[p] \in Int /\ Start + Offset[p] >= Interval /\ Start \in Nat /\ now \in Nat
  BY ConstantsAssumption DEF Types, TypeOK
<1>2. Clock(p) \in Nat /\ Clock(p) >= Interval
  BY <1>1, IntervalFacts DEF Types, Clock
<1>3. /\ Current(p) \in Nat /\ IssuedAt(Current(p)) \in Nat
      /\ IssuedAt(Current(p)) <= Clock(p)
      /\ Clock(p) < IssuedAt(Current(p)) + Interval
  BY <1>2, BucketFacts DEF Current
<1>4. Current(p) # 0
  <2>1. Current(p) = 0 => IssuedAt(Current(p)) = 0
    BY IntervalFacts DEF IssuedAt
  <2> QED
    BY <1>2, <1>3, <2>1, IntervalFacts
<1> QED
  BY <1>2, <1>3, <1>4

\* The token is that of the current bucket or of the one before, the fallback is
\* the one before, and neither is past its lifetime by the process's own clock.
LEMMA TokenFacts ==
    ASSUME Types, NEW p \in Processes
    PROVE  /\ token(p) \in Nat /\ token(p) \in {Current(p), Current(p) - 1}
           /\ previousToken(p) \in {None, Current(p) - 1}
           /\ previousToken(p) \in Buckets
           /\ FallbackOf(p) \in {None, Current(p) - 1} /\ FallbackOf(p) \in Buckets
           /\ FallbackOf(p) # None => token(p) = Current(p)
           /\ token(p) # Current(p) => KnownRefused(p, Current(p))
           /\ token(p) = Current(p) => previousToken(p) = FallbackOf(p)
           /\ token(p) # Current(p) => previousToken(p) = token(p)
           /\ token(p) = Current(p) /\ KnownRefused(p, Current(p)) => previousToken(p) = None
           /\ Clock(p) - IssuedAt(token(p)) < Lifetime
           /\ FallbackOf(p) # None => Clock(p) - IssuedAt(FallbackOf(p)) < Lifetime
<1> DEFINE c == Current(p)
<1>1. /\ c \in Nat /\ c >= 1 /\ Clock(p) \in Nat
      /\ IssuedAt(c) \in Nat /\ Clock(p) < IssuedAt(c) + Interval
  BY ClockFacts
<1>2. previousToken(p) =
         IF Clock(p) - IssuedAt(c - 1) >= Lifetime \/ KnownRefused(p, c - 1) THEN None ELSE c - 1
  BY DEF previousToken, Current
<1>3. token(p) = IF KnownRefused(p, c) /\ previousToken(p) # None THEN previousToken(p) ELSE c
  BY DEF token, Current
<1>4. IssuedAt(c - 1) \in Int
  BY <1>1, IssuedFacts
<1>5. None \notin Nat /\ None \in Buckets
  BY DEF None, Buckets
<1> HIDE DEF c
<1>6. /\ previousToken(p) \in {None, c - 1} /\ c - 1 \in Nat
      /\ previousToken(p) # None => Clock(p) - IssuedAt(previousToken(p)) < Lifetime
  BY <1>1, <1>2, <1>4, IntervalFacts
<1>7. Clock(p) - IssuedAt(c) < Lifetime
  BY <1>1, IntervalFacts
<1> QED
  BY <1>1, <1>3, <1>5, <1>6, <1>7 DEF FallbackOf, Buckets, c

LEMMA CacheTypes ==
    ASSUME Types, NEW p \in Processes
    PROVE  Resolved(p) \in SUBSET Nat /\ Signs(p) \in SUBSET Nat
<1>1. /\ token(p) \in Nat /\ previousToken(p) \in Buckets /\ signed[p] \in SUBSET Nat
  BY TokenFacts DEF Types, TypeOK
<1>2. ASSUME NEW S \in SUBSET Nat, NEW k \in Nat
      PROVE  tokenForBucket(S, k) \in SUBSET Nat
  BY DEF tokenForBucket
<1> QED
  BY <1>1, <1>2 DEF Resolved, Signs, Buckets

-----------------------------------------------------------------------------
(* Types *)

LEMMA InitTypes == Init => Types
BY ConstantsAssumption
DEF Init, Types, TypeOK, Buckets, BatchRecords, RequestRecords, IdleBatch, NoRequest, Phases, None, Devices

LEMMA RequestTypes ==
    ASSUME NEW k \in Buckets
    PROVE  Request(k) \in RequestRecords
BY DEF Request, RequestRecords, Buckets

LEMMA SendTypes ==
    ASSUME Types, NEW b \in Batches, NEW D, NEW k \in Buckets, Send(b, D, k)
    PROVE  req' \in [Batches -> [Devices -> RequestRecords]]
BY RequestTypes DEF Types, TypeOK, Send

LEMMA StartTypes ==
    ASSUME Types, NEW b \in Batches, NEW size \in {1, 2}, StartBatch(b, size)
    PROVE  Types'
<1> DEFINE p == ProcessOf[b]
           r == [IdleBatch EXCEPT !.pc = "resolved", !.size = size, !.since = now,
                                  !.signing = token(p), !.fallback = FallbackOf(p),
                                  !.shunned = Shunned(p)]
<1>1. p \in Processes
  BY ConstantsAssumption
<1>2. /\ token(p) \in Nat /\ FallbackOf(p) \in Buckets /\ now \in Nat
      /\ Shunned(p) \in BOOLEAN
  BY <1>1, TokenFacts DEF Types, TypeOK, Shunned, KnownRefused
<1>3. r \in BatchRecords
  BY <1>2 DEF BatchRecords, IdleBatch, Phases, Buckets, None
<1>4. batch' = [batch EXCEPT ![b] = r]
  BY DEF StartBatch
<1> HIDE DEF r
<1>5. batch' \in [Batches -> BatchRecords]
  BY <1>3, <1>4 DEF Types, TypeOK
<1>6. started' \in 0..MaxBatches
  BY ConstantsAssumption DEF Types, TypeOK, StartBatch
<1>7. /\ signed' \in [Processes -> SUBSET Nat]
      /\ signings' \in [Processes -> SUBSET Nat]
      /\ resigned' \in [Processes -> SUBSET Nat]
  BY <1>1, CacheTypes DEF Types, TypeOK, StartBatch, resolveTokens
<1> QED
  BY <1>5, <1>6, <1>7 DEF Types, TypeOK, StartBatch, apnsVars, probeVars

\* A step that gives one batch another record.
LEMMA BatchTypes ==
    ASSUME Types, NEW b \in Batches, NEW r \in BatchRecords, batch' = [batch EXCEPT ![b] = r]
    PROVE  batch' \in [Batches -> BatchRecords]
BY DEF Types, TypeOK

\* A step that gives one device another request.
LEMMA DeviceTypes ==
    ASSUME Types, NEW b \in Batches, NEW d \in Devices, NEW r \in RequestRecords,
           req' = [req EXCEPT ![b] = [@ EXCEPT ![d] = r]]
    PROVE  req' \in [Batches -> [Devices -> RequestRecords]]
BY DEF Types, TypeOK

LEMMA ResolveTypes ==
    ASSUME Types, NEW p \in Processes, resolveTokens(p)
    PROVE  /\ signed' \in [Processes -> SUBSET Nat]
           /\ signings' \in [Processes -> SUBSET Nat]
           /\ resigned' \in [Processes -> SUBSET Nat]
BY CacheTypes DEF Types, TypeOK, resolveTokens

LEMMA RestTypes ==
    ASSUME Types, NEW b \in Batches, NEW blind \in BOOLEAN, SendTheRest(b, blind)
    PROVE  /\ batch' \in [Batches -> BatchRecords]
           /\ req' \in [Batches -> [Devices -> RequestRecords]]
           /\ signed' \in [Processes -> SUBSET Nat]
           /\ signings' \in [Processes -> SUBSET Nat]
           /\ resigned' \in [Processes -> SUBSET Nat]
<1> DEFINE p == ProcessOf[b]
           n == [batch[b] EXCEPT !.pc = "sending", !.since = now, !.signing = token(p),
                                 !.fallback = FallbackOf(p), !.shunned = Shunned(p),
                                 !.blind = batch[b].blind \/ blind \/ token(p) > batch[b].signing]
<1>1. p \in Processes
  BY ConstantsAssumption
<1>2. /\ token(p) \in Nat /\ FallbackOf(p) \in Buckets /\ now \in Nat
      /\ Shunned(p) \in BOOLEAN /\ batch[b] \in BatchRecords
  BY <1>1, TokenFacts DEF Types, TypeOK, Shunned, KnownRefused
<1>3. n \in BatchRecords
  BY <1>2 DEF BatchRecords, Phases, Buckets
<1>4. batch' = [batch EXCEPT ![b] = n]
  BY DEF SendTheRest
<1> HIDE DEF n
<1>5. batch' \in [Batches -> BatchRecords]
  BY <1>3, <1>4, BatchTypes
<1>6. token(p) \in Buckets
  BY <1>2 DEF Buckets
<1> QED
  BY <1>1, <1>5, <1>6, SendTypes, ResolveTypes DEF SendTheRest

LEMMA ProbeTypes ==
    ASSUME Types, NEW p \in Processes, NEW k \in Nat, finishProbe(p, k)
    PROVE  /\ probing' \in [Processes -> SUBSET Nat]
           /\ probed' \in [Processes -> SUBSET [bucket : Nat, at : Int]]
<1>1. Clock(p) \in Nat
  BY ClockFacts
<1>2. [bucket |-> k, at |-> Clock(p)] \in [bucket : Nat, at : Int]
  BY <1>1
<1> QED
  BY <1>2 DEF Types, TypeOK, finishProbe

\* A batch that is under way has a token, and so has a request that is sent.
SentSigned == \A b \in Batches, d \in Devices : req[b][d].st = "sent" => req[b][d].bucket \in Nat
Signed ==
    /\ \A b \in Batches : batch[b].pc # "idle" => batch[b].signing \in Nat
    /\ SentSigned

LEMMA SendSigned ==
    ASSUME Types, SentSigned, NEW b \in Batches, NEW D, NEW k \in Nat, Send(b, D, k)
    PROVE  SentSigned'
BY DEF SentSigned, Send, Request, Types, TypeOK

LEMMA DeviceSigned ==
    ASSUME Types, SentSigned, NEW b \in Batches, NEW d \in Devices, NEW r,
           req' = [req EXCEPT ![b] = [@ EXCEPT ![d] = r]], r.st = "sent" => r.bucket \in Nat
    PROVE  SentSigned'
BY DEF SentSigned, Types, TypeOK

LEMMA StepTypes ==
    ASSUME Types, Signed, Next
    PROVE  Types' /\ Signed'
<1>1. CASE Tick \/ Over
  <2>1. UNCHANGED <<apnsVars, tokenVars, probeVars, batch, req, bounds>>
    BY <1>1 DEF Tick, Over, vars
  <2>2. now' \in {now, now + 1}
    BY <1>1 DEF Tick, Over, vars
  <2>3. now' \in Nat /\ now' >= Start
    BY <2>2, ConstantsAssumption DEF Types, TypeOK
  <2> QED
    BY <2>1, <2>3
    DEF apnsVars, tokenVars, signVars, probeVars, bounds, Types, TypeOK, Signed, SentSigned
<1>2. ASSUME NEW b \in Batches, NEW size \in {1, 2}, StartBatch(b, size)
      PROVE  Types' /\ Signed'
  <2>1. token(ProcessOf[b]) \in Nat
    BY ConstantsAssumption, TokenFacts
  <2> QED
    BY <1>2, <2>1, StartTypes
    DEF Signed, SentSigned, StartBatch, IdleBatch, Types, TypeOK, BatchRecords
<1>3. ASSUME NEW b \in Batches, BatchStep(b)
      PROVE  Types' /\ Signed'
  <2> DEFINE p == ProcessOf[b]
             k == batch[b].signing
  <2>1. p \in Processes /\ batch[b] \in BatchRecords
    BY ConstantsAssumption DEF Types, TypeOK
  <2>2. CASE SendUnprobed(b)
    <3> DEFINE n == [batch[b] EXCEPT !.pc = "sending"]
    <3>1. n \in BatchRecords /\ n.signing = k /\ n.pc # "idle" /\ k \in Buckets
      BY <2>1 DEF BatchRecords, Phases
    <3>2. batch' = [batch EXCEPT ![b] = n]
      BY <2>2 DEF SendUnprobed
    <3> HIDE DEF n
    <3>3. batch' \in [Batches -> BatchRecords]
      BY <3>1, <3>2, BatchTypes
    <3>4. req' \in [Batches -> [Devices -> RequestRecords]]
      BY <2>2, <3>1, SendTypes DEF SendUnprobed
    <3>5. Signed'
      BY <2>2, <3>1, <3>2, SendSigned DEF Signed, SendUnprobed, Types, TypeOK
    <3> QED
      BY <2>2, <3>3, <3>4, <3>5
      DEF SendUnprobed, Types, TypeOK, apnsVars, tokenVars, signVars, probeVars, bounds
  <2>3. CASE claimProbe(b)
    <3>1. PICK n \in BatchRecords :
             n.signing = k /\ n.pc # "idle" /\ batch' = [batch EXCEPT ![b] = n]
      <4> DEFINE n1 == [batch[b] EXCEPT !.pc = "waiting"]
                 n2 == [batch[b] EXCEPT !.pc = "probing", !.prober = TRUE]
      <4>1. /\ n1 \in BatchRecords /\ n1.signing = k /\ n1.pc # "idle"
            /\ n2 \in BatchRecords /\ n2.signing = k /\ n2.pc # "idle"
        BY <2>1 DEF BatchRecords, Phases
      <4>2. batch' = [batch EXCEPT ![b] = n1] \/ batch' = [batch EXCEPT ![b] = n2]
        BY <2>3 DEF claimProbe
      <4> QED
        BY <4>1, <4>2
    <3>2. batch' \in [Batches -> BatchRecords]
      BY <3>1, BatchTypes
    <3>3. k \in Nat /\ k \in Buckets
      BY <2>3 DEF Signed, claimProbe, Buckets
    <3>4. req' \in [Batches -> [Devices -> RequestRecords]]
      BY <2>3, <3>3, SendTypes DEF claimProbe, Types, TypeOK
    <3>5. Signed'
      <4>1. SentSigned'
        BY <2>3, <3>3, SendSigned DEF claimProbe, Signed, SentSigned
      <4> QED
        BY <3>1, <3>3, <4>1 DEF Signed, Types, TypeOK
    <3>6. /\ probing' \in [Processes -> SUBSET Nat] /\ unanswered' \in [Processes -> SUBSET Nat]
          /\ probed' \in [Processes -> SUBSET [bucket : Nat, at : Int]]
      <4>1. Remembered(p) \in SUBSET [bucket : Nat, at : Int]
        BY <2>1 DEF Remembered, Types, TypeOK
      <4>2. /\ probed' = [probed EXCEPT ![p] = Remembered(p)]
            /\ probing' = probing \/ probing' = [probing EXCEPT ![p] = @ \cup {k}]
            /\ unanswered' = unanswered \/ unanswered' = [unanswered EXCEPT ![p] = @ \ {k}]
        BY <2>3 DEF claimProbe
      <4>3. probed' \in [Processes -> SUBSET [bucket : Nat, at : Int]]
        BY <2>1, <4>1, <4>2 DEF Types, TypeOK
      <4>4. probing' \in [Processes -> SUBSET Nat]
        <5> HIDE DEF k
        <5>1. probing[p] \cup {k} \in SUBSET Nat /\ probing \in [Processes -> SUBSET Nat]
          BY <2>1, <3>3 DEF Types, TypeOK
        <5> QED
          BY <2>1, <4>2, <5>1
      <4>5. unanswered' \in [Processes -> SUBSET Nat]
        BY <2>1, <4>2 DEF Types, TypeOK
      <4> QED
        BY <4>3, <4>4, <4>5
    <3> QED
      BY <2>3, <3>2, <3>4, <3>5, <3>6
      DEF claimProbe, Types, TypeOK, apnsVars, tokenVars, signVars, bounds
  <2>4. CASE ProbeDone(b) \/ Released(b) \/ WaitExpires(b)
    <3>1. PICK blind \in BOOLEAN : SendTheRest(b, blind)
      <4>1. (k \in unanswered[p]) \in BOOLEAN
        OBVIOUS
      <4>2. SendTheRest(b, k \in unanswered[p]) \/ SendTheRest(b, TRUE)
        BY <2>4 DEF ProbeDone, Released, WaitExpires
      <4> QED
        BY <4>1, <4>2
    <3>2. token(p) \in Nat
      BY <2>1, TokenFacts
    <3>3. Signed'
      BY <3>1, <3>2, SendSigned DEF Signed, SendTheRest, Types, TypeOK, BatchRecords
    <3>4. k \in Nat
      BY <2>4 DEF Signed, ProbeDone, Released, WaitExpires
    <3>5. /\ probing' \in [Processes -> SUBSET Nat] /\ unanswered' \in [Processes -> SUBSET Nat]
          /\ probed' \in [Processes -> SUBSET [bucket : Nat, at : Int]]
      BY <2>1, <2>4, <3>4, ProbeTypes
      DEF ProbeDone, Released, WaitExpires, probeVars, Types, TypeOK
    <3> QED
      BY <2>4, <3>1, <3>3, <3>5, RestTypes
      DEF ProbeDone, Released, WaitExpires, Types, TypeOK, apnsVars, bounds
  <2>5. CASE EndBatch(b)
    <3>1. IdleBatch \in BatchRecords /\ NoRequest \in RequestRecords /\ IdleBatch.pc = "idle"
      BY DEF IdleBatch, NoRequest, BatchRecords, RequestRecords, Buckets, Phases, None
    <3>2. k \in Nat
      BY <2>5 DEF Signed, EndBatch
    <3>3. /\ probing' \in [Processes -> SUBSET Nat] /\ unanswered' \in [Processes -> SUBSET Nat]
          /\ probed' \in [Processes -> SUBSET [bucket : Nat, at : Int]]
      <4>1. CASE batch[b].prober
        <5>1. finishProbe(p, k) /\ unanswered' = [unanswered EXCEPT ![p] = @ \cup ({k} \cap probing[p])]
          BY <2>5, <4>1 DEF EndBatch
        <5>2. unanswered' \in [Processes -> SUBSET Nat]
          BY <2>1, <3>2, <5>1 DEF Types, TypeOK
        <5> QED
          BY <2>1, <3>2, <5>1, <5>2, ProbeTypes
      <4>2. CASE ~batch[b].prober
        BY <2>5, <4>2 DEF EndBatch, probeVars, Types, TypeOK
      <4> QED
        BY <4>1, <4>2
    <3>4. batch' \in [Batches -> BatchRecords] /\ Signed'
      BY <2>5, <3>1, BatchTypes DEF EndBatch, Signed, SentSigned, Types, TypeOK, NoRequest
    <3>5. req' \in [Batches -> [Devices -> RequestRecords]]
      BY <2>5, <3>1 DEF EndBatch, Types, TypeOK
    <3> QED
      BY <2>5, <3>3, <3>4, <3>5
      DEF EndBatch, Types, TypeOK, apnsVars, tokenVars, signVars, bounds
  <2>6. ASSUME NEW d \in Devices,
               Answer(b, d) \/ Lose(b, d) \/ Retry(b, d) \/ GiveUp(b, d) \/ noteAccepted(b, d)
        PROVE  Types' /\ Signed'
    <3>1. req[b][d] \in RequestRecords
      BY DEF Types, TypeOK
    <3>2. CASE Answer(b, d)
      <4> DEFINE k0 == req[b][d].bucket
      <4>0. k0 \in Nat
        BY <3>2 DEF Answer, Signed, SentSigned
      <4>1. PICK a \in {"ok", "refused", "expired", "error"} :
               /\ req' = [req EXCEPT ![b][d].st = "answered", ![b][d].answer = a]
               /\ seen' \in {seen, seen \cup {k0}} /\ mintedAt' \in {mintedAt, now}
               /\ untaken' \in {untaken, untaken \cup ({k0} \ seen)}
               /\ errors' = (IF a = "error" THEN errors + 1 ELSE errors)
               /\ a = "error" => errors < MaxErrors
        BY <3>2 DEF checkProviderToken, Answer
      <4> DEFINE n == [req[b][d] EXCEPT !.st = "answered", !.answer = a]
      <4>2. errors' \in 0 .. MaxErrors
        BY <4>1, ConstantsAssumption DEF Types, TypeOK
      <4>3. n \in RequestRecords /\ n.st = "answered"
        BY <3>1, <4>1 DEF RequestRecords
      <4>4. req' = [req EXCEPT ![b] = [@ EXCEPT ![d] = n]]
        BY <4>1 DEF Types, TypeOK, RequestRecords
      <4> HIDE DEF n, k0
      <4>5. req' \in [Batches -> [Devices -> RequestRecords]] /\ SentSigned'
        BY <4>3, <4>4, DeviceTypes, DeviceSigned DEF Signed
      <4>6. UNCHANGED <<now, tokenVars, probeVars, batch, started, lost>>
        BY <3>2 DEF Answer
      <4>7. seen' \subseteq Nat /\ untaken' \subseteq Nat /\ mintedAt' \in Buckets
        BY <4>0, <4>1 DEF Types, TypeOK, Buckets
      <4> QED
        BY <4>2, <4>5, <4>6, <4>7
        DEF Types, TypeOK, Signed, tokenVars, signVars, probeVars
    <3> DEFINE done == [req[b][d] EXCEPT !.st = "done", !.bucket = None, !.answer = "none"]
    <3>3. done \in RequestRecords /\ done.st = "done"
      BY <3>1 DEF RequestRecords, Buckets
    <3>4. ASSUME Done(b, d) PROVE req' \in [Batches -> [Devices -> RequestRecords]] /\ SentSigned'
      <4>1. req' = [req EXCEPT ![b] = [@ EXCEPT ![d] = done]]
        BY <3>4 DEF Done
      <4> HIDE DEF done
      <4> QED
        BY <3>3, <4>1, DeviceTypes, DeviceSigned DEF Signed
    <3> HIDE DEF done
    <3>5. CASE Lose(b, d)
      <4>1. lost' \in 0..MaxLost
        BY <3>5, ConstantsAssumption DEF Lose, Types, TypeOK
      <4>2. unanswered' \in [Processes -> SUBSET Nat]
        <5>1. CASE batch[b].pc = "probing"
          BY <2>1, <3>5, <5>1 DEF Lose, Signed, Types, TypeOK
        <5>2. CASE batch[b].pc # "probing"
          BY <3>5, <5>2 DEF Lose, Types, TypeOK
        <5> QED
          BY <5>1, <5>2
      <4> QED
        BY <3>4, <3>5, <4>1, <4>2
        DEF Lose, Types, TypeOK, Signed, apnsVars, tokenVars, signVars
    <3>6. CASE Retry(b, d)
      <4> DEFINE n == [Request(batch[b].fallback) EXCEPT !.retry = TRUE]
                 m == [batch[b] EXCEPT !.hits = @ + 1]
                 f == [bucket |-> k, at |-> Clock(p)]
      <4>1. batch[b].fallback \in Nat /\ k \in Buckets
        BY <2>1, <3>6 DEF Retry, BatchRecords, Buckets
      <4>2. n \in RequestRecords /\ n.bucket \in Nat
        BY <4>1 DEF Request, RequestRecords, Buckets
      <4>3. m \in BatchRecords /\ m.pc = batch[b].pc /\ m.signing = k
        BY <2>1 DEF BatchRecords
      <4>4. f \in [bucket : Buckets, at : Int]
        BY <2>1, <4>1, ClockFacts
      <4>5. /\ req' = [req EXCEPT ![b] = [@ EXCEPT ![d] = n]]
            /\ batch' = [batch EXCEPT ![b] = m]
            /\ refused' = [refused EXCEPT ![p] = f]
            /\ UNCHANGED <<now, apnsVars, signVars, confirmed, probeVars, bounds>>
        BY <3>6 DEF Retry
      <4> HIDE DEF n, m, f
      <4>6. req' \in [Batches -> [Devices -> RequestRecords]] /\ SentSigned'
        BY <4>2, <4>5, DeviceTypes, DeviceSigned DEF Signed
      <4>7. batch' \in [Batches -> BatchRecords]
        BY <4>3, <4>5, BatchTypes
      <4>8. refused' \in [Processes -> [bucket : Buckets, at : Int]]
        BY <2>1, <4>4, <4>5 DEF Types, TypeOK
      <4>9. \A c \in Batches : batch'[c].pc = batch[c].pc /\ batch'[c].signing = batch[c].signing
        BY <4>3, <4>5 DEF Types, TypeOK
      <4> QED
        BY <4>5, <4>6, <4>7, <4>8, <4>9
        DEF Types, TypeOK, Signed, apnsVars, signVars, probeVars, bounds
    <3>7. CASE GiveUp(b, d)
      <4> DEFINE h == batch[b].hits + 1
                 m == [batch[b] EXCEPT !.hits = h, !.blind = TRUE]
      <4>1. m \in BatchRecords /\ m.pc = batch[b].pc /\ m.signing = k
        <5>1. h \in Nat
          BY <2>1 DEF BatchRecords
        <5> HIDE DEF h
        <5> QED
          BY <2>1, <5>1 DEF BatchRecords
      <4>2. /\ batch' = [batch EXCEPT ![b] = m] /\ Done(b, d)
            /\ UNCHANGED <<now, apnsVars, tokenVars, probing, probed, bounds>>
        BY <3>7 DEF GiveUp
      <4>5. unanswered' \in [Processes -> SUBSET Nat]
        <5>1. CASE batch[b].pc = "probing" /\ ~req[b][d].retry
          BY <2>1, <3>7, <5>1 DEF GiveUp, Signed, Types, TypeOK
        <5>2. CASE ~(batch[b].pc = "probing" /\ ~req[b][d].retry)
          BY <3>7, <5>2 DEF GiveUp, Types, TypeOK
        <5> QED
          BY <5>1, <5>2
      <4> HIDE DEF m
      <4>3. batch' \in [Batches -> BatchRecords]
        BY <4>1, <4>2, BatchTypes
      <4>4. \A c \in Batches : batch'[c].pc = batch[c].pc /\ batch'[c].signing = batch[c].signing
        BY <4>1, <4>2 DEF Types, TypeOK
      <4> QED
        BY <3>4, <4>2, <4>3, <4>4, <4>5
        DEF Types, TypeOK, Signed, apnsVars, tokenVars, signVars, bounds
    <3>8. CASE noteAccepted(b, d)
      <4>1. confirmed' \in [Processes -> Buckets]
        <5>1. batch[b].fallback \in Buckets /\ k \in Buckets
          BY <2>1 DEF BatchRecords
        <5> QED
          BY <2>1, <3>8, <5>1 DEF noteAccepted, Types, TypeOK
      <4> QED
        BY <3>4, <3>8, <4>1
        DEF noteAccepted, Types, TypeOK, Signed, apnsVars, signVars, probeVars, bounds
    <3> QED
      BY <2>6, <3>2, <3>5, <3>6, <3>7, <3>8
  <2> QED
    BY <1>3, <2>2, <2>3, <2>4, <2>5, <2>6 DEF BatchStep
<1> QED
  BY <1>1, <1>2, <1>3 DEF Next

LEMMA InitSigned == Init => Signed
BY DEF Init, Signed, SentSigned, IdleBatch, NoRequest

LEMMA TypesStep == Types /\ Signed /\ [Next]_vars => Types' /\ Signed'
<1>1. Types /\ Signed /\ UNCHANGED vars => Types' /\ Signed'
  BY DEF vars, apnsVars, tokenVars, signVars, probeVars, bounds, Types, TypeOK, Signed, SentSigned
<1> QED
  BY <1>1, StepTypes

\* Clocks, tokens, probes, batches and requests keep their types, whatever the
\* processes, batches and intervals.
THEOREM TokenTypes == Spec => []TypeOK
<1>1. Types => TypeOK
  BY DEF Types
<1> QED
  BY <1>1, InitTypes, InitSigned, TypesStep, PTL DEF Spec

-----------------------------------------------------------------------------
(* Probes *)

\* A batch that probes does so with the same token until its probe is published.
LEMMA ProbersMove ==
    ASSUME Types, Next, NEW a \in Batches, batch[a].pc = "probing"
    PROVE  \/ batch'[a].pc = "probing" /\ batch'[a].signing = batch[a].signing
           \/ ProbeDone(a)
<1>1. batch[a] \in BatchRecords /\ batch \in [Batches -> BatchRecords]
  BY DEF Types, TypeOK
<1>2. CASE Tick \/ Over
  BY <1>2 DEF Tick, Over, vars
<1>3. ASSUME NEW b \in Batches, NEW size \in {1, 2}, StartBatch(b, size)
      PROVE  batch'[a] = batch[a]
  BY <1>1, <1>3 DEF StartBatch
<1>4. ASSUME NEW b \in Batches,
             SendUnprobed(b) \/ claimProbe(b) \/ Released(b) \/ WaitExpires(b) \/ EndBatch(b)
      PROVE  batch'[a] = batch[a]
  BY <1>1, <1>4
  DEF SendUnprobed, claimProbe, Released, WaitExpires, EndBatch, SendTheRest
<1>5. ASSUME NEW b \in Batches, ProbeDone(b), a # b
      PROVE  batch'[a] = batch[a]
  BY <1>1, <1>5 DEF ProbeDone, SendTheRest
<1>6. ASSUME NEW b \in Batches, NEW d \in Devices,
             Answer(b, d) \/ Lose(b, d) \/ Retry(b, d) \/ GiveUp(b, d) \/ noteAccepted(b, d)
      PROVE  batch'[a].pc = "probing" /\ batch'[a].signing = batch[a].signing
  <2>1. CASE Answer(b, d) \/ Lose(b, d) \/ noteAccepted(b, d)
    BY <2>1 DEF Answer, Lose, noteAccepted
  <2>2. CASE Retry(b, d)
    BY <1>1, <2>2 DEF Retry, BatchRecords
  <2>3. CASE GiveUp(b, d)
    BY <1>1, <2>3 DEF GiveUp, BatchRecords
  <2> QED
    BY <1>6, <2>1, <2>2, <2>3
<1> QED
  BY <1>2, <1>3, <1>4, <1>5, <1>6 DEF Next, BatchStep

\* Only the batch that makes it adds a probe.
LEMMA ProbesMove ==
    ASSUME Types, Next, NEW p \in Processes, NEW k \in probing'[p]
    PROVE  \/ k \in probing[p]
           \/ \E b \in Batches : /\ ProcessOf[b] = p /\ batch'[b].pc = "probing"
                                 /\ batch'[b].signing = k
<1>1. batch \in [Batches -> BatchRecords] /\ probing \in [Processes -> SUBSET Nat]
  BY DEF Types, TypeOK
<1>2. CASE Tick \/ Over
  BY <1>2 DEF Tick, Over, vars, probeVars
<1>3. ASSUME NEW b \in Batches, NEW size \in {1, 2}, StartBatch(b, size)
      PROVE  probing' = probing
  BY <1>3 DEF StartBatch, probeVars
<1>4. ASSUME NEW b \in Batches, SendUnprobed(b) \/ Released(b) \/ WaitExpires(b)
      PROVE  probing' = probing
  BY <1>4 DEF SendUnprobed, Released, WaitExpires, probeVars
<1>5. ASSUME NEW b \in Batches, ProbeDone(b) \/ EndBatch(b)
      PROVE  k \in probing[p]
  <2>1. probing' = probing \/ \E q, j : probing' = [probing EXCEPT ![q] = @ \ {j}]
    BY <1>5 DEF ProbeDone, EndBatch, finishProbe, probeVars
  <2> QED
    BY <1>1, <2>1
<1>6. ASSUME NEW b \in Batches, claimProbe(b), k \notin probing[p]
      PROVE  ProcessOf[b] = p /\ batch'[b].pc = "probing" /\ batch'[b].signing = k
  <2>1. /\ probing' = [probing EXCEPT ![ProcessOf[b]] = @ \cup {batch[b].signing}]
        /\ batch' = [batch EXCEPT ![b].pc = "probing", ![b].prober = TRUE]
    BY <1>6 DEF claimProbe
  <2>2. ProcessOf[b] = p /\ k = batch[b].signing
    BY <1>1, <1>6, <2>1
  <2> QED
    BY <1>1, <2>1, <2>2 DEF BatchRecords
<1>7. ASSUME NEW b \in Batches, NEW d \in Devices,
             Answer(b, d) \/ Lose(b, d) \/ Retry(b, d) \/ GiveUp(b, d) \/ noteAccepted(b, d)
      PROVE  probing' = probing
  BY <1>7 DEF Answer, Lose, Retry, GiveUp, noteAccepted, probeVars
<1> QED
  BY <1>2, <1>3, <1>4, <1>5, <1>6, <1>7 DEF Next, BatchStep

LEMMA StrandedStep ==
    ASSUME Types, NoStrandedProbe, [Next]_vars
    PROVE  NoStrandedProbe'
<1>1. CASE UNCHANGED vars
  BY <1>1 DEF vars, probeVars, NoStrandedProbe
<1>2. ASSUME Next, NEW p \in Processes, NEW k \in probing'[p]
      PROVE  \E b \in Batches : /\ ProcessOf[b] = p /\ batch'[b].pc = "probing"
                                /\ batch'[b].signing = k
  <2>1. CASE k \in probing[p]
    <3>1. PICK a \in Batches :
             ProcessOf[a] = p /\ batch[a].pc = "probing" /\ batch[a].signing = k
      BY <2>1 DEF NoStrandedProbe
    <3>2. ~ProbeDone(a)
      BY <1>2, <3>1 DEF ProbeDone, finishProbe, Types, TypeOK
    <3> QED
      BY <1>2, <3>1, <3>2, ProbersMove
  <2> QED
    BY <1>2, <2>1, ProbesMove
<1> QED
  BY <1>1, <1>2 DEF NoStrandedProbe

\* However many batches wait for a probe, and whatever happens to it: the probe
\* they wait for is being made.
THEOREM ProbesAreMade == Spec => []NoStrandedProbe
<1>1. Init => NoStrandedProbe
  BY DEF Init, NoStrandedProbe
<1> QED
  BY <1>1, InitTypes, InitSigned, TypesStep, StrandedStep, PTL DEF Spec

-----------------------------------------------------------------------------
(* The cache of signed tokens *)

\* S is a cache that serves the bucket c and the one before: it holds neighbours
\* only, and what was signed (H) and dropped is older than anyone will ask for.
Serves(S, H, c) ==
    /\ S \subseteq H /\ H \subseteq Nat
    /\ \A i, j \in S : i <= j + 1
    /\ \A j \in H : j <= c
    /\ \A j \in H \ S : \E m \in S : j < m - 1

CacheOK == \A p \in Processes : Serves(signed[p], signings[p], Current(p)) /\ resigned[p] = {}

\* Asking for a token signs none a second time and keeps the cache in order.
LEMMA AskServes ==
    ASSUME NEW S, NEW H, NEW c \in Nat, Serves(S, H, c), NEW k \in Nat, k \in {c, c - 1}
    PROVE  /\ Serves(tokenForBucket(S, k), H \cup ({k} \ S), c)
           /\ ({k} \ S) \cap H = {}
<1> DEFINE T == tokenForBucket(S, k)
<1>1. CASE k \in S
  BY <1>1 DEF tokenForBucket
<1>2. CASE k \notin S
  <2>1. S \subseteq Nat
    BY DEF Serves
  <2>2. k \notin H
    <3>1. ASSUME k \in H PROVE FALSE
      <4>1. PICK m \in S : k < m - 1
        BY <1>2, <3>1 DEF Serves
      <4>2. m \in Nat /\ m <= c
        BY DEF Serves
      <4> QED
        BY <4>1, <4>2
    <3> QED
      BY <3>1
  <2>3. ASSUME NEW j \in Nat
        PROVE  IssuedAt(j) >= IssuedAt(k) - Lifetime <=> j >= k - 1
    <3>1. /\ IssuedAt(j) \in Int /\ IssuedAt(k) \in Int /\ IssuedAt(k - 1) \in Int
          /\ IssuedAt(k - 1) = IssuedAt(k) - Interval
      BY IssuedFacts
    <3>2. j < k - 1 => IssuedAt(j) + Interval <= IssuedAt(k - 1)
      BY IssuedFacts
    <3>3. k - 1 < j => IssuedAt(k - 1) + Interval <= IssuedAt(j)
      BY IssuedFacts
    <3> QED
      BY <3>1, <3>2, <3>3, IntervalFacts
  <2>4. T = {j \in S \cup {k} : j >= k - 1}
    BY <1>2, <2>1, <2>3 DEF tokenForBucket
  <2>5. k \in T
    BY <2>4
  <2> HIDE DEF T
  <2>6. \A i, j \in T : i <= j + 1
    <3>1. \A i \in S : i <= c /\ i \in Nat
      BY <2>1 DEF Serves
    <3>2. \A i \in T : i \in Nat /\ i >= k - 1 /\ i <= k + 1
      BY <2>4, <3>1
    <3> QED
      BY <2>4, <3>2 DEF Serves
  <2>7. ASSUME NEW j \in (H \cup {k}) \ T
        PROVE  \E m \in T : j < m - 1
    <3>1. j \in H /\ j \in Nat
      BY <2>5 DEF Serves
    <3>2. CASE j \in S
      BY <2>4, <2>5, <3>1, <3>2
    <3>3. CASE j \notin S
      <4>1. PICK m \in S : j < m - 1
        BY <3>1, <3>3 DEF Serves
      <4>2. m \in T \/ m < k - 1
        BY <2>1, <2>4
      <4> QED
        BY <2>1, <2>5, <3>1, <4>1, <4>2
    <3> QED
      BY <3>2, <3>3
  <2>8. T \subseteq H \cup {k} /\ H \cup {k} \subseteq Nat /\ \A j \in H \cup {k} : j <= c
    <3>1. S \subseteq H /\ H \subseteq Nat /\ \A j \in H : j <= c
      BY DEF Serves
    <3>2. k <= c
      OBVIOUS
    <3> QED
      BY <2>4, <3>1, <3>2
  <2>9. Serves(T, H \cup {k}, c)
    BY <2>6, <2>7, <2>8 DEF Serves
  <2>10. H \cup ({k} \ S) = H \cup {k}
    BY <1>2
  <2> QED
    BY <2>2, <2>9, <2>10 DEF T
<1> QED
  BY <1>1, <1>2

\* resolveTokens asks twice.
LEMMA ResolveServes ==
    ASSUME Types, CacheOK, NEW p \in Processes
    PROVE  /\ Serves(Resolved(p), signings[p] \cup Signs(p), Current(p))
           /\ Signs(p) \cap signings[p] = {}
<1> DEFINE c == Current(p)
           S == signed[p]
           H == signings[p]
           k == token(p)
           f == previousToken(p)
           S1 == tokenForBucket(S, k)
           H1 == H \cup ({k} \ S)
<1>1. /\ c \in Nat /\ k \in Nat /\ k \in {c, c - 1} /\ f \in {None, c - 1} /\ f \in Buckets
  BY TokenFacts, ClockFacts
<1>2. Serves(S, H, c)
  BY DEF CacheOK
<1>3. Signs(p) = ({k} \ S) \cup ({f} \ (S1 \cup {None}))
  BY DEF Signs
<1>4. Resolved(p) = IF f = None THEN S1 ELSE tokenForBucket(S1, f)
  BY DEF Resolved
<1> HIDE DEF c, S, H, k, f, S1
<1>5. Serves(S1, H1, c) /\ ({k} \ S) \cap H = {}
  BY <1>1, <1>2, AskServes DEF S1
<1> HIDE DEF H1
<1>6. CASE f = None
  <2>1. Signs(p) = {k} \ S
    BY <1>3, <1>6
  <2> QED
    BY <1>4, <1>5, <1>6, <2>1 DEF c, H, H1
<1>7. CASE f # None
  <2>1. f \in Nat /\ f \in {c, c - 1}
    BY <1>1, <1>7 DEF Buckets
  <2>2. Serves(tokenForBucket(S1, f), H1 \cup ({f} \ S1), c) /\ ({f} \ S1) \cap H1 = {}
    BY <1>1, <1>5, <2>1, AskServes
  <2>3. H \cup Signs(p) = H1 \cup ({f} \ S1) /\ Signs(p) \cap H = {}
    BY <1>3, <1>5, <1>7, <2>2 DEF H1
  <2> QED
    BY <1>4, <1>7, <2>2, <2>3 DEF c, H
<1> QED
  BY <1>6, <1>7

\* Which steps use the cache.
LEMMA CacheMoves ==
    ASSUME Types, Next
    PROVE  \/ now' >= now /\ UNCHANGED signVars
           \/ now' = now /\ \E p \in Processes : resolveTokens(p)
<1>1. ASSUME NEW b \in Batches, NEW size \in {1, 2}, StartBatch(b, size)
      PROVE  now' = now /\ \E p \in Processes : resolveTokens(p)
  BY <1>1, ConstantsAssumption DEF StartBatch
<1>2. ASSUME NEW b \in Batches, ProbeDone(b) \/ Released(b) \/ WaitExpires(b)
      PROVE  now' = now /\ \E p \in Processes : resolveTokens(p)
  BY <1>2, ConstantsAssumption DEF ProbeDone, Released, WaitExpires, SendTheRest
<1>3. ASSUME NEW b \in Batches, SendUnprobed(b) \/ claimProbe(b) \/ EndBatch(b)
      PROVE  now' = now /\ UNCHANGED signVars
  BY <1>3 DEF SendUnprobed, claimProbe, EndBatch, tokenVars
<1>4. ASSUME NEW b \in Batches, NEW d \in Devices,
             Answer(b, d) \/ Lose(b, d) \/ Retry(b, d) \/ GiveUp(b, d) \/ noteAccepted(b, d)
      PROVE  now' = now /\ UNCHANGED signVars
  BY <1>4 DEF Answer, Lose, Retry, GiveUp, noteAccepted, tokenVars
<1>5. CASE Tick \/ Over
  BY <1>5 DEF Tick, Over, vars, tokenVars, Types, TypeOK
<1>6. now \in Nat
  BY DEF Types, TypeOK
<1> QED
  BY <1>1, <1>2, <1>3, <1>4, <1>5, <1>6 DEF Next, BatchStep

LEMMA CacheStep ==
    ASSUME Types, Types', CacheOK, [Next]_vars
    PROVE  CacheOK'
<1>1. CASE now' >= now /\ UNCHANGED signVars
  <2> SUFFICES ASSUME NEW p \in Processes
               PROVE  Serves(signed[p], signings[p], Current(p)')
    BY <1>1 DEF CacheOK, signVars
  <2>1. Clock(p) \in Nat /\ Current(p) \in Nat
    BY ClockFacts
  <2>2. Clock(p)' \in Nat /\ Clock(p)' >= Clock(p)
    <3>1. now \in Nat /\ now' \in Nat /\ Offset[p] \in Int
      BY ConstantsAssumption DEF Types, TypeOK
    <3> QED
      BY <1>1, <2>1, <3>1 DEF Clock
  <2>3. Current(p)' = issuedAtBucket(Clock(p)')
    BY DEF Current, issuedAtBucket
  <2>4. Current(p) <= Current(p)' /\ Current(p)' \in Nat
    BY <2>1, <2>2, <2>3, BucketMonotone, BucketFacts DEF Current
  <2>5. Serves(signed[p], signings[p], Current(p))
    BY DEF CacheOK
  <2> QED
    BY <2>1, <2>4, <2>5 DEF Serves
<1>2. ASSUME now' = now, NEW p \in Processes, resolveTokens(p)
      PROVE  CacheOK'
  <2>1. \A q \in Processes : Current(q)' = Current(q)
    BY <1>2 DEF Current, Clock, issuedAtBucket
  <2>2. /\ signed' = [signed EXCEPT ![p] = Resolved(p)]
        /\ signings' = [signings EXCEPT ![p] = @ \cup Signs(p)]
        /\ resigned' = [resigned EXCEPT ![p] = @ \cup (Signs(p) \cap signings[p])]
    BY <1>2 DEF resolveTokens
  <2>3. /\ signed'[p] = Resolved(p) /\ signings'[p] = signings[p] \cup Signs(p)
        /\ resigned'[p] = resigned[p] \cup (Signs(p) \cap signings[p])
        /\ \A q \in Processes \ {p} : /\ signed'[q] = signed[q] /\ signings'[q] = signings[q]
                                      /\ resigned'[q] = resigned[q]
    BY <2>2 DEF Types, TypeOK
  <2>4. /\ Serves(Resolved(p), signings[p] \cup Signs(p), Current(p))
        /\ Signs(p) \cap signings[p] = {}
    BY ResolveServes
  <2> QED
    BY <2>1, <2>3, <2>4 DEF CacheOK
<1>3. CASE UNCHANGED vars
  <2>1. now' = now /\ UNCHANGED signVars /\ now \in Nat
    BY <1>3 DEF vars, tokenVars, Types, TypeOK
  <2> QED
    BY <1>1, <2>1
<1> QED
  BY <1>1, <1>2, <1>3, CacheMoves

LEMMA NeighboursAreTwo ==
    ASSUME NEW S \in SUBSET Nat, \A i, j \in S : i <= j + 1
    PROVE  Cardinality(S) <= 2
<1>1. PICK m \in Int : S \subseteq {m, m - 1}
  <2>1. CASE S = {}
    BY <2>1
  <2>2. CASE S # {}
    <3>1. PICK i \in S : TRUE
      BY <2>2
    <3>2. CASE \E j \in S : j > i
      <4>1. PICK j \in S : j > i
        BY <3>2
      <4> WITNESS j \in Int
      <4> QED
        BY <3>1, <4>1
    <3>3. CASE \A j \in S : j <= i
      <4> WITNESS i \in Int
      <4> QED
        BY <3>1, <3>3
    <3> QED
      BY <3>2, <3>3
  <2> QED
    BY <2>1, <2>2
<1>2. IsFiniteSet({m}) /\ Cardinality({m}) = 1
  BY FS_Singleton
<1>3. IsFiniteSet({m} \cup {m - 1}) /\ Cardinality({m} \cup {m - 1}) = 2
  BY <1>2, FS_AddElement
<1>4. Cardinality(S) <= Cardinality({m} \cup {m - 1})
  BY <1>1, <1>3, FS_Subset
<1> QED
  BY <1>3, <1>4

\* For every lifetime and interval and any number of processes and batches, the
\* cache of signed tokens never holds more than two, and no token is signed twice.
THEOREM CacheAlwaysServes == Spec => []CacheServes
<1>1. Init => CacheOK
  BY DEF Init, CacheOK, Serves
<1>2. CacheOK => CacheServes
  BY NeighboursAreTwo DEF CacheOK, Serves, CacheServes
<1> QED
  BY <1>1, <1>2, InitTypes, InitSigned, TypesStep, CacheStep, PTL DEF Spec

-----------------------------------------------------------------------------
(* What is presented to APNs, and what is concluded from its answers *)

\* A batch r of a process whose clock is ahead by off has read tokens that were
\* in their lifetime then, at most one tick ago.
InTime(r, off, t) ==
    r.pc # "idle" =>
      /\ r.since \in Nat /\ r.since <= t /\ t <= r.since + 1
      /\ r.since + off - IssuedAt(r.signing) < Lifetime
      /\ r.fallback # None => r.since + off - IssuedAt(r.fallback) < Lifetime
      /\ r.signing \in {issuedAtBucket(r.since + off), issuedAtBucket(r.since + off) - 1}
      /\ r.fallback \in {None, issuedAtBucket(r.since + off) - 1}

\* The buckets whose token APNs has taken, or has met with an error.
Met == seen \cup untaken

\* The request q of device d in a batch r, when APNs has met the tokens in S:
\* it carries a token of the batch's, and an answer that says so; the token is
\* found expired only when that happened within the tick that the request takes.
Asked(d, q, r, S) ==
    /\ q.st \in {"sent", "answered"} =>
         /\ r.pc \in {"probing", "sending"} /\ q.bucket \in Nat
         /\ q.bucket = IF q.retry THEN r.fallback ELSE r.signing
    /\ q.st = "answered" => q.answer \in {"ok", "refused", "expired", "error"}
    /\ q.st = "answered" /\ q.answer # "refused" => q.bucket \in S
    /\ q.st = "answered" /\ q.answer = "expired" => IssuedAt(q.bucket) + Lifetime <= r.since + 1
    /\ r.pc \in {"idle", "resolved", "waiting"} => q.st = "none"
    /\ r.pc = "probing" /\ d # 0 => q.st = "none"

Presents ==
    \A b \in Batches : /\ InTime(batch[b], Offset[ProcessOf[b]], now)
                       /\ \A d \in Devices : Asked(d, req[b][d], batch[b], Met)

\* No process has a clock behind that of APNs.
ClocksNotBehind == \A p \in Processes : Offset[p] >= 0

LEMMA OneBatchMoves ==
    ASSUME Types, Presents, now' = now, Met \subseteq Met', NEW b \in Batches, NEW n, NEW q,
           batch' = [batch EXCEPT ![b] = n], req' = [req EXCEPT ![b] = q],
           InTime(n, Offset[ProcessOf[b]], now), \A d \in Devices : Asked(d, q[d], n, Met')
    PROVE  Presents'
<1>1. \A a \in Batches \ {b} : batch'[a] = batch[a] /\ req'[a] = req[a]
  BY DEF Types, TypeOK
<1>2. batch'[b] = n /\ req'[b] = q
  BY DEF Types, TypeOK
<1>3. \A a \in Batches : InTime(batch'[a], Offset[ProcessOf[a]], now)
  BY <1>1, <1>2 DEF Presents
<1>4. \A a \in Batches, d \in Devices : Asked(d, req'[a][d], batch'[a], Met')
  <2>1. ASSUME NEW a \in Batches \ {b}, NEW d \in Devices
        PROVE  Asked(d, req'[a][d], batch'[a], Met')
    <3>1. Asked(d, req[a][d], batch[a], Met)
      BY DEF Presents
    <3> QED
      BY <1>1, <3>1 DEF Asked
  <2> QED
    BY <1>2, <2>1
<1> QED
  BY <1>3, <1>4 DEF Presents

\* The tokens a process reads are in their lifetime, by its clock.
LEMMA ReadInTime ==
    ASSUME Types, NEW p \in Processes, NEW r, r.since = now, r.signing = token(p),
           r.fallback = FallbackOf(p)
    PROVE  InTime(r, Offset[p], now)
<1>1. now \in Nat /\ Offset[p] \in Int
  BY ConstantsAssumption DEF Types, TypeOK
<1>2. /\ Clock(p) = now + Offset[p]
      /\ Clock(p) - IssuedAt(token(p)) < Lifetime
      /\ FallbackOf(p) # None => Clock(p) - IssuedAt(FallbackOf(p)) < Lifetime
  BY TokenFacts DEF Clock
<1>a. token(p) \in Int /\ FallbackOf(p) \in Int
  BY TokenFacts DEF Buckets, None
<1>b. IssuedAt(token(p)) \in Int /\ IssuedAt(FallbackOf(p)) \in Int
  BY <1>a, IssuedFacts
<1>3. now + Offset[p] - IssuedAt(r.signing) < Lifetime
  BY <1>1, <1>2, <1>b
<1>4. r.fallback # None => now + Offset[p] - IssuedAt(r.fallback) < Lifetime
  BY <1>1, <1>2, <1>b
<1>5. now <= now /\ now <= now + 1
  BY <1>1
<1>6. /\ r.signing \in {issuedAtBucket(r.since + Offset[p]), issuedAtBucket(r.since + Offset[p]) - 1}
      /\ r.fallback \in {None, issuedAtBucket(r.since + Offset[p]) - 1}
  BY TokenFacts DEF Current, Clock
<1> QED
  BY <1>1, <1>3, <1>4, <1>5, <1>6 DEF InTime

\* One request of a batch moves on, its tokens stay.
LEMMA OneRequestMoves ==
    ASSUME Types, Presents, now' = now, Met \subseteq Met',
           NEW b \in Batches, NEW d \in Devices, NEW m, NEW n,
           batch' = [batch EXCEPT ![b] = m], req' = [req EXCEPT ![b] = [@ EXCEPT ![d] = n]],
           m.pc = batch[b].pc, m.since = batch[b].since,
           m.signing = batch[b].signing, m.fallback = batch[b].fallback,
           Asked(d, n, m, Met')
    PROVE  Presents'
<1> DEFINE q == [req[b] EXCEPT ![d] = n]
<1>1. req' = [req EXCEPT ![b] = q]
  BY DEF Types, TypeOK
<1>2. InTime(m, Offset[ProcessOf[b]], now)
  BY DEF Presents, InTime
<1>3. ASSUME NEW e \in Devices PROVE Asked(e, q[e], m, Met')
  <2>1. Asked(e, req[b][e], batch[b], Met)
    BY DEF Presents
  <2>2. CASE e = d
    BY <2>2 DEF Types, TypeOK
  <2>3. CASE e # d
    <3>1. q[e] = req[b][e]
      BY <2>3 DEF Types, TypeOK
    <3> HIDE DEF q
    <3> QED
      BY <2>1, <3>1 DEF Asked
  <2> QED
    BY <2>2, <2>3
<1> HIDE DEF q
<1> QED
  BY <1>1, <1>2, <1>3, OneBatchMoves

LEMMA StartPresents ==
    ASSUME Types, Presents, NEW b \in Batches, NEW size \in {1, 2}, StartBatch(b, size)
    PROVE  Presents'
<1> DEFINE p == ProcessOf[b]
           r == [IdleBatch EXCEPT !.pc = "resolved", !.size = size, !.since = now,
                                  !.signing = token(p), !.fallback = FallbackOf(p),
                                  !.shunned = Shunned(p)]
<1>1. /\ r.pc = "resolved" /\ r.since = now /\ r.signing = token(p)
      /\ r.fallback = FallbackOf(p)
  BY DEF IdleBatch
<1>2. /\ batch' = [batch EXCEPT ![b] = r] /\ req' = [req EXCEPT ![b] = req[b]]
      /\ now' = now /\ Met' = Met
  BY DEF StartBatch, apnsVars, Met, Types, TypeOK
<1>3. batch[b].pc = "idle"
  BY DEF StartBatch
<1> HIDE DEF r
<1>4. InTime(r, Offset[p], now)
  BY <1>1, ReadInTime, ConstantsAssumption
<1>5. ASSUME NEW d \in Devices PROVE Asked(d, req[b][d], r, Met')
  <2>1. Asked(d, req[b][d], batch[b], Met)
    BY DEF Presents
  <2> QED
    BY <1>1, <1>2, <1>3, <2>1 DEF Asked
<1> QED
  BY <1>2, <1>4, <1>5, OneBatchMoves

LEMMA SendPresents ==
    ASSUME Types, Presents, Signed, NEW b \in Batches, SendUnprobed(b) \/ claimProbe(b)
    PROVE  Presents'
<1> DEFINE k == batch[b].signing
<1>1. /\ batch[b].pc = "resolved" /\ now' = now /\ Met' = Met
      /\ batch[b] \in BatchRecords /\ k \in Nat
  BY DEF SendUnprobed, claimProbe, apnsVars, Met, Types, TypeOK, Signed
<1>2. InTime(batch[b], Offset[ProcessOf[b]], now) /\ \A d \in Devices : Asked(d, req[b][d], batch[b], Met)
  BY DEF Presents
<1>3. \A d \in Devices : req[b][d].st = "none"
  BY <1>1, <1>2 DEF Asked
<1>4. ASSUME NEW n, n.pc \in {"waiting", "probing", "sending"}, n.signing = k,
             n.since = batch[b].since, n.fallback = batch[b].fallback
      PROVE  InTime(n, Offset[ProcessOf[b]], now)
  BY <1>1, <1>2, <1>4 DEF InTime
<1>5. CASE SendUnprobed(b)
  <2> DEFINE n == [batch[b] EXCEPT !.pc = "sending"]
             q == [d \in Devices |-> IF d \in DevicesOf(b) THEN Request(k) ELSE req[b][d]]
  <2>1. batch' = [batch EXCEPT ![b] = n] /\ req' = [req EXCEPT ![b] = q]
    BY <1>5 DEF SendUnprobed, Send
  <2>2. /\ n.pc = "sending" /\ n.signing = k /\ n.since = batch[b].since
        /\ n.fallback = batch[b].fallback
    BY <1>1 DEF BatchRecords
  <2> HIDE DEF n
  <2>3. ASSUME NEW d \in Devices PROVE Asked(d, q[d], n, Met')
    <3>1. Asked(d, IF d \in DevicesOf(b) THEN Request(n.signing) ELSE req[b][d], n, Met')
      BY <1>1, <1>3, <2>2 DEF Asked, Request
    <3> QED
      BY <2>2, <3>1
  <2>4. InTime(n, Offset[ProcessOf[b]], now) /\ Met \subseteq Met'
    BY <1>1, <1>4, <2>2
  <2> HIDE DEF q
  <2> QED
    BY <1>1, <2>1, <2>3, <2>4, OneBatchMoves
<1>6. CASE claimProbe(b) /\ batch' = [batch EXCEPT ![b].pc = "waiting"] /\ UNCHANGED req
  <2> DEFINE n == [batch[b] EXCEPT !.pc = "waiting"]
  <2>1. batch' = [batch EXCEPT ![b] = n] /\ req' = [req EXCEPT ![b] = req[b]]
    BY <1>6 DEF Types, TypeOK
  <2>2. /\ n.pc = "waiting" /\ n.signing = k /\ n.since = batch[b].since
        /\ n.fallback = batch[b].fallback
    BY <1>1 DEF BatchRecords
  <2> HIDE DEF n
  <2>3. \A d \in Devices : Asked(d, req[b][d], n, Met')
    BY <1>1, <1>3, <2>2 DEF Asked
  <2>4. InTime(n, Offset[ProcessOf[b]], now) /\ Met \subseteq Met'
    BY <1>1, <1>4, <2>2
  <2> QED
    BY <1>1, <2>1, <2>3, <2>4, OneBatchMoves
<1>7. CASE /\ claimProbe(b) /\ Send(b, {0}, k)
           /\ batch' = [batch EXCEPT ![b].pc = "probing", ![b].prober = TRUE]
  <2> DEFINE n == [batch[b] EXCEPT !.pc = "probing", !.prober = TRUE]
             q == [d \in Devices |-> IF d \in {0} THEN Request(k) ELSE req[b][d]]
  <2>1. batch' = [batch EXCEPT ![b] = n] /\ req' = [req EXCEPT ![b] = q]
    BY <1>7 DEF Send, Types, TypeOK
  <2>2. /\ n.pc = "probing" /\ n.signing = k /\ n.since = batch[b].since
        /\ n.fallback = batch[b].fallback
    BY <1>1 DEF BatchRecords
  <2> HIDE DEF n
  <2>3. ASSUME NEW d \in Devices PROVE Asked(d, q[d], n, Met')
    <3>1. Asked(d, IF d \in {0} THEN Request(n.signing) ELSE req[b][d], n, Met')
      BY <1>1, <1>3, <2>2 DEF Asked, Request
    <3> QED
      BY <2>2, <3>1
  <2>4. InTime(n, Offset[ProcessOf[b]], now) /\ Met \subseteq Met'
    BY <1>1, <1>4, <2>2
  <2> HIDE DEF q
  <2> QED
    BY <1>1, <2>1, <2>3, <2>4, OneBatchMoves
<1> QED
  BY <1>5, <1>6, <1>7 DEF claimProbe

LEMMA RestPresents ==
    ASSUME Types, Presents, NEW b \in Batches, NEW blind \in BOOLEAN, SendTheRest(b, blind),
           now' = now, Met' = Met, batch[b].pc \in {"probing", "waiting"},
           batch[b].pc = "probing" => req[b][0].st = "done"
    PROVE  Presents'
<1> DEFINE p == ProcessOf[b]
           D == {d \in DevicesOf(b) : req[b][d].st = "none"}
           n == [batch[b] EXCEPT !.pc = "sending", !.since = now, !.signing = token(p),
                                 !.fallback = FallbackOf(p), !.shunned = Shunned(p),
                                 !.blind = batch[b].blind \/ blind \/ token(p) > batch[b].signing]
           q == [d \in Devices |-> IF d \in D THEN Request(token(p)) ELSE req[b][d]]
<1>1. p \in Processes /\ batch[b] \in BatchRecords
  BY ConstantsAssumption DEF Types, TypeOK
<1>2. batch' = [batch EXCEPT ![b] = n] /\ req' = [req EXCEPT ![b] = q]
  BY DEF SendTheRest, Send
<1>3. /\ n.pc = "sending" /\ n.signing = token(p) /\ n.since = now
      /\ n.fallback = FallbackOf(p)
  BY <1>1 DEF BatchRecords
<1> HIDE DEF n
<1>4. token(p) \in Nat
  BY <1>1, TokenFacts
<1>5. ASSUME NEW d \in Devices
      PROVE  req[b][d].st \in {"none", "done"}
  <2>1. Asked(d, req[b][d], batch[b], Met)
    BY DEF Presents
  <2> QED
    BY <2>1 DEF Asked
<1> HIDE DEF D
<1>6. ASSUME NEW d \in Devices PROVE Asked(d, q[d], n, Met')
  <2>1. d \notin D => req[b][d].st \in {"none", "done"}
    BY <1>5
  <2>2. Asked(d, IF d \in D THEN Request(n.signing) ELSE req[b][d], n, Met')
    BY <1>3, <1>4, <2>1 DEF Asked, Request
  <2> QED
    BY <1>3, <2>2
<1> HIDE DEF q
<1>7. InTime(n, Offset[p], now)
  BY <1>1, <1>3, ReadInTime
<1> QED
  BY <1>2, <1>6, <1>7, OneBatchMoves

LEMMA EndPresents ==
    ASSUME Types, Presents, NEW b \in Batches, EndBatch(b)
    PROVE  Presents'
<1> DEFINE q == [d \in Devices |-> NoRequest]
<1>1. /\ batch' = [batch EXCEPT ![b] = IdleBatch] /\ req' = [req EXCEPT ![b] = q]
      /\ now' = now /\ Met' = Met
  BY DEF EndBatch, apnsVars, Met
<1>2. \A d \in Devices : Asked(d, q[d], IdleBatch, Met')
  BY DEF Asked, NoRequest, IdleBatch
<1>3. InTime(IdleBatch, Offset[ProcessOf[b]], now)
  BY DEF InTime, IdleBatch
<1> HIDE DEF q
<1> QED
  BY <1>1, <1>2, <1>3, OneBatchMoves

\* APNs finds no token expired that was to last for more than a tick when it was
\* read.
LEMMA AnswerInTime ==
    ASSUME Types, Presents, NEW b \in Batches, NEW d \in Devices, req[b][d].st = "sent",
           "expired" \in checkProviderToken(req[b][d].bucket)
    PROVE  IssuedAt(req[b][d].bucket) + Lifetime <= batch[b].since + 1
<1> DEFINE k == req[b][d].bucket
           s == batch[b].since
<1>1. now \in Nat /\ Lifetime \in Nat
  BY ConstantsAssumption DEF Types, TypeOK
<1>2. batch[b].pc # "idle" /\ k \in Nat
  <2>1. Asked(d, req[b][d], batch[b], Met)
    BY DEF Presents
  <2> QED
    BY <2>1 DEF Asked
<1>3. s \in Nat /\ now <= s + 1
  <2>1. InTime(batch[b], Offset[ProcessOf[b]], now)
    BY DEF Presents
  <2> QED
    BY <1>2, <2>1 DEF InTime
<1>4. IssuedAt(k) \in Int
  BY <1>2, IssuedFacts
<1>5. now - IssuedAt(k) >= Lifetime
  BY DEF checkProviderToken
<1> HIDE DEF k, s
<1>6. IssuedAt(k) + Lifetime <= s + 1
  BY <1>1, <1>3, <1>4, <1>5
<1> QED
  BY <1>6 DEF k, s

LEMMA DonePresents ==
    ASSUME Types, Presents, now' = now, Met' = Met, NEW b \in Batches, NEW d \in Devices, NEW m,
           batch' = [batch EXCEPT ![b] = m], Done(b, d), req[b][d].st \in {"sent", "answered"},
           m.pc = batch[b].pc, m.since = batch[b].since,
           m.signing = batch[b].signing, m.fallback = batch[b].fallback
    PROVE  Presents'
<1> DEFINE n == [req[b][d] EXCEPT !.st = "done", !.bucket = None, !.answer = "none"]
<1>1. req' = [req EXCEPT ![b] = [@ EXCEPT ![d] = n]]
  BY DEF Done
<1>2. n.st = "done" /\ n.answer = "none"
  BY DEF Types, TypeOK, RequestRecords
<1> HIDE DEF n
<1>3. Asked(d, req[b][d], batch[b], Met)
  BY DEF Presents
<1>4. Asked(d, n, m, Met') /\ Met \subseteq Met'
  BY <1>2, <1>3 DEF Asked
<1> QED
  BY <1>1, <1>4, OneRequestMoves

LEMMA DevicePresents ==
    ASSUME Types, Presents, NEW b \in Batches, NEW d \in Devices,
           Answer(b, d) \/ Lose(b, d) \/ Retry(b, d) \/ GiveUp(b, d) \/ noteAccepted(b, d)
    PROVE  Presents'
<1>1. batch[b] \in BatchRecords /\ req[b][d] \in RequestRecords
  BY DEF Types, TypeOK
<1>2. Asked(d, req[b][d], batch[b], Met)
  BY DEF Presents
<1>3. CASE Answer(b, d)
  <2> DEFINE k == req[b][d].bucket
  <2>0. req[b][d].st = "sent" /\ now' = now /\ batch' = batch
    BY <1>3 DEF Answer
  <2>1. PICK a \in checkProviderToken(k) :
           /\ req' = [req EXCEPT ![b][d].st = "answered", ![b][d].answer = a]
           /\ seen' = (IF a = "ok" THEN seen \cup {k} ELSE seen)
           /\ untaken' = (IF a \in {"expired", "error"} THEN untaken \cup ({k} \ seen)
                          ELSE untaken)
    BY <1>3 DEF Answer
  <2>2. /\ a \in {"ok", "refused", "expired", "error"}
        /\ a = "expired" => IssuedAt(k) + Lifetime <= batch[b].since + 1
    <3>1. a \in {"ok", "refused", "expired", "error"}
      BY DEF checkProviderToken
    <3> QED
      BY <2>0, <3>1, AnswerInTime
  <2>7. (a # "refused" => k \in Met') /\ Met \subseteq Met'
    BY <2>1, <2>2 DEF Met
  <2> DEFINE n == [req[b][d] EXCEPT !.st = "answered", !.answer = a]
  <2>3. n.st = "answered" /\ n.bucket = k /\ n.retry = req[b][d].retry /\ n.answer = a
    BY <1>1 DEF RequestRecords
  <2>4. req' = [req EXCEPT ![b] = [@ EXCEPT ![d] = n]]
    BY <2>1 DEF Types, TypeOK, RequestRecords
  <2> HIDE DEF n
  <2>5. Asked(d, n, batch[b], Met')
    BY <1>2, <2>0, <2>2, <2>3, <2>7 DEF Asked
  <2>6. batch' = [batch EXCEPT ![b] = batch[b]]
    BY <2>0 DEF Types, TypeOK
  <2> QED
    BY <2>0, <2>4, <2>5, <2>6, <2>7, OneRequestMoves
<1>4. CASE Lose(b, d) \/ noteAccepted(b, d)
  <2>1. /\ batch' = [batch EXCEPT ![b] = batch[b]] /\ now' = now /\ Met' = Met
        /\ Done(b, d) /\ req[b][d].st \in {"sent", "answered"}
    BY <1>4 DEF Lose, noteAccepted, apnsVars, Met, Types, TypeOK
  <2> QED
    BY <2>1, DonePresents
<1>5. CASE GiveUp(b, d)
  <2> DEFINE h == batch[b].hits + 1
             m == [batch[b] EXCEPT !.hits = h, !.blind = TRUE]
  <2>1. batch' = [batch EXCEPT ![b] = m]
    BY <1>5 DEF GiveUp, Types, TypeOK
  <2>2. /\ m.pc = batch[b].pc /\ m.since = batch[b].since
        /\ m.signing = batch[b].signing /\ m.fallback = batch[b].fallback
    BY <1>1 DEF BatchRecords
  <2> HIDE DEF m
  <2>3. now' = now /\ Met' = Met /\ Done(b, d) /\ req[b][d].st \in {"sent", "answered"}
    BY <1>5 DEF GiveUp, apnsVars, Met
  <2> QED
    BY <2>1, <2>2, <2>3, DonePresents
<1>6. CASE Retry(b, d)
  <2> DEFINE n == [Request(batch[b].fallback) EXCEPT !.retry = TRUE]
             h == batch[b].hits + 1
             m == [batch[b] EXCEPT !.hits = h]
  <2>1. /\ batch' = [batch EXCEPT ![b] = m] /\ req' = [req EXCEPT ![b] = [@ EXCEPT ![d] = n]]
        /\ now' = now /\ Met' = Met
    BY <1>6 DEF Retry, apnsVars, Met, Types, TypeOK
  <2>2. /\ m.pc = batch[b].pc /\ m.since = batch[b].since
        /\ m.signing = batch[b].signing /\ m.fallback = batch[b].fallback
    BY <1>1 DEF BatchRecords
  <2>3. n.st = "sent" /\ n.bucket = batch[b].fallback /\ n.retry = TRUE /\ n.answer = "none"
    BY DEF Request
  <2>4. batch[b].fallback \in Nat /\ req[b][d].st = "answered"
    BY <1>1, <1>6 DEF Retry, BatchRecords, Buckets
  <2> HIDE DEF m, n
  <2>5. Asked(d, n, m, Met') /\ Met \subseteq Met'
    BY <1>2, <2>1, <2>2, <2>3, <2>4 DEF Asked
  <2> QED
    BY <2>1, <2>2, <2>5, OneRequestMoves
<1> QED
  BY <1>3, <1>4, <1>5, <1>6

LEMMA PresentsStep ==
    ASSUME Types, Signed, Presents, [Next]_vars
    PROVE  Presents'
<1>1. CASE Tick
  <2>1. /\ \A b \in Batches : batch[b].pc # "idle" => batch[b].since = now
        /\ now' = now + 1 /\ UNCHANGED <<batch, req>> /\ Met' = Met /\ now \in Nat
    BY <1>1 DEF Tick, apnsVars, Met, Types, TypeOK
  <2>2. ASSUME NEW b \in Batches PROVE InTime(batch[b], Offset[ProcessOf[b]], now + 1)
    <3>1. InTime(batch[b], Offset[ProcessOf[b]], now)
      BY DEF Presents
    <3> QED
      BY <2>1, <3>1 DEF InTime
  <2> QED
    BY <2>1, <2>2 DEF Presents
<1>2. CASE Over \/ UNCHANGED vars
  BY <1>2 DEF Over, vars, apnsVars, Met, Presents
<1>3. ASSUME NEW b \in Batches, ProbeDone(b) \/ Released(b) \/ WaitExpires(b)
      PROVE  Presents'
  <2>1. PICK blind \in BOOLEAN : SendTheRest(b, blind)
    <3>1. (batch[b].signing \in unanswered[ProcessOf[b]]) \in BOOLEAN
      OBVIOUS
    <3> QED
      BY <1>3, <3>1 DEF ProbeDone, Released, WaitExpires
  <2>2. /\ now' = now /\ Met' = Met /\ batch[b].pc \in {"probing", "waiting"}
        /\ batch[b].pc = "probing" => req[b][0].st = "done"
    BY <1>3 DEF ProbeDone, Released, WaitExpires, apnsVars, Met
  <2> QED
    BY <2>1, <2>2, RestPresents
<1> QED
  BY <1>1, <1>2, <1>3, StartPresents, SendPresents, EndPresents, DevicePresents
  DEF Next, BatchStep

LEMMA InitPresents == Init => Presents
BY DEF Init, Presents, InTime, Asked, IdleBatch, NoRequest

\* When no clock is behind that of APNs, for any number of processes and batches
\* and every lifetime, floor and margin: a token that APNs finds expired, the
\* fallback's included, is the older of the two that the process could send and
\* was read in the last tick of its lifetime.
THEOREM NoneExpires == ClocksNotBehind => (Spec => []ExpiresOnTheWay)
<1> SUFFICES ASSUME ClocksNotBehind PROVE Spec => []ExpiresOnTheWay
  OBVIOUS
<1>1. ASSUME Types, Presents PROVE ExpiresOnTheWay
  <2> SUFFICES ASSUME NEW b \in Batches, NEW d \in Devices,
                      req[b][d].st = "answered", req[b][d].answer = "expired"
               PROVE  /\ ReadAt(b) - IssuedAt(req[b][d].bucket) = Lifetime - 1
                      /\ req[b][d].bucket = issuedAtBucket(ReadAt(b)) - 1
                      /\ req[b][d].retry \/ batch[b].signing = req[b][d].bucket
    BY DEF ExpiresOnTheWay
  <2> DEFINE p == ProcessOf[b]
             s == batch[b].since
             k == req[b][d].bucket
             c == issuedAtBucket(s + Offset[p])
  <2>1. Asked(d, req[b][d], batch[b], Met) /\ InTime(batch[b], Offset[p], now)
    BY <1>1 DEF Presents
  <2>2. /\ p \in Processes /\ Offset[p] \in Int /\ Offset[p] >= 0 /\ Lifetime \in Nat
    BY ConstantsAssumption DEF ClocksNotBehind
  <2>3. /\ batch[b].pc # "idle" /\ k \in Nat /\ k # None
        /\ k = IF req[b][d].retry THEN batch[b].fallback ELSE batch[b].signing
        /\ IssuedAt(k) + Lifetime <= s + 1
    BY <2>1 DEF Asked, None
  <2>4. /\ s \in Nat /\ s + Offset[p] - IssuedAt(k) < Lifetime /\ k \in {c, c - 1}
    BY <2>1, <2>3 DEF InTime
  <2>5. IssuedAt(k) \in Int
    BY <2>3, IssuedFacts
  <2>6. s + Offset[p] \in Nat
    BY <2>2, <2>4
  <2>7. /\ c \in Nat /\ IssuedAt(c) \in Nat /\ s + Offset[p] < IssuedAt(c) + Interval
    BY <2>6, BucketFacts
  <2>0. ReadAt(b) = s + Offset[p] /\ issuedAtBucket(ReadAt(b)) = c /\ req[b][d].bucket = k
    BY DEF ReadAt
  <2> HIDE DEF c, k, s, p
  <2>8. s + Offset[p] - IssuedAt(k) = Lifetime - 1
    BY <2>2, <2>3, <2>4, <2>5
  <2>9. k # c
    BY <2>2, <2>4, <2>5, <2>6, <2>7, <2>8, IntervalFacts
  <2>10. k = c - 1
    BY <2>4, <2>9
  <2>11. req[b][d].retry \/ batch[b].signing = k
    BY <2>3
  <2>12. ReadAt(b) - IssuedAt(req[b][d].bucket) = Lifetime - 1
    BY <2>0, <2>2, <2>4, <2>5, <2>8
  <2>13. req[b][d].bucket = issuedAtBucket(ReadAt(b)) - 1
    BY <2>0, <2>10
  <2>14. req[b][d].retry \/ batch[b].signing = req[b][d].bucket
    BY <2>0, <2>11
  <2> QED
    BY <2>12, <2>13, <2>14
<1>2. Types /\ Signed /\ Presents /\ [Next]_vars => Presents'
  BY PresentsStep
<1> QED
  BY <1>1, <1>2, InitTypes, InitSigned, InitPresents, TypesStep, PTL DEF Spec

\* Only APNs' answers change what it has taken, and only noteAccepted confirms.
LEMMA TakenMoves ==
    ASSUME Types, Next
    PROVE  /\ seen \subseteq seen' /\ untaken \subseteq untaken'
           /\ UNCHANGED confirmed \/ \E b \in Batches, d \in Devices : noteAccepted(b, d)
<1>1. CASE Tick \/ Over
  BY <1>1 DEF Tick, Over, vars, apnsVars, tokenVars
<1>2. ASSUME NEW b \in Batches, NEW size \in {1, 2}, StartBatch(b, size)
      PROVE  UNCHANGED <<seen, untaken, confirmed>>
  BY <1>2 DEF StartBatch, apnsVars
<1>3. ASSUME NEW b \in Batches, SendUnprobed(b) \/ claimProbe(b) \/ EndBatch(b)
      PROVE  UNCHANGED <<seen, untaken, confirmed>>
  BY <1>3 DEF SendUnprobed, claimProbe, EndBatch, apnsVars, tokenVars
<1>4. ASSUME NEW b \in Batches, ProbeDone(b) \/ Released(b) \/ WaitExpires(b)
      PROVE  UNCHANGED <<seen, untaken, confirmed>>
  BY <1>4 DEF ProbeDone, Released, WaitExpires, apnsVars
<1>5. ASSUME NEW b \in Batches, NEW d \in Devices, Lose(b, d) \/ Retry(b, d) \/ GiveUp(b, d)
      PROVE  UNCHANGED <<seen, untaken, confirmed>>
  BY <1>5 DEF Lose, Retry, GiveUp, apnsVars, tokenVars
<1>6. ASSUME NEW b \in Batches, NEW d \in Devices, Answer(b, d)
      PROVE  seen \subseteq seen' /\ untaken \subseteq untaken' /\ UNCHANGED confirmed
  BY <1>6 DEF Answer, tokenVars
<1>7. ASSUME NEW b \in Batches, NEW d \in Devices, noteAccepted(b, d)
      PROVE  seen' = seen /\ untaken' = untaken
  BY <1>7 DEF noteAccepted, apnsVars
<1> QED
  BY <1>1, <1>2, <1>3, <1>4, <1>5, <1>6, <1>7 DEF Next, BatchStep

\* noteAccepted confirms the bucket of the request that was answered.
LEMMA ConfirmedStep ==
    ASSUME Types, Presents, ConfirmedWasTaken, [Next]_vars
    PROVE  ConfirmedWasTaken'
<1>1. seen \subseteq seen' /\ untaken \subseteq untaken'
  BY TakenMoves DEF vars, apnsVars
<1>2. CASE UNCHANGED confirmed
  BY <1>1, <1>2 DEF ConfirmedWasTaken
<1>3. ASSUME NEW b \in Batches, NEW d \in Devices, noteAccepted(b, d)
      PROVE  ConfirmedWasTaken'
  <2> DEFINE j == IF req[b][d].retry THEN batch[b].fallback ELSE batch[b].signing
  <2>1. j \in seen \cup untaken
    <3>1. Asked(d, req[b][d], batch[b], Met)
      BY DEF Presents
    <3> QED
      BY <1>3, <3>1 DEF noteAccepted, Asked, Met
  <2>2. confirmed' = [confirmed EXCEPT ![ProcessOf[b]] = j]
    BY <1>3 DEF noteAccepted
  <2> HIDE DEF j
  <2> QED
    BY <1>1, <2>1, <2>2 DEF ConfirmedWasTaken, Types, TypeOK
<1> QED
  BY <1>2, <1>3, TakenMoves DEF vars, tokenVars

\* Whatever falls back, whatever is lost and however the clocks are set, a process
\* takes no bucket for confirmed whose token APNs has neither taken nor met with an
\* error.
THEOREM ConfirmedTruly == Spec => []ConfirmedWasTaken
<1>1. Init => ConfirmedWasTaken
  BY DEF Init, ConfirmedWasTaken
<1>2. Types /\ Signed /\ Presents /\ [Next]_vars => Presents'
  BY PresentsStep
<1> QED
  BY <1>1, <1>2, InitTypes, InitSigned, InitPresents, TypesStep, ConfirmedStep, PTL DEF Spec

-----------------------------------------------------------------------------
(* What there is to fall back to *)

\* APNs took the newest bucket it has seen last, while that bucket lasted or at
\* the end of it.
MintOK ==
    /\ mintedAt = None => seen = {}
    /\ mintedAt # None =>
          /\ mintedAt <= now
          /\ \E j \in seen :
                /\ \A i \in seen : i <= j
                /\ \A p \in Processes : /\ IssuedAt(j) <= mintedAt + Offset[p]
                                        /\ mintedAt + Offset[p] <= IssuedAt(j) + Interval

\* A batch r sends the token of the bucket in which it read it, and falls back to
\* the one before unless that was too old or shunned.
Fresh(r, off) ==
    /\ IssuedAt(r.signing) <= r.since + off
    /\ r.since + off < IssuedAt(r.signing) + Interval
    /\ r.fallback \in {None, r.signing - 1}
    /\ r.fallback = None =>
          r.shunned \/ r.since + off - IssuedAt(r.signing - 1) >= Lifetime

\* Otherwise it sends one that APNs, which has taken those of S, knows.
ReadOK(r, off, S) ==
    r.pc # "idle" => Fresh(r, off) \/ (r.signing \in S /\ r.fallback = None)

\* A newer token than k was taken.
Passed(k, S) == \E j \in S : j > k

\* A refusal is on account of the token before, of a batch that read its own
\* within the floor, or of a newer one; what is then repeated will not be new.
RefusalOK(q, r, off, S) ==
    /\ q.st = "answered" /\ q.answer = "refused" /\ ~q.retry =>
          /\ Fresh(r, off)
          /\ \/ Passed(r.signing, S)
             \/ r.signing - 1 \in S /\ r.since + off < IssuedAt(r.signing) + Floor
    /\ q.st = "sent" /\ q.retry =>
          /\ Fresh(r, off)
          /\ Passed(r.signing, S) \/ r.fallback \in S

BatchOK(r, q, off, S) == ReadOK(r, off, S) /\ \A d \in Devices : RefusalOK(q[d], r, off, S)

\* And so is the refusal that a process remembers.
MemoOK ==
    \A p \in Processes : refused[p].bucket # None =>
        refused[p].bucket - 1 \in seen \/ Passed(refused[p].bucket, seen)

FallbackInv ==
    /\ MintOK /\ MemoOK
    /\ \A b \in Batches : BatchOK(batch[b], req[b], Offset[ProcessOf[b]], seen)

\* The clocks of the processes agree with one another.
ClocksAgree == \A p, q \in Processes : Offset[p] = Offset[q]

\* What APNs has taken it goes on knowing.
LEMMA MoreSeen ==
    ASSUME NEW r, NEW q, NEW off, NEW S, NEW T, S \subseteq T, BatchOK(r, q, off, S)
    PROVE  BatchOK(r, q, off, T)
<1>1. Passed(r.signing, S) => Passed(r.signing, T)
  BY DEF Passed
<1>2. ReadOK(r, off, T)
  BY DEF BatchOK, ReadOK
<1>3. ASSUME NEW d \in Devices PROVE RefusalOK(q[d], r, off, T)
  <2>1. RefusalOK(q[d], r, off, S)
    BY DEF BatchOK
  <2> HIDE DEF Passed, Fresh
  <2> QED
    BY <1>1, <2>1 DEF RefusalOK
<1> QED
  BY <1>2, <1>3 DEF BatchOK

LEMMA OneBatchFallsBack ==
    ASSUME Types, FallbackInv, seen \subseteq seen', NEW b \in Batches, NEW n, NEW q,
           batch' = [batch EXCEPT ![b] = n], req' = [req EXCEPT ![b] = q],
           BatchOK(n, q, Offset[ProcessOf[b]], seen')
    PROVE  \A a \in Batches : BatchOK(batch'[a], req'[a], Offset[ProcessOf[a]], seen')
<1>1. ASSUME NEW a \in Batches \ {b}
      PROVE  BatchOK(batch'[a], req'[a], Offset[ProcessOf[a]], seen')
  <2>1. batch'[a] = batch[a] /\ req'[a] = req[a]
    BY DEF Types, TypeOK
  <2>2. BatchOK(batch[a], req[a], Offset[ProcessOf[a]], seen)
    BY DEF FallbackInv
  <2> QED
    BY <2>1, <2>2, MoreSeen
<1>2. batch'[b] = n /\ req'[b] = q
  BY DEF Types, TypeOK
<1> QED
  BY <1>1, <1>2

\* A process never reads a token that APNs has gone past.
LEMMA NotPassed ==
    ASSUME Types, MintOK, NEW p \in Processes
    PROVE  ~Passed(Current(p), seen)
<1> SUFFICES ASSUME NEW i \in seen, i > Current(p) PROVE FALSE
  BY DEF Passed
<1>1. mintedAt # None /\ mintedAt <= now /\ mintedAt \in Int /\ now \in Nat
  BY DEF MintOK, Types, TypeOK, Buckets, None
<1>2. PICK j \in seen : i <= j /\ IssuedAt(j) <= mintedAt + Offset[p]
  BY <1>1 DEF MintOK
<1>3. /\ j \in Nat /\ i \in Nat /\ Current(p) \in Nat /\ Offset[p] \in Int
      /\ Clock(p) \in Nat /\ Clock(p) < IssuedAt(Current(p)) + Interval
  BY ClockFacts, ConstantsAssumption DEF Types, TypeOK
<1>4. Current(p) < j
  BY <1>2, <1>3
<1>5. /\ IssuedAt(j) \in Int /\ IssuedAt(Current(p)) \in Int
      /\ IssuedAt(Current(p)) + Interval <= IssuedAt(j)
  BY <1>3, <1>4, IssuedFacts
<1>6. Clock(p) = now + Offset[p]
  BY DEF Clock
<1> QED
  BY <1>1, <1>2, <1>3, <1>5, <1>6, IntervalFacts

\* The tokens as they are read.
LEMMA ReadsWell ==
    ASSUME Types, MintOK, MemoOK, NEW p \in Processes, NEW r, r.since = now,
           r.signing = token(p), r.fallback = FallbackOf(p), r.shunned = Shunned(p)
    PROVE  ReadOK(r, Offset[p], seen)
<1> DEFINE c == Current(p)
<1>1. /\ c \in Nat /\ IssuedAt(c) <= now + Offset[p]
      /\ now + Offset[p] < IssuedAt(c) + Interval
  BY ClockFacts DEF Clock
<1>2. CASE token(p) = c
  <2>1. FallbackOf(p) = previousToken(p) /\ FallbackOf(p) \in {None, c - 1}
    BY <1>2, TokenFacts
  <2>2. previousToken(p) = None
           => Shunned(p) \/ now + Offset[p] - IssuedAt(c - 1) >= Lifetime
    <3>1. c - 1 # None
      BY ClockFacts DEF None
    <3>2. ~(Clock(p) - IssuedAt(c - 1) >= Lifetime) /\ ~Shunned(p) => previousToken(p) = c - 1
      BY Zenon DEF previousToken, Shunned, Current
    <3> HIDE DEF c
    <3>3. now + Offset[p] - IssuedAt(c - 1) >= Lifetime <=> Clock(p) - IssuedAt(c - 1) >= Lifetime
      <4>1. now \in Int /\ Offset[p] \in Int
        BY ConstantsAssumption DEF Types, TypeOK
      <4>2. c - 1 \in Int
        BY <1>1
      <4>3. IssuedAt(c - 1) \in Int /\ Lifetime \in Int
        BY <4>2, IssuedFacts, IntervalFacts
      <4> QED
        BY <4>1, <4>3 DEF Clock
    <3> QED
      BY <3>1, <3>2, <3>3, Zenon
  <2> HIDE DEF c
  <2>3. r.signing = c /\ r.since + Offset[p] = now + Offset[p] /\ r.fallback = previousToken(p)
    BY <1>2, <2>1
  <2>4. r.fallback = None
           => r.shunned \/ r.since + Offset[p] - IssuedAt(r.signing - 1) >= Lifetime
    BY <2>2, <2>3, Zenon
  <2>5. Fresh(r, Offset[p])
    BY <1>1, <2>1, <2>3, <2>4, Zenon DEF Fresh
  <2> QED
    BY <2>5 DEF ReadOK
<1>3. CASE token(p) # c
  <2>1. KnownRefused(p, c) /\ token(p) = c - 1 /\ FallbackOf(p) = None
    BY <1>3, TokenFacts
  <2>2. refused[p].bucket = c /\ c # None
    BY <1>1, <2>1 DEF KnownRefused, None
  <2>3. c - 1 \in seen
    BY <2>2, NotPassed DEF MemoOK
  <2> QED
    BY <2>1, <2>3 DEF ReadOK
<1> QED
  BY <1>2, <1>3

\* After a newer token than that of a batch nothing new is taken from the batch:
\* it is done before the floor has passed.
LEMMA PassedMeansNow ==
    ASSUME Types, MintOK, NEW b \in Batches, batch[b].pc # "idle", batch[b].signing \in Nat,
           InTime(batch[b], Offset[ProcessOf[b]], now), Fresh(batch[b], Offset[ProcessOf[b]]),
           Passed(batch[b].signing, seen)
    PROVE  mintedAt = now
<1> DEFINE p == ProcessOf[b]
           k == batch[b].signing
           s == batch[b].since
<1>1. /\ p \in Processes /\ Offset[p] \in Int /\ now \in Nat /\ s \in Nat /\ now <= s + 1
      /\ s + Offset[p] < IssuedAt(k) + Interval
  BY ConstantsAssumption DEF Types, TypeOK, InTime, Fresh
<1>2. PICK i \in seen : i > k
  BY DEF Passed
<1>3. mintedAt # None /\ mintedAt <= now /\ mintedAt \in Int
  BY <1>2 DEF MintOK, Types, TypeOK, Buckets, None
<1>4. PICK j \in seen : i <= j /\ IssuedAt(j) <= mintedAt + Offset[p]
  BY <1>1, <1>3 DEF MintOK
<1>0. seen \subseteq Nat /\ k \in Nat
  BY DEF Types, TypeOK
<1>5. i \in Nat /\ j \in Nat /\ k < j
  BY <1>0, <1>2, <1>4
<1> HIDE DEF s, k, p
<1>6. IssuedAt(j) \in Int /\ IssuedAt(k) \in Int /\ IssuedAt(k) + Interval <= IssuedAt(j)
  <2>1. j \in Int /\ k \in Int
    BY <1>0, <1>5
  <2>2. IssuedAt(j) \in Int /\ IssuedAt(k) \in Int
    BY <2>1, IssuedFacts
  <2>3. k < j => IssuedAt(k) + Interval <= IssuedAt(j)
    BY <2>1, IssuedFacts
  <2> QED
    BY <1>5, <2>2, <2>3
<1> QED
  BY <1>1, <1>3, <1>4, <1>6, IntervalFacts

\* A token that is new to APNs is one that a batch sent first, and the newest.
LEMMA TakenIsNewest ==
    ASSUME Types, FallbackInv, Presents, Signed, NEW b \in Batches, NEW d \in Devices,
           req[b][d].st = "sent", "ok" \in checkProviderToken(req[b][d].bucket),
           req[b][d].bucket \notin seen
    PROVE  /\ ~req[b][d].retry /\ req[b][d].bucket = batch[b].signing
           /\ Fresh(batch[b], Offset[ProcessOf[b]])
           /\ \A i \in seen : i <= batch[b].signing
<1> DEFINE q == req[b][d]
           r == batch[b]
           off == Offset[ProcessOf[b]]
<1>1. /\ r.pc # "idle" /\ q.bucket \in Nat /\ r.signing \in Nat
      /\ q.bucket = IF q.retry THEN r.fallback ELSE r.signing
  BY DEF Presents, Asked, Signed
<1>2. InTime(r, off, now) /\ ReadOK(r, off, seen) /\ RefusalOK(q, r, off, seen)
  BY DEF Presents, FallbackInv, BatchOK
<1>3. mintedAt # now
  <2>1. mintedAt # None => now - mintedAt >= Floor
    BY IntervalFacts DEF checkProviderToken, Types, TypeOK, Buckets, None
  <2> QED
    BY <2>1, IntervalFacts DEF Types, TypeOK, Buckets, None
<1>4. Fresh(r, off) => ~Passed(r.signing, seen)
  BY <1>1, <1>2, <1>3, PassedMeansNow DEF FallbackInv
<1>5. ~q.retry
  BY <1>1, <1>2, <1>4 DEF RefusalOK
<1>6. q.bucket = r.signing
  BY <1>1, <1>5
<1>7. Fresh(r, off)
  BY <1>1, <1>2, <1>6 DEF ReadOK
<1>8. \A i \in seen : i <= r.signing
  BY <1>1, <1>4, <1>7 DEF Passed, Types, TypeOK
<1> QED
  BY <1>5, <1>6, <1>7, <1>8

\* A token is refused on account of the one before, or of a newer one.
LEMMA RefusedOnAccount ==
    ASSUME Types, FallbackInv, Presents, Signed, NEW b \in Batches, NEW d \in Devices,
           req[b][d].st = "sent", ~req[b][d].retry,
           "refused" \in checkProviderToken(req[b][d].bucket)
    PROVE  /\ Fresh(batch[b], Offset[ProcessOf[b]])
           /\ \/ Passed(batch[b].signing, seen)
              \/ /\ batch[b].signing - 1 \in seen
                 /\ batch[b].since + Offset[ProcessOf[b]] < IssuedAt(batch[b].signing) + Floor
<1> DEFINE r == batch[b]
           p == ProcessOf[b]
           k == r.signing
           s == r.since
<1>1. r.pc # "idle" /\ k \in Nat /\ req[b][d].bucket = k
  BY DEF Presents, Asked, Signed
<1>2. InTime(r, Offset[p], now) /\ ReadOK(r, Offset[p], seen)
  BY DEF Presents, FallbackInv, BatchOK
<1>3. k \notin seen /\ mintedAt # None /\ now - mintedAt < Floor
  BY <1>1 DEF checkProviderToken
<1>4. Fresh(r, Offset[p])
  BY <1>1, <1>2, <1>3 DEF ReadOK
<1>5. /\ p \in Processes /\ Offset[p] \in Int /\ now \in Nat /\ mintedAt \in Int
      /\ s \in Nat /\ s <= now /\ IssuedAt(k) <= s + Offset[p]
  BY <1>1, <1>2, <1>4, ConstantsAssumption DEF Types, TypeOK, Buckets, None, InTime, Fresh
<1>6. PICK j \in seen : mintedAt + Offset[p] <= IssuedAt(j) + Interval
  BY <1>3, <1>5 DEF FallbackInv, MintOK
<1>7. j \in Nat /\ j # k
  BY <1>3 DEF Types, TypeOK
<1>8. CASE j > k
  BY <1>4, <1>8 DEF Passed
<1>9. CASE j < k
  <2>1. /\ IssuedAt(j) \in Int /\ IssuedAt(k) \in Int /\ IssuedAt(k - 1) \in Int
        /\ IssuedAt(k - 1) = IssuedAt(k) - Interval
        /\ j < k - 1 => IssuedAt(j) + Interval <= IssuedAt(k - 1)
    <3>1. j \in Int /\ k \in Int /\ k - 1 \in Int
      BY <1>1, <1>7
    <3> QED
      BY <3>1, IssuedFacts
  <2> HIDE DEF k, s, p, r
  <2>2. ~(j < k - 1)
    BY <1>3, <1>5, <1>6, <2>1, IntervalFacts
  <2>3. j = k - 1
    BY <1>1, <1>7, <1>9, <2>2
  <2>4. s + Offset[p] < IssuedAt(k) + Floor
    BY <1>3, <1>5, <1>6, <2>1, <2>3, IntervalFacts
  <2> QED
    BY <1>4, <2>3, <2>4 DEF k, s, p, r
<1> QED
  BY <1>1, <1>7, <1>8, <1>9

\* A batch reads its tokens, perhaps again, with no request under way.
LEMMA ReadFallsBack ==
    ASSUME Types, FallbackInv, seen' = seen, NEW b \in Batches, NEW n, NEW q,
           batch' = [batch EXCEPT ![b] = n], req' = [req EXCEPT ![b] = q],
           n.since = now, n.signing = token(ProcessOf[b]),
           n.fallback = FallbackOf(ProcessOf[b]), n.shunned = Shunned(ProcessOf[b]),
           \A d \in Devices : q[d].st \in {"none", "done"} \/ (q[d].st = "sent" /\ ~q[d].retry)
    PROVE  \A a \in Batches : BatchOK(batch'[a], req'[a], Offset[ProcessOf[a]], seen')
<1>1. ReadOK(n, Offset[ProcessOf[b]], seen)
  BY ReadsWell, ConstantsAssumption DEF FallbackInv
<1>2. \A d \in Devices : RefusalOK(q[d], n, Offset[ProcessOf[b]], seen)
  BY DEF RefusalOK
<1>3. BatchOK(n, q, Offset[ProcessOf[b]], seen')
  BY <1>1, <1>2 DEF BatchOK
<1> QED
  BY <1>3, OneBatchFallsBack

\* A batch goes on with the tokens it has, and one of its requests with them.
LEMMA RequestFallsBack ==
    ASSUME Types, FallbackInv, seen \subseteq seen', NEW b \in Batches, NEW d \in Devices,
           NEW m, NEW n,
           batch' = [batch EXCEPT ![b] = m], req' = [req EXCEPT ![b] = [@ EXCEPT ![d] = n]],
           m.pc = batch[b].pc, m.since = batch[b].since, m.signing = batch[b].signing,
           m.fallback = batch[b].fallback, m.shunned = batch[b].shunned,
           RefusalOK(n, batch[b], Offset[ProcessOf[b]], seen')
    PROVE  \A a \in Batches : BatchOK(batch'[a], req'[a], Offset[ProcessOf[a]], seen')
<1> DEFINE q == [req[b] EXCEPT ![d] = n]
           off == Offset[ProcessOf[b]]
<1>1. req' = [req EXCEPT ![b] = q] /\ req[b] = [e \in Devices |-> req[b][e]]
  BY DEF Types, TypeOK
<1>2. BatchOK(batch[b], req[b], off, seen')
  BY MoreSeen DEF FallbackInv
<1>3. Fresh(m, off) <=> Fresh(batch[b], off)
  BY DEF Fresh
<1>4. ReadOK(m, off, seen')
  BY <1>2, <1>3 DEF BatchOK, ReadOK
<1>5. ASSUME NEW e \in Devices PROVE RefusalOK(q[e], m, off, seen')
  <2>1. q[e] = IF e = d THEN n ELSE req[b][e]
    BY <1>1
  <2>2. RefusalOK(q[e], batch[b], off, seen')
    BY <1>2, <2>1 DEF BatchOK
  <2> QED
    BY <1>3, <2>2 DEF RefusalOK
<1>6. BatchOK(m, q, off, seen')
  BY <1>4, <1>5 DEF BatchOK
<1> HIDE DEF q
<1> QED
  BY <1>1, <1>6, OneBatchFallsBack

\* What has been said of the mint and of the memo stays true as more is seen.
LEMMA MemoStays ==
    ASSUME Types, MemoOK, refused' = refused, seen \subseteq seen'
    PROVE  MemoOK'
BY DEF MemoOK, Passed

LEMMA MintStays ==
    ASSUME Types, MintOK, seen' = seen, mintedAt' = mintedAt, now' \in {now, now + 1}
    PROVE  MintOK'
<1>1. now \in Nat /\ mintedAt \in Int
  BY DEF Types, TypeOK, Buckets, None
<1> QED
  BY <1>1 DEF MintOK

LEMMA StartFallsBack ==
    ASSUME Types, Presents, FallbackInv, NEW b \in Batches, NEW size \in {1, 2}, StartBatch(b, size)
    PROVE  \A a \in Batches : BatchOK(batch'[a], req'[a], Offset[ProcessOf[a]], seen')
<1> DEFINE p == ProcessOf[b]
           r == [IdleBatch EXCEPT !.pc = "resolved", !.size = size, !.since = now,
                                  !.signing = token(p), !.fallback = FallbackOf(p),
                                  !.shunned = Shunned(p)]
<1>1. /\ r.since = now /\ r.signing = token(p) /\ r.fallback = FallbackOf(p)
      /\ r.shunned = Shunned(p)
  BY DEF IdleBatch
<1>2. /\ batch' = [batch EXCEPT ![b] = r] /\ req' = [req EXCEPT ![b] = req[b]] /\ seen' = seen
  BY DEF StartBatch, apnsVars, Types, TypeOK
<1>3. \A d \in Devices : req[b][d].st = "none"
  BY DEF StartBatch, Presents, Asked
<1> HIDE DEF r
<1> QED
  BY <1>1, <1>2, <1>3, ReadFallsBack

LEMMA RestFallsBack ==
    ASSUME Types, Presents, FallbackInv, NEW b \in Batches, NEW blind \in BOOLEAN,
           SendTheRest(b, blind), seen' = seen, batch[b].pc \in {"probing", "waiting"},
           batch[b].pc = "probing" => req[b][0].st = "done"
    PROVE  \A a \in Batches : BatchOK(batch'[a], req'[a], Offset[ProcessOf[a]], seen')
<1> DEFINE p == ProcessOf[b]
           D == {d \in DevicesOf(b) : req[b][d].st = "none"}
           n == [batch[b] EXCEPT !.pc = "sending", !.since = now, !.signing = token(p),
                                 !.fallback = FallbackOf(p), !.shunned = Shunned(p),
                                 !.blind = batch[b].blind \/ blind \/ token(p) > batch[b].signing]
           q == [d \in Devices |-> IF d \in D THEN Request(token(p)) ELSE req[b][d]]
<1>1. batch' = [batch EXCEPT ![b] = n] /\ req' = [req EXCEPT ![b] = q]
  BY DEF SendTheRest, Send
<1>2. /\ n.since = now /\ n.signing = token(p) /\ n.fallback = FallbackOf(p)
      /\ n.shunned = Shunned(p)
  BY DEF Types, TypeOK, BatchRecords
<1> HIDE DEF n
<1>3. \A d \in Devices : req[b][d].st \in {"none", "done"}
  BY DEF Presents, Asked
<1> HIDE DEF D
<1>4. \A d \in Devices : q[d].st \in {"none", "done"} \/ (q[d].st = "sent" /\ ~q[d].retry)
  BY <1>3 DEF Request
<1> HIDE DEF q
<1> QED
  BY <1>1, <1>2, <1>4, ReadFallsBack

\* A batch that has no request under way sends with the tokens it has, or ends.
LEMMA SendFallsBack ==
    ASSUME Types, Presents, FallbackInv, NEW b \in Batches,
           SendUnprobed(b) \/ claimProbe(b) \/ EndBatch(b)
    PROVE  \A a \in Batches : BatchOK(batch'[a], req'[a], Offset[ProcessOf[a]], seen')
<1> DEFINE off == Offset[ProcessOf[b]]
<1>1. /\ seen' = seen
      /\ batch'[b].pc # "idle" =>
            /\ batch[b].pc # "idle" /\ batch'[b].since = batch[b].since
            /\ batch'[b].signing = batch[b].signing /\ batch'[b].fallback = batch[b].fallback
            /\ batch'[b].shunned = batch[b].shunned
  BY DEF SendUnprobed, claimProbe, EndBatch, apnsVars, Types, TypeOK, BatchRecords, IdleBatch
<1>2. \A d \in Devices : batch[b].pc = "resolved" => req[b][d].st = "none"
  BY DEF Presents, Asked
<1>3. \A d \in Devices : req'[b][d].st = "none" \/ (req'[b][d].st = "sent" /\ ~req'[b][d].retry)
  BY <1>2 DEF SendUnprobed, claimProbe, EndBatch, Send, Request, NoRequest, Types, TypeOK
<1>4. ReadOK(batch[b], off, seen)
  BY DEF FallbackInv, BatchOK
<1>5. ReadOK(batch'[b], off, seen')
  <2>1. batch'[b].pc # "idle" => (Fresh(batch'[b], off) <=> Fresh(batch[b], off))
    BY <1>1 DEF Fresh
  <2> QED
    BY <1>1, <1>4, <2>1 DEF ReadOK
<1>6. \A d \in Devices : RefusalOK(req'[b][d], batch'[b], off, seen')
  BY <1>3 DEF RefusalOK
<1>7. ASSUME NEW a \in Batches \ {b}
      PROVE  BatchOK(batch'[a], req'[a], Offset[ProcessOf[a]], seen')
  <2>1. batch'[a] = batch[a] /\ req'[a] = req[a]
    BY DEF SendUnprobed, claimProbe, EndBatch, Send, Types, TypeOK
  <2> QED
    BY <1>1, <2>1 DEF FallbackInv
<1> QED
  BY <1>5, <1>6, <1>7 DEF BatchOK

\* APNs answers.
LEMMA AnswerFallsBack ==
    ASSUME Types, Signed, Presents, FallbackInv, ClocksAgree,
           NEW b \in Batches, NEW d \in Devices, Answer(b, d)
    PROVE  FallbackInv'
<1> DEFINE k == req[b][d].bucket
           off == Offset[ProcessOf[b]]
<1>0. PICK x \in checkProviderToken(k) :
         /\ req' = [req EXCEPT ![b][d].st = "answered", ![b][d].answer = x]
         /\ seen' = (IF x = "ok" THEN seen \cup {k} ELSE seen)
         /\ mintedAt' = IF x = "ok" /\ k \notin seen THEN now ELSE mintedAt
  BY DEF Answer
<1> DEFINE n == [req[b][d] EXCEPT !.st = "answered", !.answer = x]
<1>1. /\ req[b][d].st = "sent" /\ now' = now /\ batch' = batch /\ refused' = refused
      /\ seen' = (IF x = "ok" /\ k \notin seen THEN seen \cup {k} ELSE seen)
      /\ mintedAt' = IF x = "ok" /\ k \notin seen THEN now ELSE mintedAt
  BY <1>0 DEF Answer, tokenVars
<1>2. /\ n.st = "answered" /\ n.retry = req[b][d].retry /\ n.answer = x
      /\ req' = [req EXCEPT ![b] = [@ EXCEPT ![d] = n]]
  <2>1. req[b][d] \in RequestRecords
    BY DEF Types, TypeOK
  <2>2. n.st = "answered" /\ n.retry = req[b][d].retry /\ n.answer = x
    BY <2>1 DEF RequestRecords
  <2>3. req' = [req EXCEPT ![b] = [@ EXCEPT ![d] = n]]
    BY <1>0 DEF Types, TypeOK, RequestRecords
  <2> QED
    BY <2>2, <2>3
<1>3. x = "refused" /\ ~req[b][d].retry =>
         /\ Fresh(batch[b], off)
         /\ \/ Passed(batch[b].signing, seen)
            \/ /\ batch[b].signing - 1 \in seen
               /\ batch[b].since + off < IssuedAt(batch[b].signing) + Floor
  BY <1>0, <1>1, RefusedOnAccount
<1>4. x = "ok" /\ k \notin seen =>
         /\ k = batch[b].signing /\ Fresh(batch[b], off) /\ \A i \in seen : i <= k
  BY <1>0, <1>1, TakenIsNewest
<1> HIDE DEF n
<1>5. RefusalOK(n, batch[b], off, seen') /\ seen \subseteq seen'
  <2>1. x = "refused" => seen' = seen
    BY <1>1
  <2>2. seen \subseteq seen'
    BY <1>1
  <2> QED
    BY <1>2, <1>3, <2>1, <2>2 DEF RefusalOK
<1>6. \A a \in Batches : BatchOK(batch'[a], req'[a], Offset[ProcessOf[a]], seen')
  <2>1. batch' = [batch EXCEPT ![b] = batch[b]]
    BY <1>1 DEF Types, TypeOK
  <2> QED
    BY <1>2, <1>5, <2>1, RequestFallsBack
<1>7. MemoOK'
  BY <1>1, <1>5, MemoStays DEF FallbackInv
<1>8. CASE ~(x = "ok" /\ k \notin seen)
  <2>1. MintOK'
    BY <1>1, <1>8, MintStays DEF FallbackInv
  <2> QED
    BY <1>6, <1>7, <2>1 DEF FallbackInv
<1>9. CASE x = "ok" /\ k \notin seen
  <2>1. /\ k \in Nat /\ now \in Nat /\ off \in Int /\ IssuedAt(k) \in Int
        /\ batch[b].since \in Nat /\ batch[b].since <= now /\ now <= batch[b].since + 1
    <3>1. k \in Nat /\ batch[b].pc # "idle"
      BY <1>1 DEF Presents, Asked
    <3>2. InTime(batch[b], off, now)
      BY DEF Presents
    <3>3. IssuedAt(k) \in Int
      BY <3>1, IssuedFacts
    <3> QED
      BY <3>1, <3>2, <3>3, ConstantsAssumption DEF InTime, Types, TypeOK
  <2>2. IssuedAt(k) <= batch[b].since + off /\ batch[b].since + off < IssuedAt(k) + Interval
    BY <1>4, <1>9 DEF Fresh
  <2>3. IssuedAt(k) <= now + off /\ now + off <= IssuedAt(k) + Interval
    <3> HIDE DEF k, off
    <3> QED
      BY <2>1, <2>2, IntervalFacts
  <2>4. \A p \in Processes : Offset[p] = off
    BY ConstantsAssumption DEF ClocksAgree
  <2>5. k \in seen' /\ \A i \in seen' : i <= k
    BY <1>1, <1>4, <1>9, <2>1
  <2>6. mintedAt' = now' /\ now' = now /\ now # None /\ now <= now
    BY <1>1, <1>9, <2>1 DEF None
  <2> HIDE DEF k, off
  <2>7. MintOK'
    BY <2>3, <2>4, <2>5, <2>6 DEF MintOK
  <2> QED
    BY <1>6, <1>7, <2>7 DEF FallbackInv
<1> QED
  BY <1>8, <1>9

\* uniqush acts on an answer, or goes without one.
LEMMA DeviceFallsBack ==
    ASSUME Types, Presents, FallbackInv, NEW b \in Batches, NEW d \in Devices,
           Lose(b, d) \/ Retry(b, d) \/ GiveUp(b, d) \/ noteAccepted(b, d)
    PROVE  FallbackInv'
<1>1. batch[b] \in BatchRecords /\ req[b][d] \in RequestRecords
  BY DEF Types, TypeOK
<1>2. /\ now' = now /\ seen' = seen /\ mintedAt' = mintedAt
      /\ ~Retry(b, d) => refused' = refused
  BY DEF Lose, Retry, GiveUp, noteAccepted, apnsVars, tokenVars
<1>3. MintOK'
  BY <1>2, MintStays DEF FallbackInv
<1>4. CASE ~Retry(b, d)
  <2> DEFINE n == [req[b][d] EXCEPT !.st = "done", !.bucket = None, !.answer = "none"]
             h == batch[b].hits + 1
             m == IF GiveUp(b, d) THEN [batch[b] EXCEPT !.hits = h, !.blind = TRUE]
                  ELSE batch[b]
  <2>1. req' = [req EXCEPT ![b] = [@ EXCEPT ![d] = n]] /\ n.st = "done"
    <3>1. Done(b, d)
      BY <1>4 DEF Lose, GiveUp, noteAccepted
    <3> QED
      BY <1>1, <3>1 DEF Done, Types, TypeOK, RequestRecords
  <2>2. batch' = [batch EXCEPT ![b] = m]
    <3>1. CASE GiveUp(b, d)
      BY <3>1 DEF GiveUp, Types, TypeOK
    <3>2. CASE ~GiveUp(b, d)
      BY <1>4, <3>2 DEF Lose, noteAccepted, Types, TypeOK
    <3> QED
      BY <3>1, <3>2
  <2>3. /\ m.pc = batch[b].pc /\ m.since = batch[b].since /\ m.signing = batch[b].signing
        /\ m.fallback = batch[b].fallback /\ m.shunned = batch[b].shunned
    BY <1>1 DEF BatchRecords
  <2> HIDE DEF n, m
  <2>4. RefusalOK(n, batch[b], Offset[ProcessOf[b]], seen')
    BY <2>1 DEF RefusalOK
  <2>5. \A a \in Batches : BatchOK(batch'[a], req'[a], Offset[ProcessOf[a]], seen')
    BY <1>2, <2>1, <2>2, <2>3, <2>4, RequestFallsBack
  <2>6. MemoOK'
    BY <1>2, <1>4, MemoStays DEF FallbackInv
  <2> QED
    BY <1>3, <2>5, <2>6 DEF FallbackInv
<1>5. CASE Retry(b, d)
  <2> DEFINE n == [Request(batch[b].fallback) EXCEPT !.retry = TRUE]
             h == batch[b].hits + 1
             m == [batch[b] EXCEPT !.hits = h]
             off == Offset[ProcessOf[b]]
             k == batch[b].signing
  <2>1. batch' = [batch EXCEPT ![b] = m] /\ req' = [req EXCEPT ![b] = [@ EXCEPT ![d] = n]]
    BY <1>5 DEF Retry, Types, TypeOK
  <2>2. /\ m.pc = batch[b].pc /\ m.since = batch[b].since /\ m.signing = batch[b].signing
        /\ m.fallback = batch[b].fallback /\ m.shunned = batch[b].shunned
    BY <1>1 DEF BatchRecords
  <2>3. n.st = "sent"
    BY DEF Request
  <2>4. RefusalOK(req[b][d], batch[b], off, seen)
    BY DEF FallbackInv, BatchOK
  <2>5. /\ Fresh(batch[b], off) /\ batch[b].fallback # None
        /\ Passed(k, seen) \/ k - 1 \in seen
    BY <1>5, <2>4 DEF Retry, RefusalOK
  <2>6. batch[b].fallback = k - 1
    BY <2>5 DEF Fresh
  <2> HIDE DEF n, m
  <2>7. RefusalOK(n, batch[b], off, seen')
    BY <1>2, <2>3, <2>5, <2>6 DEF RefusalOK
  <2>8. \A a \in Batches : BatchOK(batch'[a], req'[a], Offset[ProcessOf[a]], seen')
    BY <1>2, <2>1, <2>2, <2>7, RequestFallsBack
  <2>9. MemoOK'
    <3> SUFFICES ASSUME NEW p \in Processes, refused'[p].bucket # None
                 PROVE  refused'[p].bucket - 1 \in seen \/ Passed(refused'[p].bucket, seen)
      BY <1>2 DEF MemoOK
    <3>1. CASE p = ProcessOf[b]
      <4>1. refused'[p].bucket = k
        BY <1>5, <3>1 DEF Retry, Types, TypeOK
      <4> QED
        BY <2>5, <4>1
    <3>2. CASE p # ProcessOf[b]
      <4>1. refused'[p] = refused[p]
        BY <1>5, <3>2 DEF Retry, Types, TypeOK
      <4> QED
        BY <4>1 DEF FallbackInv, MemoOK
    <3> QED
      BY <3>1, <3>2
  <2> QED
    BY <1>3, <2>8, <2>9 DEF FallbackInv
<1> QED
  BY <1>4, <1>5

LEMMA FallbackStep ==
    ASSUME Types, Signed, Presents, FallbackInv, ClocksAgree, [Next]_vars
    PROVE  FallbackInv'
<1>1. CASE Tick \/ Over \/ UNCHANGED vars
  <2>1. /\ UNCHANGED <<seen, mintedAt, refused, batch, req>> /\ now' \in {now, now + 1}
    BY <1>1 DEF Tick, Over, vars, apnsVars, tokenVars
  <2>2. MintOK' /\ MemoOK'
    BY <2>1, MintStays, MemoStays DEF FallbackInv
  <2> QED
    BY <2>1, <2>2 DEF FallbackInv
<1>2. ASSUME NEW b \in Batches,
             \/ \E size \in {1, 2} : StartBatch(b, size)
             \/ SendUnprobed(b) \/ claimProbe(b) \/ EndBatch(b)
             \/ ProbeDone(b) \/ Released(b) \/ WaitExpires(b)
      PROVE  FallbackInv'
  <2>1. now' = now /\ seen' = seen /\ mintedAt' = mintedAt /\ refused' = refused
    BY <1>2 DEF StartBatch, SendUnprobed, claimProbe, EndBatch, ProbeDone, Released,
       WaitExpires, apnsVars, tokenVars
  <2>2. MintOK' /\ MemoOK'
    BY <2>1, MintStays, MemoStays DEF FallbackInv
  <2>3. ASSUME ProbeDone(b) \/ Released(b) \/ WaitExpires(b)
        PROVE  \A a \in Batches : BatchOK(batch'[a], req'[a], Offset[ProcessOf[a]], seen')
    <3>1. (batch[b].signing \in unanswered[ProcessOf[b]]) \in BOOLEAN
      OBVIOUS
    <3>2. PICK blind \in BOOLEAN : SendTheRest(b, blind)
      BY <2>3, <3>1 DEF ProbeDone, Released, WaitExpires
    <3>3. /\ batch[b].pc \in {"probing", "waiting"}
          /\ batch[b].pc = "probing" => req[b][0].st = "done"
      BY <2>3 DEF ProbeDone, Released, WaitExpires
    <3> QED
      BY <2>1, <3>2, <3>3, RestFallsBack
  <2>4. \A a \in Batches : BatchOK(batch'[a], req'[a], Offset[ProcessOf[a]], seen')
    BY <1>2, <2>3, StartFallsBack, SendFallsBack
  <2> QED
    BY <2>2, <2>4 DEF FallbackInv
<1> QED
  BY <1>1, <1>2, AnswerFallsBack, DeviceFallsBack DEF Next, BatchStep

LEMMA InitFallback == Init => FallbackInv
BY DEF Init, FallbackInv, MintOK, MemoOK, BatchOK, ReadOK, RefusalOK, IdleBatch, NoRequest

LEMMA RefusedCanFallBack ==
    ASSUME Types, Signed, Presents, FallbackInv
    PROVE  FallbackWorks
<1> SUFFICES ASSUME NEW b \in Batches, NEW d \in Devices,
                    req[b][d].st = "answered", req[b][d].answer = "refused",
                    ~req[b][d].retry, \A k \in seen : k < req[b][d].bucket,
                    ~batch[b].shunned
             PROVE  batch[b].fallback \in seen
  BY DEF FallbackWorks
<1> DEFINE r == batch[b]
           off == Offset[ProcessOf[b]]
           k == r.signing
<1>1. r.pc # "idle" /\ k \in Nat /\ req[b][d].bucket = k
  BY DEF Presents, Asked, Signed
<1>2. /\ Fresh(r, off)
      /\ Passed(k, seen) \/ (k - 1 \in seen /\ r.since + off < IssuedAt(k) + Floor)
  BY DEF FallbackInv, BatchOK, RefusalOK
<1>3. ~Passed(k, seen)
  BY <1>1 DEF Passed, Types, TypeOK
<1>4. off \in Int /\ r.since \in Int /\ k \in Int
  BY <1>1, ConstantsAssumption DEF Types, TypeOK, BatchRecords, Buckets, None
<1>5. ~(r.since + off - IssuedAt(k - 1) >= Lifetime)
  <2>1. r.since + off < IssuedAt(k) + Floor
    BY <1>2, <1>3
  <2>2. Lifetime >= Interval + Floor /\ Interval \in Nat /\ Lifetime \in Nat /\ Floor \in Nat
    BY ConstantsAssumption, IntervalFacts DEF Interval
  <2> HIDE DEF k, off, r
  <2>3. IssuedAt(k) \in Int /\ IssuedAt(k - 1) = IssuedAt(k) - Interval
    BY <1>4, IssuedFacts
  <2> QED
    BY <1>4, <2>1, <2>2, <2>3
<1>6. r.fallback = k - 1
  BY <1>2, <1>5 DEF Fresh
<1> QED
  BY <1>2, <1>3, <1>6

\* When the clocks of the processes agree, for any number of processes and batches
\* and every lifetime, floor and margin: a token refused on account of an older one leaves that one to fall back to, unless
\* the process remembers a refusal of it.
THEOREM FallbackAlwaysWorks ==
    ClocksAgree => (Spec => []FallbackWorks)
<1> SUFFICES ASSUME ClocksAgree PROVE Spec => []FallbackWorks
  OBVIOUS
<1> DEFINE All == Types /\ Signed /\ Presents /\ FallbackInv
<1>1. Init => All
  BY InitTypes, InitSigned, InitPresents, InitFallback
<1>2. All /\ [Next]_vars => All'
  BY TypesStep, PresentsStep, FallbackStep
<1>3. All => FallbackWorks
  BY RefusedCanFallBack
<1> QED
  BY <1>1, <1>2, <1>3, PTL DEF Spec
-----------------------------------------------------------------------------
(* What a probe tells *)

\* APNs knows the token of bucket k, or a newer one.
Reached(k, S) == \E j \in S : j >= k

\* Process p has learnt what becomes of the token of bucket k: APNs knows it or
\* is past it, or met it with an error, or p remembers, perhaps for no longer than
\* that, that it was refused.
Learned(p, k) == Reached(k, seen) \/ k \in untaken \/ refused[p].bucket = k

\* Or the floor of the bucket before has passed, or its probe taught nothing.
Told(p, k) ==
    Learned(p, k) \/ Clock(p) >= IssuedAt(k) + Floor \/ k \in unanswered[p]

ProbeSettled(p, k) == k \in probing[p] \/ Told(p, k)

\* A token is refused when its bucket has begun.
MemoDated ==
    \A p \in Processes : refused[p].bucket # None => refused[p].at >= IssuedAt(refused[p].bucket)

\* A remembered probe has told its process something, unless it is made again.
RecordsOK ==
    \A p \in Processes : \A r \in probed[p] : r.bucket <= Current(p) /\ ProbeSettled(p, r.bucket)

\* So has the one that a batch waits for.
WaitersOK ==
    \A b \in Batches : batch[b].pc = "waiting" => ProbeSettled(ProcessOf[b], batch[b].signing)

\* The probe that the batch r of process p is making is in flight, or was cut short
\* after the batch began, which is remembered for as long as it matters.
Registered(r, p) ==
    \/ r.signing \in probing[p]
    \/ \E x \in probed[p] : x.bucket = r.signing /\ x.at >= r.since + Offset[p]
    \/ Clock(p) >= IssuedAt(r.signing) + Floor
    \/ r.signing \in seen

ProbersOK ==
    \A b \in Batches : batch[b].pc = "probing" =>
        /\ Registered(batch[b], ProcessOf[b])
        /\ req[b][0].retry => Learned(ProcessOf[b], batch[b].signing)
        /\ req[b][0].st = "done" => Told(ProcessOf[b], batch[b].signing)

\* The token that the batch r sends to all is one that APNs knows, or one whose
\* bucket began so long ago that the token before no longer stands in its way.
Secure(r, off, S) ==
    r.signing \in S \/ r.since + off >= IssuedAt(r.signing) + Floor

Unretried(q) == q.st = "answered" /\ q.answer = "refused" /\ ~q.retry

\* A newer token than k was taken, or k is among those that met an error.
Excused(k, S, U) == Passed(k, S) \/ k \in U

\* The batch r, with requests q, has met one refusal at most, on its first device,
\* and will not meet another, unless it is blind or excused.
Calm(r, q, off, S, U) ==
    \/ r.blind
    \/ r.pc = "sending" /\ Excused(r.signing, S, U)
    \/ /\ r.hits = 0 \/ (r.hits = 1 /\ q[0].retry)
       /\ r.pc \in {"idle", "resolved", "waiting"} => r.hits = 0
       /\ r.pc = "sending" =>
             \/ r.size = 1 /\ q[1].st = "none"
             \/ Secure(r, off, S) /\ \A d \in Devices : ~Unretried(q[d])

HerdInv ==
    /\ MemoDated /\ RecordsOK /\ WaitersOK /\ ProbersOK
    /\ \A b \in Batches : Calm(batch[b], req[b], Offset[ProcessOf[b]], seen, untaken)

\* What a batch sends is not ahead of its process's clock.
LEMMA NotAhead ==
    ASSUME Types, Signed, Presents, FallbackInv, NEW b \in Batches, batch[b].pc # "idle"
    PROVE  /\ ProcessOf[b] \in Processes /\ batch[b].signing \in Nat
           /\ batch[b].signing <= Current(ProcessOf[b])
           /\ batch[b].since + Offset[ProcessOf[b]] <= Clock(ProcessOf[b])
           /\ Clock(ProcessOf[b]) <= batch[b].since + Offset[ProcessOf[b]] + 1
           /\ batch[b].since + Offset[ProcessOf[b]] \in Int
<1> DEFINE p == ProcessOf[b]
           k == batch[b].signing
           s == batch[b].since
           c == Current(p)
<1>1. /\ p \in Processes /\ k \in Nat /\ now \in Nat /\ Offset[p] \in Int
      /\ s \in Nat /\ s <= now /\ now <= s + 1
  <2>1. InTime(batch[b], Offset[p], now)
    BY DEF Presents
  <2> QED
    BY <2>1, ConstantsAssumption DEF Signed, InTime, Types, TypeOK
<1>2. /\ c \in Nat /\ Clock(p) \in Nat /\ IssuedAt(c) \in Nat
      /\ Clock(p) < IssuedAt(c) + Interval /\ Clock(p) = now + Offset[p]
  BY <1>1, ClockFacts DEF Clock
<1>3. k <= c
  <2>1. ReadOK(batch[b], Offset[p], seen)
    BY DEF FallbackInv, BatchOK
  <2>2. CASE k \in seen
    <3>1. ~Passed(c, seen)
      BY <1>1, NotPassed DEF FallbackInv
    <3> QED
      BY <1>1, <1>2, <2>2, <3>1 DEF Passed
  <2>3. CASE IssuedAt(k) <= s + Offset[p]
    <3> HIDE DEF k, c, p, s
    <3>1. k \in Int /\ c \in Int
      BY <1>1, <1>2
    <3>2. IssuedAt(k) \in Int /\ (c < k => IssuedAt(c) + Interval <= IssuedAt(k))
      BY <3>1, IssuedFacts
    <3> QED
      BY <1>1, <1>2, <2>3, <3>2, IntervalFacts
  <2> QED
    BY <2>1, <2>2, <2>3 DEF ReadOK, Fresh
<1> HIDE DEF p, k, s, c
<1>4. s + Offset[p] <= Clock(p) /\ Clock(p) <= s + Offset[p] + 1 /\ s + Offset[p] \in Int
  BY <1>1, <1>2
<1> QED
  BY <1>1, <1>3, <1>4 DEF p, k, s, c

\* A refusal that a batch falls back on leaves no doubt about the other buckets.
LEMMA RefusalTells ==
    ASSUME Types, Signed, Presents, FallbackInv, NEW b \in Batches, NEW d \in Devices,
           Unretried(req[b][d]), NEW k \in Nat, k <= Current(ProcessOf[b])
    PROVE  k = batch[b].signing \/ Reached(k, seen)
<1> DEFINE p == ProcessOf[b]
           c == batch[b].signing
           s == batch[b].since + Offset[p]
<1>1. batch[b].pc # "idle"
  BY DEF Presents, Asked, Unretried
<1>2. /\ p \in Processes /\ c \in Nat /\ s \in Int /\ Clock(p) <= s + 1
  BY <1>1, NotAhead
<1>3. /\ s < IssuedAt(c) + Interval
      /\ Passed(c, seen) \/ (c - 1 \in seen /\ s < IssuedAt(c) + Floor)
  <2>1. RefusalOK(req[b][d], batch[b], Offset[p], seen)
    BY DEF FallbackInv, BatchOK
  <2> QED
    BY <2>1 DEF RefusalOK, Fresh, Unretried
<1>0. seen \subseteq Nat
  BY DEF Types, TypeOK
<1>4. CASE c > k
  <2>1. CASE Passed(c, seen)
    <3>1. PICK j \in seen : j > c
      BY <2>1 DEF Passed
    <3>2. j \in Nat
      BY <1>0
    <3> HIDE DEF c
    <3>3. j >= k
      BY <1>2, <1>4, <3>1, <3>2
    <3> QED
      BY <3>3 DEF Reached
  <2>2. CASE c - 1 \in seen
    BY <1>2, <1>4, <2>2 DEF Reached
  <2> QED
    BY <1>3, <2>1, <2>2
<1>5. CASE c < k
  <2>1. IssuedAt(k) <= Clock(p) /\ Clock(p) \in Nat /\ IssuedAt(k) \in Int
    <3>1. /\ Current(p) \in Nat /\ IssuedAt(Current(p)) \in Nat
          /\ IssuedAt(Current(p)) <= Clock(p) /\ Clock(p) \in Nat
      BY <1>2, ClockFacts
    <3>2. IssuedAt(k) \in Int /\ (k < Current(p) => IssuedAt(k) + Interval <= IssuedAt(Current(p)))
      BY <3>1, IssuedFacts
    <3>3. k = Current(p) \/ k < Current(p)
      BY <3>1
    <3> QED
      BY <3>1, <3>2, <3>3, IntervalFacts
  <2>2. /\ IssuedAt(c) \in Int /\ IssuedAt(c + 1) = IssuedAt(c) + Interval
        /\ IssuedAt(c) + Interval <= IssuedAt(k)
        /\ c + 1 < k => IssuedAt(c) + 2 * Interval <= IssuedAt(k)
    <3>1. IssuedAt(c) \in Int /\ IssuedAt(c) + Interval <= IssuedAt(k)
      BY <1>2, <1>5, IssuedFacts
    <3> DEFINE e == c + 1
    <3>2. e \in Int /\ e - 1 = c
      BY <1>2
    <3> HIDE DEF c, e
    <3>3. /\ IssuedAt(e) \in Int /\ IssuedAt(e - 1) = IssuedAt(e) - Interval
          /\ e < k => IssuedAt(e) + Interval <= IssuedAt(k)
      BY <3>2, IssuedFacts
    <3> USE DEF e
    <3> QED
      BY <2>1, <3>1, <3>2, <3>3, IntervalFacts
  <2> HIDE DEF c, s, p
  <2>3. ~(s < IssuedAt(c) + Floor)
    BY <1>2, <2>1, <2>2, IntervalFacts
  <2>4. k = c + 1
    BY <1>2, <1>3, <1>5, <2>1, <2>2, IntervalFacts
  <2>5. Passed(c, seen)
    BY <1>3, <2>3
  <2> QED
    BY <1>2, <2>4, <2>5 DEF Passed, Reached, Types, TypeOK
<1> QED
  BY <1>2, <1>4, <1>5

\* Time passes, APNs forgets nothing, and only a repetition changes the memo.
LEMMA MemoMoves ==
    ASSUME Types, [Next]_vars
    PROVE  /\ seen \subseteq seen' /\ untaken \subseteq untaken' /\ now' \in {now, now + 1}
           /\ \/ UNCHANGED refused
              \/ \E b \in Batches, d \in Devices : Retry(b, d)
<1>1. seen \subseteq seen' /\ untaken \subseteq untaken'
  BY TakenMoves DEF vars, apnsVars
<1>2. CASE Tick \/ Over \/ UNCHANGED vars
  BY <1>1, <1>2 DEF Tick, Over, vars, apnsVars, tokenVars
<1>3. ASSUME NEW b \in Batches, \E size \in {1, 2} : StartBatch(b, size)
      PROVE  UNCHANGED <<now, refused>>
  BY <1>3 DEF StartBatch
<1>4. ASSUME NEW b \in Batches,
             \/ SendUnprobed(b) \/ claimProbe(b) \/ ProbeDone(b) \/ Released(b)
             \/ WaitExpires(b) \/ EndBatch(b)
      PROVE  UNCHANGED <<now, refused>>
  BY <1>4 DEF SendUnprobed, claimProbe, ProbeDone, Released, WaitExpires, EndBatch, tokenVars
<1>5. ASSUME NEW b \in Batches, NEW d \in Devices,
             Answer(b, d) \/ Lose(b, d) \/ GiveUp(b, d) \/ noteAccepted(b, d)
      PROVE  UNCHANGED <<now, refused>>
  BY <1>5 DEF Answer, Lose, GiveUp, noteAccepted, tokenVars
<1>6. ASSUME NEW b \in Batches, NEW d \in Devices, Retry(b, d)
      PROVE  UNCHANGED now
  BY <1>6 DEF Retry
<1> QED
  BY <1>1, <1>2, <1>3, <1>4, <1>5, <1>6 DEF Next, BatchStep

\* A process's clock and bucket do not go back.
LEMMA ClockMoves ==
    ASSUME Types, Types', [Next]_vars, NEW p \in Processes
    PROVE  /\ Clock(p) \in Nat /\ Clock(p)' \in Nat /\ Clock(p) <= Clock(p)'
           /\ Current(p) \in Nat /\ Current(p)' \in Nat /\ Current(p) <= Current(p)'
<1>1. now \in Nat /\ now' \in {now, now + 1} /\ Offset[p] \in Int
  BY MemoMoves, ConstantsAssumption DEF Types, TypeOK
<1>2. Clock(p) \in Nat /\ Current(p) \in Nat
  BY ClockFacts
<1>3. now' \in Nat /\ Start + Offset[p] >= Interval /\ now' >= Start /\ Start \in Nat
  BY ConstantsAssumption DEF Types, TypeOK
<1>4. Clock(p)' \in Nat /\ Clock(p) <= Clock(p)'
  BY <1>1, <1>2, <1>3, IntervalFacts DEF Clock
<1>5. issuedAtBucket(Clock(p)') \in Nat
  BY <1>4, BucketFacts
<1>6. issuedAtBucket(Clock(p)) <= issuedAtBucket(Clock(p)')
  BY <1>2, <1>4, BucketMonotone
<1> QED
  BY <1>2, <1>4, <1>5, <1>6 DEF Current

LEMMA LearnedStays ==
    ASSUME Types, Signed, Presents, FallbackInv, [Next]_vars, NEW p \in Processes,
           NEW k \in Nat, k <= Current(p), Learned(p, k)
    PROVE  Learned(p, k)'
<1>1. (Reached(k, seen) => Reached(k, seen')) /\ (k \in untaken => k \in untaken')
  BY MemoMoves DEF Reached
<1>2. CASE UNCHANGED refused
  BY <1>1, <1>2 DEF Learned
<1>3. ASSUME NEW b \in Batches, NEW d \in Devices, Retry(b, d)
      PROVE  Learned(p, k)'
  <2>1. CASE p # ProcessOf[b]
    <3>1. refused'[p] = refused[p]
      BY <1>3, <2>1 DEF Retry, Types, TypeOK
    <3> QED
      BY <1>1, <3>1 DEF Learned
  <2>2. CASE p = ProcessOf[b]
    <3>1. refused'[p].bucket = batch[b].signing
      BY <1>3, <2>2 DEF Retry, Types, TypeOK
    <3>2. Unretried(req[b][d])
      BY <1>3 DEF Retry, Unretried
    <3> QED
      BY <1>1, <2>2, <3>1, <3>2, RefusalTells DEF Learned
  <2> QED
    BY <2>1, <2>2
<1> QED
  BY <1>2, <1>3, MemoMoves

LEMMA ToldStays ==
    ASSUME Types, Types', Signed, Presents, FallbackInv, [Next]_vars, NEW p \in Processes,
           NEW k \in Nat, k <= Current(p), Told(p, k),
           k \in unanswered[p] => k \in unanswered'[p]
    PROVE  Told(p, k)'
<1>1. CASE Learned(p, k)
  BY <1>1, LearnedStays DEF Told
<1>2. CASE Clock(p) >= IssuedAt(k) + Floor
  <2>1. Clock(p)' >= IssuedAt(k) + Floor
    <3>1. IssuedAt(k) \in Int
      BY IssuedFacts
    <3> QED
      BY <1>2, <3>1, ClockMoves, IntervalFacts
  <2> QED
    BY <2>1 DEF Told, IssuedAt, Interval
<1>3. CASE k \in unanswered[p]
  BY <1>3 DEF Told
<1> QED
  BY <1>1, <1>2, <1>3 DEF Told

\* How the probes of a process move: one is claimed, one is published, or none does.
Claims(b) ==
    LET p == ProcessOf[b]
        k == batch[b].signing IN
    /\ claimProbe(b) /\ k \notin probing[p] /\ \A r \in Remembered(p) : r.bucket # k
    /\ probing' = [probing EXCEPT ![p] = @ \cup {k}]
    /\ unanswered' = [unanswered EXCEPT ![p] = @ \ {k}]
    /\ probed' = [probed EXCEPT ![p] = Remembered(p)]

Joins(b) ==
    LET p == ProcessOf[b] IN
    /\ claimProbe(b) /\ UNCHANGED <<probing, unanswered>>
    /\ probed' = [probed EXCEPT ![p] = Remembered(p)]

Publishes(b) ==
    LET p == ProcessOf[b]
        k == batch[b].signing IN
    /\ finishProbe(p, k)
    /\ \/ ProbeDone(b) /\ UNCHANGED unanswered
       \/ EndBatch(b) /\ unanswered' = [unanswered EXCEPT ![p] = @ \cup ({k} \cap probing[p])]

LEMMA ProbeMoves ==
    ASSUME Types, [Next]_vars
    PROVE  \/ \E b \in Batches : Claims(b) \/ Joins(b) \/ Publishes(b)
           \/ /\ UNCHANGED <<probing, probed>>
              /\ \A p \in Processes : unanswered[p] \subseteq unanswered'[p]
<1>1. CASE Tick \/ Over \/ UNCHANGED vars
  BY <1>1 DEF Tick, Over, vars, probeVars
<1>2. ASSUME NEW b \in Batches, \E size \in {1, 2} : StartBatch(b, size)
      PROVE  UNCHANGED <<probing, probed, unanswered>>
  BY <1>2 DEF StartBatch, probeVars
<1>3. ASSUME NEW b \in Batches, SendUnprobed(b) \/ Released(b) \/ WaitExpires(b)
      PROVE  UNCHANGED <<probing, probed, unanswered>>
  BY <1>3 DEF SendUnprobed, Released, WaitExpires, probeVars
<1>4. ASSUME NEW b \in Batches, claimProbe(b)
      PROVE  Claims(b) \/ Joins(b)
  BY <1>4 DEF claimProbe, Claims, Joins
<1>5. ASSUME NEW b \in Batches, ProbeDone(b)
      PROVE  Publishes(b)
  BY <1>5 DEF ProbeDone, Publishes
<1>6. ASSUME NEW b \in Batches, EndBatch(b)
      PROVE  Publishes(b) \/ UNCHANGED <<probing, probed, unanswered>>
  BY <1>6 DEF EndBatch, Publishes, probeVars
<1>7. ASSUME NEW b \in Batches, NEW d \in Devices,
             Answer(b, d) \/ Retry(b, d) \/ noteAccepted(b, d)
      PROVE  UNCHANGED <<probing, probed, unanswered>>
  BY <1>7 DEF Answer, Retry, noteAccepted, probeVars
<1>8. ASSUME NEW b \in Batches, NEW d \in Devices, Lose(b, d) \/ GiveUp(b, d)
      PROVE  /\ UNCHANGED <<probing, probed>>
             /\ \A p \in Processes : unanswered[p] \subseteq unanswered'[p]
  <2>1. unanswered \in [Processes -> SUBSET Nat]
    BY DEF Types, TypeOK
  <2> QED
    BY <1>8, <2>1 DEF Lose, GiveUp
<1> QED
  BY <1>1, <1>2, <1>3, <1>4, <1>5, <1>6, <1>7, <1>8 DEF Next, BatchStep

\* Who was told stays so, unless the probe is made again.
LEMMA SettledStays ==
    ASSUME Types, Types', Signed, Presents, FallbackInv, ProbersOK, [Next]_vars,
           NEW p \in Processes, NEW k \in Nat, k <= Current(p), ProbeSettled(p, k)
    PROVE  ProbeSettled(p, k)'
<1>1. CASE Told(p, k) /\ (k \in unanswered[p] => k \in unanswered'[p])
  BY <1>1, ToldStays DEF ProbeSettled
<1>2. CASE k \in probing'[p]
  BY <1>2 DEF ProbeSettled
<1>3. CASE k \in unanswered'[p]
  BY <1>3 DEF ProbeSettled, Told
<1>4. ASSUME NEW b \in Batches, Claims(b)
      PROVE  \/ k \in probing'[p]
             \/ k \notin probing[p] /\ (k \in unanswered[p] => k \in unanswered'[p])
  <2> DEFINE j == batch[b].signing
             q == ProcessOf[b]
  <2>1. /\ probing' = [probing EXCEPT ![q] = @ \cup {j}]
        /\ unanswered' = [unanswered EXCEPT ![q] = @ \ {j}]
    BY <1>4 DEF Claims
  <2>2. probing \in [Processes -> SUBSET Nat] /\ unanswered \in [Processes -> SUBSET Nat]
    BY DEF Types, TypeOK
  <2> HIDE DEF j, q
  <2> QED
    BY <2>1, <2>2
<1>5. ASSUME NEW b \in Batches, Joins(b)
      PROVE  \/ k \in probing'[p]
             \/ k \notin probing[p] /\ (k \in unanswered[p] => k \in unanswered'[p])
  BY <1>5 DEF Joins
<1>6. ASSUME NEW b \in Batches, Publishes(b), k \notin probing'[p]
      PROVE  \/ k \in unanswered'[p]
             \/ Told(p, k) /\ (k \in unanswered[p] => k \in unanswered'[p])
  <2>1. k \in unanswered[p] => k \in unanswered'[p]
    BY <1>6 DEF Publishes, Types, TypeOK
  <2>2. CASE k \notin probing[p]
    BY <2>1, <2>2 DEF ProbeSettled
  <2>3. CASE k \in probing[p]
    <3>1. p = ProcessOf[b] /\ k = batch[b].signing
      BY <1>6, <2>3 DEF Publishes, finishProbe, Types, TypeOK
    <3>2. CASE EndBatch(b)
      <4>1. CASE ProbeDone(b)
        BY <3>2, <4>1 DEF EndBatch, ProbeDone
      <4>2. CASE ~ProbeDone(b)
        BY <1>6, <2>3, <3>1, <4>2 DEF Publishes, Types, TypeOK
      <4> QED
        BY <4>1, <4>2
    <3>3. CASE ProbeDone(b)
      <4>1. Told(p, k)
        BY <3>1, <3>3 DEF ProbersOK, ProbeDone
      <4> QED
        BY <2>1, <4>1
    <3> QED
      BY <1>6, <3>2, <3>3 DEF Publishes
  <2> QED
    BY <2>2, <2>3
<1>7. CASE UNCHANGED probing /\ \A q \in Processes : unanswered[q] \subseteq unanswered'[q]
  BY <1>1, <1>2, <1>7 DEF ProbeSettled
<1> QED
  BY <1>1, <1>2, <1>3, <1>4, <1>5, <1>6, <1>7, ProbeMoves DEF ProbeSettled

\* What a batch goes on with after a probe.
LEMMA RestMoves ==
    ASSUME Types, NEW b \in Batches, NEW blind \in BOOLEAN, SendTheRest(b, blind)
    PROVE  /\ \A a \in Batches \ {b} : batch'[a] = batch[a] /\ req'[a] = req[a]
           /\ batch'[b].pc = "sending" /\ batch'[b].since = now
           /\ batch'[b].signing = token(ProcessOf[b])
           /\ batch'[b].hits = batch[b].hits /\ batch'[b].size = batch[b].size
           /\ batch'[b].blind
                 = (batch[b].blind \/ blind \/ token(ProcessOf[b]) > batch[b].signing)
           /\ \A d \in Devices :
                 req'[b][d] = IF d \in DevicesOf(b) /\ req[b][d].st = "none"
                              THEN Request(token(ProcessOf[b])) ELSE req[b][d]
<1> DEFINE p == ProcessOf[b]
           D == {d \in DevicesOf(b) : req[b][d].st = "none"}
           n == [batch[b] EXCEPT !.pc = "sending", !.since = now, !.signing = token(p),
                                 !.fallback = FallbackOf(p), !.shunned = Shunned(p),
                                 !.blind = batch[b].blind \/ blind \/ token(p) > batch[b].signing]
           q == [d \in Devices |-> IF d \in D THEN Request(token(p)) ELSE req[b][d]]
<1>1. batch' = [batch EXCEPT ![b] = n] /\ req' = [req EXCEPT ![b] = q]
  BY DEF SendTheRest, Send
<1>2. /\ n.pc = "sending" /\ n.since = now /\ n.signing = token(p)
      /\ n.hits = batch[b].hits /\ n.size = batch[b].size
      /\ n.blind = (batch[b].blind \/ blind \/ token(p) > batch[b].signing)
  BY DEF Types, TypeOK, BatchRecords
<1>3. \A d \in Devices : q[d] = IF d \in DevicesOf(b) /\ req[b][d].st = "none"
                                THEN Request(token(p)) ELSE req[b][d]
  OBVIOUS
<1> HIDE DEF n, q
<1>4. batch'[b] = n /\ req'[b] = q
  BY <1>1 DEF Types, TypeOK
<1>5. \A a \in Batches \ {b} : batch'[a] = batch[a] /\ req'[a] = req[a]
  BY <1>1 DEF Types, TypeOK
<1> QED
  BY <1>2, <1>3, <1>4, <1>5

LEMMA MemoDatedStep ==
    ASSUME Types, Signed, Presents, FallbackInv, MemoDated, [Next]_vars
    PROVE  MemoDated'
<1>1. CASE UNCHANGED refused
  BY <1>1 DEF MemoDated, IssuedAt, Interval
<1>2. ASSUME NEW b \in Batches, NEW d \in Devices, Retry(b, d),
             NEW p \in Processes, refused'[p].bucket # None
      PROVE  refused'[p].at >= IssuedAt(refused'[p].bucket)
  <2>1. CASE p # ProcessOf[b]
    <3>1. refused'[p] = refused[p]
      BY <1>2, <2>1 DEF Retry, Types, TypeOK
    <3> QED
      BY <1>2, <3>1 DEF MemoDated
  <2>2. CASE p = ProcessOf[b]
    <3> DEFINE k == batch[b].signing
    <3>1. refused'[p] = [bucket |-> k, at |-> Clock(p)]
      BY <1>2, <2>2 DEF Retry, Types, TypeOK
    <3>2. batch[b].pc # "idle"
      BY <1>2 DEF Retry, Presents, Asked
    <3>3. IssuedAt(k) <= batch[b].since + Offset[p]
      BY <1>2, <2>2 DEF Retry, FallbackInv, BatchOK, RefusalOK, Fresh
    <3>4. /\ batch[b].since + Offset[p] <= Clock(p) /\ batch[b].since + Offset[p] \in Int
          /\ k \in Nat /\ Clock(p) \in Nat
      BY <2>2, <3>2, NotAhead, ClockFacts
    <3> HIDE DEF k
    <3>5. IssuedAt(k) \in Int
      BY <3>4, IssuedFacts
    <3>6. Clock(p) >= IssuedAt(k)
      BY <3>3, <3>4, <3>5
    <3> QED
      BY <3>1, <3>6
  <2> QED
    BY <2>1, <2>2
<1>3. ASSUME NEW b \in Batches, NEW d \in Devices, Retry(b, d)
      PROVE  MemoDated'
  BY <1>2, <1>3 DEF MemoDated, IssuedAt, Interval
<1> QED
  BY <1>1, <1>3, MemoMoves

\* Only a probe that was in flight is remembered.
LEMMA RecordsMove ==
    ASSUME Types, [Next]_vars, NEW p \in Processes, NEW x \in probed'[p]
    PROVE  \/ x \in probed[p]
           \/ /\ x.bucket \in probing[p]
              /\ \E b \in Batches : /\ ProcessOf[b] = p /\ batch[b].pc # "idle"
                                    /\ batch[b].signing = x.bucket
<1>1. ASSUME NEW b \in Batches, Claims(b) \/ Joins(b)
      PROVE  x \in probed[p]
  <2>1. probed' = [probed EXCEPT ![ProcessOf[b]] = Remembered(ProcessOf[b])]
    BY <1>1 DEF Claims, Joins
  <2> QED
    BY <2>1 DEF Remembered, Types, TypeOK
<1>2. ASSUME NEW b \in Batches, Publishes(b), x \notin probed[p]
      PROVE  /\ x.bucket \in probing[p] /\ ProcessOf[b] = p /\ batch[b].pc # "idle"
             /\ batch[b].signing = x.bucket
  <2> DEFINE k == batch[b].signing
             q == ProcessOf[b]
  <2>1. probed' = [probed EXCEPT ![q] = IF k \in probing[q]
                                        THEN @ \cup {[bucket |-> k, at |-> Clock(q)]} ELSE @]
    BY <1>2 DEF Publishes, finishProbe
  <2>2. batch[b].pc # "idle"
    BY <1>2 DEF Publishes, ProbeDone, EndBatch
  <2> HIDE DEF k, q
  <2>3. q = p /\ k \in probing[p] /\ x = [bucket |-> k, at |-> Clock(q)]
    BY <1>2, <2>1 DEF Types, TypeOK
  <2> QED
    BY <2>2, <2>3 DEF k, q
<1> QED
  BY <1>1, <1>2, ProbeMoves

LEMMA RecordsStep ==
    ASSUME Types, Types', Signed, Presents, FallbackInv, RecordsOK, ProbersOK, [Next]_vars
    PROVE  RecordsOK'
<1> SUFFICES ASSUME NEW p \in Processes, NEW x \in probed'[p]
             PROVE  x.bucket <= Current(p)' /\ ProbeSettled(p, x.bucket)'
  BY DEF RecordsOK
<1>1. x.bucket <= Current(p) /\ ProbeSettled(p, x.bucket) /\ x.bucket \in Nat
  <2>1. CASE x \in probed[p]
    BY <2>1 DEF RecordsOK, Types, TypeOK
  <2>2. ASSUME NEW b \in Batches, ProcessOf[b] = p, batch[b].pc # "idle",
               batch[b].signing = x.bucket, x.bucket \in probing[p]
        PROVE  x.bucket <= Current(p) /\ ProbeSettled(p, x.bucket) /\ x.bucket \in Nat
    BY <2>2, NotAhead DEF ProbeSettled
  <2> QED
    BY <2>1, <2>2, RecordsMove
<1>2. Current(p) <= Current(p)' /\ Current(p) \in Nat /\ Current(p)' \in Nat
  BY ClockMoves
<1>3. x.bucket <= Current(p)'
  BY <1>1, <1>2
<1> QED
  BY <1>1, <1>3, SettledStays

\* A batch comes to wait for a probe that is in flight or remembered.
LEMMA WaitersMove ==
    ASSUME Types, [Next]_vars, NEW a \in Batches, batch'[a].pc = "waiting"
    PROVE  /\ batch[a].pc # "idle" /\ batch'[a].signing = batch[a].signing
           /\ \/ batch[a].pc = "waiting"
              \/ batch[a].signing \in probing[ProcessOf[a]]
              \/ \E r \in probed[ProcessOf[a]] : r.bucket = batch[a].signing
<1>1. batch[a] \in BatchRecords /\ batch \in [Batches -> BatchRecords]
  BY DEF Types, TypeOK
<1>2. CASE Tick \/ Over \/ UNCHANGED vars
  BY <1>2 DEF Tick, Over, vars
<1>3. ASSUME NEW b \in Batches, \E size \in {1, 2} : StartBatch(b, size)
      PROVE  batch'[a] = batch[a]
  BY <1>1, <1>3 DEF StartBatch, IdleBatch
<1>4. ASSUME NEW b \in Batches, SendUnprobed(b) \/ EndBatch(b)
      PROVE  batch'[a] = batch[a]
  BY <1>1, <1>4 DEF SendUnprobed, EndBatch, IdleBatch, BatchRecords
<1>5. ASSUME NEW b \in Batches, ProbeDone(b) \/ Released(b) \/ WaitExpires(b)
      PROVE  batch'[a] = batch[a]
  <2>1. PICK blind \in BOOLEAN : SendTheRest(b, blind)
    <3>1. (batch[b].signing \in unanswered[ProcessOf[b]]) \in BOOLEAN
      OBVIOUS
    <3> QED
      BY <1>5, <3>1 DEF ProbeDone, Released, WaitExpires
  <2> QED
    BY <2>1, RestMoves
<1>6. ASSUME NEW b \in Batches, claimProbe(b), b # a
      PROVE  batch'[a] = batch[a]
  BY <1>1, <1>6 DEF claimProbe
<1>7. CASE claimProbe(a)
  <2>1. /\ batch[a].pc = "resolved"
        /\ \/ batch' = [batch EXCEPT ![a].pc = "probing", ![a].prober = TRUE]
           \/ /\ batch' = [batch EXCEPT ![a].pc = "waiting"]
              /\ \/ batch[a].signing \in probing[ProcessOf[a]]
                 \/ \E r \in Remembered(ProcessOf[a]) : r.bucket = batch[a].signing
    BY <1>7 DEF claimProbe
  <2>2. batch' # [batch EXCEPT ![a].pc = "probing", ![a].prober = TRUE]
    BY <1>1 DEF BatchRecords
  <2> QED
    BY <1>1, <2>1, <2>2 DEF BatchRecords, Remembered
<1>8. ASSUME NEW b \in Batches, NEW d \in Devices,
             Answer(b, d) \/ Lose(b, d) \/ Retry(b, d) \/ GiveUp(b, d) \/ noteAccepted(b, d)
      PROVE  batch'[a].pc = batch[a].pc /\ batch'[a].signing = batch[a].signing
  <2>1. CASE Answer(b, d) \/ Lose(b, d) \/ noteAccepted(b, d)
    BY <2>1 DEF Answer, Lose, noteAccepted
  <2>2. CASE Retry(b, d)
    BY <1>1, <2>2 DEF Retry, BatchRecords
  <2>3. CASE GiveUp(b, d)
    BY <1>1, <2>3 DEF GiveUp, BatchRecords
  <2> QED
    BY <1>8, <2>1, <2>2, <2>3
<1> QED
  BY <1>2, <1>3, <1>4, <1>5, <1>6, <1>7, <1>8 DEF Next, BatchStep

LEMMA WaitersStep ==
    ASSUME Types, Types', Signed, Presents, FallbackInv, RecordsOK, WaitersOK, ProbersOK,
           [Next]_vars
    PROVE  WaitersOK'
<1> SUFFICES ASSUME NEW a \in Batches, batch'[a].pc = "waiting"
             PROVE  ProbeSettled(ProcessOf[a], batch[a].signing)'
  BY DEF WaitersOK
<1>1. PICK p \in Processes, k \in Nat :
         /\ p = ProcessOf[a] /\ k = batch[a].signing /\ k <= Current(p)
         /\ batch'[a].signing = k
  BY NotAhead, WaitersMove
<1>2. ProbeSettled(p, k)
  <2>1. CASE batch[a].pc = "waiting"
    BY <1>1, <2>1 DEF WaitersOK
  <2>2. CASE k \in probing[p]
    BY <2>2 DEF ProbeSettled
  <2>3. ASSUME NEW r \in probed[p], r.bucket = k
        PROVE  ProbeSettled(p, k)
    BY <1>1, <2>3 DEF RecordsOK
  <2> QED
    BY <1>1, <2>1, <2>2, <2>3, WaitersMove
<1>3. ProbeSettled(p, k)'
  BY <1>1, <1>2, SettledStays
<1> QED
  BY <1>1, <1>3

\* How a batch comes to probe, and goes on with it.
LEMMA ProberMoves ==
    ASSUME Types, [Next]_vars, NEW a \in Batches, batch'[a].pc = "probing"
    PROVE  /\ batch[a].pc # "idle" /\ batch'[a].signing = batch[a].signing
           /\ batch'[a].since = batch[a].since
           /\ \/ Claims(a) /\ req'[a][0].st = "sent" /\ ~req'[a][0].retry
              \/ /\ batch[a].pc = "probing"
                 /\ \/ /\ req'[a][0].retry = req[a][0].retry
                       /\ req'[a][0].st = "done" => req[a][0].st = "done"
                    \/ Retry(a, 0) /\ req'[a][0].st = "sent"
                    \/ /\ Lose(a, 0) \/ GiveUp(a, 0) \/ noteAccepted(a, 0)
                       /\ req'[a][0].retry = req[a][0].retry
<1>1. /\ batch[a] \in BatchRecords /\ batch \in [Batches -> BatchRecords]
      /\ req[a] \in [Devices -> RequestRecords] /\ req \in [Batches -> [Devices -> RequestRecords]]
      /\ 0 \in Devices
  BY DEF Types, TypeOK, Devices
<1>2. CASE Tick \/ Over \/ UNCHANGED vars
  BY <1>2 DEF Tick, Over, vars
<1>3. ASSUME NEW b \in Batches, \E size \in {1, 2} : StartBatch(b, size)
      PROVE  batch'[a] = batch[a] /\ req'[a] = req[a]
  BY <1>1, <1>3 DEF StartBatch, IdleBatch
<1>4. ASSUME NEW b \in Batches, SendUnprobed(b) \/ EndBatch(b)
      PROVE  batch'[a] = batch[a] /\ req'[a] = req[a]
  <2>1. a # b
    BY <1>1, <1>4 DEF SendUnprobed, EndBatch, IdleBatch, BatchRecords
  <2> QED
    BY <1>1, <1>4, <2>1 DEF SendUnprobed, EndBatch, Send
<1>5. ASSUME NEW b \in Batches, ProbeDone(b) \/ Released(b) \/ WaitExpires(b)
      PROVE  batch'[a] = batch[a] /\ req'[a] = req[a]
  <2>1. PICK blind \in BOOLEAN : SendTheRest(b, blind)
    <3>1. (batch[b].signing \in unanswered[ProcessOf[b]]) \in BOOLEAN
      OBVIOUS
    <3> QED
      BY <1>5, <3>1 DEF ProbeDone, Released, WaitExpires
  <2> QED
    BY <2>1, RestMoves
<1>6. ASSUME NEW b \in Batches, claimProbe(b), b # a
      PROVE  batch'[a] = batch[a] /\ req'[a] = req[a]
  BY <1>1, <1>6 DEF claimProbe, Send
<1>7. CASE claimProbe(a)
  <2>1. batch' # [batch EXCEPT ![a].pc = "waiting"]
    BY <1>1 DEF BatchRecords
  <2>2. /\ batch[a].pc = "resolved" /\ Claims(a) /\ Send(a, {0}, batch[a].signing)
        /\ batch' = [batch EXCEPT ![a].pc = "probing", ![a].prober = TRUE]
    BY <1>7, <2>1 DEF claimProbe, Claims
  <2>3. batch'[a].signing = batch[a].signing /\ batch'[a].since = batch[a].since
    BY <1>1, <2>2 DEF BatchRecords
  <2>4. req'[a][0] = Request(batch[a].signing)
    BY <1>1, <2>2 DEF Send
  <2> QED
    BY <2>2, <2>3, <2>4 DEF Request
<1>8. ASSUME NEW b \in Batches, NEW d \in Devices,
             Answer(b, d) \/ Lose(b, d) \/ Retry(b, d) \/ GiveUp(b, d) \/ noteAccepted(b, d)
      PROVE  /\ batch'[a].pc = batch[a].pc /\ batch'[a].signing = batch[a].signing
             /\ batch'[a].since = batch[a].since
             /\ (a # b \/ d # 0) => req'[a][0] = req[a][0]
  <2>1. CASE Answer(b, d)
    BY <1>1, <2>1 DEF Answer
  <2>2. CASE Lose(b, d) \/ noteAccepted(b, d)
    BY <1>1, <2>2 DEF Lose, noteAccepted, Done
  <2>3. CASE Retry(b, d)
    <3>1. batch'[a].pc = batch[a].pc /\ batch'[a].signing = batch[a].signing /\ batch'[a].since = batch[a].since
      BY <1>1, <2>3 DEF Retry, BatchRecords
    <3> QED
      BY <1>1, <2>3, <3>1 DEF Retry
  <2>4. CASE GiveUp(b, d)
    <3>1. batch'[a].pc = batch[a].pc /\ batch'[a].signing = batch[a].signing /\ batch'[a].since = batch[a].since
      BY <1>1, <2>4 DEF GiveUp, BatchRecords
    <3> QED
      BY <1>1, <2>4, <3>1 DEF GiveUp, Done
  <2> QED
    BY <1>8, <2>1, <2>2, <2>3, <2>4
<1>9. ASSUME Answer(a, 0)
      PROVE  req'[a][0].retry = req[a][0].retry /\ req'[a][0].st # "done"
  BY <1>1, <1>9 DEF Answer, RequestRecords
<1>10. ASSUME Retry(a, 0)
       PROVE  req'[a][0].st = "sent"
  BY <1>1, <1>10 DEF Retry, Request
<1>11. ASSUME Lose(a, 0) \/ GiveUp(a, 0) \/ noteAccepted(a, 0)
       PROVE  req'[a][0].retry = req[a][0].retry
  <2>1. req' = [req EXCEPT ![a][0].st = "done", ![a][0].bucket = None, ![a][0].answer = "none"]
    BY <1>11 DEF Lose, GiveUp, noteAccepted, Done
  <2> QED
    BY <1>1, <2>1 DEF RequestRecords
<1>12. ASSUME NEW b \in Batches, NEW d \in Devices,
              Answer(b, d) \/ Lose(b, d) \/ Retry(b, d) \/ GiveUp(b, d) \/ noteAccepted(b, d)
       PROVE  /\ batch[a].pc = "probing"
              /\ \/ /\ req'[a][0].retry = req[a][0].retry
                    /\ req'[a][0].st = "done" => req[a][0].st = "done"
                 \/ Retry(a, 0) /\ req'[a][0].st = "sent"
                 \/ /\ Lose(a, 0) \/ GiveUp(a, 0) \/ noteAccepted(a, 0)
                    /\ req'[a][0].retry = req[a][0].retry
  <2>1. batch[a].pc = "probing" /\ ((a # b \/ d # 0) => req'[a][0] = req[a][0])
    BY <1>8, <1>12
  <2> QED
    BY <1>9, <1>10, <1>11, <1>12, <2>1
<1> QED
  BY <1>2, <1>3, <1>4, <1>5, <1>6, <1>7, <1>8, <1>12 DEF Next, BatchStep

\* A probe is forgotten when the floor after the start of its bucket has passed.
LEMMA ForgottenLate ==
    ASSUME Types, Signed, Presents, FallbackInv, NEW a \in Batches, batch[a].pc # "idle",
           NEW x \in probed[ProcessOf[a]], x.at >= batch[a].since + Offset[ProcessOf[a]],
           x \notin Remembered(ProcessOf[a])
    PROVE  \/ Clock(ProcessOf[a]) >= IssuedAt(batch[a].signing) + Floor
           \/ batch[a].signing \in seen
<1> DEFINE p == ProcessOf[a]
           k == batch[a].signing
           s == batch[a].since + Offset[p]
<1>1. p \in Processes /\ k \in Nat /\ s \in Int /\ Clock(p) \in Nat
  BY NotAhead, ClockFacts
<1>2. x.at \in Int
  BY <1>1 DEF Types, TypeOK
<1>3. Clock(p) - x.at >= Floor
  BY <1>1, <1>2, IntervalFacts DEF Remembered
<1>4. IssuedAt(k) <= s \/ k \in seen
  BY DEF FallbackInv, BatchOK, ReadOK, Fresh
<1>5. x.at >= s
  OBVIOUS
<1>6. IssuedAt(k) \in Int
  BY <1>1, IssuedFacts
<1> HIDE DEF p, k, s
<1>7. Clock(p) >= IssuedAt(k) + Floor \/ k \in seen
  BY <1>1, <1>2, <1>3, <1>4, <1>5, <1>6, IntervalFacts
<1> QED
  BY <1>7 DEF p, k, s

\* A probe that is cut short is remembered from then on.
LEMMA RegisteredStays ==
    ASSUME Types, Types', Signed, Presents, FallbackInv, [Next]_vars, NEW a \in Batches,
           batch[a].pc # "idle", batch'[a].signing = batch[a].signing,
           batch'[a].since = batch[a].since, Registered(batch[a], ProcessOf[a])
    PROVE  Registered(batch[a], ProcessOf[a])'
<1>1. PICK p \in Processes, k \in Nat, s \in Int :
         /\ p = ProcessOf[a] /\ k = batch[a].signing /\ s = batch[a].since + Offset[p]
         /\ s <= Clock(p)
  BY NotAhead
<1>2. SUFFICES \/ k \in probing'[p]
               \/ \E x \in probed'[p] : x.bucket = k /\ x.at >= s
               \/ Clock(p)' >= IssuedAt(k) + Floor
               \/ k \in seen'
  <2>1. /\ batch'[a].signing = k /\ batch'[a].since + Offset[p] = s
    BY <1>1
  <2> QED
    BY <1>1, <2>1 DEF Registered, IssuedAt, Interval
<1>3. CASE Clock(p) >= IssuedAt(k) + Floor \/ k \in seen
  <2>1. IssuedAt(k) \in Int
    BY IssuedFacts
  <2> QED
    BY <1>3, <2>1, ClockMoves, MemoMoves, IntervalFacts
<1>4. CASE k \in probing[p] /\ k \notin probing'[p]
  <2>1. PICK b \in Batches : Publishes(b)
    <3>1. ASSUME NEW b \in Batches, Joins(b) \/ Claims(b)
          PROVE  FALSE
      <4>1. UNCHANGED probing \/ \E q, j : probing' = [probing EXCEPT ![q] = @ \cup {j}]
        BY <3>1 DEF Joins, Claims
      <4> QED
        BY <1>4, <4>1 DEF Types, TypeOK
    <3> QED
      BY <1>4, <3>1, ProbeMoves
  <2> DEFINE j == batch[b].signing
             q == ProcessOf[b]
  <2>2. /\ probing' = [probing EXCEPT ![q] = @ \ {j}]
        /\ probed' = [probed EXCEPT ![q] = IF j \in probing[q]
                                           THEN @ \cup {[bucket |-> j, at |-> Clock(q)]} ELSE @]
    BY <2>1 DEF Publishes, finishProbe
  <2> HIDE DEF j, q
  <2>3. j = k /\ q = p
    BY <1>4, <2>2 DEF Types, TypeOK
  <2>4. [bucket |-> k, at |-> Clock(p)] \in probed'[p]
    BY <1>4, <2>2, <2>3 DEF Types, TypeOK
  <2> QED
    BY <1>1, <2>4
<1>5. ASSUME NEW x \in probed[p], x.bucket = k, x.at >= s, x \notin probed'[p]
      PROVE  Clock(p) >= IssuedAt(k) + Floor \/ k \in seen
  <2>1. PICK b \in Batches : Joins(b) \/ Claims(b)
    <3>1. ASSUME NEW b \in Batches, Publishes(b)
          PROVE  FALSE
      <4>1. \E q, j : probed' = [probed EXCEPT ![q] = IF j \in probing[q]
                              THEN @ \cup {[bucket |-> j, at |-> Clock(q)]} ELSE @]
        BY <3>1 DEF Publishes, finishProbe
      <4> QED
        BY <1>5, <4>1 DEF Types, TypeOK
    <3> QED
      BY <1>5, <3>1, ProbeMoves
  <2>2. probed' = [probed EXCEPT ![ProcessOf[b]] = Remembered(ProcessOf[b])]
    BY <2>1 DEF Joins, Claims
  <2>3. x \notin Remembered(p)
    BY <1>5, <2>2 DEF Types, TypeOK
  <2> QED
    BY <1>1, <1>5, <2>3, ForgottenLate
<1> QED
  BY <1>1, <1>3, <1>4, <1>5 DEF Registered

LEMMA ProbersStep ==
    ASSUME Types, Types', Signed, Presents, FallbackInv, ProbersOK, [Next]_vars
    PROVE  ProbersOK'
<1> SUFFICES ASSUME NEW a \in Batches, batch'[a].pc = "probing"
             PROVE  (/\ Registered(batch[a], ProcessOf[a])
                     /\ req[a][0].retry => Learned(ProcessOf[a], batch[a].signing)
                     /\ req[a][0].st = "done" => Told(ProcessOf[a], batch[a].signing))'
  BY DEF ProbersOK
<1>1. PICK p \in Processes, k \in Nat :
         /\ p = ProcessOf[a] /\ k = batch[a].signing /\ k <= Current(p)
         /\ batch'[a].signing = k /\ batch[a].pc # "idle" /\ batch'[a].since = batch[a].since
  BY NotAhead, ProberMoves
<1>2. CASE Claims(a) /\ req'[a][0].st = "sent" /\ ~req'[a][0].retry
  <2>1. k \in probing'[p]
    BY <1>1, <1>2 DEF Claims, Types, TypeOK
  <2> QED
    BY <1>1, <1>2, <2>1 DEF Registered
<1>3. CASE batch[a].pc = "probing"
  <2>1. /\ Registered(batch[a], p)
        /\ req[a][0].retry => Learned(p, k)
        /\ req[a][0].st = "done" => Told(p, k)
    BY <1>1, <1>3 DEF ProbersOK
  <2>2. Registered(batch[a], ProcessOf[a])'
    BY <1>1, <2>1, RegisteredStays
  <2>3. Learned(p, k) => Learned(p, k)'
    BY <1>1, LearnedStays
  <2>4. Told(p, k) => Told(p, k)'
    <3>1. CASE k \in unanswered[p] => k \in unanswered'[p]
      BY <1>1, <3>1, ToldStays
    <3>2. CASE k \in unanswered[p] /\ k \notin unanswered'[p]
      <4>1. PICK b \in Batches : Claims(b)
        <5>0. unanswered \in [Processes -> SUBSET Nat]
          BY DEF Types, TypeOK
        <5>1. \A b \in Batches : ~Joins(b) /\ ~Publishes(b)
          BY <3>2, <5>0 DEF Joins, Publishes
        <5> QED
          BY <3>2, <5>1, ProbeMoves
      <4>2. ProcessOf[b] = p /\ batch[b].signing = k
        <5>1. unanswered' = [unanswered EXCEPT ![ProcessOf[b]] = @ \ {batch[b].signing}]
          BY <4>1 DEF Claims
        <5> QED
          BY <3>2, <5>1 DEF Types, TypeOK
      <4>3. k \notin probing[p] /\ \A r \in Remembered(p) : r.bucket # k
        BY <4>1, <4>2 DEF Claims
      <4>4. Clock(p) >= IssuedAt(k) + Floor \/ k \in seen
        <5>1. ASSUME NEW x \in probed[p], x.bucket = k, x.at >= batch[a].since + Offset[p]
              PROVE  Clock(p) >= IssuedAt(k) + Floor \/ k \in seen
          BY <1>1, <4>3, <5>1, ForgottenLate
        <5> QED
          BY <1>1, <2>1, <4>3, <5>1 DEF Registered
      <4>5. CASE k \in seen
        <5>1. k \in seen' /\ k >= k
          BY <4>5, MemoMoves
        <5> QED
          BY <5>1 DEF Told, Learned, Reached
      <4>6. CASE Clock(p) >= IssuedAt(k) + Floor
        <5>1. Clock(p)' >= IssuedAt(k) + Floor
          <6>1. IssuedAt(k) \in Int
            BY IssuedFacts
          <6> QED
            BY <4>6, <6>1, ClockMoves, IntervalFacts
        <5> QED
          BY <5>1 DEF Told, IssuedAt, Interval
      <4> QED
        BY <4>4, <4>5, <4>6
    <3> QED
      BY <3>1, <3>2
  <2>5. CASE /\ req'[a][0].retry = req[a][0].retry
             /\ req'[a][0].st = "done" => req[a][0].st = "done"
    BY <1>1, <2>1, <2>2, <2>3, <2>4, <2>5
  <2>6. CASE Retry(a, 0) /\ req'[a][0].st = "sent"
    <3>1. refused'[p].bucket = k
      BY <1>1, <2>6 DEF Retry, Types, TypeOK
    <3>2. Learned(p, k)'
      BY <3>1 DEF Learned
    <3> QED
      BY <1>1, <2>2, <2>6, <3>2
  <2>7. CASE /\ Lose(a, 0) \/ GiveUp(a, 0) \/ noteAccepted(a, 0)
             /\ req'[a][0].retry = req[a][0].retry
    <3>1. req[a][0].retry => Learned(p, k)'
      BY <2>1, <2>3
    <3>2. Told(p, k)'
      <4>1. CASE Learned(p, k)
        BY <2>3, <4>1 DEF Told
      <4>2. CASE Lose(a, 0) \/ (GiveUp(a, 0) /\ ~req[a][0].retry)
        <5>1. unanswered' = [unanswered EXCEPT ![p] = @ \cup {k}]
          BY <1>1, <1>3, <4>2 DEF Lose, GiveUp
        <5>2. k \in unanswered'[p]
          BY <5>1 DEF Types, TypeOK
        <5> QED
          BY <5>2 DEF Told
      <4>3. CASE noteAccepted(a, 0) /\ ~req[a][0].retry
        <5>1. Asked(0, req[a][0], batch[a], Met)
          BY DEF Presents, Devices
        <5>2. k \in seen \/ k \in untaken
          BY <1>1, <4>3, <5>1 DEF noteAccepted, Asked, Met
        <5>3. (k \in seen' \/ k \in untaken') /\ k >= k
          BY <5>2, MemoMoves
        <5> QED
          BY <5>3 DEF Told, Learned, Reached
      <4> QED
        BY <2>1, <2>7, <4>1, <4>2, <4>3
    <3> QED
      BY <1>1, <2>2, <2>7, <3>1, <3>2
  <2> QED
    BY <1>3, <2>5, <2>6, <2>7, ProberMoves DEF Claims, claimProbe
<1> QED
  BY <1>2, <1>3, ProberMoves

\* A process that has been told about bucket k and reads no newer token reads one
\* that APNs will not refuse on account of the token before, or that met an error.
LEMMA ReadsSecure ==
    ASSUME Types, FallbackInv, MemoDated, NEW p \in Processes, NEW k \in Nat, k <= Current(p),
           Learned(p, k) \/ Clock(p) >= IssuedAt(k) + Floor, token(p) <= k
    PROVE  \/ token(p) \in seen \/ Clock(p) >= IssuedAt(token(p)) + Floor
           \/ token(p) \in untaken
<1> DEFINE c == Current(p)
<1>1. c \in Nat /\ Clock(p) \in Nat /\ ~Passed(c, seen)
  BY ClockFacts, NotPassed DEF FallbackInv
<1>2. CASE token(p) # c
  <2>1. KnownRefused(p, c) /\ token(p) = c - 1
    BY <1>2, TokenFacts
  <2>2. refused[p].bucket = c /\ c # None
    BY <1>1, <2>1 DEF KnownRefused, None
  <2> QED
    BY <1>1, <2>1, <2>2 DEF FallbackInv, MemoOK
<1>3. CASE token(p) = c
  <2>1. k = c
    BY <1>1, <1>3
  <2>2. CASE Reached(k, seen)
    <3> PICK j \in seen : j >= k
      BY <2>2 DEF Reached
    <3>1. j \in Nat
      BY DEF Types, TypeOK
    <3>2. ~(j > c)
      BY <1>1 DEF Passed
    <3> HIDE DEF c
    <3>3. j = c
      BY <1>1, <2>1, <3>1, <3>2
    <3> QED
      BY <1>3, <3>3
  <2>3. CASE Clock(p) >= IssuedAt(k) + Floor
    BY <1>3, <2>1, <2>3
  <2>4. CASE refused[p].bucket = k
    <3>1. refused[p].at \in Int /\ refused[p].at >= IssuedAt(k) /\ IssuedAt(k) \in Int
      <4>1. refused[p].at \in Int /\ k # None
        BY DEF Types, TypeOK, None
      <4>2. IssuedAt(k) \in Int
        BY IssuedFacts
      <4> QED
        BY <2>4, <4>1, <4>2 DEF MemoDated
    <3>2. CASE ~KnownRefused(p, k)
      <4>1. Clock(p) - refused[p].at >= Floor
        BY <1>1, <2>4, <3>1, <3>2, IntervalFacts DEF KnownRefused
      <4>2. Clock(p) >= IssuedAt(k) + Floor
        BY <1>1, <3>1, <4>1, IntervalFacts
      <4> QED
        BY <2>3, <4>2
    <3>3. CASE KnownRefused(p, k)
      <4>1. previousToken(p) = None
        BY <1>3, <2>1, <3>3, TokenFacts
      <4>2. ~KnownRefused(p, k - 1) /\ k - 1 # None
        <5>1. k - 1 # k /\ k >= 1
          BY <2>1, ClockFacts
        <5> QED
          BY <2>4, <5>1 DEF KnownRefused, None
      <4>3. Clock(p) - IssuedAt(k - 1) >= Lifetime
        <5>1. previousToken(p) =
                 IF Clock(p) - IssuedAt(c - 1) >= Lifetime \/ KnownRefused(p, c - 1)
                 THEN None ELSE c - 1
          BY DEF previousToken, Current
        <5> HIDE DEF c
        <5> QED
          BY <2>1, <4>1, <4>2, <5>1, Zenon
      <4>4. IssuedAt(k - 1) = IssuedAt(k) - Interval
        BY IssuedFacts
      <4>5. Lifetime >= Interval + Floor
        BY ConstantsAssumption DEF Interval
      <4>6. Clock(p) >= IssuedAt(k) + Floor
        BY <1>1, <3>1, <4>3, <4>4, <4>5, IntervalFacts
      <4> QED
        BY <2>3, <4>6
    <3> QED
      BY <3>2, <3>3
  <2>5. CASE k \in untaken
    BY <1>3, <2>1, <2>5
  <2> QED
    BY <2>2, <2>3, <2>4, <2>5 DEF Learned
<1> QED
  BY <1>2, <1>3

\* What APNs has taken it goes on knowing.
LEMMA CalmMoreSeen ==
    ASSUME NEW r, NEW q, NEW off, NEW S, NEW T, S \subseteq T, NEW U, NEW V, U \subseteq V,
           Calm(r, q, off, S, U)
    PROVE  Calm(r, q, off, T, V)
<1>1. /\ Excused(r.signing, S, U) => Excused(r.signing, T, V)
      /\ Secure(r, off, S) => Secure(r, off, T)
  BY DEF Excused, Passed, Secure
<1> QED
  BY <1>1, Zenon DEF Calm

\* A batch moves and the others stay as they are.
LEMMA OneBatchCalm ==
    ASSUME HerdInv, seen \subseteq seen', untaken \subseteq untaken', NEW b \in Batches,
           \A a \in Batches \ {b} : batch'[a] = batch[a] /\ req'[a] = req[a],
           Calm(batch'[b], req'[b], Offset[ProcessOf[b]], seen', untaken')
    PROVE  \A a \in Batches : Calm(batch'[a], req'[a], Offset[ProcessOf[a]], seen', untaken')
<1>1. ASSUME NEW a \in Batches \ {b}
      PROVE  Calm(batch'[a], req'[a], Offset[ProcessOf[a]], seen', untaken')
  <2>1. Calm(batch[a], req[a], Offset[ProcessOf[a]], seen, untaken)
    BY DEF HerdInv
  <2> QED
    BY <2>1, CalmMoreSeen
<1> QED
  BY <1>1

\* A batch begins, sends without a probe, claims one or waits for it, or ends.
LEMMA SendCalm ==
    ASSUME Types, Signed, Presents, ConfirmedWasTaken, HerdInv, NEW b \in Batches,
           \/ \E size \in {1, 2} : StartBatch(b, size)
           \/ SendUnprobed(b) \/ claimProbe(b) \/ EndBatch(b)
    PROVE  \A a \in Batches : Calm(batch'[a], req'[a], Offset[ProcessOf[a]], seen', untaken')
<1> DEFINE off == Offset[ProcessOf[b]]
<1>1. batch[b] \in BatchRecords /\ batch \in [Batches -> BatchRecords]
  BY DEF Types, TypeOK
<1>2. req[b] \in [Devices -> RequestRecords] /\ req \in [Batches -> [Devices -> RequestRecords]]
  BY DEF Types, TypeOK
<1>3. seen' = seen /\ untaken' = untaken
  BY DEF StartBatch, SendUnprobed, claimProbe, EndBatch, apnsVars
<1>4. \A a \in Batches \ {b} : batch'[a] = batch[a] /\ req'[a] = req[a]
  BY <1>1, <1>2 DEF StartBatch, SendUnprobed, claimProbe, EndBatch, Send
<1>5. Calm(batch[b], req[b], off, seen, untaken)
  BY DEF HerdInv
<1>6. CASE \E size \in {1, 2} : StartBatch(b, size)
  <2>1. batch'[b].pc = "resolved" /\ batch'[b].hits = 0
    BY <1>1, <1>6 DEF StartBatch, IdleBatch
  <2>2. Calm(batch'[b], req'[b], off, seen', untaken')
    BY <2>1 DEF Calm
  <2> QED
    BY <1>3, <1>4, <2>2, OneBatchCalm
<1>7. CASE EndBatch(b)
  <2>1. batch'[b].pc = "idle" /\ batch'[b].hits = 0
    BY <1>1, <1>7 DEF EndBatch, IdleBatch
  <2>2. Calm(batch'[b], req'[b], off, seen', untaken')
    BY <2>1 DEF Calm
  <2> QED
    BY <1>3, <1>4, <2>2, OneBatchCalm
<1>8. CASE claimProbe(b)
  <2>1. /\ batch[b].pc = "resolved" /\ batch'[b].pc \in {"waiting", "probing"}
        /\ batch'[b].hits = batch[b].hits /\ batch'[b].blind = batch[b].blind
    BY <1>1, <1>8 DEF claimProbe, BatchRecords
  <2>2. Calm(batch'[b], req'[b], off, seen', untaken')
    BY <1>5, <2>1 DEF Calm
  <2> QED
    BY <1>3, <1>4, <2>2, OneBatchCalm
<1>9. CASE SendUnprobed(b)
  <2> DEFINE k == batch[b].signing
  <2>1. /\ batch[b].pc = "resolved" /\ batch'[b].pc = "sending" /\ batch'[b].signing = k
        /\ batch'[b].hits = batch[b].hits /\ batch'[b].blind = batch[b].blind
        /\ batch'[b].size = batch[b].size /\ batch[b].size \in {1, 2}
    BY <1>1, <1>9 DEF SendUnprobed, BatchRecords
  <2>2. ASSUME NEW d \in Devices
        PROVE  req[b][d].st = "none" /\ req'[b][d] = IF d \in DevicesOf(b) THEN Request(k) ELSE req[b][d]
    <3>1. Asked(d, req[b][d], batch[b], Met)
      BY DEF Presents
    <3> QED
      BY <1>2, <1>9, <2>1, <2>2, <3>1 DEF Asked, SendUnprobed, Send
  <2>3. \A d \in Devices : ~Unretried(req'[b][d])
    BY <2>2 DEF Unretried, Request
  <2>4. CASE batch[b].size = 1
    <3>1. 1 \in Devices /\ 1 \notin DevicesOf(b)
      BY <2>4 DEF Devices, DevicesOf
    <3>2. req'[b][1].st = "none"
      BY <2>2, <3>1
    <3>3. Calm(batch'[b], req'[b], off, seen', untaken')
      BY <1>5, <2>1, <2>4, <3>2 DEF Calm
    <3> QED
      BY <1>3, <1>4, <3>3, OneBatchCalm
  <2>5. CASE batch[b].size = 2
    <3>1. confirmed[ProcessOf[b]] = k
      BY <1>9, <2>5 DEF SendUnprobed, NeedsProbe
    <3>2. k \in Nat
      BY <2>1 DEF Signed
    <3>3. k \in seen \/ k \in untaken
      BY <3>1, <3>2, ConstantsAssumption DEF ConfirmedWasTaken, None
    <3>4. Secure(batch'[b], off, seen') \/ Excused(batch'[b].signing, seen', untaken')
      BY <1>3, <2>1, <3>3 DEF Secure, Excused
    <3>5. Calm(batch'[b], req'[b], off, seen', untaken')
      BY <1>5, <2>1, <2>3, <3>4 DEF Calm
    <3> QED
      BY <1>3, <1>4, <3>5, OneBatchCalm
  <2> QED
    BY <2>1, <2>4, <2>5
<1> QED
  BY <1>6, <1>7, <1>8, <1>9

\* A batch that has been told sends the rest with a token that will not be refused.
LEMMA RestCalm ==
    ASSUME Types, Signed, Presents, FallbackInv, HerdInv, NEW b \in Batches,
           ProbeDone(b) \/ Released(b) \/ WaitExpires(b)
    PROVE  \A a \in Batches : Calm(batch'[a], req'[a], Offset[ProcessOf[a]], seen', untaken')
<1> DEFINE p == ProcessOf[b]
           k == batch[b].signing
<1>1. /\ seen' = seen /\ untaken' = untaken /\ batch[b].pc \in {"probing", "waiting"}
      /\ batch[b].pc = "probing" => req[b][0].st = "done" /\ ProbeDone(b)
      /\ batch[b].pc = "waiting" /\ ~WaitExpires(b) => k \notin probing[p]
  BY DEF ProbeDone, Released, WaitExpires, apnsVars
<1>2. p \in Processes /\ k \in Nat /\ k <= Current(p) /\ token(p) \in Nat
  BY <1>1, NotAhead, TokenFacts
<1>3. PICK blind \in BOOLEAN :
         /\ SendTheRest(b, blind)
         /\ ~blind => k \notin unanswered[p] /\ ~WaitExpires(b)
  <2>1. CASE WaitExpires(b)
    BY <2>1 DEF WaitExpires
  <2>2. CASE ~WaitExpires(b)
    <3>1. SendTheRest(b, k \in unanswered[p])
      BY <2>2 DEF ProbeDone, Released
    <3>2. (k \in unanswered[p]) \in BOOLEAN
      OBVIOUS
    <3> QED
      BY <2>2, <3>1, <3>2
  <2> QED
    BY <2>1, <2>2
<1>4. /\ \A a \in Batches \ {b} : batch'[a] = batch[a] /\ req'[a] = req[a]
      /\ batch'[b].pc = "sending" /\ batch'[b].since = now /\ batch'[b].signing = token(p)
      /\ batch'[b].hits = batch[b].hits
      /\ batch'[b].blind = (batch[b].blind \/ blind \/ token(p) > k)
      /\ \A d \in Devices : req'[b][d] = IF d \in DevicesOf(b) /\ req[b][d].st = "none"
                                         THEN Request(token(p)) ELSE req[b][d]
  BY <1>3, RestMoves
<1>5. CASE batch'[b].blind
  <2>1. Calm(batch'[b], req'[b], Offset[p], seen', untaken')
    BY <1>5 DEF Calm
  <2> QED
    BY <1>1, <1>4, <2>1, OneBatchCalm
<1>6. CASE ~batch'[b].blind
  <2>1. ~batch[b].blind /\ ~blind /\ token(p) <= k
    <3>1. ~batch[b].blind /\ ~blind /\ ~(token(p) > k)
      BY <1>4, <1>6 DEF Types, TypeOK, BatchRecords
    <3> QED
      BY <1>2, <3>1
  <2>2. Told(p, k)
    <3>1. CASE batch[b].pc = "probing"
      BY <1>1, <3>1 DEF HerdInv, ProbersOK
    <3>2. CASE batch[b].pc = "waiting"
      <4>1. k \notin probing[p]
        BY <1>1, <1>3, <2>1, <3>2
      <4> QED
        BY <3>2, <4>1 DEF HerdInv, WaitersOK, ProbeSettled
    <3> QED
      BY <1>1, <3>1, <3>2
  <2>3. Learned(p, k) \/ Clock(p) >= IssuedAt(k) + Floor
    BY <1>3, <2>1, <2>2 DEF Told
  <2>4. token(p) \in seen \/ Clock(p) >= IssuedAt(token(p)) + Floor \/ token(p) \in untaken
    BY <1>2, <2>1, <2>3, ReadsSecure DEF HerdInv
  <2>5. Secure(batch'[b], Offset[p], seen') \/ Excused(batch'[b].signing, seen', untaken')
    BY <1>1, <1>4, <2>4 DEF Secure, Clock, Excused
  <2>6. ASSUME NEW d \in Devices PROVE req[b][d].st \in {"none", "done"}
    <3>1. Asked(d, req[b][d], batch[b], Met)
      BY DEF Presents
    <3> QED
      BY <1>1, <3>1 DEF Asked
  <2>7. \A d \in Devices : ~Unretried(req'[b][d])
    BY <1>4, <2>6 DEF Unretried, Request
  <2>8. batch'[b].hits = 0 \/ (batch'[b].hits = 1 /\ req'[b][0].retry)
    <3>1. Calm(batch[b], req[b], Offset[p], seen, untaken)
      BY DEF HerdInv
    <3>2. \/ batch[b].hits = 0
          \/ batch[b].hits = 1 /\ req[b][0].retry /\ batch[b].pc = "probing"
      BY <1>1, <2>1, <3>1 DEF Calm
    <3>3. batch[b].pc = "probing" => req'[b][0] = req[b][0]
      BY <1>1, <1>4 DEF Devices
    <3> QED
      BY <1>4, <3>2, <3>3
  <2>9. Calm(batch'[b], req'[b], Offset[p], seen', untaken')
    BY <1>4, <2>5, <2>7, <2>8 DEF Calm
  <2> QED
    BY <1>1, <1>4, <2>9, OneBatchCalm
<1> QED
  BY <1>5, <1>6

\* APNs answers one request.
LEMMA AnswerCalm ==
    ASSUME Types, Signed, Presents, FallbackInv, HerdInv, seen \subseteq seen',
           untaken \subseteq untaken', NEW b \in Batches, NEW d \in Devices, Answer(b, d)
    PROVE  \A a \in Batches : Calm(batch'[a], req'[a], Offset[ProcessOf[a]], seen', untaken')
<1> DEFINE off == Offset[ProcessOf[b]]
<1>0. PICK x \in checkProviderToken(req[b][d].bucket) :
         req' = [req EXCEPT ![b][d].st = "answered", ![b][d].answer = x]
  BY DEF Answer
<1>1. /\ req \in [Batches -> [Devices -> RequestRecords]] /\ batch' = batch
      /\ req[b][d].st = "sent" /\ req' = [req EXCEPT ![b][d].st = "answered", ![b][d].answer = x]
  BY <1>0 DEF Types, TypeOK, Answer
<1>2. \A a \in Batches \ {b} : batch'[a] = batch[a] /\ req'[a] = req[a]
  BY <1>1
<1>3. /\ \A e \in Devices : req'[b][e].retry = req[b][e].retry
      /\ \A e \in Devices \ {d} : req'[b][e] = req[b][e]
      /\ req'[b][d].answer = x
  BY <1>1 DEF RequestRecords
<1>4. Calm(batch[b], req[b], off, seen', untaken')
  BY CalmMoreSeen DEF HerdInv
<1>5. CASE batch[b].blind \/ (batch[b].pc = "sending" /\ Excused(batch[b].signing, seen', untaken'))
  <2>1. Calm(batch'[b], req'[b], off, seen', untaken')
    BY <1>1, <1>5 DEF Calm
  <2> QED
    BY <1>2, <2>1, OneBatchCalm
<1>6. CASE ~(batch[b].blind \/ (batch[b].pc = "sending" /\ Excused(batch[b].signing, seen', untaken')))
  <2>1. /\ batch[b].hits = 0 \/ (batch[b].hits = 1 /\ req[b][0].retry)
        /\ batch[b].pc \in {"idle", "resolved", "waiting"} => batch[b].hits = 0
        /\ batch[b].pc = "sending" =>
             \/ batch[b].size = 1 /\ req[b][1].st = "none"
             \/ Secure(batch[b], off, seen) /\ \A e \in Devices : ~Unretried(req[b][e])
    <3>1. Excused(batch[b].signing, seen, untaken) => Excused(batch[b].signing, seen', untaken')
      BY DEF Excused, Passed
    <3>2. Calm(batch[b], req[b], off, seen, untaken)
      BY DEF HerdInv
    <3> QED
      BY <1>6, <3>1, <3>2 DEF Calm
  <2>2. batch[b].pc = "sending" =>
             \/ batch[b].size = 1 /\ req'[b][1].st = "none"
             \/ Secure(batch[b], off, seen') /\ \A e \in Devices : ~Unretried(req'[b][e])
    <3> SUFFICES ASSUME batch[b].pc = "sending"
                 PROVE  \/ batch[b].size = 1 /\ req'[b][1].st = "none"
                        \/ /\ Secure(batch[b], off, seen')
                           /\ \A e \in Devices : ~Unretried(req'[b][e])
      OBVIOUS
    <3>1. CASE batch[b].size = 1 /\ req[b][1].st = "none"
      <4>1. d # 1 /\ 1 \in Devices
        BY <1>1, <3>1 DEF Devices
      <4> QED
        BY <1>3, <3>1, <4>1
    <3>2. CASE Secure(batch[b], off, seen) /\ \A e \in Devices : ~Unretried(req[b][e])
      <4>1. Secure(batch[b], off, seen')
        BY <3>2 DEF Secure
      <4>2. ~(x = "refused" /\ ~req[b][d].retry)
        <5> SUFFICES ASSUME x = "refused", ~req[b][d].retry PROVE FALSE
          OBVIOUS
        <5>1. \/ Passed(batch[b].signing, seen)
              \/ batch[b].since + off < IssuedAt(batch[b].signing) + Floor
          BY <1>0, <1>1, RefusedOnAccount
        <5>2. ~Passed(batch[b].signing, seen)
          BY <1>6 DEF Excused, Passed
        <5>3. batch[b].pc # "idle" /\ batch[b].signing \in Nat /\ req[b][d].bucket = batch[b].signing
          BY <1>1 DEF Presents, Asked, Signed
        <5>4. batch[b].signing \notin seen
          BY <1>0, <5>3 DEF checkProviderToken
        <5>5. batch[b].since + off \in Int /\ IssuedAt(batch[b].signing) \in Int
          <6>1. batch[b].signing \in Int
            BY <5>3
          <6>2. IssuedAt(batch[b].signing) \in Int
            BY <6>1, IssuedFacts
          <6> QED
            BY <5>3, <6>2, NotAhead
        <5> DEFINE s == batch[b].since + off
                   i == IssuedAt(batch[b].signing) + Floor
        <5>6. s < i /\ s >= i
          BY <3>2, <5>1, <5>2, <5>4 DEF Secure
        <5>7. s \in Int /\ i \in Int
          BY <5>5, IntervalFacts
        <5> HIDE DEF s, i
        <5> QED
          BY <5>6, <5>7
      <4>3. \A e \in Devices : ~Unretried(req'[b][e])
        BY <1>3, <3>2, <4>2 DEF Unretried
      <4> QED
        BY <4>1, <4>3
    <3> QED
      BY <2>1, <3>1, <3>2
  <2>3. 0 \in Devices
    BY DEF Devices
  <2>4. Calm(batch'[b], req'[b], off, seen', untaken')
    BY <1>1, <1>3, <2>1, <2>2, <2>3 DEF Calm
  <2> QED
    BY <1>2, <2>4, OneBatchCalm
<1> QED
  BY <1>5, <1>6

\* uniqush acts on an answer, or goes without one.
LEMMA DeviceCalm ==
    ASSUME Types, Presents, HerdInv, NEW b \in Batches, NEW d \in Devices,
           Lose(b, d) \/ Retry(b, d) \/ GiveUp(b, d) \/ noteAccepted(b, d)
    PROVE  \A a \in Batches : Calm(batch'[a], req'[a], Offset[ProcessOf[a]], seen', untaken')
<1> DEFINE off == Offset[ProcessOf[b]]
<1>1. /\ req \in [Batches -> [Devices -> RequestRecords]] /\ batch \in [Batches -> BatchRecords]
      /\ batch[b] \in BatchRecords /\ 0 \in Devices /\ 1 \in Devices
  BY DEF Types, TypeOK, Devices
<1>2. seen' = seen /\ untaken' = untaken
  BY DEF Lose, Retry, GiveUp, noteAccepted, apnsVars
<1>3. Calm(batch[b], req[b], off, seen, untaken)
  BY DEF HerdInv
<1>4. CASE Lose(b, d) \/ noteAccepted(b, d)
  <2>1. /\ batch' = batch
        /\ req' = [req EXCEPT ![b][d].st = "done", ![b][d].bucket = None, ![b][d].answer = "none"]
    BY <1>4 DEF Lose, noteAccepted, Done
  <2>2. /\ \A e \in Devices : req'[b][e].retry = req[b][e].retry
        /\ \A e \in Devices \ {d} : req'[b][e] = req[b][e]
        /\ req'[b][d].st = "done" /\ req[b][d].st # "none"
    BY <1>1, <1>4, <2>1 DEF RequestRecords, Lose, noteAccepted
  <2>3. /\ req[b][1].st = "none" => req'[b][1].st = "none"
        /\ (\A e \in Devices : ~Unretried(req[b][e])) => \A e \in Devices : ~Unretried(req'[b][e])
    BY <1>1, <2>2 DEF Unretried
  <2>4. Calm(batch'[b], req'[b], off, seen', untaken')
    BY <1>1, <1>2, <1>3, <2>1, <2>2, <2>3 DEF Calm
  <2>5. \A a \in Batches \ {b} : batch'[a] = batch[a] /\ req'[a] = req[a]
    BY <1>1, <2>1
  <2> QED
    BY <1>2, <2>4, <2>5, OneBatchCalm
<1>5. CASE GiveUp(b, d)
  <2>1. batch'[b].blind
    BY <1>1, <1>5 DEF GiveUp, BatchRecords
  <2>2. Calm(batch'[b], req'[b], off, seen', untaken')
    BY <2>1 DEF Calm
  <2>3. \A a \in Batches \ {b} : batch'[a] = batch[a] /\ req'[a] = req[a]
    BY <1>1, <1>5 DEF GiveUp, Done
  <2> QED
    BY <1>2, <2>2, <2>3, OneBatchCalm
<1>6. CASE Retry(b, d)
  <2> DEFINE n == [Request(batch[b].fallback) EXCEPT !.retry = TRUE]
  <2>1. /\ Unretried(req[b][d]) /\ batch' = [batch EXCEPT ![b].hits = @ + 1]
        /\ req' = [req EXCEPT ![b][d] = n]
    BY <1>6 DEF Retry, Unretried
  <2>2. n.retry = TRUE /\ n.st = "sent"
    BY DEF Request
  <2> HIDE DEF n
  <2>3. \A a \in Batches \ {b} : batch'[a] = batch[a] /\ req'[a] = req[a]
    BY <1>1, <2>1
  <2>4. /\ batch'[b].pc = batch[b].pc /\ batch'[b].signing = batch[b].signing
        /\ batch'[b].size = batch[b].size /\ batch'[b].blind = batch[b].blind
        /\ batch'[b].hits = batch[b].hits + 1
    BY <1>1, <2>1 DEF BatchRecords
  <2>5. req'[b][d] = n /\ \A e \in Devices \ {d} : req'[b][e] = req[b][e]
    BY <1>1, <2>1
  <2>6. /\ batch[b].pc \in {"probing", "sending"}
        /\ batch[b].pc = "probing" => d = 0
    <3>1. Asked(d, req[b][d], batch[b], Met) /\ req[b][d].st = "answered"
      BY <2>1 DEF Presents, Unretried
    <3> QED
      BY <3>1 DEF Asked
  <2>7. CASE batch[b].blind \/ (batch[b].pc = "sending" /\ Excused(batch[b].signing, seen, untaken))
    <3>1. Calm(batch'[b], req'[b], off, seen', untaken')
      BY <1>2, <2>4, <2>7 DEF Calm
    <3> QED
      BY <1>2, <2>3, <3>1, OneBatchCalm
  <2>8. CASE ~(batch[b].blind \/ (batch[b].pc = "sending" /\ Excused(batch[b].signing, seen, untaken)))
    <3>1. /\ batch[b].hits = 0 \/ (batch[b].hits = 1 /\ req[b][0].retry)
          /\ batch[b].pc = "sending" =>
               \/ batch[b].size = 1 /\ req[b][1].st = "none"
               \/ \A e \in Devices : ~Unretried(req[b][e])
      BY <1>3, <2>8 DEF Calm
    <3>2. batch[b].pc = "sending" => batch[b].size = 1 /\ req[b][1].st = "none"
      BY <2>1, <3>1
    <3>3. d = 0
      BY <2>1, <2>6, <3>2 DEF Devices, Unretried
    <3>4. batch[b].hits = 0
      BY <2>1, <3>1, <3>3 DEF Unretried
    <3>5. batch'[b].hits = 1 /\ req'[b][0].retry = TRUE /\ req'[b][1] = req[b][1]
      BY <1>1, <2>2, <2>4, <2>5, <3>3, <3>4
    <3>6. Calm(batch'[b], req'[b], off, seen', untaken')
      BY <2>4, <2>6, <3>2, <3>5 DEF Calm
    <3> QED
      BY <1>2, <2>3, <3>6, OneBatchCalm
  <2> QED
    BY <2>7, <2>8
<1> QED
  BY <1>4, <1>5, <1>6

LEMMA HerdStep ==
    ASSUME Types, Types', Signed, Presents, FallbackInv, ConfirmedWasTaken, HerdInv,
           [Next]_vars
    PROVE  HerdInv'
<1>1. MemoDated' /\ RecordsOK' /\ WaitersOK' /\ ProbersOK'
  BY MemoDatedStep, RecordsStep, WaitersStep, ProbersStep DEF HerdInv
<1>2. \A a \in Batches : Calm(batch'[a], req'[a], Offset[ProcessOf[a]], seen', untaken')
  <2>1. CASE Tick \/ Over \/ UNCHANGED vars
    <3>1. UNCHANGED <<batch, req, seen, untaken>>
      BY <2>1 DEF Tick, Over, vars, apnsVars
    <3> QED
      BY <3>1 DEF HerdInv
  <2>2. seen \subseteq seen' /\ untaken \subseteq untaken'
    BY MemoMoves
  <2> QED
    BY <2>1, <2>2, SendCalm, RestCalm, AnswerCalm, DeviceCalm DEF Next, BatchStep
<1> QED
  BY <1>1, <1>2 DEF HerdInv

LEMMA InitHerd == Init => HerdInv
<1> SUFFICES ASSUME Init PROVE HerdInv
  OBVIOUS
<1>1. MemoDated /\ RecordsOK
  BY DEF Init, MemoDated, RecordsOK
<1>2. WaitersOK /\ ProbersOK
  BY DEF Init, WaitersOK, ProbersOK, IdleBatch
<1>3. \A b \in Batches : batch[b].pc = "idle" /\ batch[b].hits = 0
  BY DEF Init, IdleBatch
<1>4. \A b \in Batches : Calm(batch[b], req[b], Offset[ProcessOf[b]], seen, untaken)
  BY <1>3 DEF Calm
<1> QED
  BY <1>1, <1>2, <1>4 DEF HerdInv

\* When the clocks of the processes agree, for any number of processes and batches,
\* however their probes, waits, losses and repetitions interleave, and for every
\* lifetime, floor and margin: a batch that does not go on blind meets one refusal
\* at most, unless a newer token was taken or its own met an error.
THEOREM NoneHerds ==
    ClocksAgree => (Spec => []NoHerd)
<1> SUFFICES ASSUME ClocksAgree PROVE Spec => []NoHerd
  OBVIOUS
<1> DEFINE All == Types /\ Signed /\ Presents /\ FallbackInv /\ ConfirmedWasTaken /\ HerdInv
<1>1. Init => All
  <2>1. Init => ConfirmedWasTaken
    BY DEF Init, ConfirmedWasTaken
  <2> QED
    BY <2>1, InitTypes, InitSigned, InitPresents, InitFallback, InitHerd
<1>2. All /\ [Next]_vars => All'
  <2>1. Types /\ Signed /\ [Next]_vars => Types' /\ Signed'
    BY TypesStep
  <2> QED
    BY <2>1, PresentsStep, FallbackStep, ConfirmedStep, HerdStep
<1>3. All => NoHerd
  <2> SUFFICES ASSUME HerdInv, NEW b \in Batches, batch[b].hits > 1
               PROVE  \/ batch[b].blind \/ \E k \in seen : k > batch[b].signing
                      \/ batch[b].signing \in untaken
    BY DEF NoHerd
  <2>1. Calm(batch[b], req[b], Offset[ProcessOf[b]], seen, untaken)
    BY DEF HerdInv
  <2> QED
    BY <2>1 DEF Calm, Excused, Passed
<1> QED
  BY <1>1, <1>2, <1>3, PTL DEF Spec
=============================================================================
