------------------------ MODULE ApnsDestinationProofs ------------------------
(***************************************************************************)
(* The pool of APNs clients leaks no connection, for any number of         *)
(* batches, providers and destinations (the first part, about              *)
(* ApnsClientCache alone).                                                 *)
(*                                                                         *)
(* Whatever providers redis holds, whatever /addpsp stores and whenever    *)
(* credential files are replaced, a batch is sent where it may go, over a  *)
(* client that is trusted as its provider says and made of files that are  *)
(* new enough.                                                             *)
(***************************************************************************)
EXTENDS ApnsDestination, FiniteSetTheorems, TLAPS

Borrowers(c) == {b \in Batches : held[b] = c}

(* A batch holds a client exactly while it is sending. *)
HeldWhileSending == \A b \in Batches : (held[b] = None) <=> (pc[b] # "sending")

(* inFlight is the number of batches that hold the client. *)
Counted == \A c \in Clients : inFlight[c] = Cardinality(Borrowers(c))

(* A client in use is cached or marked, so that someone closes it. *)
HeldAccounted ==
    \A b \in Batches : held[b] # None =>
        held[b] \in retired \/ \E k \in Keys : clients[k] = held[b]

(* A number that was not given out yet names no client. *)
Unbuilt ==
    \A c \in Clients : c > builtCount =>
        /\ c \notin open
        /\ c \notin retired
        /\ \A k \in Keys : clients[k] # c
        /\ \A b \in Batches : held[b] # c

(* A client is cached under one key, in the lifetime it was asked for in. *)
CachedOnce ==
    \A k \in Keys : Cached(k) =>
        /\ lifetime[clients[k]] = generation
        /\ \A j \in Keys : clients[j] = clients[k] => j = k

Inv ==
    /\ TypeOK
    /\ HeldWhileSending
    /\ Counted
    /\ HeldAccounted
    /\ Unbuilt
    /\ CachedOnce
    /\ OneCachedPerProvider
    /\ NoLeak

-----------------------------------------------------------------------------
(* What the constants are. *)
LEMMA ClientsAreNumbers ==
    /\ Clients \subseteq Nat \ {0}
    /\ None \notin Clients /\ None \notin Keys
    /\ MaxClients \in Nat /\ MaxFinalized \in Nat
    /\ \A k \in Keys : Provider[k] \in Providers
BY CacheAssumption DEF Clients, Providers

(* The set of borrowers is finite, and empty when the count is zero. *)
LEMMA BorrowersFinite ==
    ASSUME NEW c
    PROVE  /\ IsFiniteSet(Borrowers(c))
           /\ Cardinality(Borrowers(c)) \in Nat
           /\ Cardinality(Borrowers(c)) = 0 <=> Borrowers(c) = {}
<1>1. Borrowers(c) \in SUBSET Batches
    BY DEF Borrowers
<1>2. IsFiniteSet(Borrowers(c))
    BY <1>1, FS_Subset, CacheAssumption
<1> QED
    BY <1>2, FS_EmptySet, FS_CardinalityType

(* A borrow adds one to the count of the client that is handed out. *)
LEMMA BorrowCounts ==
    ASSUME NEW b \in Batches, NEW c \in Clients, TypeOK,
           held[b] = None, held' = [held EXCEPT ![b] = c]
    PROVE  /\ Cardinality(Borrowers(c))' = Cardinality(Borrowers(c)) + 1
           /\ \A d \in Clients \ {c} : Borrowers(d)' = Borrowers(d)
<1>1. None # c
    BY ClientsAreNumbers
<1>2. Borrowers(c)' = Borrowers(c) \cup {b} /\ b \notin Borrowers(c)
    BY <1>1 DEF Borrowers, TypeOK
<1>3. \A d \in Clients \ {c} : Borrowers(d)' = Borrowers(d)
    BY ClientsAreNumbers DEF Borrowers, TypeOK
<1> QED
    BY <1>2, <1>3, BorrowersFinite, FS_AddElement

(* A release takes one from the count of the client that is given back. *)
LEMMA ReleaseCounts ==
    ASSUME NEW b \in Batches, NEW c \in Clients, TypeOK,
           held[b] = c, held' = [held EXCEPT ![b] = None]
    PROVE  /\ Cardinality(Borrowers(c))' = Cardinality(Borrowers(c)) - 1
           /\ \A d \in Clients \ {c} : Borrowers(d)' = Borrowers(d)
<1>1. Borrowers(c)' = Borrowers(c) \ {b} /\ b \in Borrowers(c)
    BY ClientsAreNumbers DEF Borrowers, TypeOK
<1>2. \A d \in Clients \ {c} : Borrowers(d)' = Borrowers(d)
    BY ClientsAreNumbers DEF Borrowers, TypeOK
<1> QED
    BY <1>1, <1>2, BorrowersFinite, FS_RemoveElement

-----------------------------------------------------------------------------
(* The processor starts with an empty cache. *)
LEMMA InvInit == Init => Inv
<1> SUFFICES ASSUME Init PROVE Inv
    OBVIOUS
<1> USE ClientsAreNumbers
<1>1. TypeOK
    BY DEF Init, TypeOK
<1>2. Counted
  <2>1. \A c \in Clients : Borrowers(c) = {}
    BY DEF Init, Borrowers
  <2> QED
    BY <2>1, FS_EmptySet DEF Init, Counted
<1> QED
    BY <1>1, <1>2 DEF Init, Inv, HeldWhileSending, HeldAccounted, Unbuilt,
        CachedOnce, OneCachedPerProvider, NoLeak, Cached

(* Handing out a cached client: tryBorrow, or GetClient's second lookup. *)
LEMMA BorrowKeepsInv ==
    ASSUME Inv, NEW b \in Batches, NEW k \in Keys,
           pc[b] # "sending", Cached(k), Borrow(b, k),
           key' \in [Batches -> Keys \cup {None}],
           \A a \in Batches : pc'[a] = "building" => key'[a] \in Keys,
           seen' \in [Batches -> 0..MaxFinalized]
    PROVE  Inv'
<1> USE ClientsAreNumbers DEF Inv
<1>0. PICK c \in Clients : clients[k] = c
    BY DEF TypeOK, Cached
<1>1. /\ held[b] = None /\ held' = [held EXCEPT ![b] = c]
      /\ inFlight' = [inFlight EXCEPT ![c] = @ + 1]
    BY <1>0 DEF HeldWhileSending, Borrow, Hand
<1>2. TypeOK'
  <2>1. held' \in [Batches -> Clients \cup {None}] /\ inFlight' \in [Clients -> Nat]
    BY <1>0, <1>1 DEF TypeOK
  <2>2. pc' \in [Batches -> {"idle", "building", "sending"}]
    BY DEF TypeOK, Borrow, Hand
  <2> QED
    BY <2>1, <2>2 DEF TypeOK, Borrow
<1>3. HeldWhileSending'
    BY <1>0, <1>1 DEF TypeOK, HeldWhileSending, Borrow, Hand
<1>4. Counted'
  <2>1. /\ Cardinality(Borrowers(c))' = Cardinality(Borrowers(c)) + 1
        /\ \A d \in Clients \ {c} : Borrowers(d)' = Borrowers(d)
    BY <1>1, BorrowCounts
  <2> QED
    BY <1>1, <2>1 DEF Counted, TypeOK
<1>5. HeldAccounted'
    BY <1>0, <1>1 DEF HeldAccounted, TypeOK, Borrow
<1>6. Unbuilt'
    BY <1>0, <1>1 DEF Unbuilt, TypeOK, Borrow
<1>7. CachedOnce' /\ OneCachedPerProvider'
    BY DEF CachedOnce, OneCachedPerProvider, Cached, Borrow
<1>8. NoLeak'
    BY <1>0, <1>1 DEF NoLeak, InUse, TypeOK, Borrow
<1> QED
    BY <1>2, <1>3, <1>4, <1>5, <1>6, <1>7, <1>8

(* What handing out a new client does, cached or retired at birth. *)
LEMMA BuiltFacts ==
    ASSUME Inv, NEW b \in Batches, Built(b)
    PROVE  /\ builtCount + 1 \in Clients
           /\ held[b] = None
           /\ held' = [held EXCEPT ![b] = builtCount + 1]
           /\ \A d \in Clients : held[b] # d
           /\ HeldWhileSending'
           /\ Counted'
           /\ builtCount + 1 \notin open
           /\ builtCount + 1 \notin retired
           /\ \A k \in Keys : clients[k] # builtCount + 1
<1> DEFINE c == builtCount + 1
<1> USE ClientsAreNumbers DEF Inv
<1>1. c \in Clients /\ c > builtCount
    BY DEF Built, Clients, TypeOK
<1>2. held[b] = None /\ held' = [held EXCEPT ![b] = c]
    BY DEF Built, Hand, HeldWhileSending
<1>3. HeldWhileSending'
    BY <1>1, <1>2 DEF HeldWhileSending, TypeOK, Built, Hand
<1>4. Counted'
  <2>1. Borrowers(c) = {}
    BY <1>1 DEF Unbuilt, Borrowers
  <2>2. Cardinality(Borrowers(c)) = 0
    BY <2>1, FS_EmptySet
  <2>3. PICK d \in Clients : d = c
    BY <1>1
  <2>4. /\ Cardinality(Borrowers(d))' = Cardinality(Borrowers(d)) + 1
        /\ \A e \in Clients \ {d} : Borrowers(e)' = Borrowers(e)
    BY <1>2, <2>3, BorrowCounts
  <2>5. inFlight' = [inFlight EXCEPT ![d] = 1]
    BY <2>3 DEF Built
  <2> QED
    BY <2>2, <2>3, <2>4, <2>5 DEF Counted, TypeOK
<1>5. c \notin open /\ c \notin retired /\ \A k \in Keys : clients[k] # c
    BY <1>1 DEF Unbuilt
<1> QED
    BY <1>1, <1>2, <1>3, <1>4, <1>5

(* GetClient's locals stay well typed when it returns a new client. *)
LEMMA BuiltReturns ==
    ASSUME Inv, NEW b \in Batches, Built(b)
    PROVE  /\ key' \in [Batches -> Keys \cup {None}]
           /\ \A a \in Batches : pc'[a] = "building" => key'[a] \in Keys
           /\ seen' \in [Batches -> 0..MaxFinalized]
<1>1. /\ key' = [key EXCEPT ![b] = None]
      /\ seen' = [seen EXCEPT ![b] = 0]
      /\ pc' = [pc EXCEPT ![b] = "sending"]
    BY DEF Built, Return, Hand
<1> QED
    BY <1>1, ClientsAreNumbers DEF Inv, TypeOK

(* Finalize overtook the build: the client is never cached. *)
LEMMA BuiltTooLateKeepsInv ==
    ASSUME Inv, NEW b \in Batches, BuiltTooLate(b)
    PROVE  Inv'
<1> DEFINE c == builtCount + 1
<1> USE ClientsAreNumbers DEF Inv
<1>1. Built(b)
    BY DEF BuiltTooLate
<1>2. /\ c \in Clients /\ held[b] = None
      /\ held' = [held EXCEPT ![b] = c]
      /\ HeldWhileSending' /\ Counted'
      /\ c \notin open /\ c \notin retired
      /\ \A k \in Keys : clients[k] # c
    BY <1>1, BuiltFacts
<1>3. TypeOK'
  <2>1. /\ key' \in [Batches -> Keys \cup {None}]
        /\ \A a \in Batches : pc'[a] = "building" => key'[a] \in Keys
        /\ seen' \in [Batches -> 0..MaxFinalized]
    BY <1>1, BuiltReturns
  <2>2. /\ pc' \in [Batches -> {"idle", "building", "sending"}]
        /\ held' \in [Batches -> Clients \cup {None}]
        /\ inFlight' \in [Clients -> Nat]
        /\ lifetime' \in [Clients -> 0..MaxFinalized]
        /\ builtCount' \in 0..MaxClients
    BY <1>1, <1>2 DEF TypeOK, Built, Hand, Clients
  <2> QED
    BY <1>1, <1>2, <2>1, <2>2 DEF TypeOK, BuiltTooLate, Built
<1>4. HeldAccounted'
    BY <1>2 DEF HeldAccounted, TypeOK, BuiltTooLate
<1>5. Unbuilt'
    BY <1>2 DEF Unbuilt, TypeOK, BuiltTooLate, Built
<1>6. CachedOnce' /\ OneCachedPerProvider'
    BY <1>2 DEF CachedOnce, OneCachedPerProvider, Cached, TypeOK, BuiltTooLate, Built
<1>7. NoLeak'
    BY <1>2 DEF NoLeak, InUse, TypeOK, BuiltTooLate
<1> QED
    BY <1>2, <1>3, <1>4, <1>5, <1>6, <1>7

(* The build is cached, and retireSupersededClient drops the old client. *)
LEMMA CacheBuiltKeepsInv ==
    ASSUME Inv, NEW b \in Batches, CacheBuilt(b)
    PROVE  Inv'
<1> DEFINE c == builtCount + 1
           k == key[b]
           old == {clients[j] : j \in Superseded(k)}
<1> USE ClientsAreNumbers DEF Inv
<1>1. Built(b) /\ seen[b] = generation /\ k \in Keys /\ ~Cached(k)
    BY DEF CacheBuilt, Built, TypeOK
<1>2. /\ c \in Clients /\ held[b] = None
      /\ held' = [held EXCEPT ![b] = c]
      /\ HeldWhileSending' /\ Counted'
      /\ c \notin open /\ c \notin retired
      /\ \A j \in Keys : clients[j] # c
    BY <1>1, BuiltFacts
<1>3. /\ clients' = [j \in Keys |-> IF j = k THEN c
                                    ELSE IF j \in Superseded(k) THEN None
                                    ELSE clients[j]]
      /\ retired' = retired \cup old
      /\ open' = open \ {d \in old : inFlight[d] = 0}
      /\ currentKeys' = [currentKeys EXCEPT ![Provider[k]] = k]
      /\ builtCount' = c
      /\ generation' = generation
      /\ lifetime' = [lifetime EXCEPT ![c] = generation]
    BY <1>1 DEF CacheBuilt, Built
<1>4. old \subseteq Clients /\ c \notin old /\ k \notin Superseded(k)
    BY <1>2 DEF Superseded, Cached, TypeOK
<1>5. TypeOK'
  <2>1. clients' \in [Keys -> Clients \cup {None}]
    BY <1>2, <1>3 DEF TypeOK
  <2>2. currentKeys' \in [Providers -> Keys \cup {None}]
    BY <1>1, <1>3 DEF TypeOK
  <2>3. retired' \subseteq Clients /\ open' \subseteq Clients
    BY <1>3, <1>4 DEF TypeOK
  <2>4. /\ inFlight' \in [Clients -> Nat]
        /\ lifetime' \in [Clients -> 0..MaxFinalized]
        /\ builtCount' \in 0..MaxClients
    BY <1>1, <1>2, <1>3 DEF TypeOK, Built, Clients
  <2>5. /\ pc' \in [Batches -> {"idle", "building", "sending"}]
        /\ held' \in [Batches -> Clients \cup {None}]
    BY <1>1, <1>2 DEF TypeOK, Built, Hand
  <2>6. /\ key' \in [Batches -> Keys \cup {None}]
        /\ \A a \in Batches : pc'[a] = "building" => key'[a] \in Keys
        /\ seen' \in [Batches -> 0..MaxFinalized]
    BY <1>1, BuiltReturns
  <2> QED
    BY <1>1, <1>3, <2>1, <2>2, <2>3, <2>4, <2>5, <2>6 DEF TypeOK, Built
<1>6. HeldAccounted'
    <2>1. ASSUME NEW a \in Batches, held'[a] # None
          PROVE  held'[a] \in retired' \/ \E j \in Keys : clients'[j] = held'[a]
      <3>1. CASE a = b
        BY <1>1, <1>2, <1>3, <3>1 DEF TypeOK
      <3>2. CASE a # b
        <4>1. held'[a] = held[a]
          BY <1>2, <3>2 DEF TypeOK
        <4>2. CASE held[a] \in retired
          BY <1>3, <4>1, <4>2
        <4>3. CASE \E j \in Keys : clients[j] = held[a]
          <5>1. PICK j \in Keys : clients[j] = held[a]
            BY <4>3
          <5>2. CASE j \in Superseded(k)
            BY <1>3, <4>1, <5>1, <5>2
          <5>3. CASE j \notin Superseded(k)
            BY <1>1, <1>3, <2>1, <4>1, <5>1, <5>3 DEF Cached
          <5> QED
            BY <5>2, <5>3
        <4> QED
          BY <2>1, <4>1, <4>2, <4>3 DEF HeldAccounted
      <3> QED
        BY <3>1, <3>2
    <2> QED
      BY <2>1 DEF HeldAccounted
<1>7. Unbuilt'
    BY <1>1, <1>2, <1>3, <1>4 DEF Unbuilt, TypeOK, Superseded
<1>8. CachedOnce'
    BY <1>1, <1>2, <1>3, <1>4 DEF CachedOnce, Cached, TypeOK
<1>9. OneCachedPerProvider'
  <2> SUFFICES ASSUME NEW j \in Keys, clients'[j] # None
               PROVE  currentKeys'[Provider[j]] = j /\ clients'[j] \notin retired'
    BY DEF OneCachedPerProvider, Cached
  <2>1. CASE j = k
    BY <1>1, <1>2, <1>3, <1>4, <2>1 DEF TypeOK
  <2>2. CASE j # k
    <3>1. j \notin Superseded(k) /\ clients'[j] = clients[j] /\ Cached(j)
      BY <1>3, <2>2 DEF Cached
    <3>2. currentKeys[Provider[j]] = j /\ clients[j] \notin retired
      BY <3>1 DEF OneCachedPerProvider
    <3>3. Provider[j] # Provider[k]
      BY <2>2, <3>1, <3>2 DEF Superseded
    <3>4. clients[j] \notin old
      BY <3>1 DEF CachedOnce, Superseded
    <3> QED
      BY <1>3, <3>1, <3>2, <3>3, <3>4 DEF TypeOK
  <2> QED
    BY <2>1, <2>2
<1>10. NoLeak'
  <2> SUFFICES ASSUME NEW d \in open'
               PROVE  InUse(d)' \/ \E j \in Keys : clients'[j] = d
    BY DEF NoLeak
  <2>1. d \in open /\ d \in Clients
    BY <1>3 DEF TypeOK
  <2>2. CASE InUse(d)
    BY <1>2, <2>1, <2>2 DEF InUse, TypeOK
  <2>3. CASE \E j \in Keys : clients[j] = d
    <3>1. PICK j \in Keys : clients[j] = d
      BY <2>3
    <3>2. CASE j \in Superseded(k)
      <4>1. inFlight[d] # 0
        BY <1>3, <3>1, <3>2
      <4>2. Borrowers(d) # {}
        BY <2>1, <4>1, BorrowersFinite DEF Counted
      <4> QED
        BY <1>2, <2>1, <4>2 DEF Borrowers, InUse, TypeOK
    <3>3. CASE j \notin Superseded(k)
      BY <1>1, <1>3, <2>1, <3>1, <3>3 DEF Cached
    <3> QED
      BY <3>2, <3>3
  <2> QED
    BY <2>1, <2>2, <2>3 DEF NoLeak
<1> QED
    BY <1>2, <1>5, <1>6, <1>7, <1>8, <1>9, <1>10

(* The last release of a retired client closes it. *)
LEMMA ReleaseKeepsInv ==
    ASSUME Inv, NEW b \in Batches, Release(b)
    PROVE  Inv'
<1> USE ClientsAreNumbers DEF Inv
<1>1. PICK c \in Clients : held[b] = c
    BY DEF Release, HeldWhileSending, TypeOK
<1>2. held' = [held EXCEPT ![b] = None]
    BY DEF Release
<1>3. /\ Cardinality(Borrowers(c))' = Cardinality(Borrowers(c)) - 1
      /\ \A d \in Clients \ {c} : Borrowers(d)' = Borrowers(d)
    BY <1>1, <1>2, ReleaseCounts
<1>4. inFlight' = [inFlight EXCEPT ![c] = @ - 1]
    BY <1>1 DEF Release
<1>5. inFlight[c] \in Nat \ {0}
  <2>1. Borrowers(c) # {}
    BY <1>1 DEF Borrowers
  <2> QED
    BY <2>1, BorrowersFinite DEF Counted, TypeOK
<1>6. TypeOK'
    BY <1>1, <1>2, <1>4, <1>5 DEF TypeOK, Release
<1>7. HeldWhileSending'
    BY <1>1 DEF HeldWhileSending, TypeOK, Release
<1>8. Counted'
    BY <1>3, <1>4, <1>5 DEF Counted, TypeOK
<1>9. HeldAccounted' /\ Unbuilt'
    BY <1>1 DEF HeldAccounted, Unbuilt, TypeOK, Release
<1>10. CachedOnce' /\ OneCachedPerProvider'
    BY DEF CachedOnce, OneCachedPerProvider, Cached, Release
<1>11. NoLeak'
  <2> SUFFICES ASSUME NEW d \in open'
               PROVE  InUse(d)' \/ \E j \in Keys : clients'[j] = d
    BY DEF NoLeak
  <2>1. d \in open /\ d \in Clients /\ clients' = clients
    BY DEF Release, TypeOK
  <2>2. CASE d # c
    BY <1>1, <1>2, <2>1, <2>2 DEF NoLeak, InUse, TypeOK
  <2>3. CASE d = c
    <3>1. c \notin retired \/ inFlight[c] - 1 > 0
      BY <1>1, <1>5, <2>3 DEF Release
    <3>2. CASE c \notin retired
      BY <1>1, <2>1, <2>3, <3>2 DEF HeldAccounted
    <3>3. CASE inFlight[c] - 1 > 0
      <4>1. Cardinality(Borrowers(c))' # 0
        BY <1>3, <1>5, <3>3 DEF Counted
      <4>2. Borrowers(c)' # {}
        BY <4>1, FS_EmptySet
      <4> QED
        BY <2>3, <4>2 DEF Borrowers, InUse
    <3> QED
      BY <3>1, <3>2, <3>3
  <2> QED
    BY <2>2, <2>3
<1> QED
    BY <1>6, <1>7, <1>8, <1>9, <1>10, <1>11

(* Finalize marks every cached client: those in use close at their release. *)
LEMMA FinalizeKeepsInv ==
    ASSUME Inv, Finalize
    PROVE  Inv'
<1> USE ClientsAreNumbers DEF Inv
<1> DEFINE all == {clients[k] : k \in {j \in Keys : Cached(j)}}
<1>0. /\ retired' = retired \cup all /\ open' = open \ all
      /\ clients' = [k \in Keys |-> None]
      /\ currentKeys' = [p \in Providers |-> None]
      /\ generation' = generation + 1 /\ generation < MaxFinalized
      /\ UNCHANGED <<inFlight, builtCount, lifetime, pc, key, seen, held>>
    BY DEF Finalize
<1>1. all \subseteq Clients
    BY DEF Cached, TypeOK
<1>2. TypeOK'
  <2>1. generation' \in 0..MaxFinalized
    BY <1>0 DEF TypeOK
  <2>2. clients' \in [Keys -> Clients \cup {None}]
    BY <1>0
  <2>3. currentKeys' \in [Providers -> Keys \cup {None}]
    BY <1>0
  <2>4. retired' \subseteq Clients /\ open' \subseteq Clients
    BY <1>0, <1>1 DEF TypeOK
  <2> QED
    BY <1>0, <2>1, <2>2, <2>3, <2>4 DEF TypeOK
<1>3. HeldWhileSending' /\ Counted'
    BY <1>0 DEF HeldWhileSending, Counted, Borrowers
<1>4. HeldAccounted'
    BY <1>0 DEF HeldAccounted, Cached, TypeOK
<1>5. Unbuilt'
    BY <1>0 DEF Unbuilt, TypeOK
<1>6. CachedOnce' /\ OneCachedPerProvider'
    BY <1>0 DEF CachedOnce, OneCachedPerProvider, Cached
<1>7. NoLeak'
    BY <1>0 DEF NoLeak, InUse, Cached, TypeOK
<1> QED
    BY <1>2, <1>3, <1>4, <1>5, <1>6, <1>7

(* Every critical section of clientsLock keeps the invariant. *)
LEMMA InvStep == Inv /\ [Next]_vars => Inv'
<1> SUFFICES ASSUME Inv, [Next]_vars PROVE Inv'
    OBVIOUS
<1> USE ClientsAreNumbers
<1>1. ASSUME NEW b \in Batches, NEW k \in Keys, TryBorrow(b, k)
      PROVE  Inv'
  <2>2. CASE Cached(k) /\ clients[k] \notin retired
    <3>1. Borrow(b, k) /\ pc[b] # "sending" /\ key' = key /\ seen' = seen
      BY <1>1, <2>2 DEF TryBorrow
    <3>2. \A a \in Batches : pc'[a] = "building" => key'[a] \in Keys
      BY <3>1 DEF Borrow, Hand, Inv, TypeOK
    <3> QED
      BY <2>2, <3>1, <3>2, BorrowKeepsInv DEF Inv, TypeOK
  <2>3. CASE ~(Cached(k) /\ clients[k] \notin retired)
    <3>1. pc[b] # "sending" /\ pc' = [pc EXCEPT ![b] = "building"]
      BY <1>1, <2>3 DEF TryBorrow
    <3>2. UNCHANGED <<cache, open, held>>
      BY <1>1, <2>3 DEF TryBorrow
    <3>3. TypeOK'
      BY <1>1, <2>3, <3>1, <3>2 DEF TryBorrow, cache, Inv, TypeOK
    <3>4. HeldWhileSending'
      BY <3>1, <3>2 DEF Inv, TypeOK, HeldWhileSending
    <3> QED
      BY <3>2, <3>3, <3>4 DEF cache, Inv, Counted, Borrowers, HeldAccounted, Unbuilt,
          CachedOnce, OneCachedPerProvider, NoLeak, InUse, Cached
  <2> QED
    BY <2>2, <2>3
<1>2. ASSUME NEW b \in Batches, BuildFails(b)
      PROVE  Inv'
  <2>1. TypeOK'
    BY <1>2 DEF BuildFails, Return, cache, Inv, TypeOK
  <2> QED
    BY <1>2, <2>1 DEF BuildFails, cache, Inv, TypeOK, HeldWhileSending, Counted, Borrowers,
        HeldAccounted, Unbuilt, CachedOnce, OneCachedPerProvider, NoLeak, InUse, Cached
<1>3. ASSUME NEW b \in Batches, BorrowOther(b)
      PROVE  Inv'
  <2>1. /\ pc[b] = "building" /\ key[b] \in Keys /\ Cached(key[b]) /\ Borrow(b, key[b])
        /\ key' = [key EXCEPT ![b] = None] /\ seen' = [seen EXCEPT ![b] = 0]
    BY <1>3 DEF BorrowOther, Return, Inv, TypeOK
  <2>2. /\ key' \in [Batches -> Keys \cup {None}]
        /\ seen' \in [Batches -> 0..MaxFinalized]
        /\ \A a \in Batches : pc'[a] = "building" => key'[a] \in Keys
    BY <2>1 DEF Borrow, Hand, Inv, TypeOK
  <2> QED
    BY <2>1, <2>2, BorrowKeepsInv
<1>4. ASSUME NEW b \in Batches, Answered(b)
      PROVE  Inv'
  <2>1. held[b] \in Clients /\ held' = held /\ open' = open \cup {held[b]}
    BY <1>4 DEF Answered, Inv, TypeOK, HeldWhileSending
  <2>2. TypeOK' /\ NoLeak'
    BY <1>4, <2>1 DEF Answered, cache, Inv, TypeOK, NoLeak, InUse
  <2>3. Unbuilt'
    BY <1>4, <2>1 DEF Answered, cache, Inv, TypeOK, Unbuilt
  <2> QED
    BY <1>4, <2>2, <2>3 DEF Answered, cache, Inv, HeldWhileSending, Counted, Borrowers,
        HeldAccounted, CachedOnce, OneCachedPerProvider, Cached
<1>5. CASE UNCHANGED vars
    BY <1>5 DEF vars, cache, Inv, TypeOK, HeldWhileSending, Counted, Borrowers,
        HeldAccounted, Unbuilt, CachedOnce, OneCachedPerProvider, NoLeak, InUse, Cached
<1> QED
    BY <1>1, <1>2, <1>3, <1>4, <1>5, BuiltTooLateKeepsInv, CacheBuiltKeepsInv,
        ReleaseKeepsInv, FinalizeKeepsInv DEF Next

(* Every open connection of the pool has an owner that will close it. *)
THEOREM InvAlways == Spec => []Inv
BY InvInit, InvStep, PTL DEF Spec

-----------------------------------------------------------------------------
(* The pool's state is well typed: no borrow is returned twice. *)
THEOREM CacheTypes == Spec => []TypeOK
<1>1. Inv => TypeOK
    BY DEF Inv
<1> QED
    BY <1>1, InvAlways, PTL

(* retireSupersededClient and release between them leave no connection of  *)
(* a client that is neither cached nor in use.                             *)
THEOREM NoConnectionLeaks == Spec => []NoLeak
<1>1. Inv => NoLeak
    BY DEF Inv
<1> QED
    BY <1>1, InvAlways, PTL

(* GetClient compares the generation, so that Finalize leaves nothing that *)
(* is not in use, however the builds it overtook end.                      *)
THEOREM ShutdownLeavesNothing == Spec => []ShutdownIsComplete
<1>1. Inv => ShutdownIsComplete
    BY ClientsAreNumbers DEF Inv, TypeOK, NoLeak, CachedOnce, Cached, ShutdownIsComplete
<1> QED
    BY <1>1, InvAlways, PTL

(* The cache holds one live client of a provider at most. *)
THEOREM OneClientPerProvider == Spec => []OneCachedPerProvider
<1>1. Inv => OneCachedPerProvider
    BY DEF Inv
<1> QED
    BY <1>1, InvAlways, PTL

-----------------------------------------------------------------------------
(* Destinations and trust *)

(* A TLS configuration is one the key k may stand for: its trust settings  *)
(* are the key's, and its files are not older than the revision.           *)
Fits(c, k) ==
    /\ c \in Configs
    /\ (c.cert # None) <=> (k.name = "cert")
    /\ (c.ca # None) <=> k.cacert
    /\ c.skip <=> k.skip
    /\ k.credrev # None =>
          /\ c.cert # None => c.cert >= k.credrev.cert
          /\ c.ca # None => c.ca >= k.credrev.ca

(* The revision of p was taken of files at least as new as v. *)
Recent(p, v) ==
    p.credrev # None =>
        /\ p.cred = "cert" => p.credrev.cert \in v.cert..files.cert
        /\ p.cacert => p.credrev.ca \in v.ca..files.ca

(* The files, the record and the provider being added. *)
RecordOK ==
    /\ files \in Files /\ began \in Files /\ due \in Files
    /\ record \in Storable /\ Recent(record, due)
    /\ adding # None => \E q \in Requests : adding = BuildProvider(q)

(* What each batch has loaded. *)
LoadedOK ==
    /\ psp \in [Batches -> Storable \cup {None}]
    /\ dueOf \in [Batches -> Files]
    /\ \A b \in Batches : psp[b] # None => Recent(psp[b], dueOf[b])
    /\ \A b \in Batches : pc[b] # "idle" => psp[b] # None /\ CheckEndpointAllowed(psp[b])

(* What each build has made, and for which key. *)
BuildsOK ==
    /\ tls = [b \in Batches |-> tls[b]]
    /\ \A b \in Batches : pc[b] # "building" => tls[b] = None
    /\ \A b \in Batches : pc[b] = "building" =>
          /\ key[b] = clientCacheKey(psp[b])
          /\ tls[b] # None => Fits(tls[b], key[b])

(* Every client in reach fits the key it is used under. *)
ClientsOK ==
    /\ config = [c \in Clients |-> config[c]]
    /\ \A b \in Batches : pc[b] = "sending" => Fits(config[held[b]], clientCacheKey(psp[b]))
    /\ \A k \in Keys : clients[k] # None => Fits(config[clients[k]], k)

DestInv == Inv /\ RecordOK /\ LoadedOK /\ BuildsOK /\ ClientsOK

-----------------------------------------------------------------------------
(* Providers and their keys *)

\* What a stored provider is made of.
LEMMA StorableFacts ==
    ASSUME NEW p \in Storable
    PROVE  /\ p \in Psps
           /\ clientCacheKey(p) \in Keys
<1>1. ASSUME NEW q \in Requests, NEW v \in Files
      PROVE  [BuildProvider(q) EXCEPT !.credrev = CredentialRevision(BuildProvider(q), v)] \in Psps
  <2>1. BuildProvider(q) \in Psps
    BY StorableAssumption
  <2>2. CredentialRevision(BuildProvider(q), v)
           \in [cert : Versions \cup {None}, ca : Versions \cup {None}]
    BY <1>1 DEF CredentialRevision, CertOf, CaOf, Files
  <2> HIDE DEF BuildProvider, CredentialRevision
  <2> QED
    BY <2>1, <2>2 DEF Psps
<1>2. p \in Psps
  BY <1>1, StorableAssumption DEF Storable
<1> QED
  BY <1>2, StorableAssumption

\* The key of a provider names everything a client depends on.
LEMMA KeyFacts ==
    ASSUME NEW p \in Psps
    PROVE  /\ clientCacheKey(p).name = p.cred
           /\ clientCacheKey(p).cacert = p.cacert
           /\ clientCacheKey(p).credrev = p.credrev
           /\ clientCacheKey(p).skip = ShouldSkipVerify(p)
           /\ p.cacert \in BOOLEAN /\ p.skipverify \in BOOLEAN
           /\ ShouldSkipVerify(p) \in BOOLEAN
BY DEF clientCacheKey, Psps, ShouldSkipVerify

\* createTLSConfig reads files that are at least as new as the revision.
LEMMA ConfigFits ==
    ASSUME NEW p \in Psps, files \in Files, NEW v \in Files, Recent(p, v)
    PROVE  Fits([cert |-> CertOf(p, files), ca |-> CaOf(p, files), skip |-> ShouldSkipVerify(p)],
                clientCacheKey(p))
<1> DEFINE c == [cert |-> CertOf(p, files), ca |-> CaOf(p, files), skip |-> ShouldSkipVerify(p)]
           k == clientCacheKey(p)
<1>1. /\ files.cert \in Versions /\ files.ca \in Versions
      /\ v.cert \in Versions /\ v.ca \in Versions
      /\ None \notin Versions
  BY DestinationAssumption DEF Files, Versions
<1>2. /\ (c.cert # None) <=> (p.cred = "cert")
      /\ (c.ca # None) <=> p.cacert
      /\ c.cert # None => c.cert = files.cert
      /\ c.ca # None => c.ca = files.ca
      /\ c.skip = ShouldSkipVerify(p)
  BY <1>1, KeyFacts DEF CertOf, CaOf
<1>3. p.credrev # None =>
         /\ p.cred = "cert" => p.credrev.cert <= files.cert
         /\ p.cacert => p.credrev.ca <= files.ca
  BY <1>1, DestinationAssumption DEF Recent, Versions
<1>4. p.credrev # None =>
         /\ p.cred = "cert" => p.credrev.cert \in Int
         /\ p.cacert => p.credrev.ca \in Int
  BY <1>1, DestinationAssumption DEF Recent, Versions
<1>7. c \in Configs
  <2>1. ShouldSkipVerify(p) \in BOOLEAN
    BY DEF ShouldSkipVerify, IsAppleHost, Psps
  <2> QED
    BY <1>1, <2>1 DEF CertOf, CaOf, Configs
<1> HIDE DEF c
<1>5. /\ k.name = p.cred /\ k.cacert = p.cacert /\ k.credrev = p.credrev
      /\ k.skip = ShouldSkipVerify(p)
  BY KeyFacts
<1> HIDE DEF k
<1>6. Fits(c, k)
  BY <1>1, <1>2, <1>3, <1>4, <1>5, <1>7, DestinationAssumption DEF Fits, Versions
<1> QED
  BY <1>6 DEF c, k

-----------------------------------------------------------------------------
(* The pool *)

\* Every step is one the pool allows, or leaves the pool alone.
LEMMA PoolStep ==
    ASSUME LoadedOK, [DestNext]_allVars
    PROVE  [Next]_vars
<1>1. ASSUME NEW b \in Batches, GetClient(b)
      PROVE  Next
  <2>1. psp[b] \in Storable
    BY <1>1 DEF GetClient, LoadedOK
  <2>2. clientCacheKey(psp[b]) \in Keys
    BY <2>1, StorableFacts
  <2> QED
    BY <1>1, <2>2 DEF GetClient, Next
<1>2. ASSUME NEW b \in Batches, TakeOther(b) \/ TakeBuilt(b) \/ Over(b)
      PROVE  Next
  BY <1>2 DEF TakeOther, TakeBuilt, Over, Next
<1>3. CASE Pooled
  BY <1>3 DEF Pooled, Next
<1>4. ASSUME \/ \E q \in Requests : AddPsp(q)
             \/ Store \/ AddFails
             \/ \E f \in Rotated : Rotate(f)
             \/ \E b \in Batches : Load(b) \/ Refuse(b) \/ createTLSConfig(b)
      PROVE  UNCHANGED vars
  BY <1>4 DEF AddPsp, Store, AddFails, Rotate, Load, Refuse, createTLSConfig
<1>5. CASE UNCHANGED allVars
  BY <1>5 DEF allVars
<1> QED
  BY <1>1, <1>2, <1>3, <1>4, <1>5 DEF DestNext

LEMMA DestInvInit == DestInit => DestInv
<1> SUFFICES ASSUME DestInit PROVE DestInv
  OBVIOUS
<1>1. Inv
  BY InvInit DEF DestInit
<1>2. NoFiles \in Files
  BY DestinationAssumption DEF NoFiles, Files, Versions
<1>3. record \in Storable /\ record.credrev = None
  BY StorableAssumption DEF DestInit, Storable
<1>4. RecordOK
  BY <1>2, <1>3 DEF DestInit, RecordOK, Recent
<1>5. LoadedOK
  BY <1>2 DEF DestInit, Init, LoadedOK
<1>6. BuildsOK
  BY DEF DestInit, Init, BuildsOK
<1>7. ClientsOK
  BY DEF DestInit, Init, ClientsOK
<1> QED
  BY <1>1, <1>4, <1>5, <1>6, <1>7 DEF DestInv

-----------------------------------------------------------------------------
(* Steps that leave the pool alone *)

\* A replacement of a file makes no revision older.
LEMMA RotateKeeps ==
    ASSUME DestInv, NEW f \in Rotated, Rotate(f)
    PROVE  RecordOK' /\ LoadedOK' /\ BuildsOK' /\ ClientsOK'
<1>1. files \in Files /\ files' \in Files
  BY DestinationAssumption DEF DestInv, RecordOK, Rotate, Files, Versions
<1>2. files.cert <= files'.cert /\ files.ca <= files'.ca
  BY <1>1, DestinationAssumption DEF Rotate, Files, Versions
<1>3. ASSUME NEW p, NEW v \in Files, Recent(p, v)
      PROVE  Recent(p, v)'
  BY <1>1, <1>2, <1>3, DestinationAssumption DEF Recent, Files, Versions
<1>4. RecordOK'
  BY <1>1, <1>3 DEF DestInv, RecordOK, Rotate
<1>5. LoadedOK'
  <2>1. \A b \in Batches : psp[b] # None => Recent(psp[b], dueOf[b])'
    BY <1>3 DEF DestInv, LoadedOK, Rotate
  <2> QED
    BY <2>1
    DEF DestInv, LoadedOK, Rotate, vars, CheckEndpointAllowed, ValidateEndpoint
<1>6. BuildsOK' /\ ClientsOK'
  BY DEF DestInv, BuildsOK, ClientsOK, Rotate, vars, cache
<1> QED
  BY <1>4, <1>5, <1>6

\* What Store writes carries a revision of the files since the request began.
LEMMA StoreKeeps ==
    ASSUME DestInv, Store
    PROVE  RecordOK' /\ LoadedOK' /\ BuildsOK' /\ ClientsOK'
<1>1. PICK q \in Requests : adding = BuildProvider(q)
  BY DEF DestInv, RecordOK, Store
<1>2. PICK v \in Files :
         /\ v.cert \in began.cert..files.cert
         /\ v.ca \in began.ca..files.ca
         /\ record' = [adding EXCEPT !.credrev = CredentialRevision(adding, v)]
  BY DEF Store
<1>3. record' \in Storable
  BY <1>1, <1>2 DEF Storable
<1>4. adding \in Psps
  BY <1>1, StorableAssumption
<1>5. /\ record'.cred = adding.cred /\ record'.cacert = adding.cacert
      /\ record'.credrev = [cert |-> CertOf(adding, v), ca |-> CaOf(adding, v)]
  BY <1>2, <1>4 DEF Psps, CredentialRevision
<1>6. /\ record'.cred = "cert" => record'.credrev.cert = v.cert
      /\ record'.cacert => record'.credrev.ca = v.ca
  BY <1>5 DEF CertOf, CaOf
<1>7. Recent(record, due)'
  BY <1>2, <1>6 DEF Recent, Store
<1>8. NoFiles \in Files
  BY DestinationAssumption DEF NoFiles, Files, Versions
<1>9. RecordOK'
  BY <1>3, <1>7, <1>8 DEF DestInv, RecordOK, Store
<1>10. LoadedOK'
  BY DEF DestInv, LoadedOK, Store, vars, CheckEndpointAllowed, ValidateEndpoint, Recent
<1>11. BuildsOK' /\ ClientsOK'
  BY DEF DestInv, BuildsOK, ClientsOK, Store, vars, cache
<1> QED
  BY <1>9, <1>10, <1>11

\* The other steps of /addpsp.
LEMMA AddingKeeps ==
    ASSUME DestInv, (\E q \in Requests : AddPsp(q)) \/ AddFails
    PROVE  RecordOK' /\ LoadedOK' /\ BuildsOK' /\ ClientsOK'
<1>1. NoFiles \in Files
  BY DestinationAssumption DEF NoFiles, Files, Versions
<1>2. /\ UNCHANGED <<vars, allowNonApple, files, record, psp, tls, config, due, dueOf>>
      /\ began' \in {files, NoFiles}
      /\ adding' # None => \E q \in Requests : adding' = BuildProvider(q)
  BY DEF AddPsp, AddFails
<1>3. RecordOK'
  BY <1>1, <1>2 DEF DestInv, RecordOK, Recent
<1>4. LoadedOK'
  BY <1>2 DEF DestInv, LoadedOK, vars, CheckEndpointAllowed, ValidateEndpoint, Recent
<1>5. BuildsOK' /\ ClientsOK'
  BY <1>2 DEF DestInv, BuildsOK, ClientsOK, vars, cache
<1> QED
  BY <1>3, <1>4, <1>5

\* A batch that loads a provider, or finds it forbidden.
LEMMA LoadingKeeps ==
    ASSUME DestInv, NEW b \in Batches, Load(b) \/ Refuse(b)
    PROVE  RecordOK' /\ LoadedOK' /\ BuildsOK' /\ ClientsOK'
<1>1. NoFiles \in Files
  BY DestinationAssumption DEF NoFiles, Files, Versions
<1>2. /\ UNCHANGED <<vars, allowNonApple, files, record, adding, tls, config, due, began>>
      /\ pc[b] = "idle"
  BY DEF Load, Refuse
<1>3. PICK p \in {record, None}, v \in {due, NoFiles} :
         /\ psp' = [psp EXCEPT ![b] = p] /\ dueOf' = [dueOf EXCEPT ![b] = v]
         /\ p # None => p = record /\ v = due
  BY DEF Load, Refuse
<1>4. RecordOK'
  BY <1>2 DEF DestInv, RecordOK, Recent
<1>5. \A a \in Batches \ {b} : psp'[a] = psp[a] /\ dueOf'[a] = dueOf[a]
  BY <1>3 DEF DestInv, LoadedOK
<1>6. psp'[b] = p /\ dueOf'[b] = v
  BY <1>3 DEF DestInv, LoadedOK
<1>7. LoadedOK'
  <2>1. psp' \in [Batches -> Storable \cup {None}] /\ dueOf' \in [Batches -> Files]
    BY <1>1, <1>3 DEF DestInv, LoadedOK, RecordOK
  <2>2. \A a \in Batches : psp'[a] # None => Recent(psp[a], dueOf[a])'
    BY <1>2, <1>3, <1>5, <1>6 DEF DestInv, LoadedOK, RecordOK, Recent
  <2>3. \A a \in Batches : pc'[a] # "idle" => psp'[a] # None /\ CheckEndpointAllowed(psp[a])'
    BY <1>2, <1>5 DEF DestInv, LoadedOK, vars, CheckEndpointAllowed, ValidateEndpoint
  <2> QED
    BY <2>1, <2>2, <2>3 DEF LoadedOK
<1>8. BuildsOK'
  BY <1>2, <1>5 DEF DestInv, BuildsOK, vars
<1>9. ClientsOK'
  BY <1>2, <1>5 DEF DestInv, ClientsOK, vars, cache
<1> QED
  BY <1>4, <1>7, <1>8, <1>9

\* The files are read for a client.
LEMMA ConfigKeeps ==
    ASSUME DestInv, NEW b \in Batches, createTLSConfig(b)
    PROVE  RecordOK' /\ LoadedOK' /\ BuildsOK' /\ ClientsOK'
<1>1. /\ UNCHANGED <<vars, allowNonApple, files, record, adding, psp, config, due, dueOf, began>>
      /\ pc[b] = "building"
  BY DEF createTLSConfig
<1>2. RecordOK' /\ LoadedOK' /\ ClientsOK'
  BY <1>1
  DEF DestInv, RecordOK, LoadedOK, ClientsOK, vars, cache, CheckEndpointAllowed,
      ValidateEndpoint, Recent
<1>3. psp[b] \in Psps /\ dueOf[b] \in Files /\ Recent(psp[b], dueOf[b])
  BY <1>1, StorableFacts DEF DestInv, LoadedOK
<1>4. Fits(tls'[b], key[b])
  <2>1. tls'[b] = [cert |-> CertOf(psp[b], files), ca |-> CaOf(psp[b], files),
                   skip |-> ShouldSkipVerify(psp[b])]
    BY DEF createTLSConfig, DestInv, BuildsOK
  <2>2. key[b] = clientCacheKey(psp[b])
    BY <1>1 DEF DestInv, BuildsOK
  <2> QED
    BY <1>3, <2>1, <2>2, ConfigFits DEF DestInv, RecordOK
<1>5. tls' = [a \in Batches |-> tls'[a]] /\ \A a \in Batches \ {b} : tls'[a] = tls[a]
  BY DEF createTLSConfig, DestInv, BuildsOK
<1>6. BuildsOK'
  BY <1>1, <1>4, <1>5 DEF DestInv, BuildsOK, vars
<1> QED
  BY <1>2, <1>6

-----------------------------------------------------------------------------
(* Steps of the pool *)

\* A batch asks for a client: it gets the one of its key, or builds one for it.
LEMMA GetClientKeeps ==
    ASSUME DestInv, NEW b \in Batches, GetClient(b)
    PROVE  RecordOK' /\ LoadedOK' /\ BuildsOK' /\ ClientsOK'
<1> DEFINE k == clientCacheKey(psp[b])
<1>1. /\ UNCHANGED destination /\ psp[b] # None /\ CheckEndpointAllowed(psp[b])
      /\ TryBorrow(b, k) /\ pc[b] = "idle" /\ UNCHANGED clients
  BY DEF GetClient, TryBorrow, Borrow, cache
<1>2. psp[b] \in Storable /\ k \in Keys
  BY <1>1, StorableFacts DEF DestInv, LoadedOK
<1>3. \A a \in Batches \ {b} : pc'[a] = pc[a] /\ key'[a] = key[a] /\ held'[a] = held[a]
  BY <1>1 DEF TryBorrow, Borrow, Hand, DestInv, Inv, TypeOK
<1>4. RecordOK'
  BY <1>1 DEF DestInv, RecordOK, destination, Recent
<1>5. LoadedOK'
  <2>1. \A a \in Batches : pc'[a] # "idle" => psp[a] # None /\ CheckEndpointAllowed(psp[a])
    BY <1>1, <1>3 DEF DestInv, LoadedOK
  <2> QED
    BY <1>1, <2>1
    DEF DestInv, LoadedOK, destination, CheckEndpointAllowed, ValidateEndpoint, Recent
<1>6. CASE clients[k] # None /\ clients[k] \notin retired
  <2>1. pc'[b] = "sending" /\ held'[b] = clients[k]
    BY <1>1, <1>6 DEF TryBorrow, Cached, Borrow, Hand, DestInv, Inv, TypeOK
  <2>2. BuildsOK'
    BY <1>1, <1>3, <2>1 DEF DestInv, BuildsOK, destination
  <2>3. ClientsOK'
    BY <1>1, <1>2, <1>3, <1>6, <2>1 DEF DestInv, ClientsOK, destination
  <2> QED
    BY <1>4, <1>5, <2>2, <2>3
<1>7. CASE ~(clients[k] # None /\ clients[k] \notin retired)
  <2>1. pc'[b] = "building" /\ key'[b] = k
    BY <1>1, <1>7 DEF TryBorrow, Cached, DestInv, Inv, TypeOK
  <2>2. BuildsOK'
    BY <1>1, <1>3, <2>1 DEF DestInv, BuildsOK, destination
  <2>3. ClientsOK'
    BY <1>1, <1>3, <2>1 DEF DestInv, ClientsOK, destination
  <2> QED
    BY <1>4, <1>5, <2>2, <2>3
<1> QED
  BY <1>6, <1>7

\* A batch gets the client another one cached under its key.
LEMMA TakeOtherKeeps ==
    ASSUME DestInv, NEW b \in Batches, TakeOther(b)
    PROVE  RecordOK' /\ LoadedOK' /\ BuildsOK' /\ ClientsOK'
<1>1. /\ UNCHANGED <<allowNonApple, files, record, adding, psp, config, due, dueOf, began>>
      /\ pc[b] = "building" /\ clients[key[b]] # None /\ UNCHANGED clients
      /\ pc' = [pc EXCEPT ![b] = "sending"] /\ held' = [held EXCEPT ![b] = clients[key[b]]]
      /\ key' = [key EXCEPT ![b] = None] /\ tls' = [tls EXCEPT ![b] = None]
  BY DEF TakeOther, BorrowOther, Borrow, Hand, Return, Cached
<1>2. /\ \A a \in Batches \ {b} : /\ pc'[a] = pc[a] /\ key'[a] = key[a]
                                  /\ held'[a] = held[a] /\ tls'[a] = tls[a]
      /\ pc'[b] = "sending" /\ held'[b] = clients[key[b]] /\ tls'[b] = None
      /\ tls' = [a \in Batches |-> tls'[a]]
  BY <1>1 DEF DestInv, Inv, TypeOK, BuildsOK
<1>3. key[b] = clientCacheKey(psp[b]) /\ key[b] \in Keys
  BY <1>1 DEF DestInv, BuildsOK, Inv, TypeOK
<1>4. RecordOK'
  BY <1>1 DEF DestInv, RecordOK, Recent
<1>5. LoadedOK'
  <2>1. \A a \in Batches : pc'[a] # "idle" => pc[a] # "idle"
    BY <1>1, <1>2
  <2> QED
    BY <1>1, <2>1 DEF DestInv, LoadedOK, CheckEndpointAllowed, ValidateEndpoint, Recent
<1>6. BuildsOK'
  BY <1>1, <1>2 DEF DestInv, BuildsOK
<1>7. ClientsOK'
  BY <1>1, <1>2, <1>3 DEF DestInv, ClientsOK
<1> QED
  BY <1>4, <1>5, <1>6, <1>7

\* A batch gets the client it built, which fits the key it may be cached under.
LEMMA TakeBuiltKeeps ==
    ASSUME DestInv, NEW b \in Batches, TakeBuilt(b)
    PROVE  RecordOK' /\ LoadedOK' /\ BuildsOK' /\ ClientsOK'
<1> DEFINE n == builtCount + 1
<1>1. /\ UNCHANGED <<allowNonApple, files, record, adding, psp, due, dueOf, began>>
      /\ tls[b] # None /\ tls' = [tls EXCEPT ![b] = None]
      /\ config' = [config EXCEPT ![n] = tls[b]]
      /\ Built(b)
  BY DEF TakeBuilt, CacheBuilt, BuiltTooLate
<1>2. /\ pc[b] = "building" /\ pc' = [pc EXCEPT ![b] = "sending"]
      /\ held' = [held EXCEPT ![b] = n] /\ key' = [key EXCEPT ![b] = None]
      /\ builtCount < MaxClients
  BY <1>1 DEF Built, Hand, Return
<1>3. \A j \in Keys : clients'[j] # None => (clients'[j] = n /\ j = key[b]) \/ clients'[j] = clients[j]
  BY DEF TakeBuilt, CacheBuilt, BuiltTooLate
<1>4. n \in Clients /\ n > builtCount
  BY <1>2, CacheAssumption DEF DestInv, Inv, TypeOK, Clients
<1>5. /\ \A j \in Keys : clients[j] # n
      /\ \A a \in Batches : held[a] # n
  BY <1>4 DEF DestInv, Inv, Unbuilt
<1> HIDE DEF n
<1>6. /\ \A a \in Batches \ {b} : /\ pc'[a] = pc[a] /\ key'[a] = key[a]
                                  /\ held'[a] = held[a] /\ tls'[a] = tls[a]
      /\ pc'[b] = "sending" /\ held'[b] = n /\ tls'[b] = None
      /\ tls' = [a \in Batches |-> tls'[a]]
  BY <1>1, <1>2 DEF DestInv, Inv, TypeOK, BuildsOK
<1>7. /\ \A c \in Clients \ {n} : config'[c] = config[c]
      /\ config'[n] = tls[b] /\ config' = [c \in Clients |-> config'[c]]
  BY <1>1, <1>4 DEF DestInv, ClientsOK
<1>8. Fits(tls[b], key[b]) /\ key[b] = clientCacheKey(psp[b])
  BY <1>1, <1>2 DEF DestInv, BuildsOK
<1>9. RecordOK'
  BY <1>1 DEF DestInv, RecordOK, Recent
<1>10. LoadedOK'
  <2>1. \A a \in Batches : pc'[a] # "idle" => pc[a] # "idle"
    BY <1>2, <1>6
  <2> QED
    BY <1>1, <2>1 DEF DestInv, LoadedOK, CheckEndpointAllowed, ValidateEndpoint, Recent
<1>11. BuildsOK'
  BY <1>1, <1>6 DEF DestInv, BuildsOK
<1>12. ClientsOK'
  <2>1. ASSUME NEW a \in Batches, pc'[a] = "sending"
        PROVE  Fits(config'[held'[a]], clientCacheKey(psp'[a]))
    <3>1. CASE a = b
      BY <1>1, <1>6, <1>7, <1>8, <3>1
    <3>2. CASE a # b
      <4>1. held[a] \in Clients \ {n}
        BY <1>5, <1>6, <2>1, <3>2 DEF DestInv, Inv, TypeOK, HeldWhileSending
      <4> QED
        BY <1>1, <1>6, <1>7, <2>1, <3>2, <4>1 DEF DestInv, ClientsOK
    <3> QED
      BY <3>1, <3>2
  <2>2. ASSUME NEW j \in Keys, clients'[j] # None
        PROVE  Fits(config'[clients'[j]], j)
    <3>1. CASE clients'[j] = n /\ j = key[b]
      BY <1>7, <1>8, <3>1
    <3>2. CASE clients'[j] = clients[j]
      <4>1. clients[j] \in Clients \ {n}
        BY <1>5, <2>2, <3>2 DEF DestInv, Inv, TypeOK
      <4> QED
        BY <1>7, <2>2, <3>2, <4>1 DEF DestInv, ClientsOK
    <3> QED
      BY <1>3, <2>2, <3>1, <3>2
  <2> QED
    BY <1>7, <2>1, <2>2 DEF ClientsOK
<1> QED
  BY <1>9, <1>10, <1>11, <1>12

\* A batch is over.
LEMMA OverKeeps ==
    ASSUME DestInv, NEW b \in Batches, Over(b)
    PROVE  RecordOK' /\ LoadedOK' /\ BuildsOK' /\ ClientsOK'
<1>1. /\ UNCHANGED <<allowNonApple, files, record, adding, config, due, began, clients>>
      /\ pc' = [pc EXCEPT ![b] = "idle"] /\ psp' = [psp EXCEPT ![b] = None]
      /\ tls' = [tls EXCEPT ![b] = None] /\ dueOf' = [dueOf EXCEPT ![b] = NoFiles]
      /\ \A a \in Batches \ {b} : key'[a] = key[a] /\ held'[a] = held[a]
  BY DEF Over, BuildFails, Release, Return, cache, DestInv, Inv, TypeOK
<1>2. /\ \A a \in Batches \ {b} : /\ pc'[a] = pc[a] /\ psp'[a] = psp[a]
                                  /\ tls'[a] = tls[a] /\ dueOf'[a] = dueOf[a]
      /\ pc'[b] = "idle" /\ psp'[b] = None /\ tls'[b] = None
      /\ tls' = [a \in Batches |-> tls'[a]]
  BY <1>1 DEF DestInv, Inv, TypeOK, BuildsOK, LoadedOK
<1>3. RecordOK'
  BY <1>1 DEF DestInv, RecordOK, Recent
<1>4. LoadedOK'
  <2>1. psp' \in [Batches -> Storable \cup {None}] /\ dueOf' \in [Batches -> Files]
    BY <1>1, DestinationAssumption DEF DestInv, LoadedOK, NoFiles, Files, Versions
  <2> QED
    BY <1>1, <1>2, <2>1 DEF DestInv, LoadedOK, CheckEndpointAllowed, ValidateEndpoint, Recent
<1>5. BuildsOK'
  BY <1>1, <1>2 DEF DestInv, BuildsOK
<1>6. ClientsOK'
  BY <1>1, <1>2 DEF DestInv, ClientsOK
<1> QED
  BY <1>3, <1>4, <1>5, <1>6

\* Finalize empties the pool; an answer changes neither clients nor batches.
LEMMA PooledKeeps ==
    ASSUME DestInv, Pooled
    PROVE  RecordOK' /\ LoadedOK' /\ BuildsOK' /\ ClientsOK'
<1>1. /\ UNCHANGED <<destination, pc, key, held>>
      /\ \A k \in Keys : clients'[k] # None => clients'[k] = clients[k]
  BY DEF Pooled, Finalize, Answered, cache
<1>2. RecordOK'
  BY <1>1 DEF DestInv, RecordOK, Recent, destination
<1>3. LoadedOK'
  BY <1>1
  DEF DestInv, LoadedOK, CheckEndpointAllowed, ValidateEndpoint, Recent, destination
<1>4. BuildsOK'
  BY <1>1 DEF DestInv, BuildsOK, destination
<1>5. ClientsOK'
  BY <1>1 DEF DestInv, ClientsOK, destination
<1> QED
  BY <1>2, <1>3, <1>4, <1>5

LEMMA DestInvStep == DestInv /\ [DestNext]_allVars => DestInv'
<1> SUFFICES ASSUME DestInv, [DestNext]_allVars PROVE DestInv'
  OBVIOUS
<1>1. Inv'
  BY PoolStep, InvStep DEF DestInv
<1>2. CASE UNCHANGED allVars
  BY <1>1, <1>2
  DEF DestInv, RecordOK, LoadedOK, BuildsOK, ClientsOK, allVars, vars, cache, destination,
      CheckEndpointAllowed, ValidateEndpoint, Recent
<1>3. CASE DestNext
  BY <1>1, <1>3, AddingKeeps, StoreKeeps, RotateKeeps, LoadingKeeps, ConfigKeeps, GetClientKeeps,
     TakeOtherKeeps, TakeBuiltKeeps, OverKeeps, PooledKeeps
  DEF DestNext, DestInv
<1> QED
  BY <1>2, <1>3

-----------------------------------------------------------------------------
(* Theorems *)

THEOREM DestInvAlways == DestSpec => []DestInv
BY DestInvInit, DestInvStep, PTL DEF DestSpec

\* Providers, TLS configurations and files keep their types, and a batch that sends
\* has a client whose configuration is known, for any number of batches and requests.
THEOREM DestTypes == DestSpec => []DestTypeOK
<1>1. DestInv => DestTypeOK
  <2> SUFFICES ASSUME DestInv PROVE DestTypeOK
    OBVIOUS
  <2>1. {files, due, began} \subseteq Files /\ record \in Psps
    BY StorableFacts DEF DestInv, RecordOK
  <2>2. adding # None => adding \in Psps
    BY StorableAssumption DEF DestInv, RecordOK
  <2>3. ASSUME NEW b \in Batches
        PROVE  /\ IF pc[b] = "idle" THEN tls[b] = None ELSE psp[b] \in Psps
               /\ pc[b] = "sending" => tls[b] = None /\ config[held[b]] \in Configs
               /\ dueOf[b] \in Files
    <3>1. pc[b] = "idle" => tls[b] = None
      BY DEF DestInv, BuildsOK
    <3>2. pc[b] # "idle" => psp[b] \in Psps
      BY StorableFacts DEF DestInv, LoadedOK
    <3>3. pc[b] = "sending" => tls[b] = None /\ config[held[b]] \in Configs
      BY DEF DestInv, BuildsOK, ClientsOK, Fits
    <3> QED
      BY <3>1, <3>2, <3>3 DEF DestInv, LoadedOK
  <2> QED
    BY <2>1, <2>2, <2>3 DEF DestTypeOK
<1> QED
  BY <1>1, DestInvAlways, PTL

\* Batches, /addpsp and rotations use the pool only as ApnsClientCache says: what
\* is proved of the pool alone holds of the pool in the program.
THEOREM PoolInUse == DestSpec => Spec
<1>1. DestInit => Init
  BY DEF DestInit
<1>2. DestInv /\ [DestNext]_allVars => [Next]_vars
  BY PoolStep DEF DestInv
<1> QED
  BY <1>1, <1>2, DestInvAlways, PTL DEF DestSpec, Spec

\* Any number of batches, providers, requests and replacements of files: once
\* /addpsp has succeeded after a file was replaced, no batch that starts is sent
\* over a client made of the old one.
THEOREM RotationAlwaysTakesEffect == DestSpec => []RotationTakesEffect
<1>1. DestInv => RotationTakesEffect
  <2> SUFFICES ASSUME DestInv, NEW b \in Batches, pc[b] = "sending", psp[b].credrev # None
               PROVE  LET c == config[held[b]] IN
                      /\ c.cert # None => c.cert >= dueOf[b].cert
                      /\ c.ca # None => c.ca >= dueOf[b].ca
    BY DEF RotationTakesEffect, Sending
  <2> DEFINE c == config[held[b]]
             p == psp[b]
  <2>1. p \in Psps /\ Recent(p, dueOf[b]) /\ dueOf[b] \in Files
    BY StorableFacts DEF DestInv, LoadedOK
  <2>2. Fits(c, clientCacheKey(p))
    BY DEF DestInv, ClientsOK
  <2>3. /\ c.cert # None => p.cred = "cert" /\ c.cert \in Nat /\ c.cert >= p.credrev.cert
        /\ c.ca # None => p.cacert /\ c.ca \in Nat /\ c.ca >= p.credrev.ca
    <3>1. {c.cert, c.ca} \subseteq Versions \cup {None} /\ Versions \subseteq Nat
      BY <2>2, DestinationAssumption DEF Fits, Configs, Versions
    <3> QED
      BY <2>1, <2>2, <3>1, KeyFacts DEF Fits
  <2>4. /\ p.cred = "cert" => p.credrev.cert \in dueOf[b].cert..files.cert
        /\ p.cacert => p.credrev.ca \in dueOf[b].ca..files.ca
    BY <2>1 DEF Recent
  <2>5. {dueOf[b].cert, dueOf[b].ca, files.cert, files.ca} \subseteq Nat
    BY <2>1, DestinationAssumption DEF Files, Versions, DestInv, RecordOK
  <2> HIDE DEF c, p
  <2>6. /\ c.cert # None => c.cert >= dueOf[b].cert
        /\ c.ca # None => c.ca >= dueOf[b].ca
    BY <2>3, <2>4, <2>5
  <2> QED
    BY <2>6 DEF c
<1> QED
  BY <1>1, DestInvAlways, PTL

\* Whatever clients the pool holds or is building, a batch is sent over one whose
\* trust settings are its provider's, and Apple's certificate is always verified.
THEOREM TrustIsAlwaysItsOwn == DestSpec => []TrustIsItsOwn
<1>1. DestInv => TrustIsItsOwn
  <2> SUFFICES ASSUME DestInv, NEW b \in Batches, pc[b] = "sending"
               PROVE  LET c == config[held[b]] IN
                      /\ (c.ca # None) = psp[b].cacert
                      /\ (c.cert # None) = (psp[b].cred = "cert")
                      /\ c.skip => psp[b].skipverify /\ ResolveEndpoint(psp[b]) \notin AppleUrls
    BY DEF TrustIsItsOwn, Sending
  <2> DEFINE c == config[held[b]]
             p == psp[b]
  <2>1. p \in Psps
    BY StorableFacts DEF DestInv, LoadedOK
  <2>2. Fits(c, clientCacheKey(p))
    BY DEF DestInv, ClientsOK
  <2>3. /\ (c.cert # None) <=> (p.cred = "cert")
        /\ (c.ca # None) <=> p.cacert
        /\ c.skip => ShouldSkipVerify(p)
        /\ p.cacert \in BOOLEAN
    BY <2>1, <2>2, KeyFacts DEF Fits
  <2> QED
    BY <2>3 DEF ShouldSkipVerify, IsAppleHost
<1> QED
  BY <1>1, DestInvAlways, PTL

\* Nothing is sent to a URL the checks of the point of use refuse, whatever the
\* providers stored.
THEOREM DestinationsAreAllowed == DestSpec => []OnlyWhereAllowed
<1>1. DestInv => OnlyWhereAllowed
  BY DEF DestInv, LoadedOK, OnlyWhereAllowed, Sending, CheckEndpointAllowed, ValidateEndpoint,
         IsAppleHost
<1> QED
  BY <1>1, DestInvAlways, PTL
=============================================================================
