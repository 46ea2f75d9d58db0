--------------------------- MODULE ApnsClientCache ---------------------------
(***************************************************************************)
(* The pool of HTTP/2 clients of the APNs backend                          *)
(* (srv/apns/http_api/processor.go).  A batch borrows the client of its    *)
(* provider's destination; a missing one is built outside clientsLock,     *)
(* while other batches, /addpsp (a provider's destination changes) and     *)
(* Finalize go on.  Each action is one critical section of clientsLock.    *)
(***************************************************************************)
EXTENDS Naturals, FiniteSets

CONSTANTS
    Batches,        \* goroutines that push a batch, one batch at a time
    Keys,           \* cache keys: a provider with its destination
    Provider,       \* the provider each key names
    None,
    MaxClients,     \* bound: clients built
    MaxFinalized    \* bound: calls of Finalize

Clients == 1..MaxClients

ASSUME CacheAssumption ==
    /\ IsFiniteSet(Batches)
    /\ Provider \in [Keys -> {Provider[k] : k \in Keys}]
    /\ MaxClients \in Nat /\ MaxFinalized \in Nat
    /\ None \notin Keys /\ None \notin Clients

Providers == {Provider[k] : k \in Keys}

VARIABLES
    clients,        \* prp.clients
    currentKeys,    \* prp.currentKeys
    generation,     \* prp.generation
    inFlight,       \* the borrows counted on each client
    retired,        \* the clients marked retired
    open,           \* the clients whose transport has idle connections
    builtCount,     \* clients built so far: they are numbered
    lifetime,       \* the generation each client was asked for in
    pc,             \* where each batch is
    key, seen,      \* the key of the client it is building and the generation
                    \* tryBorrow told it
    held            \* the client it has borrowed

cache == <<clients, currentKeys, generation, inFlight, retired, builtCount, lifetime>>
vars == <<cache, open, pc, key, seen, held>>

TypeOK ==
    /\ clients \in [Keys -> Clients \cup {None}]
    /\ currentKeys \in [Providers -> Keys \cup {None}]
    /\ generation \in 0..MaxFinalized
    /\ inFlight \in [Clients -> Nat]
    /\ retired \subseteq Clients
    /\ open \subseteq Clients
    /\ builtCount \in 0..MaxClients
    /\ lifetime \in [Clients -> 0..MaxFinalized]
    /\ pc \in [Batches -> {"idle", "building", "sending"}]
    /\ key \in [Batches -> Keys \cup {None}]
    /\ \A b \in Batches : pc[b] = "building" => key[b] \in Keys
    /\ seen \in [Batches -> 0..MaxFinalized]
    /\ held \in [Batches -> Clients \cup {None}]

Init ==
    /\ clients = [k \in Keys |-> None]
    /\ currentKeys = [p \in Providers |-> None]
    /\ generation = 0
    /\ inFlight = [c \in Clients |-> 0]
    /\ retired = {}
    /\ open = {}
    /\ builtCount = 0
    /\ lifetime = [c \in Clients |-> 0]
    /\ pc = [b \in Batches |-> "idle"]
    /\ key = [b \in Batches |-> None]
    /\ seen = [b \in Batches |-> 0]
    /\ held = [b \in Batches |-> None]

-----------------------------------------------------------------------------
(* GetClient *)

Cached(k) == clients[k] # None

Hand(b, c) ==
    /\ held' = [held EXCEPT ![b] = c]
    /\ pc' = [pc EXCEPT ![b] = "sending"]

(* GetClient returns: its locals are gone. *)
Return(b) ==
    /\ key' = [key EXCEPT ![b] = None]
    /\ seen' = [seen EXCEPT ![b] = 0]

(* A cached client is handed out and the borrow is counted. *)
Borrow(b, k) ==
    /\ Hand(b, clients[k])
    /\ inFlight' = [inFlight EXCEPT ![clients[k]] = @ + 1]
    /\ UNCHANGED <<clients, currentKeys, generation, retired, builtCount, lifetime, open>>

(* tryBorrow *)
TryBorrow(b, k) ==
    /\ pc[b] = "idle"
    /\ IF Cached(k) /\ clients[k] \notin retired
       THEN Borrow(b, k) /\ UNCHANGED <<key, seen>>
       ELSE /\ key' = [key EXCEPT ![b] = k]
            /\ seen' = [seen EXCEPT ![b] = generation]
            /\ pc' = [pc EXCEPT ![b] = "building"]
            /\ UNCHANGED <<cache, open, held>>

(* The credential files cannot be read, or http2 cannot be configured. *)
BuildFails(b) ==
    /\ pc[b] = "building"
    /\ pc' = [pc EXCEPT ![b] = "idle"]
    /\ Return(b)
    /\ UNCHANGED <<cache, open, held>>

(* Something else cached a client for the key during the build. *)
BorrowOther(b) ==
    /\ pc[b] = "building"
    /\ Cached(key[b])
    /\ Borrow(b, key[b])
    /\ Return(b)

(* The keys whose client the new one of key k supersedes. *)
Superseded(k) ==
    {j \in Keys : currentKeys[Provider[k]] = j /\ j # k /\ Cached(j)}

Built(b) ==
    /\ pc[b] = "building"
    /\ ~Cached(key[b])
    /\ builtCount < MaxClients
    /\ builtCount' = builtCount + 1
    /\ inFlight' = [inFlight EXCEPT ![builtCount + 1] = 1]
    /\ lifetime' = [lifetime EXCEPT ![builtCount + 1] = seen[b]]
    /\ Hand(b, builtCount + 1)
    /\ Return(b)
    /\ UNCHANGED generation

(* Finalize ran since: the client is retired at birth, not cached. *)
BuiltTooLate(b) ==
    /\ seen[b] # generation
    /\ Built(b)
    /\ retired' = retired \cup {builtCount + 1}
    /\ UNCHANGED <<clients, currentKeys, open>>

(* Defect: the superseded client is dropped and closed, but not marked, so *)
(* that the last batch using it does not close it again.                   *)
CacheClosesOnce(b) ==
    LET old == {clients[j] : j \in Superseded(key[b])} IN
    /\ seen[b] = generation
    /\ Built(b)
    /\ clients' = [j \in Keys |-> IF j = key[b] THEN builtCount + 1
                                  ELSE IF j \in Superseded(key[b]) THEN None
                                  ELSE clients[j]]
    /\ open' = open \ old
    /\ currentKeys' = [currentKeys EXCEPT ![Provider[key[b]]] = key[b]]
    /\ UNCHANGED retired

(* Defect: the generation is not compared. *)
CacheAnyGeneration(b) ==
    LET old == {clients[j] : j \in Superseded(key[b])} IN
    /\ Built(b)
    /\ clients' = [j \in Keys |-> IF j = key[b] THEN builtCount + 1
                                  ELSE IF j \in Superseded(key[b]) THEN None
                                  ELSE clients[j]]
    /\ retired' = retired \cup old
    /\ open' = open \ {c \in old : inFlight[c] = 0}
    /\ currentKeys' = [currentKeys EXCEPT ![Provider[key[b]]] = key[b]]

(* retireSupersededClient, and the new client is cached. *)
CacheBuilt(b) ==
    LET old == {clients[j] : j \in Superseded(key[b])} IN
    /\ seen[b] = generation
    /\ Built(b)
    /\ clients' = [j \in Keys |-> IF j = key[b] THEN builtCount + 1
                                  ELSE IF j \in Superseded(key[b]) THEN None
                                  ELSE clients[j]]
    /\ retired' = retired \cup old
    /\ open' = open \ {c \in old : inFlight[c] = 0}
    /\ currentKeys' = [currentKeys EXCEPT ![Provider[key[b]]] = key[b]]

-----------------------------------------------------------------------------
(* A request of the batch is answered: its connection becomes idle. *)
Answered(b) ==
    /\ pc[b] = "sending"
    /\ open' = open \cup {held[b]}
    /\ UNCHANGED <<cache, pc, key, seen, held>>

(* release *)
Release(b) ==
    /\ pc[b] = "sending"
    /\ pc' = [pc EXCEPT ![b] = "idle"]
    /\ held' = [held EXCEPT ![b] = None]
    /\ inFlight' = [inFlight EXCEPT ![held[b]] = @ - 1]
    /\ open' = IF held[b] \in retired /\ inFlight[held[b]] - 1 <= 0
               THEN open \ {held[b]}
               ELSE open
    /\ UNCHANGED <<clients, currentKeys, generation, retired, builtCount, lifetime, key, seen>>

Finalize ==
    LET all == {clients[k] : k \in {j \in Keys : Cached(j)}} IN
    /\ generation < MaxFinalized
    /\ retired' = retired \cup all
    /\ open' = open \ all
    /\ clients' = [k \in Keys |-> None]
    /\ currentKeys' = [p \in Providers |-> None]
    /\ generation' = generation + 1
    /\ UNCHANGED <<inFlight, builtCount, lifetime, pc, key, seen, held>>

Next ==
    \/ \E b \in Batches :
        \/ \E k \in Keys : TryBorrow(b, k)
        \/ BuildFails(b) \/ BorrowOther(b) \/ BuiltTooLate(b) \/ CacheBuilt(b)
        \/ Answered(b) \/ Release(b)
    \/ Finalize

Spec == Init /\ [][Next]_vars

-----------------------------------------------------------------------------
(* Properties *)

InUse(c) == \E b \in Batches : held[b] = c

(***************************************************************************)
(* A client that can no longer be reached through the cache keeps a        *)
(* connection only while a batch is using it: a provider that is repointed *)
(* again and again, under load, leaves no connection behind.               *)
(***************************************************************************)
NoLeak == \A c \in open : InUse(c) \/ \E k \in Keys : clients[k] = c

(***************************************************************************)
(* A client asked for before Finalize is never cached after it, however    *)
(* long its build takes: nothing of a lifetime that ended outlives its     *)
(* last batch.                                                             *)
(***************************************************************************)
ShutdownIsComplete ==
    \A c \in open : lifetime[c] # generation => InUse(c)

(***************************************************************************)
(* The cache holds at most one client of a provider, the one of its        *)
(* current key, and never a retired one ("this should not find one", says  *)
(* tryBorrow; GetClient's second lookup does not even ask), whichever of   *)
(* the builds of old and new destinations ends first.                      *)
(***************************************************************************)
OneCachedPerProvider ==
    \A k \in Keys : Cached(k) =>
        /\ currentKeys[Provider[k]] = k
        /\ clients[k] \notin retired

=============================================================================
