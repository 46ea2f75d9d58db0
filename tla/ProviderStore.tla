--------------------------- MODULE ProviderStore ---------------------------
(***************************************************************************)
(* The push service providers of one service in redis: /addpsp, /rmpsp,    *)
(* /rebuildserviceset, the write-back of a provider that a push updated,   *)
(* and the choice of a provider for a device by /subscribe and /push       *)
(* (db/pushdb.go over db/pushredisdb.go).                                  *)
(*                                                                         *)
(* As in SubscriptionStore a worker is one request, a step is one redis    *)
(* command, and dblock covers one process.  /addpsp does not rely on it:   *)
(* it WATCHes the provider set and writes in a MULTI/EXEC.                 *)
(***************************************************************************)
EXTENDS DBLock, FiniteSets, Naturals

CONSTANTS
    Providers,      \* provider names: each hashes the provider's fixed data
    Types,          \* push service types
    TypeOf,         \* the type of a provider, the prefix of its name
    Devices,        \* delivery point names
    DevType,        \* the type of a device
    Legacy,         \* may the database predate one provider per type
    MayFail,        \* may commands fail and processes die
    Attempts,       \* setProviderAttempts
    NoProvider

ASSUME ProviderAssumption ==
    /\ ProcOf \in [Workers -> Procs]
    /\ Nobody \notin Workers
    /\ TypeOf \in [Providers -> Types]
    /\ DevType \in [Devices -> Types]
    /\ Legacy \in BOOLEAN
    /\ MayFail \in BOOLEAN
    /\ Attempts \in Nat \ {0}
    /\ NoProvider \notin Providers

VARIABLES
    records,    \* names with a push.service.provider:<name>
    members,    \* srv-2-psp:<service>
    listed,     \* is the service in services{0}
    binding,    \* srv.dp-2-psp:<service>:<device>
    dirty,      \* workers whose WATCHed key was written by another client
    step,       \* where each worker is
    psp,        \* the provider it adds, removes, or has chosen
    replace,    \* replace=true of its /addpsp
    tries,      \* failed EXECs of its /addpsp
    dev,        \* the device it chooses a provider for
    names,      \* the names its SMEMBERS or SCAN returned
    left,       \* those whose record it has still to read
    found       \* those whose record it has read

store == <<records, members, listed, binding>>
request == <<psp, replace, dev>>
reading == <<names, left, found>>
vars == <<records, members, listed, binding, dirty, writer, readers, step,
          psp, replace, tries, dev, names, left, found>>

Steps == { "idle",
           "add.watch", "add.smembers", "add.get", "add.exec",
           "rm.set", "rm.exists", "rm.list", "rm.record",
           "sub.smembers", "sub.get", "sub.choose", "sub.tie", "sub.bind",
           "push.smembers", "push.get", "push.choose", "push.tie", "push.send",
           "rebuild.mget", "rebuild.add" }

TypeOK ==
    /\ records \subseteq Providers
    /\ members \subseteq Providers
    /\ listed \in BOOLEAN
    /\ binding \in [Devices -> Providers \cup {NoProvider}]
    /\ dirty \subseteq Workers
    /\ writer \in [Procs -> Workers \cup {Nobody}]
    /\ readers \in [Procs -> SUBSET Workers]
    /\ step \in [Workers -> Steps]
    /\ psp \in [Workers -> Providers \cup {NoProvider}]
    /\ replace \in [Workers -> BOOLEAN]
    /\ tries \in [Workers -> 0..Attempts]
    /\ dev \in [Workers -> Devices \cup {Nobody}]
    /\ names \in [Workers -> SUBSET Providers]
    /\ left \in [Workers -> SUBSET Providers]
    /\ found \in [Workers -> SUBSET Providers]

(* The providers that can serve devices of type t. *)
Serving(t) == {p \in members \cap records : TypeOf[p] = t}

(***************************************************************************)
(* What earlier requests left: one provider per type unless the data is    *)
(* old, every member with its record, and possibly the record of a         *)
(* provider that was replaced.                                             *)
(***************************************************************************)
Init ==
    /\ members \in SUBSET Providers
    /\ Legacy \/ \A p, q \in members : TypeOf[p] = TypeOf[q] => p = q
    /\ records \in {R \in SUBSET Providers : members \subseteq R}
    /\ listed = (members # {})
    /\ binding \in [Devices -> Providers \cup {NoProvider}]
    /\ \A d \in Devices, p \in Providers : binding[d] = p => TypeOf[p] = DevType[d]
    /\ dirty = {}
    /\ LockInit
    /\ step = [w \in Workers |-> "idle"]
    /\ psp = [w \in Workers |-> NoProvider]
    /\ replace = [w \in Workers |-> FALSE]
    /\ tries = [w \in Workers |-> 0]
    /\ dev = [w \in Workers |-> Nobody]
    /\ names = [w \in Workers |-> {}]
    /\ left = [w \in Workers |-> {}]
    /\ found = [w \in Workers |-> {}]

-----------------------------------------------------------------------------
Goto(w, s) == step' = [step EXCEPT ![w] = s]

Begin(w, s, p, r, d) ==
    /\ Goto(w, s)
    /\ psp' = [psp EXCEPT ![w] = p]
    /\ replace' = [replace EXCEPT ![w] = r]
    /\ dev' = [dev EXCEPT ![w] = d]
    /\ tries' = [tries EXCEPT ![w] = 0]
    /\ names' = [names EXCEPT ![w] = {}]
    /\ left' = [left EXCEPT ![w] = {}]
    /\ found' = [found EXCEPT ![w] = {}]

Finish(w) == Begin(w, "idle", NoProvider, FALSE, Nobody)

Watchers == {w \in Workers : step[w] \in {"add.smembers", "add.get", "add.exec"}}

(* The provider set becomes M: every other client that watches it will find *)
(* its EXEC refused, but only if the command changed the set.               *)
WriteMembers(w, M) ==
    /\ members' = M
    /\ dirty' = IF M = members THEN dirty ELSE dirty \cup (Watchers \ {w})

(* SMEMBERS, and then one GET per name. *)
ReadNames(w, next) ==
    /\ names' = [names EXCEPT ![w] = members]
    /\ left' = [left EXCEPT ![w] = members]
    /\ found' = [found EXCEPT ![w] = {}]
    /\ Goto(w, next)

ReadRecord(w, next) ==
    \/ /\ left[w] = {}
       /\ Goto(w, next)
       /\ UNCHANGED reading
    \/ \E p \in left[w] :
          /\ left' = [left EXCEPT ![w] = @ \ {p}]
          /\ found' = [found EXCEPT ![w] = IF p \in records THEN @ \cup {p} ELSE @]
          /\ UNCHANGED <<step, names>>

-----------------------------------------------------------------------------
(* /addpsp: SetPushServiceProviderOfService *)

AddProvider(w, p, r) ==
    /\ step[w] = "idle"
    /\ Lock(w)
    /\ Begin(w, "add.watch", p, r, Nobody)
    /\ UNCHANGED <<store, dirty>>

Watch(w) ==
    /\ step[w] = "add.watch"
    /\ dirty' = dirty \ {w}
    /\ Goto(w, "add.smembers")
    /\ UNCHANGED <<store, locks, request, tries, reading>>

AddSMembers(w) ==
    /\ step[w] = "add.smembers"
    /\ ReadNames(w, "add.get")
    /\ UNCHANGED <<store, dirty, locks, request, tries>>

AddGet(w) ==
    /\ step[w] = "add.get"
    /\ ReadRecord(w, "add.exec")
    /\ UNCHANGED <<store, dirty, locks, request, tries>>

(* supersededProviders: a name without a record always goes; a record of    *)
(* the same type and another name goes if replacing, and is refused if not. *)
Conflicts(w) == {p \in found[w] : TypeOf[p] = TypeOf[psp[w]] /\ p # psp[w]}

Superseded(w) == (names[w] \ found[w]) \cup Conflicts(w)

AddRefused(w) ==
    /\ step[w] = "add.exec"
    /\ ~replace[w] /\ Conflicts(w) # {}
    /\ Unlock(w)
    /\ Finish(w)
    /\ UNCHANGED <<store, dirty>>

(* Defect: the write is not guarded by the WATCH. *)
AddExecBlind(w) ==
    LET old == Superseded(w) \ {psp[w]} IN
    /\ step[w] = "add.exec"
    /\ replace[w] \/ Conflicts(w) = {}
    /\ records' = (records \cup {psp[w]}) \ old
    /\ WriteMembers(w, (members \cup {psp[w]}) \ old)
    /\ listed' = TRUE
    /\ Unlock(w)
    /\ Finish(w)
    /\ UNCHANGED binding

(* Defect: superseded records are deleted, their names left in the set. *)
AddExecKeepsNames(w) ==
    /\ step[w] = "add.exec"
    /\ replace[w] \/ Conflicts(w) = {}
    /\ w \notin dirty
    /\ records' = (records \cup {psp[w]}) \ Superseded(w)
    /\ WriteMembers(w, members \cup {psp[w]})
    /\ listed' = TRUE
    /\ Unlock(w)
    /\ Finish(w)
    /\ UNCHANGED binding

(* MULTI: record written, members added, superseded ones out with records. *)
AddExec(w) ==
    LET old == Superseded(w) \ {psp[w]} IN
    /\ step[w] = "add.exec"
    /\ replace[w] \/ Conflicts(w) = {}
    /\ w \notin dirty
    /\ records' = (records \cup {psp[w]}) \ old
    /\ WriteMembers(w, (members \cup {psp[w]}) \ old)
    /\ listed' = TRUE
    /\ Unlock(w)
    /\ Finish(w)
    /\ UNCHANGED binding

(* Defect: the attempts are not counted. *)
AddRetryForever(w) ==
    /\ step[w] = "add.exec"
    /\ replace[w] \/ Conflicts(w) = {}
    /\ w \in dirty
    /\ Goto(w, "add.watch")
    /\ UNCHANGED <<store, dirty, locks, request, tries, reading>>

(* TxFailedErr: start over, or give up after the last attempt. *)
AddRetry(w) ==
    /\ step[w] = "add.exec"
    /\ replace[w] \/ Conflicts(w) = {}
    /\ w \in dirty
    /\ \/ /\ tries[w] + 1 < Attempts
          /\ tries' = [tries EXCEPT ![w] = @ + 1]
          /\ Goto(w, "add.watch")
          /\ UNCHANGED <<locks, request, reading>>
       \/ /\ tries[w] + 1 = Attempts
          /\ Unlock(w)
          /\ Finish(w)
    /\ UNCHANGED <<store, dirty>>

-----------------------------------------------------------------------------
(* /rmpsp: RemovePushServiceProviderFromService *)

RemoveProvider(w, p) ==
    /\ step[w] = "idle"
    /\ Lock(w)
    /\ Begin(w, "rm.set", p, FALSE, Nobody)
    /\ UNCHANGED <<store, dirty>>

RemoveMember(w) ==
    /\ step[w] = "rm.set"
    /\ WriteMembers(w, members \ {psp[w]})
    /\ Goto(w, "rm.exists")
    /\ UNCHANGED <<records, listed, binding, locks, request, tries, reading>>

(* Defect: the service is unlisted without asking what it has left. *)
RemoveExistsUnasked(w) ==
    /\ step[w] = "rm.exists"
    /\ Goto(w, "rm.list")
    /\ UNCHANGED <<store, dirty, locks, request, tries, reading>>

(* EXISTS of the set: an empty set is no key. *)
RemoveExists(w) ==
    /\ step[w] = "rm.exists"
    /\ Goto(w, IF members = {} THEN "rm.list" ELSE "rm.record")
    /\ UNCHANGED <<store, dirty, locks, request, tries, reading>>

Unlist(w) ==
    /\ step[w] = "rm.list"
    /\ listed' = FALSE
    /\ Goto(w, "rm.record")
    /\ UNCHANGED <<records, members, binding, dirty, locks, request, tries, reading>>

RemoveRecord(w) ==
    /\ step[w] = "rm.record"
    /\ records' = records \ {psp[w]}
    /\ Unlock(w)
    /\ Finish(w)
    /\ UNCHANGED <<members, listed, binding, dirty>>

-----------------------------------------------------------------------------
(* Choosing a provider: resolveProviderForSubscribe under the write lock,   *)
(* resolveProvider under the read lock.                                     *)

Candidates(w) == {p \in found[w] : TypeOf[p] = DevType[dev[w]]}

Subscribe(w, d) ==
    /\ step[w] = "idle"
    /\ Lock(w)
    /\ Begin(w, "sub.smembers", NoProvider, FALSE, d)
    /\ UNCHANGED <<store, dirty>>

SubSMembers(w) ==
    /\ step[w] = "sub.smembers"
    /\ ReadNames(w, "sub.get")
    /\ UNCHANGED <<store, dirty, locks, request, tries>>

SubGet(w) ==
    /\ step[w] = "sub.get"
    /\ ReadRecord(w, "sub.choose")
    /\ UNCHANGED <<store, dirty, locks, request, tries>>

Choose(w, p, next) ==
    /\ psp' = [psp EXCEPT ![w] = p]
    /\ Goto(w, next)
    /\ UNCHANGED <<store, dirty, replace, tries, dev, reading>>

(* Defect: the first provider of the type in an unordered set. *)
SubChooseFirst(w) ==
    /\ step[w] = "sub.choose"
    /\ \E p \in Candidates(w) : Choose(w, p, "sub.bind")
    /\ UNCHANGED locks

SubChoose(w) ==
    /\ step[w] = "sub.choose"
    /\ \/ \E p \in Candidates(w) :
             Candidates(w) = {p} /\ Choose(w, p, "sub.bind") /\ UNCHANGED locks
       \/ /\ Cardinality(Candidates(w)) > 1
          /\ Choose(w, NoProvider, "sub.tie")
          /\ UNCHANGED locks

(* Several of one type: the existing binding decides. *)
SubTie(w) ==
    /\ step[w] = "sub.tie"
    /\ binding[dev[w]] \in Candidates(w)
    /\ Choose(w, binding[dev[w]], "sub.bind")
    /\ UNCHANGED locks

(* Nothing to bind to, or no way to choose: an error. *)
SubRefused(w) ==
    /\ \/ step[w] = "sub.choose" /\ Candidates(w) = {}
       \/ step[w] = "sub.tie" /\ binding[dev[w]] \notin Candidates(w)
    /\ Unlock(w)
    /\ Finish(w)
    /\ UNCHANGED <<store, dirty>>

(* The record and the device set are SubscriptionStore's. *)
SubBind(w) ==
    /\ step[w] = "sub.bind"
    /\ binding' = [binding EXCEPT ![dev[w]] = psp[w]]
    /\ Unlock(w)
    /\ Finish(w)
    /\ UNCHANGED <<records, members, listed, dirty>>

(* Defect: the pass takes no read lock. *)
PushUnlocked(w, d) ==
    /\ step[w] = "idle"
    /\ Begin(w, "push.smembers", NoProvider, FALSE, d)
    /\ UNCHANGED <<store, dirty, locks>>

Push(w, d) ==
    /\ step[w] = "idle"
    /\ RLock(w)
    /\ Begin(w, "push.smembers", NoProvider, FALSE, d)
    /\ UNCHANGED <<store, dirty>>

PushSMembers(w) ==
    /\ step[w] = "push.smembers"
    /\ ReadNames(w, "push.get")
    /\ UNCHANGED <<store, dirty, locks, request, tries>>

PushGet(w) ==
    /\ step[w] = "push.get"
    /\ ReadRecord(w, "push.choose")
    /\ UNCHANGED <<store, dirty, locks, request, tries>>

PushChoose(w) ==
    /\ step[w] = "push.choose"
    /\ \/ \E p \in Candidates(w) :
             Candidates(w) = {p} /\ Choose(w, p, "push.send") /\ RUnlock(w)
       \/ /\ Cardinality(Candidates(w)) > 1
          /\ Choose(w, NoProvider, "push.tie")
          /\ UNCHANGED locks

PushTie(w) ==
    /\ step[w] = "push.tie"
    /\ binding[dev[w]] \in Candidates(w)
    /\ Choose(w, binding[dev[w]], "push.send")
    /\ RUnlock(w)

(* The device is skipped and stays where it is. *)
PushSkips(w) ==
    /\ \/ step[w] = "push.choose" /\ Candidates(w) = {}
       \/ step[w] = "push.tie" /\ binding[dev[w]] \notin Candidates(w)
    /\ RUnlock(w)
    /\ Finish(w)
    /\ UNCHANGED <<store, dirty>>

(* PushServiceProviderUpdate: ModifyPushServiceProvider sets the record of  *)
(* the provider the push holds, whatever happened to it since.              *)
ModifyProvider(w) ==
    /\ step[w] = "push.send"
    /\ LockFree(w)
    /\ records' = records \cup {psp[w]}
    /\ UNCHANGED <<members, listed, binding, dirty, locks, step, request, tries,
                   reading>>

PushDone(w) ==
    /\ step[w] = "push.send"
    /\ Finish(w)
    /\ UNCHANGED <<store, dirty, locks>>

-----------------------------------------------------------------------------
(* /rebuildserviceset *)

Rebuild(w) ==
    /\ step[w] = "idle"
    /\ records # {}
    /\ Lock(w)
    /\ Goto(w, "rebuild.mget")
    /\ names' = [names EXCEPT ![w] = records]
    /\ UNCHANGED <<store, dirty, request, tries, left, found>>

(* A record that vanished since the SCAN is an error. *)
RebuildMGet(w) ==
    /\ step[w] = "rebuild.mget"
    /\ \/ /\ names[w] \subseteq records
          /\ Goto(w, "rebuild.add")
          /\ UNCHANGED <<locks, request, tries, reading>>
       \/ /\ ~(names[w] \subseteq records)
          /\ Unlock(w)
          /\ Finish(w)
    /\ UNCHANGED <<store, dirty>>

RebuildAdd(w) ==
    /\ step[w] = "rebuild.add"
    /\ listed' = TRUE
    /\ Unlock(w)
    /\ Finish(w)
    /\ UNCHANGED <<records, members, binding, dirty>>

-----------------------------------------------------------------------------
(* A command fails or the process dies, between two commands. *)
Abort(w) ==
    /\ MayFail
    /\ step[w] # "idle"
    /\ ReleaseAll(w)
    /\ Finish(w)
    /\ UNCHANGED <<store, dirty>>

Request(w) ==
    \/ \E p \in Providers, r \in BOOLEAN : AddProvider(w, p, r)
    \/ \E p \in Providers : RemoveProvider(w, p)
    \/ \E d \in Devices : Subscribe(w, d) \/ Push(w, d)
    \/ Rebuild(w)

Progress(w) ==
    \/ Watch(w) \/ AddSMembers(w) \/ AddGet(w)
    \/ AddRefused(w) \/ AddExec(w) \/ AddRetry(w)
    \/ RemoveMember(w) \/ RemoveExists(w) \/ Unlist(w) \/ RemoveRecord(w)
    \/ SubSMembers(w) \/ SubGet(w) \/ SubChoose(w) \/ SubTie(w)
    \/ SubRefused(w) \/ SubBind(w)
    \/ PushSMembers(w) \/ PushGet(w) \/ PushChoose(w) \/ PushTie(w)
    \/ PushSkips(w) \/ PushDone(w)
    \/ RebuildMGet(w) \/ RebuildAdd(w)

Next ==
    \E w \in Workers : Request(w) \/ Progress(w) \/ ModifyProvider(w) \/ Abort(w)

Spec == Init /\ [][Next]_vars

(* A goroutine that holds its lock keeps running. *)
FairSpec == Spec /\ \A w \in Workers : WF_vars(Progress(w))

-----------------------------------------------------------------------------
(* Properties *)

(***************************************************************************)
(* A service never has two providers of one push service type, however     *)
(* /addpsp, /rmpsp and the write-backs of any number of processes          *)
(* interleave and wherever they stop: the transaction of /addpsp commits   *)
(* only what it decided on the set it read.                                *)
(***************************************************************************)
OnePerType == \A p, q \in members : TypeOf[p] = TypeOf[q] => p = q

(***************************************************************************)
(* Every name in the service's provider set has a record, in one process:  *)
(* /rmpsp takes the name out before the record, and no other request can   *)
(* come between.                                                           *)
(***************************************************************************)
NoDangling == members \subseteq records

(***************************************************************************)
(* A service that has a provider is in the set of services, which is what  *)
(* /psps and an unrestricted /subscriptions go by.                         *)
(***************************************************************************)
ServiceIsListed == members # {} => listed

(***************************************************************************)
(* Re-subscribing a device never moves it to another provider while the    *)
(* one it is bound to can serve it, even where old data has several.       *)
(***************************************************************************)
BindingSticks ==
    [][\A d \in Devices :
          binding'[d] # binding[d] => binding[d] \notin Serving(DevType[d])]_vars

(* There is a single answer to which provider serves device d. *)
Determined(d) ==
    LET S == Serving(DevType[d]) IN Cardinality(S) = 1 \/ binding[d] \in S

(***************************************************************************)
(* In one process a /subscribe is refused, or a device skipped by a push,  *)
(* only when at that moment the service has no single provider for it,     *)
(* although the answer was put together from several reads made before.    *)
(***************************************************************************)
NoFalseRefusal ==
    [][\A w \in Workers :
          SubRefused(w) \/ PushSkips(w) => ~Determined(dev[w])]_vars

(***************************************************************************)
(* Every request ends: an /addpsp that keeps losing the race for the       *)
(* provider set gives up after setProviderAttempts.                        *)
(***************************************************************************)
RequestsEnd == \A w \in Workers : step[w] # "idle" ~> step[w] = "idle"

=============================================================================
