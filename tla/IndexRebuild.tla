---------------------------- MODULE IndexRebuild ----------------------------
(***************************************************************************)
(* /rebuildsubscriberindex: RebuildSubscriberIndex (db/subscriber_index.go)*)
(* rebuilds the two indexes of SubscriptionStore under staging keys, swaps *)
(* them in and marks the database as indexed, without a lock, while        *)
(* /subscribe, /unsubscribe and /push go on.  Each redis command is a step.*)
(*                                                                         *)
(* SCAN hands over a key that is there throughout the walk, may or may not *)
(* hand over one that comes or goes, and may hand over any of them again.  *)
(* So a walk comes to every key at some moment of its own, which is in     *)
(* vain when the key is not there then: the moment stands for a walk that  *)
(* missed it.                                                              *)
(***************************************************************************)
EXTENDS SubscriptionStore, Naturals

CONSTANTS
    Rebuilders,   \* calls of /rebuildsubscriberindex that may be under way
    IndexKey,     \* the key srv-2-sub:<service>, next to those of the types
    MaxRequests,  \* bound on the scripts that run meanwhile
    MaxRebuilds   \* bound on the rebuilds

ASSUME RebuildAssumption ==
    /\ IndexKey \notin Types
    /\ MaxRequests \in Nat /\ MaxRebuilds \in Nat

VARIABLES
    marker,     \* is subscriber.index:built there
    measured,   \* has a starting process found the database empty
    staging,    \* key -> what rebuilding:<key> holds
    at,         \* where each rebuild is
    must,       \* keys its present loop has yet to come to
    cur,        \* the subscriber it is staging
    names,      \* the devices read for it and not yet staged
    staged,     \* its map of the keys it has staged
    requests,   \* scripts so far
    rebuilds,   \* rebuilds so far
    alone,      \* has no other rebuild been under way with it (history)
    late,       \* devices written when it may have read them (history)
    suspect,    \* those of the rebuilds that published (history)
    spoiled     \* has a rebuild published that was not alone (history)

rebuildVars == <<marker, measured, staging, at, must, cur, names, staged,
                 rebuilds, alone>>
history == <<late, suspect, spoiled>>
allVars == <<vars, rebuildVars, requests, history>>

Keys == Types \cup {IndexKey}

Stages == {"idle", "clear", "walk", "types", "index", "prune", "rename"}

RebuildTypeOK ==
    /\ TypeOK
    /\ marker \in BOOLEAN /\ measured \in BOOLEAN
    /\ staging \in [Keys -> SUBSET (SubKeys \cup Devices)]
    /\ at \in [Rebuilders -> Stages]
    /\ must \in [Rebuilders -> SUBSET (SubKeys \cup Keys)]
    /\ cur \in [Rebuilders -> SubKeys \cup {Nobody}]
    /\ names \in [Rebuilders -> SUBSET Devices]
    /\ staged \in [Rebuilders -> SUBSET Keys]
    /\ requests \in 0 .. MaxRequests
    /\ rebuilds \in 0 .. MaxRebuilds
    /\ alone \in [Rebuilders -> BOOLEAN]
    /\ late \in [Rebuilders -> SUBSET Devices]
    /\ suspect \subseteq Devices
    /\ spoiled \in BOOLEAN

(***************************************************************************)
(* A database without the marker: its indexes hold whatever has been       *)
(* written since they were introduced, or nothing at all.                  *)
(***************************************************************************)
RebuildInit ==
    /\ \E S \in SUBSET Devices :
          /\ record \in [Devices -> Records]
          /\ \A d \in Devices : record[d] # NoRecord <=> d \in S
          /\ deviceSet = [s \in SubKeys |-> {d \in S : Home[d] = s}]
          /\ bound = S
    /\ \E T \in SUBSET Devices :
          /\ index = {Home[d] : d \in T}
          /\ typeSet = [t \in Types |-> {d \in T : TypeOf[d] = t}]
    /\ LockInit
    /\ step = [w \in Workers |-> "idle"]
    /\ sub = [w \in Workers |-> Nobody]
    /\ value = [w \in Workers |-> NoRecord]
    /\ all = [w \in Workers |-> FALSE]
    /\ dev = [w \in Workers |-> Nobody]
    /\ devs = [w \in Workers |-> {}]
    /\ missing = [w \in Workers |-> {}]
    /\ pairs = [w \in Workers |-> Unread]
    /\ marker = FALSE /\ measured = FALSE
    /\ staging = [k \in Keys |-> {}]
    /\ at = [r \in Rebuilders |-> "idle"]
    /\ must = [r \in Rebuilders |-> {}]
    /\ cur = [r \in Rebuilders |-> Nobody]
    /\ names = [r \in Rebuilders |-> {}]
    /\ staged = [r \in Rebuilders |-> {}]
    /\ requests = 0 /\ rebuilds = 0
    /\ alone = [r \in Rebuilders |-> TRUE]
    /\ late = [r \in Rebuilders |-> {}]
    /\ suspect = {} /\ spoiled = FALSE

-----------------------------------------------------------------------------
(* The scripts of the requests that go on meanwhile: of their commands     *)
(* these are the ones that write what a rebuild reads or replaces.         *)

(* Device d of subscriber s is written at a moment when rebuild r may have  *)
(* read the subscriber and has yet to swap in a key that tells of d.        *)
TooLate(r, d) ==
    \/ at[r] \in {"walk", "types", "index"} /\ Home[d] \notin must[r]
    \/ at[r] = "prune"
    \/ at[r] = "rename" /\ {TypeOf[d], IndexKey} \cap must[r] # {}

Land(d, script) ==
    /\ requests < MaxRequests /\ requests' = requests + 1
    /\ script
    /\ late' = [r \in Rebuilders |->
                  IF deviceSet' # deviceSet /\ TooLate(r, d)
                  THEN late[r] \cup {d} ELSE late[r]]
    /\ suspect' = IF d \in deviceSet[Home[d]] \cup deviceSet'[Home[d]]
                  THEN suspect \ {d} ELSE suspect
    /\ UNCHANGED <<record, bound, locks, step, locals, rebuildVars, spoiled>>

Writing(d) ==
    \/ Land(d, SubscribeScript(Home[d], d))
    \/ Land(d, UnsubscribeScript(Home[d], d))

-----------------------------------------------------------------------------
(* RebuildSubscriberIndex *)

Active == {r \in Rebuilders : at[r] # "idle"}

Enter(r, stage) == at' = [at EXCEPT ![r] = stage]

(* clearSubscriberIndexStaging begins. *)
Rebuild(r) ==
    /\ at[r] = "idle"
    /\ rebuilds < MaxRebuilds /\ rebuilds' = rebuilds + 1
    /\ Enter(r, "clear")
    /\ must' = [must EXCEPT ![r] = Keys]
    /\ alone' = [q \in Rebuilders |-> IF q = r THEN Active = {}
                                      ELSE alone[q] /\ at[q] = "idle"]
    /\ UNCHANGED <<vars, requests, history, marker, measured, staging,
                   cur, names, staged>>

(* Defect: what an interrupted rebuild left stays. *)
ClearNothing(r, k) ==
    /\ at[r] = "clear" /\ k \in must[r]
    /\ must' = [must EXCEPT ![r] = @ \ {k}]
    /\ UNCHANGED <<vars, requests, history, marker, measured, staging, at, cur,
                   names, staged, rebuilds, alone>>

ClearKey(r, k) ==
    /\ at[r] = "clear" /\ k \in must[r]
    /\ staging' = [staging EXCEPT ![k] = {}]
    /\ must' = [must EXCEPT ![r] = @ \ {k}]
    /\ UNCHANGED <<vars, requests, history, marker, measured, at, cur, names,
                   staged, rebuilds, alone>>

BeginWalk(r) ==
    /\ at[r] = "clear" /\ must[r] = {}
    /\ Enter(r, "walk")
    /\ must' = [must EXCEPT ![r] = SubKeys]
    /\ UNCHANGED <<vars, requests, history, marker, measured, staging, cur,
                   names, staged, rebuilds, alone>>

(* stageSubscriber: the SMEMBERS.  An empty set is one that is not there. *)
Visit(r, s) ==
    /\ at[r] = "walk" /\ (s \in must[r] \/ deviceSet[s] # {})
    /\ must' = [must EXCEPT ![r] = @ \ {s}]
    /\ \/ /\ deviceSet[s] = {}
          /\ UNCHANGED <<at, cur, names>>
       \/ /\ deviceSet[s] # {}
          /\ Enter(r, "types")
          /\ cur' = [cur EXCEPT ![r] = s]
          /\ names' = [names EXCEPT ![r] = deviceSet[s]]
    /\ UNCHANGED <<vars, requests, history, marker, measured, staging, staged,
                   rebuilds, alone>>

StageType(r, t) ==
    LET devices == {d \in names[r] : TypeOf[d] = t} IN
    /\ at[r] = "types" /\ devices # {}
    /\ staging' = [staging EXCEPT ![t] = @ \cup devices]
    /\ staged' = [staged EXCEPT ![r] = @ \cup {t}]
    /\ names' = [names EXCEPT ![r] = @ \ devices]
    /\ Enter(r, IF names[r] = devices THEN "index" ELSE "types")
    /\ UNCHANGED <<vars, requests, history, marker, measured, must, cur,
                   rebuilds, alone>>

StageSubscriber(r) ==
    /\ at[r] = "index"
    /\ staging' = [staging EXCEPT ![IndexKey] = @ \cup {cur[r]}]
    /\ staged' = [staged EXCEPT ![r] = @ \cup {IndexKey}]
    /\ cur' = [cur EXCEPT ![r] = Nobody]
    /\ Enter(r, "walk")
    /\ UNCHANGED <<vars, requests, history, marker, measured, must, names,
                   rebuilds, alone>>

(* publishSubscriberIndexStaging: live keys that were not staged go first,  *)
(* srv-2-sub and then the types.                                            *)
PruneIndex(r) ==
    /\ at[r] = "walk" /\ must[r] = {}
    /\ index' = IF IndexKey \in staged[r] THEN index ELSE {}
    /\ Enter(r, "prune")
    /\ must' = [must EXCEPT ![r] = Types]
    /\ spoiled' = (spoiled \/ ~alone[r])
    /\ UNCHANGED <<record, deviceSet, typeSet, bound, locks, step, locals,
                   requests, late, suspect, marker, measured, staging, cur,
                   names, staged, rebuilds, alone>>

PruneType(r, t) ==
    /\ at[r] = "prune" /\ t \in must[r]
    /\ typeSet' = IF t \in staged[r] THEN typeSet
                  ELSE [typeSet EXCEPT ![t] = {}]
    /\ must' = [must EXCEPT ![r] = @ \ {t}]
    /\ spoiled' = (spoiled \/ ~alone[r])
    /\ UNCHANGED <<record, deviceSet, index, bound, locks, step, locals,
                   requests, late, suspect, marker, measured, staging, at, cur,
                   names, staged, rebuilds, alone>>

BeginRename(r) ==
    /\ at[r] = "prune" /\ must[r] = {}
    /\ Enter(r, "rename")
    /\ must' = [must EXCEPT ![r] = staged[r]]
    /\ UNCHANGED <<vars, requests, history, marker, measured, staging, cur,
                   names, staged, rebuilds, alone>>

Rename(r, k) ==
    /\ at[r] = "rename" /\ k \in must[r] /\ staging[k] # {}
    /\ index' = IF k = IndexKey THEN staging[k] ELSE index
    /\ typeSet' = IF k = IndexKey THEN typeSet
                  ELSE [typeSet EXCEPT ![k] = staging[k]]
    /\ staging' = [staging EXCEPT ![k] = {}]
    /\ must' = [must EXCEPT ![r] = @ \ {k}]
    /\ spoiled' = (spoiled \/ ~alone[r])
    /\ UNCHANGED <<record, deviceSet, bound, locks, step, locals, requests,
                   late, suspect, marker, measured, at, cur, names, staged,
                   rebuilds, alone>>

(* The call returns; what it wrote too late to see is what it may have lost. *)
End(r) ==
    /\ Enter(r, "idle")
    /\ must' = [must EXCEPT ![r] = {}]
    /\ cur' = [cur EXCEPT ![r] = Nobody]
    /\ names' = [names EXCEPT ![r] = {}]
    /\ staged' = [staged EXCEPT ![r] = {}]
    /\ late' = [late EXCEPT ![r] = {}]
    /\ UNCHANGED <<vars, requests, measured, staging, rebuilds, alone>>

markSubscriberIndexBuilt(r) ==
    /\ at[r] = "rename" /\ must[r] = {}
    /\ marker' = TRUE
    /\ suspect' = (IF alone[r] THEN {} ELSE suspect) \cup late[r]
    /\ spoiled' = (spoiled /\ ~alone[r])
    /\ End(r)

(* A command fails, or RENAME finds no source, or the process dies: what is *)
(* staged stays, and what has been swapped in stays too.                    *)
Fail(r) ==
    /\ at[r] # "idle"
    /\ suspect' = IF at[r] \in {"prune", "rename"} THEN suspect \cup late[r]
                  ELSE suspect
    /\ UNCHANGED <<marker, spoiled>>
    /\ End(r)

-----------------------------------------------------------------------------
(* PrepareSubscriberIndex, when a process starts *)

(* DBSIZE is 0. *)
Prepare ==
    /\ ~marker /\ ~measured
    /\ \A d \in Devices : record[d] = NoRecord
    /\ \A s \in SubKeys : deviceSet[s] = {}
    /\ \A t \in Types : typeSet[t] = {}
    /\ \A k \in Keys : staging[k] = {}
    /\ index = {} /\ bound = {}
    /\ measured' = TRUE
    /\ UNCHANGED <<vars, requests, history, marker, staging, at, must, cur,
                   names, staged, rebuilds, alone>>

PrepareMarks ==
    /\ measured
    /\ marker' = TRUE /\ measured' = FALSE
    /\ UNCHANGED <<vars, requests, history, staging, at, must, cur, names,
                   staged, rebuilds, alone>>

Rebuilding(r) ==
    \/ Rebuild(r) \/ BeginWalk(r)
    \/ (\E k \in Keys : ClearKey(r, k) \/ Rename(r, k))
    \/ (\E s \in SubKeys : Visit(r, s))
    \/ (\E t \in Types : StageType(r, t) \/ PruneType(r, t))
    \/ StageSubscriber(r) \/ PruneIndex(r) \/ BeginRename(r)
    \/ markSubscriberIndexBuilt(r) \/ Fail(r)

RebuildNext ==
    \/ \E d \in Devices : Writing(d)
    \/ \E r \in Rebuilders : Rebuilding(r)
    \/ Prepare \/ PrepareMarks

RebuildSpec == RebuildInit /\ [][RebuildNext]_allVars

-----------------------------------------------------------------------------
(* Properties *)

(* Devices the index may be wrong about. *)
Excused == suspect \cup UNION {late[r] : r \in Rebuilders}

DevicesOf(s) == {d \in Devices : Home[d] = s}

(***************************************************************************)
(* Once the database is marked, a wildcard push and /stats read an index   *)
(* that is right about every subscription, at every moment, also in the    *)
(* middle of another rebuild, after one that failed half way and after one *)
(* that was cut short and run again; except for devices written between a  *)
(* rebuild's visit of their subscriber and its last RENAME, and until a    *)
(* rebuild has run by itself when two overlapped.                          *)
(***************************************************************************)
MarkedMeansRight ==
    marker /\ ~spoiled =>
        /\ \A d \in Devices \ Excused :
              d \in typeSet[TypeOf[d]] <=> d \in deviceSet[Home[d]]
        /\ \A s \in SubKeys : DevicesOf(s) \cap Excused = {} =>
              (s \in index <=> deviceSet[s] # {})
=============================================================================
