--------------------------- MODULE ApnsDestination ---------------------------
(***************************************************************************)
(* Where an APNs push goes and how the connection is trusted: the provider *)
(* /addpsp builds and stores (srv/apns/push_service.go), the checks it     *)
(* gets again at the point of use, for a stored provider may predate them  *)
(* (srv/apns/common/endpoint.go), and the key under which the pool of      *)
(* ApnsClientCache keeps the client built for it.  Credential files are    *)
(* rotated in place, under the same path, while all this goes on.          *)
(***************************************************************************)
EXTENDS ApnsClientCache

CONSTANTS
    Urls,           \* base URLs an endpoint may name
    AppleUrls,      \* the ones IsAppleHost recognises
    HttpsUrls,      \* the ones with scheme https
    ShapedUrls,     \* a host, a port in range, no path, query or fragment
    HostProduction, \* Apple's two hosts
    HostDevelopment,
    Stored,         \* providers an older uniqush may have left in redis
    Requests,       \* parameters of /addpsp
    Rotated,        \* bound: the credential files that are replaced, "cert" (the
                    \* certificate and its key) or "ca" (the CA bundle)
    MaxRotations    \* bound: replacements of a credential file

ASSUME DestinationAssumption ==
    /\ {HostProduction, HostDevelopment} \subseteq AppleUrls \cap HttpsUrls \cap ShapedUrls
    /\ AppleUrls \cup HttpsUrls \cup ShapedUrls \subseteq Urls
    /\ None \notin Urls /\ None \notin 0..MaxRotations
    /\ Rotated \subseteq {"cert", "ca"}
    /\ MaxRotations \in Nat

VARIABLES
    allowNonApple,  \* common.allowNonApple, from uniqush.conf
    files,          \* the contents of the certificate and of the CA bundle
    record,         \* the service's provider in redis
    adding,         \* the provider an /addpsp has built and not yet stored
    psp,            \* the provider each batch loaded
    tls,            \* what createTLSConfig gave the batch
    config,         \* the TLS configuration of each client
    due, dueOf,     \* history: the files as they were when the last /addpsp
                    \* to succeed began, and that when a batch loaded
    began           \* history: the files when the current /addpsp began

destination == <<allowNonApple, files, record, adding, psp, tls, config, due, dueOf, began>>
allVars == <<vars, destination>>

Versions == 0..MaxRotations
Files == [cert : Versions, ca : Versions]
NoFiles == [cert |-> 0, ca |-> 0]
Environments == {"production", "development"}

(* A provider: cred decides its fixed data, hence its name. *)
Psps == [cred : {"cert", "token"}, endpoint : Urls \cup {None},
         environment : Environments \cup {None}, addr : Environments \cup {None},
         skipverify : BOOLEAN, cacert : BOOLEAN,
         credrev : [cert : Versions \cup {None}, ca : Versions \cup {None}] \cup {None}]

(* A tls.Config: the certificate presented, the CA bundle, verification. *)
Configs == [cert : Versions \cup {None}, ca : Versions \cup {None}, skip : BOOLEAN]

DestTypeOK ==
    /\ {files, due, began} \subseteq Files
    /\ record \in Psps
    /\ adding # None => adding \in Psps
    /\ \A b \in Batches :
        /\ IF pc[b] = "idle" THEN tls[b] = None ELSE psp[b] \in Psps
        /\ pc[b] = "sending" => tls[b] = None /\ config[held[b]] \in Configs
        /\ dueOf[b] \in Files

(* An old provider carries no revision, and nothing about it was checked. *)
DestInit ==
    /\ Init
    /\ allowNonApple \in BOOLEAN
    /\ files = NoFiles
    /\ record \in Stored
    /\ adding = None
    /\ psp = [b \in Batches |-> None]
    /\ tls = [b \in Batches |-> None]
    /\ config = [c \in Clients |-> None]
    /\ due = files /\ began = files
    /\ dueOf = [b \in Batches |-> files]

-----------------------------------------------------------------------------
(* common/endpoint.go *)

HostOf(environment) ==
    IF environment = "development" THEN HostDevelopment ELSE HostProduction

(* An addr stands for the environment EnvironmentFromAddr reads in it. *)
ResolveEndpoint(p) ==
    CASE p.endpoint # None    -> p.endpoint
      [] p.environment # None -> HostOf(p.environment)
      [] OTHER                -> HostOf(p.addr)

(* By host name, whatever the scheme and the port. *)
IsAppleHost(url) == url \in AppleUrls

ShouldSkipVerify(p) == p.skipverify /\ ~IsAppleHost(ResolveEndpoint(p))

ValidateEndpoint(url, skipVerify) ==
    /\ url \in HttpsUrls \cap ShapedUrls
    /\ ~(skipVerify /\ IsAppleHost(url))
    /\ allowNonApple \/ IsAppleHost(url)

CheckEndpointAllowed(p) == ValidateEndpoint(ResolveEndpoint(p), ShouldSkipVerify(p))

(* UsesTokenAuth: such a provider has no certificate. *)
CertOf(p, v) == IF p.cred = "cert" THEN v.cert ELSE None

CaOf(p, v) == IF p.cacert THEN v.ca ELSE None

(* Defect: the digest is of the paths, which a rotation leaves as they are. *)
RevisionOfPaths(p, v) == [cert |-> CertOf(p, [cert |-> 0]), ca |-> CaOf(p, [ca |-> 0])]

(* Of files that can be read: one that validated a moment ago and no longer *)
(* opens would have an empty digest in the code.                            *)
CredentialRevision(p, v) == [cert |-> CertOf(p, v), ca |-> CaOf(p, v)]

-----------------------------------------------------------------------------
(* /addpsp *)

(* buildProviderFromMap: every setting is written anew or cleared. *)
BuildProvider(q) ==
    [cred |-> q.cred, endpoint |-> q.endpoint,
     environment |-> CASE q.sandbox     -> "development"
                       [] q.addr # None -> q.addr
                       [] OTHER         -> "production",
     addr |-> None, skipverify |-> q.skipverify, cacert |-> q.cacert, credrev |-> None]

(* buildHTTP2Destination: an endpoint is validated, the files are read. *)
Acceptable(q) == q.endpoint # None => ValidateEndpoint(q.endpoint, q.skipverify)

(* A request that is refused changes nothing. *)
AddPsp(q) ==
    /\ adding = None
    /\ Acceptable(q)
    /\ adding' = BuildProvider(q)
    /\ began' = files
    /\ UNCHANGED <<vars, allowNonApple, files, record, psp, tls, config, due, dueOf>>

(* The files have been read for their digest, and the provider replaces    *)
(* the one of the service (replace=true where its fixed data differ).      *)
Store ==
    /\ adding # None
    /\ \E v \in Files :
        /\ v.cert \in began.cert..files.cert
        /\ v.ca \in began.ca..files.ca
        /\ record' = [adding EXCEPT !.credrev = CredentialRevision(adding, v)]
    /\ adding' = None
    /\ due' = began
    /\ began' = NoFiles
    /\ UNCHANGED <<vars, allowNonApple, files, psp, tls, config, dueOf>>

(* The credentials no longer load, or redis fails: the old provider stays. *)
AddFails ==
    /\ adding # None
    /\ adding' = None
    /\ began' = NoFiles
    /\ UNCHANGED <<vars, allowNonApple, files, record, psp, tls, config, due, dueOf>>

(* The operator writes a new file over the old one. *)
Rotate(f) ==
    /\ files.cert + files.ca < MaxRotations
    /\ files' = [files EXCEPT ![f] = @ + 1]
    /\ UNCHANGED <<vars, allowNonApple, record, adding, psp, tls, config, due, dueOf, began>>

-----------------------------------------------------------------------------
(* A batch *)

(* The provider comes out of redis, unserialized and unchecked. *)
Load(b) ==
    /\ pc[b] = "idle" /\ psp[b] = None
    /\ psp' = [psp EXCEPT ![b] = record]
    /\ dueOf' = [dueOf EXCEPT ![b] = due]
    /\ UNCHANGED <<vars, allowNonApple, files, record, adding, tls, config, due, began>>

(* sendRequests reports one error per device and sends nothing. *)
Refuse(b) ==
    /\ pc[b] = "idle" /\ psp[b] # None
    /\ ~CheckEndpointAllowed(psp[b])
    /\ psp' = [psp EXCEPT ![b] = None]
    /\ dueOf' = [dueOf EXCEPT ![b] = NoFiles]
    /\ UNCHANGED <<vars, allowNonApple, files, record, adding, tls, config, due, began>>

(* Defect: the key is the provider's name. *)
KeyedOnName(p) ==
    [name |-> p.cred, endpoint |-> HostProduction, cacert |-> FALSE, credrev |-> None, skip |-> FALSE]

clientCacheKey(p) ==
    [name |-> p.cred, endpoint |-> ResolveEndpoint(p), cacert |-> p.cacert,
     credrev |-> p.credrev, skip |-> ShouldSkipVerify(p)]

(* The providers redis may hold: the old ones, and what Store writes. *)
Storable ==
    Stored \cup {[BuildProvider(q) EXCEPT !.credrev = CredentialRevision(BuildProvider(q), v)] :
                    q \in Requests, v \in Files}

(* The pool has room for the key of each. *)
ASSUME StorableAssumption ==
    /\ \A p \in Stored : p \in Psps /\ p.credrev = None
    /\ \A q \in Requests : BuildProvider(q) \in Psps
    /\ \A p \in Storable : clientCacheKey(p) \in Keys

GetClient(b) ==
    /\ psp[b] # None
    /\ CheckEndpointAllowed(psp[b])
    /\ TryBorrow(b, clientCacheKey(psp[b]))
    /\ UNCHANGED destination

(* Without the lock: the files are read as they are now. *)
createTLSConfig(b) ==
    /\ pc[b] = "building" /\ tls[b] = None
    /\ tls' = [tls EXCEPT ![b] = [cert |-> CertOf(psp[b], files), ca |-> CaOf(psp[b], files),
                                  skip |-> ShouldSkipVerify(psp[b])]]
    /\ UNCHANGED <<vars, allowNonApple, files, record, adding, psp, config, due, dueOf, began>>

(* The client another batch built and cached meanwhile. *)
TakeOther(b) ==
    /\ tls[b] # None
    /\ BorrowOther(b)
    /\ tls' = [tls EXCEPT ![b] = None]
    /\ UNCHANGED <<allowNonApple, files, record, adding, psp, config, due, dueOf, began>>

(* Its own client, cached, or retired at birth after a Finalize. *)
TakeBuilt(b) ==
    /\ tls[b] # None
    /\ CacheBuilt(b) \/ BuiltTooLate(b)
    /\ config' = [config EXCEPT ![builtCount + 1] = tls[b]]
    /\ tls' = [tls EXCEPT ![b] = None]
    /\ UNCHANGED <<allowNonApple, files, record, adding, psp, due, dueOf, began>>

(* A batch that gets no client, or has sent its requests, is over. *)
Over(b) ==
    /\ BuildFails(b) \/ Release(b)
    /\ psp' = [psp EXCEPT ![b] = None]
    /\ tls' = [tls EXCEPT ![b] = None]
    /\ dueOf' = [dueOf EXCEPT ![b] = NoFiles]
    /\ UNCHANGED <<allowNonApple, files, record, adding, config, due, began>>

Pooled ==
    /\ Finalize \/ \E b \in Batches : Answered(b)
    /\ UNCHANGED destination

DestNext ==
    \/ \E q \in Requests : AddPsp(q)
    \/ Store \/ AddFails
    \/ \E f \in Rotated : Rotate(f)
    \/ \E b \in Batches :
        \/ Load(b) \/ Refuse(b) \/ GetClient(b) \/ createTLSConfig(b)
        \/ TakeOther(b) \/ TakeBuilt(b) \/ Over(b)
    \/ Pooled

DestSpec == DestInit /\ [][DestNext]_allVars

-----------------------------------------------------------------------------
(* Properties *)

Sending(b) == pc[b] = "sending"

(***************************************************************************)
(* The annual renewal: once an /addpsp that began after a file was         *)
(* replaced has succeeded, no batch that starts is sent over a client made *)
(* of the old contents, although the path, and with it the provider's      *)
(* name, has not changed and an older client may be cached, in use or      *)
(* still being built.  Before its first /addpsp by this version a provider *)
(* has no revision, and its client lives until a restart.                  *)
(***************************************************************************)
RotationTakesEffect ==
    \A b \in Batches : Sending(b) /\ psp[b].credrev # None =>
        LET c == config[held[b]] IN
        /\ c.cert # None => c.cert >= dueOf[b].cert
        /\ c.ca # None => c.ca >= dueOf[b].ca

(***************************************************************************)
(* A batch is sent over a client whose trust settings are those of the     *)
(* provider it loaded, whatever clients of the same provider, pointed      *)
(* elsewhere or trusted otherwise, the pool holds or is building; and no   *)
(* connection to Apple leaves the certificate unchecked, not even for a    *)
(* provider whose skipverify was stored when it had no effect.             *)
(***************************************************************************)
TrustIsItsOwn ==
    \A b \in Batches : Sending(b) =>
        LET c == config[held[b]] IN
        /\ (c.ca # None) = psp[b].cacert
        /\ (c.cert # None) = (psp[b].cred = "cert")
        /\ c.skip => psp[b].skipverify /\ ResolveEndpoint(psp[b]) \notin AppleUrls

(***************************************************************************)
(* Nothing is sent in the clear, to a malformed URL or, unless             *)
(* uniqush.conf allows it, to a host that is not Apple's, also by a        *)
(* provider stored before the checks, under another configuration or by    *)
(* hand.                                                                   *)
(***************************************************************************)
OnlyWhereAllowed ==
    \A b \in Batches : Sending(b) =>
        /\ ResolveEndpoint(psp[b]) \in HttpsUrls \cap ShapedUrls
        /\ ResolveEndpoint(psp[b]) \in AppleUrls \/ allowNonApple

=============================================================================
