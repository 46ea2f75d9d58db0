-------------------------- MODULE MCApnsDestination --------------------------
(* ApnsDestination for TLC: two providers as an older uniqush stored them, *)
(* one with a skipverify that had no effect and one for a simulator in the  *)
(* clear, an /addpsp that keeps the certificate at Apple, and one that      *)
(* moves the provider to a simulator with a CA bundle.                      *)
EXTENDS ApnsDestination, TLC

MCUrls == {"prod", "dev", "sim", "sim_http"}
MCApple == {"prod", "dev"}
MCHttps == MCUrls \ {"sim_http"}
MCShaped == MCUrls

Old(endpoint, addr, skip) ==
    [cred |-> "cert", endpoint |-> endpoint, environment |-> None, addr |-> addr,
     skipverify |-> skip, cacert |-> FALSE, credrev |-> None]

MCStored == {Old(None, "development", TRUE), Old("sim_http", None, TRUE)}

Ask(cred, endpoint, skip, ca) ==
    [cred |-> cred, endpoint |-> endpoint, sandbox |-> FALSE, addr |-> None,
     skipverify |-> skip, cacert |-> ca]

MCRequests == {Ask("cert", None, FALSE, FALSE), Ask("cert", "sim", TRUE, TRUE)}

(* The keys of the providers there may be, under the defect KeyedOnName too. *)
MCKeys == {clientCacheKey(p) : p \in Storable} \cup {KeyedOnName(p) : p \in Storable}

MCSymmetry == Permutations(Batches)

MCProvider == [k \in MCKeys |-> k.name]
=============================================================================
