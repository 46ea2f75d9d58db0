----------------------------- MODULE MCShutdown -----------------------------
(* Shutdown for TLC: a client that changes a subscription again and again, *)
(* one that pushes to ADM again and again, an APNs push that still asks for *)
(* the binary protocol and may be retried, /stop and SIGTERM.               *)
EXTENDS Shutdown

CONSTANTS change, notice, adm, stop

MCRequests == {change, notice, adm, stop}
MCKind == [r \in MCRequests |->
              CASE r = notice -> "notice" [] r = adm -> "adm" [] r = stop -> "stop"
                [] OTHER -> "change"]
=============================================================================
