----------------------------- MODULE MCPushFanOut -----------------------------
(* PushFanOut for TLC: a list of two subscribers and a pair for each, of two  *)
(* devices or, the subscribers overlapping, twice of the same, with providers *)
(* of any type.                                                               *)
EXTENDS PushFanOut, TLC

CONSTANTS k1, k2

MCEntryOf == (k1 :> "s1") @@ (k2 :> "s2")
MCTypeOf == [p \in Providers |-> p]
MCAsked == ("fcm" :> {9}) @@ ("apns" :> {4}) @@ ("adm" :> {-1}) @@ ("webpush" :> {})
Two == (k1 :> "d1") @@ (k2 :> "d2")
Same == (k1 :> "d1") @@ (k2 :> "d1")
MCScenarios == {<<(k1 :> "fcm") @@ (k2 :> "fcm"), Same, {"d1"}>>,
                <<(k1 :> "apns") @@ (k2 :> "apns"), Two, {}>>,
                <<(k1 :> "adm") @@ (k2 :> "webpush"), Two, {"d1", "d2"}>>}
=============================================================================
