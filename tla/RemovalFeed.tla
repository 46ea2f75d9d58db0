---------------------------- MODULE RemovalFeed ----------------------------
(***************************************************************************)
(* What /removed promises its caller: an answer holds removals after the   *)
(* cursor it was asked with and hands out the cursor of the last of them;  *)
(* and one that leaves out a removal in between says that it is truncated. *)
(***************************************************************************)
EXTENDS Naturals

VARIABLES
    recorded,   \* removals recorded so far: 1, 2, ...
    asked,      \* the cursor the caller asks with
    answer,     \* the removals of the last answer
    next,       \* the cursor it handed out
    truncated   \* whether it said some were missing

vars == <<recorded, asked, answer, next, truncated>>

Init == recorded = 0 /\ asked = 0 /\ answer = {} /\ next = 0 /\ truncated = FALSE

Record ==
    /\ recorded' = recorded + 1
    /\ UNCHANGED <<asked, answer, next, truncated>>

Ask ==
    /\ asked' \in Nat
    /\ UNCHANGED <<recorded, answer, next, truncated>>

(* An answer up to and including removal n. *)
Poll(n) ==
    /\ next' = n
    /\ answer' \subseteq (asked + 1)..n
    /\ n # asked => n \in answer'
    /\ truncated' \in BOOLEAN
    /\ ~truncated' => answer' = (asked + 1)..n
    /\ UNCHANGED <<recorded, asked>>

Next == Record \/ Ask \/ (\E n \in asked..recorded : Poll(n))

Spec == Init /\ [][Next]_vars

=============================================================================
