------------------------------ MODULE FundsLock ------------------------------
(***************************************************************************)
(* What the wallet SDK promises about the funds of a deploy it submits:    *)
(* the funds are put on hold before the deploy leaves, and the hold is     *)
(* only given up once the deploy can no longer take the funds, or after    *)
(* its validity (RESERVATION_EXPIRATION_TIME) has run out.  Memory, wallet *)
(* sessions, restarts and lost answers do not occur at this level.         *)
(***************************************************************************)
CONSTANT Deploys  \* deploys the SDK may submit, one reservation each

VARIABLES
    held,  \* deploys whose funds are on hold
    fate,  \* fate[d]: what happened to deploy d outside the SDK
    due    \* deploys whose reservation has outlived its expiration time

vars == <<held, fate, due>>

Fates == {"none", "inflight", "pending", "refused", "finalized", "dropped"}

\* A deploy that left the SDK and may still take the funds.
Outstanding(d) == fate[d] \in {"inflight", "pending"}

Init ==
    /\ held = {}
    /\ fate = [d \in Deploys |-> "none"]
    /\ due = {}

Hold(d) ==
    /\ fate[d] = "none"
    /\ held' = held \cup {d}
    /\ UNCHANGED <<fate, due>>

Send(d) ==
    /\ fate[d] = "none"
    /\ d \in held
    /\ fate' = [fate EXCEPT ![d] = "inflight"]
    /\ UNCHANGED <<held, due>>

\* The node, and later the chain, decide about a deploy that was sent.
Decide(d) ==
    /\ \/ /\ fate[d] = "inflight"
          /\ \E f \in {"pending", "refused", "dropped"} :
                fate' = [fate EXCEPT ![d] = f]
       \/ /\ fate[d] = "pending"
          /\ \E f \in {"finalized", "dropped"} :
                fate' = [fate EXCEPT ![d] = f]
    /\ UNCHANGED <<held, due>>

Expire(d) ==
    /\ due' = due \cup {d}
    /\ UNCHANGED <<held, fate>>

Release(d) ==
    /\ d \in held
    /\ ~Outstanding(d) \/ d \in due
    /\ held' = held \ {d}
    /\ UNCHANGED <<fate, due>>

Next ==
    \E d \in Deploys :
        Hold(d) \/ Send(d) \/ Decide(d) \/ Expire(d) \/ Release(d)

Spec == Init /\ [][Next]_vars
=============================================================================
