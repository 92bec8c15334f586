------------------------------- MODULE MCGuards -------------------------------
(***************************************************************************)
(* Three small parts that time and interleaving make hard, explored one at *)
(* a time; focus says which, for the whole behaviour.                       *)
(*   "guard": the reservation guard of one network: two transfers from      *)
(*     account a, an update of a reservation of account a, a removal of the *)
(*     same reservation filed under account b, two clean-ups of the network *)
(*     and a wallet creation, which enters no scope;                        *)
(*   "session": the signing session of one signer and three unlocks;        *)
(*   "watch": the watch of one deploy with two subscribers.                 *)
(* A behaviour is fair to the part it is about.                             *)
(***************************************************************************)
EXTENDS OperationGuard, SigningSession, DeployWatch

CONSTANTS transfer, transfer2, update, remove, cleanup, cleanup2, creation,
          accountA, accountB, reservation, fingerprint, network,
          u1, u2, u3, l1, l2

VARIABLE focus

MCKeysOf ==
    [o \in Operations |->
        CASE o \in {transfer, transfer2} -> {accountA}
          [] o = update -> {accountA, reservation}
          [] o = remove -> {accountB, reservation}
          [] o \in {cleanup, cleanup2} -> {}
          [] o = creation -> {fingerprint}]

MCScopeOf == [o \in Operations |-> IF o = creation THEN None ELSE network]

-----------------------------------------------------------------------------
MCInit ==
    /\ focus \in {"guard", "session", "watch"}
    /\ Init /\ SignerInit /\ WatchInit

MCNext ==
    /\ \/ focus = "guard" /\ Next /\ UNCHANGED <<signerVars, watchVars>>
       \/ focus = "session" /\ SignerNext /\ UNCHANGED <<vars, watchVars>>
       \/ focus = "watch" /\ WatchNext /\ UNCHANGED <<vars, signerVars>>
    /\ UNCHANGED focus

mcVars == <<focus, vars, signerVars, watchVars>>

MCFairness ==
    /\ \A u \in Unlocks :
           /\ WF_mcVars(focus = "session" /\ TimePasses(u)
                            /\ UNCHANGED <<focus, vars, watchVars>>)
           /\ WF_mcVars(focus = "session" /\ AutoLock(u)
                            /\ UNCHANGED <<focus, vars, watchVars>>)
    /\ \A w \in Watches :
           /\ WF_mcVars(focus = "watch" /\ Tick(w)
                            /\ UNCHANGED <<focus, vars, signerVars>>)
           /\ WF_mcVars(focus = "watch" /\ Answered(w)
                            /\ UNCHANGED <<focus, vars, signerVars>>)
           /\ WF_mcVars(focus = "watch" /\ DeadlinePasses(w)
                            /\ UNCHANGED <<focus, vars, signerVars>>)

MCSpec == MCInit /\ [][MCNext]_mcVars /\ MCFairness

-----------------------------------------------------------------------------
(* WatchEnds of DeployWatch, of the behaviours in which the watch moves:    *)
(* DeployStatusPoller lets no watch run for ever.                           *)
EveryWatchEnds == focus = "watch" => WatchEnds
=============================================================================
