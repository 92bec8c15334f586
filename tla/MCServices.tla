------------------------------ MODULE MCServices ------------------------------
(***************************************************************************)
(* Six parts that share no state at the grain they are modelled with,     *)
(* explored one at a time: focus says which, for the whole behaviour.       *)
(*   "networks": two of an addition, an update and a removal of a network,   *)
(*     or one of them and two operations on networks, and the reservations   *)
(*     of one wallet;                                                        *)
(*   "managed": the reservations of one account: two additions, a change and *)
(*     a removal, of a balance of three units;                              *)
(*   "badge": two wallets opened or created on the wallets page;             *)
(*   "results": two networks, three requests of the account card;            *)
(*   "history": four transactions and every page of one or two;              *)
(*   "form": the form for reservations of two accounts.                      *)
(***************************************************************************)
EXTENDS Networks, ManagedReservations, SessionBadge, NetworkResults, History,
        ReservationForm, TLC

CONSTANTS na, nu, nr, wallet, o1, o2, home, lab,
          add1, add2, change, free, dx, dy,
          w1, w2, netA, netB, acc1, acc2

VARIABLE focus

MCTask == na :> "add" @@ nu :> "update" @@ nr :> "remove"
MCDefaultRecord == [name |-> "home", config |-> "home"]
MCCustom == [n \in Customs |-> [name |-> "a", config |-> "a"]]
MCAsked ==
    na :> {[name |-> "b", config |-> "b"]}
    @@ nu :> {[name |-> "a", config |-> "b"], [name |-> "b", config |-> "a"]}
    @@ nr :> {[name |-> "a", config |-> "a"]}

MCJob == add1 :> "lock" @@ add2 :> "lock" @@ change :> "change" @@ free :> "free"
MCForDeploy == add1 :> dx @@ add2 :> dy @@ change :> dx @@ free :> dx
MCPending == add1 :> 1 @@ add2 :> 2 @@ change :> 2 @@ free :> 1

MCMaxAsked == [c \in Components |-> IF c = "card" THEN 3 ELSE 1]
MCRows == 1 .. 4

\* Bounds: of the three writes of a network, two are called; two operations
\* are under way with one of them.  As long as there are strays, or a counter
\* one has lowered, there are two in all.  The second operation begins while
\* the first is under way.
Bounded ==
    LET called == Cardinality({c \in Writes : step'[c] # "idle"}) IN
    /\ called <= 2
    /\ called + Cardinality(DOMAIN work') <= IF strays' \cup lowered' = {} THEN 3 ELSE 2
    /\ o2 \in DOMAIN work' \ DOMAIN work => o1 \in DOMAIN work

-----------------------------------------------------------------------------
MCInit ==
    /\ focus \in {"networks", "managed", "badge", "results", "history", "form"}
    /\ NetworksInit /\ ManagedInit /\ BadgeInit /\ ResultsInit /\ HistoryInit
    /\ FormInit

MCNext ==
    /\ \/ /\ focus = "networks" /\ NetworksNext /\ Bounded
          /\ UNCHANGED <<managedVars, badgeVars, resultVars, historyVars, formVars>>
       \/ /\ focus = "managed" /\ ManagedNext
          /\ UNCHANGED <<networkVars, badgeVars, resultVars, historyVars, formVars>>
       \/ /\ focus = "badge" /\ BadgeNext
          /\ UNCHANGED <<networkVars, managedVars, resultVars, historyVars, formVars>>
       \/ /\ focus = "results" /\ ResultsNext
          /\ UNCHANGED <<networkVars, managedVars, badgeVars, historyVars, formVars>>
       \/ /\ focus = "history" /\ HistoryNext
          /\ UNCHANGED <<networkVars, managedVars, badgeVars, resultVars, formVars>>
       \/ /\ focus = "form" /\ FormNext
          /\ UNCHANGED <<networkVars, managedVars, badgeVars, resultVars, historyVars>>
    /\ UNCHANGED focus

MCSpec ==
    MCInit /\ [][MCNext]_<<focus, networkVars, managedVars, badgeVars, resultVars,
                           historyVars, formVars>>

(* What the types of the six parts say of the values of their variables. *)
ServicesTypeOK ==
    /\ NetworksTypeOK /\ ManagedTypeOK /\ BadgeTypeOK /\ ResultsTypeOK
    /\ HistoryTypeOK /\ FormTypeOK
=============================================================================
