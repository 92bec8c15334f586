----------------------------- MODULE NetworkTable -----------------------------
(***************************************************************************)
(* What the wallet SDK promises about the networks of an application: one  *)
(* table of networks, no two with one name or one config, in which the     *)
(* default network stays as it is, and in which nothing happens to a       *)
(* network as long as an operation runs on it.  That the networks are held *)
(* twice, in memory and in storage, that writes wait for each other, fail  *)
(* or are cut short, does not occur at this level; only that a client may  *)
(* be closed, or may end, in the middle of a write.                        *)
(***************************************************************************)
CONSTANTS
    Nets,       \* networks, by id
    Default,    \* the network of the config of the application
    Records,    \* what a network may be set to: its name and its config
    Operations  \* transfers, deploys and reservation writes

VARIABLES
    table,      \* table[n]: the record of a network
    using,      \* using[o]: network and config of an operation that runs
    torn,       \* a write went on although its client was closed
    lowered     \* networks on which an operation did so, and ended as if it
                \* were one of those that run

vars == <<table, using, torn, lowered>>

\* createNetworkRecord and createUpdatedNetworkRecord: rec has neither the
\* name nor the config of a network of t other than n.
Unlike(n, rec, t) ==
    \A m \in DOMAIN t \ {n} : t[m].name # rec.name /\ t[m].config # rec.config

\* No operation runs on n; nobody can tell where one too many has ended.
Unused(n) == n \notin lowered => \A o \in DOMAIN using : using[o].net # n

Init ==
    /\ Default \in DOMAIN table
    /\ \A n \in DOMAIN table : Unlike(n, table[n], table)
    /\ using = <<>>
    /\ torn = FALSE /\ lowered = {}

\* A network is added or changed; a write that outlives its client is not
\* measured against the others.
Put(n, rec) ==
    /\ n # Default /\ Unused(n)
    /\ ~torn => Unlike(n, rec, table)
    /\ table' = [m \in DOMAIN table \cup {n} |-> IF m = n THEN rec ELSE table[m]]
    /\ (torn => torn') /\ UNCHANGED <<using, lowered>>

Drop(n) ==
    /\ n # Default /\ Unused(n)
    /\ table' = [m \in DOMAIN table \ {n} |-> table[m]]
    /\ (torn => torn') /\ UNCHANGED <<using, lowered>>

\* The network an operation begins on is there, and has the config that the
\* operation is given.
Begin(o, n, rec) ==
    /\ o \notin DOMAIN using
    /\ ~torn => n \in DOMAIN table /\ table[n] = rec
    /\ using' = [p \in DOMAIN using \cup {o} |->
                    IF p = o THEN [net |-> n, config |-> rec.config] ELSE using[p]]
    /\ UNCHANGED <<table, torn, lowered>>

End(o) ==
    /\ o \in DOMAIN using
    /\ using' = [p \in DOMAIN using \ {o} |-> using[p]]
    /\ UNCHANGED <<table, torn, lowered>>

\* The client ends: no operation that runs is one of its successor's.
Restart ==
    /\ using' = <<>> /\ lowered' = {}
    /\ (torn => torn') /\ UNCHANGED table

\* Nothing a reader of the table sees; the client may be closed in the middle
\* of a write, and such a write or an operation may end without effect.
Tear ==
    /\ (torn => torn') /\ lowered \subseteq lowered'
    /\ UNCHANGED <<table, using>>

Next ==
    \/ Tear \/ Restart
    \/ \E o \in Operations : End(o)
    \/ \E o \in Operations, n \in Nets, rec \in Records : Begin(o, n, rec)
    \/ \E n \in Nets, rec \in Records : Put(n, rec)
    \/ \E n \in Nets : Drop(n)

Spec == Init /\ [][Next]_vars

\* An operation that runs finds its network in the table, with the config it
\* began with, and the networks of the table are told apart.
Kept ==
    ~torn =>
        /\ \A n \in DOMAIN table : Unlike(n, table[n], table)
        /\ \A o \in DOMAIN using :
              using[o].net \notin lowered =>
                  /\ using[o].net \in DOMAIN table
                  /\ table[using[o].net].config = using[o].config
=============================================================================
