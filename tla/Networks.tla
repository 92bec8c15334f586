------------------------------- MODULE Networks -------------------------------
(***************************************************************************)
(* The networks of a client: the registry in memory, its copy in storage,  *)
(* the selected network, the operations running on networks, and the       *)
(* reservations that a changed or removed network takes with it.           *)
(*                                                                         *)
(* addNetwork, updateNetwork and removeNetwork (the elements of Writes) go *)
(* through one queue and write storage before memory; the last two hold an *)
(* exclusive scope over their network until its reservations are gone.     *)
(* An added network goes by the name of the call that added it.  A network *)
(* is busy while the counter of the operations on it is not 0.             *)
(***************************************************************************)
EXTENDS Integers, Sequences, FiniteSets

CONSTANTS
    Writes,         \* calls that write the networks
    Task,           \* Task[c] \in {"add", "update", "remove"}
    Operations,     \* transfers, deploys and reservation writes
    Wallets,
    Default,        \* the network of the config of the application
    Customs,        \* networks that storage holds at first
    DefaultRecord, Custom,  \* the records at first, Custom[n] of a custom one
    Asked           \* Asked[c]: the records a caller may ask c for

ASSUME NetworksAssumption ==
    /\ Task \in [Writes -> {"add", "update", "remove"}]
    /\ Default \notin Customs \cup Writes
    /\ Customs \cap Writes = {}
    /\ IsFiniteSet(Writes) /\ IsFiniteSet(Operations) /\ IsFiniteSet(Customs)

\* validateNetworkUniqueness, of the networks there are at first.
ASSUME RecordsDiffer ==
    \A n \in Customs :
        /\ Custom[n].name # DefaultRecord.name /\ Custom[n].config # DefaultRecord.config
        /\ \A m \in Customs \ {n} :
               Custom[m].name # Custom[n].name /\ Custom[m].config # Custom[n].config

VARIABLES
    client,     \* "closed", "reading" the stored networks, or "ready"
    fetched,    \* while reading: what storage answered
    registry,   \* the networks in memory, by id
    shelf,      \* the custom networks in storage, by id
    current,    \* the selected network
    busy,       \* busy[n]: operations on n that count
    queue,      \* the writes that wait or run, the running one first
    step,       \* step[c]: where the write c is
    aim,        \* aim[c]: network and record of a write under way
    reset,      \* writes under way that change what reservations were made for
    orphaned,   \* writes under way whose client has been closed
    work,       \* work[o]: network and config of an operation under way
    strays,     \* operations under way whose client has been closed
    phase,      \* phase[w]: closed, opening, restoring or open
    known,      \* known[w]: the networks known when the opening began
    held,       \* held[w]: reservations in memory (or read, while opening)
    kept,       \* kept[w]: reservations in storage
    outlived,   \* history: outlived[w]: those a change of their network missed
    torn,       \* history: a write reached storage, but not its client
    lowered     \* history: networks with a counter that a stray lowered

writeVars == <<queue, step, aim, reset, orphaned>>
walletVars == <<phase, known, held, kept>>
workVars == <<work, strays>>
pastVars == <<outlived, torn, lowered>>
networkVars == <<client, fetched, registry, shelf, current, busy, writeVars,
                 workVars, walletVars, pastVars>>

-----------------------------------------------------------------------------
Ids == {Default} \cup Customs \cup Writes
Steps == {"idle", "queued", "storing", "stored", "dropping", "done"}

\* f with x mapped to v, and f without x.
With(f, x, v) == [y \in DOMAIN f \cup {x} |-> IF y = x THEN v ELSE f[y]]
Without(f, x) == [y \in DOMAIN f \ {x} |-> f[y]]

\* createNetworkRecord and createUpdatedNetworkRecord: neither the name nor
\* the config of any other network.
Unique(n, rec) ==
    \A m \in DOMAIN registry \ {n} :
        registry[m].name # rec.name /\ registry[m].config # rec.config

\* The exclusive scope of ReservationOperationGuard.
Reconfiguring(n) == \E c \in DOMAIN aim : Task[c] # "add" /\ aim[c].net = n

\* The registry takes changes of a custom network only.
Changeable(n) == n \in DOMAIN registry \ {Default}
Idle(n) == busy[n] = 0
CurrentIdle == Idle(current)
Reconfigures(n, rec) == registry[n].config # rec.config

Reservation(n) == [net |-> n, config |-> registry[n].config]
OfNetwork(R, n) == {r \in R : r.net = n}

\* The reservations K, by wallet, stay although their networks N change.
Outlive(K, N) ==
    [w \in Wallets |-> outlived[w] \cup {r \in K[w] : r.net \in N}]

NetworksInit ==
    /\ client = "ready" /\ fetched = <<>>
    /\ registry = With([n \in Customs |-> Custom[n]], Default, DefaultRecord)
    /\ shelf = [n \in Customs |-> Custom[n]]
    /\ current = Default
    /\ busy = [n \in Ids |-> 0]
    /\ queue = <<>> /\ reset = {} /\ orphaned = {}
    /\ step = [c \in Writes |-> "idle"]
    /\ aim = <<>> /\ work = <<>> /\ strays = {}
    /\ phase = [w \in Wallets |-> "closed"]
    /\ known = [w \in Wallets |-> {}]
    /\ held = [w \in Wallets |-> {}]
    /\ kept = [w \in Wallets |-> {}]
    /\ outlived = [w \in Wallets |-> {}]
    /\ torn = FALSE /\ lowered = {}

-----------------------------------------------------------------------------
(* The writes                                                              *)

BeginAdd(c, rec) ==
    /\ client = "ready" /\ Task[c] = "add" /\ step[c] = "idle"
    /\ step' = [step EXCEPT ![c] = "queued"]
    /\ aim' = With(aim, c, [net |-> c, rec |-> rec])
    /\ queue' = Append(queue, c)
    /\ UNCHANGED <<client, fetched, registry, shelf, current, busy, reset,
                   orphaned, workVars, walletVars, pastVars>>

\* Enters the scope and the queue.  config is compared before the wait.
Enqueue(c, n, rec) ==
    /\ client = "ready" /\ Task[c] # "add" /\ step[c] = "idle"
    /\ ~Reconfiguring(n)
    /\ Task[c] = "update" => n \in DOMAIN registry
    /\ step' = [step EXCEPT ![c] = "queued"]
    /\ aim' = With(aim, c, [net |-> n, rec |-> rec])
    /\ queue' = Append(queue, c)
    /\ reset' = IF Task[c] = "remove" \/ Reconfigures(n, rec)
                  THEN reset \cup {c} ELSE reset
    /\ UNCHANGED <<client, fetched, registry, shelf, current, busy, orphaned,
                   workVars, walletVars, pastVars>>

\* Mutant: it is not looked whether an operation runs on the network.
BeginNetworkChangeBusy(c, n, rec) == Enqueue(c, n, rec)

\* A network that is busy is refused at once, with nothing changed.
BeginNetworkChange(c, n, rec) == Idle(n) /\ Enqueue(c, n, rec)

\* Mutant: a queued write does not wait for its turn.
ItsTurnAtOnce(c) == c \in {queue[i] : i \in 1..Len(queue)}

ItsTurn(c) == queue # <<>> /\ c = Head(queue)

\* The next turn begins when the call whose turn it is lets go.
Leave(c) == IF ItsTurn(c) THEN Tail(queue) ELSE queue

\* The call settles: its turn in the queue and its scope are given back.
Settle(c) ==
    /\ step' = [step EXCEPT ![c] = "done"]
    /\ queue' = Leave(c)
    /\ aim' = Without(aim, c)
    /\ reset' = reset \ {c}
    /\ orphaned' = orphaned \ {c}

\* The next write may run; this call goes on to drop reservations.
Clear(c) ==
    /\ step' = [step EXCEPT ![c] = "dropping"]
    /\ queue' = Leave(c)
    /\ UNCHANGED <<aim, reset, orphaned>>

\* The client is still there, and the record is one the registry takes.
Allowed(c) ==
    LET n == aim[c].net IN
    /\ client = "ready"
    /\ Task[c] # "remove" => Unique(n, aim[c].rec)
    /\ Task[c] = "update" => Changeable(n)

\* Mutant: the record is not compared with those of the other networks.
PrepareUnchecked(c) ==
    /\ step[c] = "queued" /\ ItsTurn(c) /\ client = "ready"
    /\ step' = [step EXCEPT ![c] = "storing"]
    /\ UNCHANGED <<client, fetched, registry, shelf, current, busy, queue, aim,
                   reset, orphaned, workVars, walletVars, pastVars>>

Prepare(c) ==
    /\ step[c] = "queued" /\ ItsTurn(c)
    /\ Allowed(c) \/ Task[c] = "remove"
    /\ step' = [step EXCEPT ![c] = "storing"]
    /\ UNCHANGED <<client, fetched, registry, shelf, current, busy, queue, aim,
                   reset, orphaned, workVars, walletVars, pastVars>>

\* The record is refused, or the write to storage fails.
WriteFails(c) ==
    /\ \/ step[c] = "queued" /\ ItsTurn(c) /\ Task[c] # "remove" /\ ~Allowed(c)
       \/ step[c] = "storing"
    /\ Settle(c)
    /\ UNCHANGED <<client, fetched, registry, shelf, current, busy, workVars,
                   walletVars, pastVars>>

StoreNetwork(c) ==
    /\ step[c] = "storing"
    /\ Task[c] = "update" => aim[c].net \in DOMAIN shelf
    /\ shelf' = IF Task[c] = "remove" THEN Without(shelf, aim[c].net)
                                      ELSE With(shelf, aim[c].net, aim[c].rec)
    /\ step' = [step EXCEPT ![c] = "stored"]
    /\ torn' = (torn \/ client # "ready")
    /\ UNCHANGED <<client, fetched, registry, current, busy, queue, aim, reset,
                   orphaned, workVars, walletVars, outlived, lowered>>

\* applyNetwork: the registry, and then the clients of the selected network;
\* were that one busy, the call would stop in between.
ApplyNetwork(c) ==
    /\ step[c] = "stored" /\ Task[c] # "remove"
    /\ Allowed(c)
    /\ registry' = With(registry, aim[c].net, aim[c].rec)
    /\ IF c \in reset /\ (current = aim[c].net => CurrentIdle)
         THEN Clear(c) ELSE Settle(c)
    /\ UNCHANGED <<client, fetched, shelf, current, busy, workVars, walletVars,
                   pastVars>>

\* ApiClientManager.removeNetwork: a removed selection falls back to the
\* first network, which is the default one.
RemoveNetwork(c) ==
    /\ step[c] = "stored" /\ Task[c] = "remove" /\ client = "ready"
    /\ Changeable(aim[c].net) /\ Idle(aim[c].net)
    /\ registry' = Without(registry, aim[c].net)
    /\ current' = IF current = aim[c].net THEN Default ELSE current
    /\ Clear(c)
    /\ UNCHANGED <<client, fetched, shelf, busy, workVars, walletVars, pastVars>>

\* The registry refuses what storage holds already: the client was closed
\* meanwhile, or the network is a default one or none at all.
ApplyFails(c) ==
    /\ step[c] = "stored"
    /\ \/ client # "ready"
       \/ Task[c] # "remove" /\ ~Allowed(c)
       \/ /\ Task[c] = "remove"
          /\ ~Changeable(aim[c].net) \/ ~Idle(aim[c].net)
    /\ Settle(c)
    /\ UNCHANGED <<client, fetched, registry, shelf, current, busy, workVars,
                   walletVars, pastVars>>

\* Mutant: the reservations of a changed network stay in memory.
DropNothing(c) ==
    /\ step[c] = "dropping"
    /\ Settle(c)
    /\ UNCHANGED <<client, fetched, registry, shelf, current, busy, workVars,
                   walletVars, pastVars>>

\* removeNetworkReservations: out of the memory of every open wallet of the
\* client that was called, and out of storage unless that fails.
DropReservations(c) ==
    LET n == aim[c].net
        Seen(w) == IF phase[w] = "open" /\ c \notin orphaned
                     THEN OfNetwork(held[w], n) ELSE {} IN
    /\ step[c] = "dropping"
    /\ held' = [w \in Wallets |-> held[w] \ Seen(w)]
    /\ \E failed \in SUBSET Wallets :
          kept' = [w \in Wallets |->
                      IF w \in failed THEN kept[w] ELSE kept[w] \ Seen(w)]
    /\ outlived' = Outlive(kept', {n})
    /\ Settle(c)
    /\ UNCHANGED <<client, fetched, registry, shelf, current, busy, workVars, phase,
                   known, torn, lowered>>

-----------------------------------------------------------------------------
(* Operations on networks                                                  *)

\* The operations of the client there is.
OfClient == DOMAIN work \ strays

\* runNetworkOperation: on the selected network, or on the network of a
\* reservation that is to be removed.
BeginOperation(o, n) ==
    /\ client = "ready" /\ o \notin DOMAIN work
    /\ \/ n = current
       \/ \E w \in Wallets : phase[w] = "open" /\ OfNetwork(held[w], n) # {}
    /\ n \in DOMAIN registry
    /\ ~Reconfiguring(n)
    /\ busy' = [busy EXCEPT ![n] = @ + 1]
    /\ work' = With(work, o, Reservation(n))
    /\ UNCHANGED <<client, fetched, registry, shelf, current, writeVars, strays,
                   walletVars, pastVars>>

\* A transfer, deploy or external reservation locks funds on the network
\* that is selected when it does so, inside a shared scope over it.  A stray
\* finds its wallet closed; what it leaves in storage is in Reservations.
AddReservation(o, w) ==
    /\ o \in OfClient /\ phase[w] = "open"
    /\ ~Reconfiguring(current)
    /\ held' = [held EXCEPT ![w] = @ \cup {Reservation(current)}]
    /\ kept' = [kept EXCEPT ![w] = @ \cup {Reservation(current)}]
    /\ UNCHANGED <<client, fetched, registry, shelf, current, busy, writeVars,
                   workVars, phase, known, pastVars>>

\* A reservation is confirmed, expires or is removed by its owner.
EndReservation(w, r) ==
    /\ phase[w] = "open" /\ r \in held[w]
    /\ held' = [held EXCEPT ![w] = @ \ {r}]
    /\ kept' = [kept EXCEPT ![w] = @ \ {r}]
    /\ outlived' = [outlived EXCEPT ![w] = @ \ {r}]
    /\ UNCHANGED <<client, fetched, registry, shelf, current, busy, writeVars,
                   workVars, phase, known, torn, lowered>>

\* The operation is over: the counter is lowered, not below 0.
GiveBack(o, n) ==
    /\ o \in DOMAIN work
    /\ busy' = [busy EXCEPT ![n] = IF @ > 0 THEN @ - 1 ELSE 0]
    /\ work' = Without(work, o)
    /\ strays' = strays \ {o}
    /\ lowered' = IF o \in strays /\ busy[n] > 0 THEN lowered \cup {n} ELSE lowered
    /\ UNCHANGED <<client, fetched, registry, shelf, current, writeVars,
                   walletVars, outlived, torn>>

\* Mutant: the counter of the selected network is released.
EndOperationSelected(o) == GiveBack(o, current)

\* The counters are those of the client there is: a stray gives back what it
\* took from the counters of its own.
EndOperation(o) == o \in DOMAIN work /\ GiveBack(o, work[o].net)

\* switchNetwork of setNetwork: nothing but the busy counter holds it back.
SetNetwork(n) ==
    /\ client = "ready" /\ n \in DOMAIN registry \ {current}
    /\ CurrentIdle
    /\ current' = n
    /\ UNCHANGED <<client, fetched, registry, shelf, busy, writeVars, workVars,
                   walletVars, pastVars>>

-----------------------------------------------------------------------------
(* Wallets: what ReservationAdapter.create restores                        *)

BeginOpen(w) ==
    /\ client = "ready" /\ phase[w] = "closed"
    /\ phase' = [phase EXCEPT ![w] = "opening"]
    /\ known' = [known EXCEPT ![w] = DOMAIN registry]
    /\ UNCHANGED <<client, fetched, registry, shelf, current, busy, writeVars,
                   workVars, held, kept, pastVars>>

ReadReservations(w) ==
    /\ phase[w] = "opening"
    /\ phase' = [phase EXCEPT ![w] = "restoring"]
    /\ held' = [held EXCEPT ![w] = {r \in kept[w] : r.net \in known[w]}]
    /\ kept' = [kept EXCEPT ![w] = {r \in kept[w] : r.net \in known[w]}]
    /\ UNCHANGED <<client, fetched, registry, shelf, current, busy, writeVars,
                   workVars, known, pastVars>>

\* Every restored reservation is watched on its network at once; if that is
\* gone by now there is no adapter, and no wallet.
PublishWallet(w) ==
    /\ phase[w] = "restoring" /\ client = "ready"
    /\ IF \A r \in held[w] : r.net \in DOMAIN registry
         THEN phase' = [phase EXCEPT ![w] = "open"] /\ UNCHANGED held
         ELSE /\ phase' = [phase EXCEPT ![w] = "closed"]
              /\ held' = [held EXCEPT ![w] = {}]
    /\ known' = [known EXCEPT ![w] = {}]
    /\ UNCHANGED <<client, fetched, registry, shelf, current, busy, writeVars,
                   workVars, kept, pastVars>>

CloseWallet(w) ==
    /\ phase[w] = "open"
    /\ phase' = [phase EXCEPT ![w] = "closed"]
    /\ held' = [held EXCEPT ![w] = {}]
    /\ UNCHANGED <<client, fetched, registry, shelf, current, busy, writeVars,
                   workVars, known, kept, pastVars>>

-----------------------------------------------------------------------------
(* The client                                                              *)

\* What is lost with the client: the wallets, the counters, the selection.
Forget ==
    /\ client' = "closed"
    /\ busy' = [n \in Ids |-> 0] /\ lowered' = {}
    /\ phase' = [w \in Wallets |-> "closed"]
    /\ known' = [w \in Wallets |-> {}]
    /\ held' = [w \in Wallets |-> {}]
    /\ UNCHANGED <<fetched, registry, shelf, current, kept>>

\* close() waits ten seconds for the tracked operations, fewer than one
\* request may take, and not at all for network writes: both may go on.  An
\* opening that goes on is not published.
CloseClient ==
    /\ client = "ready"
    /\ Forget
    /\ strays' = DOMAIN work
    /\ torn' = (torn \/ \E c \in Writes : step[c] = "stored")
    /\ orphaned' = DOMAIN aim
    /\ UNCHANGED <<queue, step, aim, reset, work, outlived>>

Crash ==
    /\ client = "ready"
    /\ Forget
    /\ outlived' = Outlive(kept, {aim[c].net :
                          c \in {d \in reset : step[d] \in {"stored", "dropping"}}})
    /\ work' = <<>> /\ strays' = {}
    /\ step' = [c \in Writes |-> IF step[c] = "idle" THEN "idle" ELSE "done"]
    /\ queue' = <<>> /\ aim' = <<>> /\ reset' = {} /\ orphaned' = {}
    /\ UNCHANGED torn

\* NetworkManager.initialize of the next client, in its two turns.
ReadNetworks ==
    /\ client = "closed"
    /\ client' = "reading" /\ fetched' = shelf
    /\ UNCHANGED <<registry, shelf, current, busy, writeVars, workVars, walletVars,
                   pastVars>>

CreateClient ==
    /\ client = "reading"
    /\ client' = "ready" /\ fetched' = <<>>
    /\ registry' = With(fetched, Default, DefaultRecord)
    /\ current' = Default
    /\ UNCHANGED <<shelf, busy, writeVars, workVars, walletVars, pastVars>>

-----------------------------------------------------------------------------
WriteStep ==
    \E c \in Writes :
        \/ \E rec \in Asked[c] : BeginAdd(c, rec)
        \/ \E rec \in Asked[c], n \in Ids : BeginNetworkChange(c, n, rec)
        \/ Prepare(c) \/ WriteFails(c) \/ StoreNetwork(c)
        \/ ApplyNetwork(c) \/ RemoveNetwork(c) \/ ApplyFails(c)
        \/ DropReservations(c)

OperationStep ==
    \/ \E o \in Operations, n \in Ids : BeginOperation(o, n)
    \/ \E o \in Operations, w \in Wallets : AddReservation(o, w)
    \/ \E w \in Wallets, r \in UNION {held[v] : v \in Wallets} :
          EndReservation(w, r)
    \/ \E o \in Operations : EndOperation(o)
    \/ \E n \in Ids : SetNetwork(n)

OpeningStep ==
    \E w \in Wallets :
        BeginOpen(w) \/ ReadReservations(w) \/ PublishWallet(w) \/ CloseWallet(w)

NetworksNext ==
    \/ WriteStep \/ OperationStep \/ OpeningStep
    \/ CloseClient \/ Crash \/ ReadNetworks \/ CreateClient

NetworksSpec == NetworksInit /\ [][NetworksNext]_networkVars

-----------------------------------------------------------------------------
(* Properties                                                              *)

\* The types, and that a counter is the number of the operations it counts,
\* those of the client there is, unless an operation of a client closed before
\* them has lowered it; then it is no more than that number.
NetworksTypeOK ==
    /\ client \in {"closed", "reading", "ready"}
    /\ DOMAIN registry \subseteq Ids /\ DOMAIN shelf \subseteq Ids \ {Default}
    /\ Default \in DOMAIN registry /\ current \in Ids
    /\ step \in [Writes -> Steps]
    /\ \A i \in 1..Len(queue) : step[queue[i]] \in {"queued", "storing", "stored"}
    /\ strays \subseteq DOMAIN work
    /\ \A n \in Ids :
          LET number == Cardinality({o \in OfClient : work[o].net = n}) IN
          busy[n] <= number /\ (n \notin lowered => busy[n] = number)
    /\ phase \in [Wallets -> {"closed", "opening", "restoring", "open"}]

\* An operation keeps its network while it runs: nobody removes it, nobody
\* changes its config, and (EnsureNetworkNotReconfiguring the other way
\* round) nobody selects a network that is not there.  Two kinds of operation
\* may lose theirs: one that goes on after its client was closed, and one on
\* a network whose counter such a stray has lowered.
OperationsKeepTheirNetwork ==
    client = "ready" =>
        /\ current \in DOMAIN registry
        /\ \A o \in OfClient :
              work[o].net \notin lowered =>
                  /\ work[o].net \in DOMAIN registry
                  /\ Reservation(work[o].net) = work[o]

\* Whenever no write runs, memory and storage have the same networks, no two
\* with one name or one config, however the writes failed or crashed; only
\* a client closed in the middle of a write may leave them apart.
WritesAgree ==
    client = "ready" /\ queue = <<>> /\ ~torn =>
        /\ registry = With(shelf, Default, DefaultRecord)
        /\ \A n \in DOMAIN registry : Unique(n, registry[n])

\* What an open wallet has locked, it has locked on a network as it is now,
\* once the change of that network is through; except what the wallet did
\* not have in memory at the change, or could not delete.
ReservationsFitNetwork ==
    ~torn => \A w \in Wallets : \A r \in held[w] :
        phase[w] = "open" /\ ~Reconfiguring(r.net) /\ r \notin outlived[w] =>
            r.net \in DOMAIN registry /\ r = Reservation(r.net)

\* The records a network can have.
RecordsEver ==
    {DefaultRecord} \cup {Custom[n] : n \in Customs} \cup UNION {Asked[c] : c \in Writes}

Table ==
    INSTANCE NetworkTable WITH
        Nets <- Ids, Records <- RecordsEver,
        using <- [o \in OfClient |-> work[o]],
        table <- With(shelf, Default, DefaultRecord)

\* Storage implements the one table of networks the SDK promises, in which
\* nothing happens to a network while an operation of the client runs on it,
\* if no stray has lowered its counter: queue, scopes and counters are enough,
\* whatever memory holds meanwhile.
ImplementsNetworkTable == Table!Init /\ [][Table!Next]_Table!vars
=============================================================================
