----------------------------- MODULE NetworksProofs -----------------------------
(***************************************************************************)
(* Networks, for any number of writes, operations, wallets and networks:    *)
(* the writes take turns and hold the scope of their network, so storage is *)
(* one write ahead of memory at most, and no operation meets a change of    *)
(* its network.                                                             *)
(***************************************************************************)
EXTENDS Networks, FiniteSetTheorems, SequenceTheorems, TLAPS

USE DEF workVars

Going == {"queued", "storing", "stored"}

\* The variables in their types.
NetVars ==
    /\ client \in {"closed", "reading", "ready"}
    /\ step \in [Writes -> Steps] /\ queue \in Seq(Writes)
    /\ current \in Ids /\ busy \in [Ids -> Nat]
    /\ DOMAIN work \subseteq Operations /\ \A o \in DOMAIN work : work[o].net \in Ids
    /\ strays \subseteq DOMAIN work
    /\ DOMAIN aim \subseteq Writes /\ \A c \in DOMAIN aim : aim[c].net \in Ids
    /\ phase \in [Wallets -> {"closed", "opening", "restoring", "open"}]
    /\ DOMAIN held = Wallets /\ DOMAIN kept = Wallets /\ DOMAIN outlived = Wallets

\* The tables of networks, and only custom ones in storage.
NetTables ==
    /\ DOMAIN registry \subseteq Ids /\ Default \in DOMAIN registry
    /\ DOMAIN shelf \subseteq Ids \ {Default}
    /\ DOMAIN fetched \subseteq Ids \ {Default}

\* A write that is called and not through is in the queue until the registry
\* has changed; the running one is the first in it.
Turns ==
    /\ DOMAIN aim = {c \in Writes : step[c] \in Going \cup {"dropping"}}
    /\ \A i \in 1..Len(queue) : step[queue[i]] \in Going
    /\ \A i, j \in 1..Len(queue) : queue[i] = queue[j] => i = j
    /\ \A c \in Writes : step[c] \in {"storing", "stored"} => ItsTurn(c)
    /\ reset \subseteq DOMAIN aim /\ orphaned \subseteq DOMAIN aim
    /\ \A c \in DOMAIN aim :
          /\ Task[c] = "add" => aim[c].net = c /\ c \notin reset
          /\ Task[c] = "remove" => c \in reset
          /\ step[c] = "dropping" => c \in reset

\* The operations of the client on n, which a counter counts: exactly, if no
\* stray has lowered it.
On(n) == {o \in OfClient : work[o].net = n}
Counted(n) ==
    /\ busy[n] <= Cardinality(On(n))
    /\ n \notin lowered => busy[n] = Cardinality(On(n))

\* A change has its network for itself, and its counter is 0.
Scopes ==
    /\ \A c, d \in DOMAIN aim :
          Task[c] # "add" /\ Task[d] # "add" /\ aim[c].net = aim[d].net => c = d
    /\ \A c \in DOMAIN aim : Task[c] # "add" => busy[aim[c].net] = 0
    /\ \A n \in Ids : Counted(n)
    /\ OfClient # {} => client = "ready"

\* The first of a queue, and what is left of the queue after it.
LEMMA QueueFacts ==
    ASSUME NEW S, NEW q \in Seq(S)
    PROVE  /\ q # <<>> => /\ Head(q) = q[1] /\ Head(q) \in S
                          /\ 1 \in 1..Len(q)
                          /\ Tail(q) \in Seq(S)
                          /\ \A i \in 1..Len(Tail(q)) :
                                i+1 \in 1..Len(q) /\ i+1 # 1 /\ Tail(q)[i] = q[i+1]
           /\ \A x \in S :
                /\ Append(q, x) \in Seq(S)
                /\ Append(q, x) # <<>>
                /\ Head(Append(q, x)) = IF q = <<>> THEN x ELSE Head(q)
                /\ \A i \in 1..Len(Append(q, x)) :
                      \/ i \in 1..Len(q) /\ Append(q, x)[i] = q[i]
                      \/ i = Len(q) + 1 /\ Append(q, x)[i] = x
<1>1. ASSUME q # <<>>
      PROVE  /\ Head(q) = q[1] /\ Head(q) \in S /\ 1 \in 1..Len(q)
             /\ Tail(q) \in Seq(S)
             /\ \A i \in 1..Len(Tail(q)) :
                   i+1 \in 1..Len(q) /\ i+1 # 1 /\ Tail(q)[i] = q[i+1]
    <2>1. /\ Head(q) \in S /\ Tail(q) \in Seq(S) /\ Len(Tail(q)) = Len(q) - 1
          /\ \A i \in 1..Len(Tail(q)) : Tail(q)[i] = q[i+1]
        BY <1>1, HeadTailProperties
    <2>2. Len(q) \in Nat /\ Len(q) # 0
        BY <1>1, EmptySeq
    <2>. QED
        BY <2>1, <2>2
<1>2. ASSUME NEW x \in S
      PROVE  /\ Append(q, x) \in Seq(S) /\ Append(q, x) # <<>>
             /\ Head(Append(q, x)) = IF q = <<>> THEN x ELSE Head(q)
             /\ \A i \in 1..Len(Append(q, x)) :
                   \/ i \in 1..Len(q) /\ Append(q, x)[i] = q[i]
                   \/ i = Len(q) + 1 /\ Append(q, x)[i] = x
    BY AppendProperties, HeadTailAppend
<1>. QED
    BY <1>1, <1>2

\* A call that lets go of its turn, or has none.
LEMMA LeaveFacts ==
    ASSUME NetVars, Turns, NEW c \in Writes, NEW q, q = Leave(c),
           ItsTurn(c) \/ step[c] = "dropping"
    PROVE  /\ q \in Seq(Writes)
           /\ \A i \in 1..Len(q) : q[i] # c /\ step[q[i]] \in Going
           /\ \A i, j \in 1..Len(q) : q[i] = q[j] => i = j
           /\ \A d \in Writes \ {c} : step[d] \in {"storing", "stored"} => q = queue
<1>1. queue \in Seq(Writes)
    BY DEF NetVars
<1>2. CASE ItsTurn(c)
    <2>1. queue # <<>> /\ c = queue[1] /\ 1 \in 1..Len(queue) /\ q = Tail(queue)
          /\ q \in Seq(Writes)
          /\ \A i \in 1..Len(q) : i+1 \in 1..Len(queue) /\ i+1 # 1 /\ q[i] = queue[i+1]
        BY <1>1, <1>2, QueueFacts DEF ItsTurn, Leave
    <2>2. \A i \in 1..Len(q) : q[i] # c /\ step[q[i]] \in Going
        BY <2>1 DEF Turns
    <2>3. \A i, j \in 1..Len(q) : q[i] = q[j] => i = j
        <3>1. ASSUME NEW i \in 1..Len(q), NEW j \in 1..Len(q), q[i] = q[j]
              PROVE  i = j
            <4>1. i+1 = j+1
                BY <2>1, <3>1 DEF Turns
            <4>. QED
                BY <4>1
        <3>. QED
            BY <3>1
    <2>4. \A d \in Writes \ {c} : step[d] \notin {"storing", "stored"}
        BY <1>2 DEF Turns, ItsTurn
    <2>. QED
        BY <2>1, <2>2, <2>3, <2>4
<1>3. CASE ~ItsTurn(c)
    <2>1. q = queue /\ step[c] = "dropping"
        BY <1>3 DEF Leave
    <2>. QED
        BY <1>1, <2>1 DEF Turns, Going
<1>. QED
    BY <1>2, <1>3

\* A call enters the queue.
LEMMA EnterKeepsTurns ==
    ASSUME NetVars, Turns, NEW c \in Writes, step[c] = "idle",
           NEW n \in Ids, NEW rec,
           step' = [step EXCEPT ![c] = "queued"],
           aim' = With(aim, c, [net |-> n, rec |-> rec]),
           queue' = Append(queue, c), orphaned' = orphaned,
           Task[c] = "add" => n = c /\ reset' = reset,
           Task[c] = "remove" => reset' = reset \cup {c},
           reset' = reset \/ reset' = reset \cup {c}
    PROVE  Turns' /\ queue' \in Seq(Writes)
<1>1. /\ queue' \in Seq(Writes) /\ queue' # <<>>
      /\ Head(queue') = IF queue = <<>> THEN c ELSE Head(queue)
      /\ \A i \in 1..Len(queue') :
            \/ i \in 1..Len(queue) /\ queue'[i] = queue[i]
            \/ i = Len(queue) + 1 /\ queue'[i] = c
    BY QueueFacts DEF NetVars
<1>2. step'[c] = "queued" /\ \A d \in Writes \ {c} : step'[d] = step[d]
    BY DEF NetVars
<1>3. c \notin DOMAIN aim /\ \A i \in 1..Len(queue) : queue[i] # c /\ queue[i] \in Writes
    BY DEF Turns, Going, NetVars
<1>4. /\ DOMAIN aim' = DOMAIN aim \cup {c}
      /\ aim'[c].net = n /\ \A d \in DOMAIN aim : aim'[d] = aim[d]
    BY <1>3 DEF With
<1>5. DOMAIN aim' = {d \in Writes : step'[d] \in Going \cup {"dropping"}}
    <2>1. step'[c] \in Going \cup {"dropping"}
        BY <1>2 DEF Going
    <2>2. \A d \in Writes \ {c} :
              d \in DOMAIN aim' <=> step'[d] \in Going \cup {"dropping"}
        BY <1>2, <1>4 DEF Turns
    <2>3. DOMAIN aim' \subseteq Writes
        BY <1>4 DEF NetVars
    <2>. QED
        BY <1>4, <2>1, <2>2, <2>3
<1>6. \A i \in 1..Len(queue') : step'[queue'[i]] \in Going
    BY <1>1, <1>2, <1>3 DEF Turns, Going
<1>7. \A i, j \in 1..Len(queue') : queue'[i] = queue'[j] => i = j
    BY <1>1, <1>3 DEF Turns
<1>8. \A d \in Writes : step'[d] \in {"storing", "stored"} => ItsTurn(d)'
    BY <1>1, <1>2 DEF Turns, ItsTurn
<1>9. \A d \in DOMAIN aim' :
         /\ Task[d] = "add" => aim'[d].net = d /\ d \notin reset'
         /\ Task[d] = "remove" => d \in reset'
         /\ step'[d] = "dropping" => d \in reset'
    BY <1>2, <1>3, <1>4 DEF Turns
<1>10. reset' \subseteq DOMAIN aim' /\ orphaned' \subseteq DOMAIN aim'
    BY <1>4 DEF Turns
<1>. QED
    BY <1>1, <1>5, <1>6, <1>7, <1>8, <1>9, <1>10 DEF Turns

\* A call whose turn it is goes on.
LEMMA AdvanceKeepsTurns ==
    ASSUME NetVars, Turns, NEW c \in Writes, ItsTurn(c), c \in DOMAIN aim,
           NEW s \in {"storing", "stored"},
           step' = [step EXCEPT ![c] = s], UNCHANGED <<queue, aim, reset, orphaned>>
    PROVE  Turns'
<1>1. step'[c] = s /\ \A d \in Writes \ {c} : step'[d] = step[d]
    BY DEF NetVars
<1>2. \A i \in 1..Len(queue) : queue[i] \in Writes
    BY DEF NetVars
<1>3. DOMAIN aim' = {d \in Writes : step'[d] \in Going \cup {"dropping"}}
    BY <1>1 DEF Turns, Going
<1>4. \A i \in 1..Len(queue) : step'[queue[i]] \in Going
    BY <1>1, <1>2 DEF Turns, Going
<1>5. \A d \in Writes : step'[d] \in {"storing", "stored"} => ItsTurn(d)'
    BY <1>1 DEF Turns, ItsTurn
<1>. QED
    BY <1>1, <1>3, <1>4, <1>5 DEF Turns

\* A call lets go, to drop reservations or for good.
LEMMA LettingGoKeepsTurns ==
    ASSUME NetVars, Turns, NEW c \in Writes, c \in DOMAIN aim,
           ItsTurn(c) \/ step[c] = "dropping",
           Settle(c) \/ (Clear(c) /\ c \in reset)
    PROVE  Turns' /\ queue' \in Seq(Writes)
<1>1. /\ queue' \in Seq(Writes)
      /\ \A i \in 1..Len(queue') : queue'[i] # c /\ step[queue'[i]] \in Going
      /\ \A i, j \in 1..Len(queue') : queue'[i] = queue'[j] => i = j
      /\ \A d \in Writes \ {c} : step[d] \in {"storing", "stored"} => queue' = queue
    BY LeaveFacts DEF Settle, Clear
<1>2. /\ \A d \in Writes \ {c} : step'[d] = step[d]
      /\ \A i \in 1..Len(queue') : queue'[i] \in Writes
    BY <1>1 DEF NetVars, Settle, Clear
<1>3. \A i \in 1..Len(queue') : step'[queue'[i]] \in Going
    BY <1>1, <1>2
<1>4. step'[c] \in {"done", "dropping"}
    BY DEF Settle, Clear, NetVars
<1>5. \A d \in Writes : step'[d] \in {"storing", "stored"} => ItsTurn(d)'
    BY <1>1, <1>2, <1>4 DEF Turns, ItsTurn
<1>6. CASE Settle(c)
    <2>1. /\ step'[c] = "done" /\ DOMAIN aim' = DOMAIN aim \ {c}
          /\ \A d \in DOMAIN aim' : aim'[d] = aim[d]
          /\ reset' = reset \ {c} /\ orphaned' = orphaned \ {c}
        BY <1>6 DEF Settle, Without, NetVars
    <2>2. DOMAIN aim' = {d \in Writes : step'[d] \in Going \cup {"dropping"}}
        BY <1>2, <2>1 DEF Turns, Going
    <2>3. \A d \in DOMAIN aim' :
             /\ Task[d] = "add" => aim'[d].net = d /\ d \notin reset'
             /\ Task[d] = "remove" => d \in reset'
             /\ step'[d] = "dropping" => d \in reset'
        BY <1>2, <2>1, <2>2 DEF Turns
    <2>. QED
        BY <1>1, <1>3, <1>5, <2>1, <2>2, <2>3 DEF Turns
<1>7. CASE Clear(c) /\ c \in reset
    <2>1. step'[c] = "dropping" /\ UNCHANGED <<aim, reset, orphaned>>
        BY <1>7 DEF Clear, NetVars
    <2>2. DOMAIN aim' = {d \in Writes : step'[d] \in Going \cup {"dropping"}}
        BY <1>2, <2>1 DEF Turns, Going
    <2>. QED
        BY <1>1, <1>2, <1>3, <1>5, <1>7, <2>1, <2>2 DEF Turns
<1>. QED
    BY <1>6, <1>7

\* The writes keep their turns.
LEMMA WritesKeepTurns ==
    ASSUME NetworksAssumption, NetVars, Turns, NEW c \in Writes,
           \/ \E rec \in Asked[c] : BeginAdd(c, rec)
           \/ \E rec \in Asked[c], n \in Ids : BeginNetworkChange(c, n, rec)
           \/ Prepare(c) \/ WriteFails(c) \/ StoreNetwork(c) \/ ApplyNetwork(c)
           \/ RemoveNetwork(c) \/ ApplyFails(c) \/ DropReservations(c)
    PROVE  Turns' /\ queue' \in Seq(Writes)
<1>0. step[c] \in Going \cup {"dropping"} => c \in DOMAIN aim
    BY DEF Turns
<1>1. ASSUME NEW rec \in Asked[c], BeginAdd(c, rec)
      PROVE  Turns' /\ queue' \in Seq(Writes)
    <2>1. c \in Ids
        BY DEF Ids
    <2>2. /\ Task[c] = "add" /\ step[c] = "idle" /\ step' = [step EXCEPT ![c] = "queued"]
          /\ aim' = With(aim, c, [net |-> c, rec |-> rec])
          /\ queue' = Append(queue, c) /\ reset' = reset /\ orphaned' = orphaned
        BY <1>1 DEF BeginAdd
    <2>. QED
        BY <2>1, <2>2, EnterKeepsTurns
<1>2. ASSUME NEW rec \in Asked[c], NEW n \in Ids, BeginNetworkChange(c, n, rec)
      PROVE  Turns' /\ queue' \in Seq(Writes)
    <2>1. /\ Task[c] # "add" /\ step[c] = "idle" /\ step' = [step EXCEPT ![c] = "queued"]
          /\ aim' = With(aim, c, [net |-> n, rec |-> rec])
          /\ queue' = Append(queue, c) /\ orphaned' = orphaned
          /\ reset' = reset \/ reset' = reset \cup {c}
          /\ Task[c] = "remove" => reset' = reset \cup {c}
        BY <1>2 DEF BeginNetworkChange, Enqueue
    <2>. QED
        BY <2>1, EnterKeepsTurns
<1>3. CASE Prepare(c)
    BY <1>0, <1>3, AdvanceKeepsTurns DEF Prepare, Going, NetVars
<1>4. CASE StoreNetwork(c)
    BY <1>0, <1>4, AdvanceKeepsTurns DEF StoreNetwork, Going, NetVars, Turns
<1>5. CASE WriteFails(c) \/ ApplyFails(c) \/ DropReservations(c)
    <2>1. Settle(c) /\ (ItsTurn(c) \/ step[c] = "dropping")
        BY <1>5 DEF WriteFails, ApplyFails, DropReservations, Turns
    <2>2. c \in DOMAIN aim
        BY <1>0, <1>5 DEF WriteFails, ApplyFails, DropReservations, Going
    <2>. QED
        BY <2>1, <2>2, LettingGoKeepsTurns
<1>6. CASE ApplyNetwork(c) \/ RemoveNetwork(c)
    <2>1. step[c] = "stored" /\ ItsTurn(c)
        BY <1>6 DEF ApplyNetwork, RemoveNetwork, Turns
    <2>2. c \in DOMAIN aim
        BY <1>0, <2>1 DEF Going
    <2>3. Settle(c) \/ (Clear(c) /\ c \in reset)
        BY <1>6, <2>2 DEF ApplyNetwork, RemoveNetwork, Turns
    <2>. QED
        BY <2>1, <2>2, <2>3, LettingGoKeepsTurns
<1>. QED
    BY <1>1, <1>2, <1>3, <1>4, <1>5, <1>6

\* A crash ends every call.
LEMMA CrashKeepsTurns ==
    ASSUME NetVars, Turns, Crash
    PROVE  Turns' /\ queue' \in Seq(Writes) /\ DOMAIN aim' = {}
<1>1. queue' = <<>> /\ queue' \in Seq(Writes) /\ Len(queue') = 0
    BY EmptySeq DEF Crash
<1>2. aim' = <<>> /\ DOMAIN aim' = {} /\ reset' = {} /\ orphaned' = {}
    BY DEF Crash
<1>3. \A c \in Writes : step'[c] \in {"idle", "done"}
    BY DEF Crash
<1>4. {c \in Writes : step'[c] \in Going \cup {"dropping"}} = {}
    BY <1>3 DEF Going
<1>. QED
    BY <1>1, <1>2, <1>3, <1>4 DEF Turns

\* The other steps touch no write.
LEMMA OthersKeepTurns ==
    ASSUME NetVars, Turns,
           \/ OperationStep \/ OpeningStep \/ CloseClient \/ ReadNetworks \/ CreateClient
    PROVE  /\ Turns' /\ UNCHANGED <<queue, step, aim, reset>>
           /\ orphaned' \in {orphaned, DOMAIN aim}
<1>1. UNCHANGED <<queue, step, aim, reset>> /\ orphaned' \in {orphaned, DOMAIN aim}
    <2>1. CASE OperationStep
        BY <2>1 DEF OperationStep, BeginOperation, AddReservation, EndReservation,
                    EndOperation, GiveBack, SetNetwork, writeVars
    <2>2. CASE OpeningStep
        BY <2>2 DEF OpeningStep, BeginOpen, ReadReservations, PublishWallet, CloseWallet,
                    writeVars
    <2>3. CASE CloseClient \/ ReadNetworks \/ CreateClient
        BY <2>3 DEF CloseClient, ReadNetworks, CreateClient, writeVars
    <2>. QED
        BY <2>1, <2>2, <2>3
<1>2. \A c \in Writes : ItsTurn(c)' <=> ItsTurn(c)
    BY <1>1 DEF ItsTurn
<1>. QED
    BY <1>1, <1>2 DEF Turns

\* The writes keep the types and the tables.
LEMMA WritesKeepTypes ==
    ASSUME NetworksAssumption, NetVars, NetTables, Turns, queue' \in Seq(Writes),
           NEW c \in Writes,
           \/ \E rec \in Asked[c] : BeginAdd(c, rec)
           \/ \E rec \in Asked[c], n \in Ids : BeginNetworkChange(c, n, rec)
           \/ Prepare(c) \/ WriteFails(c) \/ StoreNetwork(c) \/ ApplyNetwork(c)
           \/ RemoveNetwork(c) \/ ApplyFails(c) \/ DropReservations(c)
    PROVE  NetVars' /\ NetTables'
<1>0. step[c] \in Going \cup {"dropping"} => c \in DOMAIN aim /\ aim[c].net \in Ids
    BY DEF Turns, NetVars
<1>1. ASSUME NEW rec \in Asked[c], BeginAdd(c, rec)
      PROVE  NetVars' /\ NetTables'
    <2>1. aim' = With(aim, c, [net |-> c, rec |-> rec]) /\ c \in Ids
        BY <1>1 DEF BeginAdd, Ids
    <2>2. DOMAIN aim' \subseteq Writes /\ \A d \in DOMAIN aim' : aim'[d].net \in Ids
        BY <2>1 DEF With, NetVars
    <2>. QED
        BY <1>1, <2>2 DEF BeginAdd, NetVars, NetTables, walletVars, pastVars, Steps
<1>2. ASSUME NEW rec \in Asked[c], NEW n \in Ids, BeginNetworkChange(c, n, rec)
      PROVE  NetVars' /\ NetTables'
    <2>1. aim' = With(aim, c, [net |-> n, rec |-> rec])
        BY <1>2 DEF BeginNetworkChange, Enqueue
    <2>2. DOMAIN aim' \subseteq Writes /\ \A d \in DOMAIN aim' : aim'[d].net \in Ids
        BY <2>1 DEF With, NetVars
    <2>. QED
        BY <1>2, <2>2 DEF BeginNetworkChange, Enqueue, NetVars, NetTables, walletVars,
                          pastVars, Steps
<1>3. CASE Prepare(c)
    BY <1>3 DEF Prepare, NetVars, NetTables, walletVars, pastVars, Steps
<1>4. CASE StoreNetwork(c)
    <2>1. step' \in [Writes -> Steps]
        BY <1>4 DEF StoreNetwork, NetVars, Steps
    <2>2. c \in DOMAIN aim /\ aim[c].net \in Ids
        BY <1>0, <1>4 DEF StoreNetwork, Going
    <2>3. Task[c] # "remove" => aim[c].net # Default
        BY <1>4, <2>2 DEF StoreNetwork, Turns, NetTables, NetworksAssumption
    <2>4. DOMAIN shelf' \subseteq Ids \ {Default}
        BY <1>4, <2>2, <2>3 DEF StoreNetwork, With, Without, NetTables
    <2>. QED
        BY <1>4, <2>1, <2>4 DEF StoreNetwork, NetVars, NetTables, walletVars
<1>5. ASSUME Settle(c) \/ Clear(c)
      PROVE  /\ step' \in [Writes -> Steps]
             /\ DOMAIN aim' \subseteq Writes /\ \A d \in DOMAIN aim' : aim'[d].net \in Ids
    BY <1>5 DEF Settle, Clear, Without, NetVars, Steps
<1>6. CASE WriteFails(c) \/ ApplyFails(c)
    BY <1>5, <1>6 DEF WriteFails, ApplyFails, NetVars, NetTables, walletVars, pastVars
<1>7. CASE DropReservations(c)
    <2>1. DOMAIN held' = Wallets /\ DOMAIN kept' = Wallets /\ DOMAIN outlived' = Wallets
        BY <1>7 DEF DropReservations, Outlive
    <2>2. Settle(c) /\ UNCHANGED <<client, fetched, registry, shelf, current, busy, work,
                                   strays, phase>>
        BY <1>7 DEF DropReservations
    <2>. QED
        BY <1>5, <2>1, <2>2 DEF NetVars, NetTables
<1>8. CASE ApplyNetwork(c)
    <2>1. aim[c].net \in Ids
        BY <1>0, <1>8 DEF ApplyNetwork, Going
    <2>2. DOMAIN registry' \subseteq Ids /\ Default \in DOMAIN registry'
        BY <1>8, <2>1 DEF ApplyNetwork, With, NetTables
    <2>. QED
        BY <1>5, <1>8, <2>2 DEF ApplyNetwork, NetVars, NetTables, walletVars, pastVars
<1>9. CASE RemoveNetwork(c)
    <2>1. DOMAIN registry' \subseteq Ids /\ Default \in DOMAIN registry'
        BY <1>9 DEF RemoveNetwork, Changeable, Without, NetTables
    <2>2. current' \in Ids
        BY <1>9 DEF RemoveNetwork, NetVars, Ids
    <2>. QED
        BY <1>5, <1>9, <2>1, <2>2 DEF RemoveNetwork, NetVars, NetTables, walletVars,
                                       pastVars
<1>. QED
    BY <1>1, <1>2, <1>3, <1>4, <1>6, <1>7, <1>8, <1>9

\* So do operations, openings and closings.
LEMMA OthersKeepTypesOfNetworks ==
    ASSUME NetworksAssumption, NetVars, NetTables, Turns,
           \/ OperationStep \/ OpeningStep \/ CloseClient \/ ReadNetworks \/ CreateClient
    PROVE  NetVars' /\ NetTables'
<1>0. UNCHANGED <<queue, step, aim>>
    BY OthersKeepTurns
<1>1. ASSUME NEW o \in Operations, NEW n \in Ids, BeginOperation(o, n)
      PROVE  NetVars' /\ NetTables'
    <2>1. /\ DOMAIN work' \subseteq Operations /\ strays' \subseteq DOMAIN work'
          /\ \A p \in DOMAIN work' : work'[p].net \in Ids
        BY <1>1 DEF BeginOperation, With, Reservation, NetVars
    <2>2. busy' \in [Ids -> Nat]
        BY <1>1 DEF BeginOperation, NetVars
    <2>. QED
        BY <1>0, <1>1, <2>1, <2>2 DEF BeginOperation, NetVars, NetTables, walletVars,
                                       pastVars
<1>2. ASSUME NEW o \in Operations, EndOperation(o)
      PROVE  NetVars' /\ NetTables'
    <2>1. /\ DOMAIN work' \subseteq Operations /\ strays' \subseteq DOMAIN work'
          /\ \A p \in DOMAIN work' : work'[p].net \in Ids
        BY <1>2 DEF EndOperation, GiveBack, Without, NetVars
    <2>2. busy' \in [Ids -> Nat]
        BY <1>2 DEF EndOperation, GiveBack, NetVars
    <2>. QED
        BY <1>0, <1>2, <2>1, <2>2 DEF EndOperation, GiveBack, NetVars, NetTables,
                                      walletVars,
                                       pastVars
<1>3. ASSUME NEW o \in Operations, NEW w \in Wallets, AddReservation(o, w)
      PROVE  NetVars' /\ NetTables'
    BY <1>0, <1>3 DEF AddReservation, NetVars, NetTables, pastVars
<1>4. ASSUME NEW w \in Wallets, NEW r, EndReservation(w, r)
      PROVE  NetVars' /\ NetTables'
    BY <1>0, <1>4 DEF EndReservation, NetVars, NetTables
<1>5. ASSUME NEW n \in Ids, SetNetwork(n)
      PROVE  NetVars' /\ NetTables'
    BY <1>0, <1>5 DEF SetNetwork, NetVars, NetTables, walletVars, pastVars
<1>6. ASSUME NEW w \in Wallets,
             BeginOpen(w) \/ ReadReservations(w) \/ PublishWallet(w) \/ CloseWallet(w)
      PROVE  NetVars' /\ NetTables'
    BY <1>0, <1>6 DEF BeginOpen, ReadReservations, PublishWallet, CloseWallet, NetVars,
                      NetTables, pastVars
<1>7. CASE CloseClient
    BY <1>0, <1>7 DEF CloseClient, Forget, NetVars, NetTables
<1>8. CASE ReadNetworks
    BY <1>0, <1>8 DEF ReadNetworks, NetVars, NetTables, walletVars, pastVars
<1>9. CASE CreateClient
    <2>1. DOMAIN registry' \subseteq Ids /\ Default \in DOMAIN registry'
        BY <1>9 DEF CreateClient, With, NetTables, Ids
    <2>2. DOMAIN fetched' = {}
        BY <1>9 DEF CreateClient
    <2>. QED
        BY <1>0, <1>9, <2>1, <2>2 DEF CreateClient, NetVars, NetTables, walletVars,
                                       pastVars, Ids
<1>. QED
    BY <1>1, <1>2, <1>3, <1>4, <1>5, <1>6, <1>7, <1>8, <1>9
    DEF OperationStep, OpeningStep

\* And crashes.
LEMMA CrashKeepsTypes ==
    ASSUME NetVars, NetTables, Turns, Crash
    PROVE  NetVars' /\ NetTables'
<1>1. queue' \in Seq(Writes) /\ DOMAIN aim' = {}
    BY CrashKeepsTurns
<1>2. DOMAIN work' = {} /\ strays' = {} /\ DOMAIN outlived' = Wallets
    BY DEF Crash, Outlive
<1>3. step' \in [Writes -> Steps]
    BY DEF Crash, Steps
<1>. QED
    BY <1>1, <1>2, <1>3 DEF Crash, Forget, NetVars, NetTables

\* What counts on a network is finite.
LEMMA CountFacts ==
    ASSUME NetworksAssumption, NetVars, NEW n
    PROVE  /\ IsFiniteSet(On(n)) /\ Cardinality(On(n)) \in Nat
           /\ Cardinality(On(n)) = 0 => On(n) = {}
<1>1. On(n) \subseteq Operations
    BY DEF NetVars, On, OfClient
<1>2. IsFiniteSet(On(n))
    BY <1>1, FS_Subset DEF NetworksAssumption
<1>. QED
    BY <1>2, FS_CardinalityType, FS_EmptySet

\* One more in a finite set, or one less.
LEMMA CountsFollow ==
    ASSUME NEW W, IsFiniteSet(W), NEW o
    PROVE  /\ Cardinality(W) \in Nat
           /\ o \notin W => Cardinality(W \cup {o}) = Cardinality(W) + 1
           /\ o \in W => Cardinality(W \ {o}) = Cardinality(W) - 1 /\ Cardinality(W) # 0
<1>1. Cardinality(W) \in Nat
    BY FS_CardinalityType
<1>2. o \notin W => Cardinality(W \cup {o}) = Cardinality(W) + 1
    BY FS_AddElement
<1>3. o \in W => Cardinality(W \ {o}) = Cardinality(W) - 1 /\ Cardinality(W) # 0
    BY <1>1, FS_RemoveElement, FS_EmptySet
<1>. QED
    BY <1>1, <1>2, <1>3

\* No operation runs on a network that is being changed, unless its counter
\* has been lowered.
LEMMA ChangedIsUnused ==
    ASSUME NetworksAssumption, NetVars, Scopes, NEW c \in DOMAIN aim, Task[c] # "add",
           NEW o \in OfClient, work[o].net = aim[c].net
    PROVE  aim[c].net \in lowered
<1>. DEFINE n == aim[c].net
<1>1. n \in Ids /\ busy[n] = 0 /\ Counted(n)
    BY DEF NetVars, Scopes
<1>2. o \in On(n)
    BY DEF On
<1>. QED
    BY <1>1, <1>2, CountFacts DEF Counted

\* The writes keep their scopes: a change begins on an idle network that no
\* other change has.
LEMMA WritesKeepScopes ==
    ASSUME NetworksAssumption, NetVars, Turns, Scopes, NEW c \in Writes,
           \/ \E rec \in Asked[c] : BeginAdd(c, rec)
           \/ \E rec \in Asked[c], n \in Ids : BeginNetworkChange(c, n, rec)
           \/ Prepare(c) \/ WriteFails(c) \/ StoreNetwork(c) \/ ApplyNetwork(c)
           \/ RemoveNetwork(c) \/ ApplyFails(c) \/ DropReservations(c)
    PROVE  Scopes'
<1>1. UNCHANGED <<client, busy, work, strays, lowered>>
    BY DEF BeginAdd, BeginNetworkChange, Enqueue, Prepare, WriteFails, StoreNetwork,
           ApplyNetwork, RemoveNetwork, ApplyFails, DropReservations, pastVars
<1>. USE DEF Counted, On, OfClient
<1>2. ASSUME DOMAIN aim' \subseteq DOMAIN aim, \A d \in DOMAIN aim' : aim'[d] = aim[d]
      PROVE  Scopes'
    BY <1>1, <1>2 DEF Scopes
<1>3. ASSUME NEW rec \in Asked[c], BeginAdd(c, rec)
      PROVE  Scopes'
    <2>1. /\ Task[c] = "add" /\ DOMAIN aim' = DOMAIN aim \cup {c}
          /\ \A d \in DOMAIN aim' \ {c} : aim'[d] = aim[d]
        BY <1>3 DEF BeginAdd, With
    <2>. QED
        BY <1>1, <2>1 DEF Scopes
<1>4. ASSUME NEW rec \in Asked[c], NEW n \in Ids, BeginNetworkChange(c, n, rec)
      PROVE  Scopes'
    <2>1. /\ DOMAIN aim' = DOMAIN aim \cup {c} /\ aim'[c].net = n
          /\ \A d \in DOMAIN aim' \ {c} : aim'[d] = aim[d]
          /\ ~Reconfiguring(n) /\ busy[n] = 0
        BY <1>4 DEF BeginNetworkChange, Enqueue, With, Idle
    <2>3. \A d, e \in DOMAIN aim' :
             Task[d] # "add" /\ Task[e] # "add" /\ aim'[d].net = aim'[e].net => d = e
        BY <2>1 DEF Scopes, Reconfiguring
    <2>4. \A d \in DOMAIN aim' : Task[d] # "add" => busy[aim'[d].net] = 0
        BY <2>1 DEF Scopes
    <2>. QED
        BY <1>1, <2>3, <2>4 DEF Scopes
<1>5. CASE Prepare(c) \/ StoreNetwork(c)
    BY <1>2, <1>5 DEF Prepare, StoreNetwork
<1>6. CASE WriteFails(c) \/ ApplyFails(c) \/ DropReservations(c)
    BY <1>2, <1>6 DEF WriteFails, ApplyFails, DropReservations, Settle, Without
<1>7. CASE ApplyNetwork(c) \/ RemoveNetwork(c)
    BY <1>2, <1>7 DEF ApplyNetwork, RemoveNetwork, Settle, Clear, Without
<1>. QED
    BY <1>3, <1>4, <1>5, <1>6, <1>7

\* So do the others: no operation begins on a network that is being changed,
\* and the counters of a client end with it.
LEMMA OthersKeepScopes ==
    ASSUME NetworksAssumption, NetVars, Turns, Scopes,
           \/ OperationStep \/ OpeningStep
           \/ CloseClient \/ Crash \/ ReadNetworks \/ CreateClient
    PROVE  Scopes'
<1>1. ASSUME NEW o \in Operations, NEW n \in Ids, BeginOperation(o, n)
      PROVE  Scopes'
    <2>1. /\ o \notin DOMAIN work /\ UNCHANGED <<client, aim, strays, lowered>>
          /\ DOMAIN work' = DOMAIN work \cup {o} /\ work'[o].net = n
          /\ \A p \in DOMAIN work : work'[p] = work[p]
          /\ busy' = [busy EXCEPT ![n] = @ + 1] /\ ~Reconfiguring(n)
          /\ client = "ready"
        BY <1>1 DEF BeginOperation, With, Reservation, writeVars, pastVars
    <2>2. ASSUME NEW m \in Ids PROVE Counted(m)'
        <3>1. /\ IsFiniteSet(On(m)) /\ busy[m] \in Nat /\ Counted(m)
              /\ o \notin On(m)
            BY <2>1, CountFacts DEF Scopes, NetVars, On, OfClient
        <3>2. On(m)' = IF m = n THEN On(m) \cup {o} ELSE On(m)
            BY <2>1 DEF On, OfClient, NetVars
        <3>3. busy'[m] = IF m = n THEN busy[m] + 1 ELSE busy[m]
            BY <2>1 DEF NetVars
        <3>4. /\ Cardinality(On(m)) \in Nat
              /\ Cardinality(On(m) \cup {o}) = Cardinality(On(m)) + 1
            BY <3>1, CountsFollow
        <3>. QED
            BY <2>1, <3>1, <3>2, <3>3, <3>4 DEF Counted
    <2>3. \A c \in DOMAIN aim : Task[c] # "add" => busy'[aim[c].net] = 0
        BY <2>1 DEF Scopes, Reconfiguring, NetVars
    <2>. QED
        BY <2>1, <2>2, <2>3 DEF Scopes
<1>2. ASSUME NEW o \in Operations, EndOperation(o)
      PROVE  Scopes'
    <2>. DEFINE n == work[o].net
                Less(b) == IF b > 0 THEN b - 1 ELSE 0
    <2>1. /\ o \in DOMAIN work /\ UNCHANGED <<client, aim>> /\ n \in Ids
          /\ DOMAIN work' = DOMAIN work \ {o} /\ strays' = strays \ {o}
          /\ \A p \in DOMAIN work' : work'[p] = work[p]
          /\ \A m \in Ids : busy'[m] = IF m = n THEN Less(busy[m]) ELSE busy[m]
          /\ lowered' = IF o \in strays /\ busy[n] > 0 THEN lowered \cup {n} ELSE lowered
        BY <1>2 DEF EndOperation, GiveBack, Without, writeVars, NetVars
    <2>2. ASSUME NEW m \in Ids PROVE Counted(m)'
        <3>1. IsFiniteSet(On(m)) /\ busy[m] \in Nat /\ Counted(m)
            BY CountFacts DEF Scopes, NetVars
        <3>2. /\ Cardinality(On(m)) \in Nat
              /\ o \in On(m) => /\ Cardinality(On(m) \ {o}) = Cardinality(On(m)) - 1
                                /\ Cardinality(On(m)) # 0
            BY <3>1, CountsFollow
        <3>3. CASE m = n /\ o \notin strays
            <4>1. On(m)' = On(m) \ {o} /\ o \in On(m)
                BY <2>1, <3>3 DEF On, OfClient
            <4>. QED
                BY <2>1, <3>1, <3>2, <3>3, <4>1 DEF Counted
        <3>4. CASE m = n /\ o \in strays
            <4>1. On(m)' = On(m)
                BY <2>1, <3>4 DEF On, OfClient
            <4>. QED
                BY <2>1, <3>1, <3>2, <3>4, <4>1 DEF Counted
        <3>5. CASE m # n
            <4>1. On(m)' = On(m)
                BY <2>1, <3>5 DEF On, OfClient
            <4>. QED
                BY <2>1, <3>1, <3>5, <4>1 DEF Counted
        <3>. QED
            BY <3>3, <3>4, <3>5
    <2>3. \A c \in DOMAIN aim : Task[c] # "add" => busy'[aim[c].net] = 0
        BY <2>1 DEF Scopes, NetVars
    <2>. QED
        BY <2>1, <2>2, <2>3 DEF Scopes, OfClient
<1>3. ASSUME UNCHANGED <<client, aim, busy, work, strays, lowered>>
      PROVE  Scopes'
    BY <1>3 DEF Scopes, Counted, On, OfClient
<1>4. ASSUME NEW o \in Operations, NEW w \in Wallets, AddReservation(o, w)
      PROVE  Scopes'
    BY <1>3, <1>4 DEF AddReservation, writeVars, pastVars
<1>5. ASSUME NEW w \in Wallets, NEW r, EndReservation(w, r)
      PROVE  Scopes'
    BY <1>3, <1>5 DEF EndReservation, writeVars
<1>6. ASSUME NEW n \in Ids, SetNetwork(n)
      PROVE  Scopes'
    BY <1>3, <1>6 DEF SetNetwork, writeVars, pastVars
<1>7. CASE OpeningStep
    BY <1>3, <1>7 DEF OpeningStep, BeginOpen, ReadReservations, PublishWallet,
                      CloseWallet, writeVars, pastVars
<1>8. CASE CloseClient \/ Crash
    <2>1. /\ OfClient' = {} /\ busy' = [n \in Ids |-> 0]
          /\ aim' = aim \/ DOMAIN aim' = {}
        BY <1>8 DEF CloseClient, Crash, Forget, OfClient
    <2>2. ASSUME NEW n \in Ids PROVE Counted(n)'
        <3>1. On(n)' = {}
            BY <2>1 DEF On
        <3>2. Cardinality(On(n))' = 0
            BY <3>1, FS_EmptySet
        <3>. QED
            BY <2>1, <3>2 DEF Counted
    <2>3. \A c \in DOMAIN aim' : Task[c] # "add" => busy'[aim'[c].net] = 0
        BY <2>1 DEF NetVars
    <2>. QED
        BY <2>1, <2>2, <2>3 DEF Scopes
<1>9. CASE ReadNetworks \/ CreateClient
    <2>1. OfClient = {} /\ UNCHANGED <<aim, busy, work, strays, lowered>>
        BY <1>9 DEF ReadNetworks, CreateClient, writeVars, pastVars, Scopes
    <2>. QED
        BY <2>1 DEF Scopes, Counted, On, OfClient
<1>. QED
    BY <1>1, <1>2, <1>4, <1>5, <1>6, <1>7, <1>8, <1>9 DEF OperationStep

NetCore == NetVars /\ NetTables /\ Turns /\ Scopes

\* Every step keeps types, turns and scopes.
LEMMA CoreStep ==
    ASSUME NetworksAssumption, NetCore, [NetworksNext]_networkVars
    PROVE  NetCore'
<1>. USE DEF NetCore
<1>1. ASSUME NEW c \in Writes,
             \/ \E rec \in Asked[c] : BeginAdd(c, rec)
             \/ \E rec \in Asked[c], n \in Ids : BeginNetworkChange(c, n, rec)
             \/ Prepare(c) \/ WriteFails(c) \/ StoreNetwork(c) \/ ApplyNetwork(c)
             \/ RemoveNetwork(c) \/ ApplyFails(c) \/ DropReservations(c)
      PROVE  NetCore'
    <2>1. Turns' /\ queue' \in Seq(Writes)
        BY <1>1, WritesKeepTurns
    <2>2. NetVars' /\ NetTables'
        BY <1>1, <2>1, WritesKeepTypes
    <2>3. Scopes'
        BY <1>1, WritesKeepScopes
    <2>. QED
        BY <2>1, <2>2, <2>3
<1>2. CASE OperationStep \/ OpeningStep \/ CloseClient \/ ReadNetworks \/ CreateClient
    BY <1>2, OthersKeepTurns, OthersKeepTypesOfNetworks, OthersKeepScopes
<1>3. CASE Crash
    BY <1>3, CrashKeepsTurns, CrashKeepsTypes, OthersKeepScopes
<1>4. CASE UNCHANGED networkVars
    BY <1>4 DEF networkVars, writeVars, walletVars, pastVars, NetVars, NetTables, Turns,
                Scopes, Counted, On, OfClient, ItsTurn
<1>. QED
    BY <1>1, <1>2, <1>3, <1>4 DEF NetworksNext, WriteStep

\* No network is written and nothing runs at first.
LEMMA InitialCore ==
    ASSUME NetworksAssumption, NetworksInit
    PROVE  NetCore
<1>1. queue \in Seq(Writes) /\ Len(queue) = 0 /\ DOMAIN aim = {} /\ DOMAIN work = {}
      /\ DOMAIN fetched = {} /\ strays = {}
    BY EmptySeq DEF NetworksInit
<1>2. NetVars
    BY <1>1 DEF NetworksInit, NetVars, Steps, Ids
<1>3. NetTables
    BY <1>1 DEF NetworksInit, NetTables, With, Ids, NetworksAssumption
<1>4. Turns
    <2>1. {c \in Writes : step[c] \in Going \cup {"dropping"}} = {}
        BY DEF NetworksInit, Going
    <2>. QED
        BY <1>1, <2>1 DEF NetworksInit, Turns
<1>5. Scopes
    <2>1. OfClient = {}
        BY <1>1 DEF OfClient
    <2>2. ASSUME NEW n \in Ids PROVE Counted(n)
        <3>1. On(n) = {}
            BY <2>1 DEF On
        <3>2. Cardinality(On(n)) = 0
            BY <3>1, FS_EmptySet
        <3>. QED
            BY <3>2 DEF Counted, NetworksInit
    <2>. QED
        BY <1>1, <2>1, <2>2 DEF NetworksInit, Scopes
<1>. QED
    BY <1>2, <1>3, <1>4, <1>5 DEF NetCore

\* An added network is nowhere before its record is stored, and until its call
\* is through every copy of it is the record of the call.
Added ==
    \A c \in Writes : Task[c] = "add" =>
        /\ step[c] \in {"idle", "queued", "storing"} =>
              c \notin DOMAIN registry \cup DOMAIN shelf \cup DOMAIN fetched
        /\ step[c] = "stored" =>
              /\ (c \in DOMAIN registry => registry[c] = aim[c].rec)
              /\ (c \in DOMAIN shelf => shelf[c] = aim[c].rec)
              /\ (c \in DOMAIN fetched => fetched[c] = aim[c].rec)

\* The writes keep it: only the call itself adds the network.
LEMMA WritesKeepAdded ==
    ASSUME NetworksAssumption, NetCore, Added, NEW c \in Writes,
           \/ \E rec \in Asked[c] : BeginAdd(c, rec)
           \/ \E rec \in Asked[c], n \in Ids : BeginNetworkChange(c, n, rec)
           \/ Prepare(c) \/ WriteFails(c) \/ StoreNetwork(c) \/ ApplyNetwork(c)
           \/ RemoveNetwork(c) \/ ApplyFails(c) \/ DropReservations(c)
    PROVE  Added'
<1>0. /\ step \in [Writes -> Steps] /\ DOMAIN aim \subseteq Writes
      /\ step[c] \in Going \cup {"dropping"} => c \in DOMAIN aim
      /\ \A d \in Writes \ {c} : step[d] = "stored" => d \in DOMAIN aim
    BY DEF NetCore, NetVars, Turns, Going
<1>1. ASSUME step[c] = "idle", step' = [step EXCEPT ![c] = "queued"],
             NEW rec, aim' = With(aim, c, rec), UNCHANGED <<registry, shelf, fetched>>
      PROVE  Added'
    BY <1>0, <1>1 DEF Added, With
<1>2. CASE \E rec \in Asked[c] : BeginAdd(c, rec)
    BY <1>1, <1>2 DEF BeginAdd
<1>3. CASE \E rec \in Asked[c], n \in Ids : BeginNetworkChange(c, n, rec)
    BY <1>1, <1>3 DEF BeginNetworkChange, Enqueue
<1>4. CASE Prepare(c)
    BY <1>0, <1>4 DEF Prepare, Added
<1>5. ASSUME Settle(c) \/ Clear(c)
      PROVE  /\ step'[c] \in {"done", "dropping"}
             /\ \A d \in Writes \ {c} : step'[d] = step[d]
             /\ \A d \in DOMAIN aim \ {c} : aim'[d] = aim[d]
    BY <1>0, <1>5 DEF Settle, Clear, Without
<1>6. CASE WriteFails(c) \/ ApplyFails(c) \/ DropReservations(c)
    <2>1. Settle(c) /\ UNCHANGED <<registry, shelf, fetched>>
        BY <1>6 DEF WriteFails, ApplyFails, DropReservations
    <2>. QED
        BY <1>0, <1>5, <2>1 DEF Added
<1>7. CASE StoreNetwork(c)
    <2>1. \A d \in Writes \ {c} : step[d] \notin {"stored", "storing"}
        BY <1>7 DEF StoreNetwork, NetCore, Turns, ItsTurn
    <2>2. c \in DOMAIN aim /\ (Task[c] = "add" => aim[c].net = c)
        BY <1>0, <1>7 DEF StoreNetwork, Going, NetCore, Turns
    <2>3. step'[c] = "stored" /\ \A d \in Writes \ {c} : step'[d] = step[d]
        BY <1>0, <1>7 DEF StoreNetwork
    <2>4. Task[c] = "add" => c \in DOMAIN shelf' /\ shelf'[c] = aim[c].rec
        BY <1>7, <2>2 DEF StoreNetwork, With
    <2>5. \A d \in Writes \ {c} : d \in DOMAIN shelf' => d \in DOMAIN shelf
        BY <1>7, <2>2 DEF StoreNetwork, With, Without, NetworksAssumption
    <2>6. UNCHANGED <<registry, fetched, aim>> /\ step[c] = "storing"
        BY <1>7 DEF StoreNetwork
    <2>. QED
        BY <2>1, <2>3, <2>4, <2>5, <2>6 DEF Added
<1>8. CASE ApplyNetwork(c) \/ RemoveNetwork(c)
    <2>1. \A d \in Writes \ {c} : step[d] \notin {"stored", "storing"}
        BY <1>8 DEF ApplyNetwork, RemoveNetwork, NetCore, Turns, ItsTurn
    <2>2. c \in DOMAIN aim /\ (Task[c] = "add" => aim[c].net = c)
        BY <1>0, <1>8 DEF ApplyNetwork, RemoveNetwork, Going, NetCore, Turns
    <2>3. Settle(c) \/ Clear(c)
        BY <1>8 DEF ApplyNetwork, RemoveNetwork
    <2>4. \A d \in Writes \ {c} : d \in DOMAIN registry' => d \in DOMAIN registry
        BY <1>8, <2>2
        DEF ApplyNetwork, RemoveNetwork, With, Without, Allowed, Changeable,
            NetworksAssumption
    <2>5. UNCHANGED <<shelf, fetched>>
        BY <1>8 DEF ApplyNetwork, RemoveNetwork
    <2>. QED
        BY <1>5, <2>1, <2>3, <2>4, <2>5 DEF Added
<1>. QED
    BY <1>2, <1>3, <1>4, <1>6, <1>7, <1>8

\* The others copy networks from storage to memory.
LEMMA OthersKeepAdded ==
    ASSUME NetworksAssumption, NetCore, Added,
           \/ OperationStep \/ OpeningStep
           \/ CloseClient \/ Crash \/ ReadNetworks \/ CreateClient
    PROVE  Added'
<1>1. ASSUME UNCHANGED <<step, aim, registry, shelf, fetched>>
      PROVE  Added'
    BY <1>1 DEF Added
<1>2. CASE OperationStep
    BY <1>1, <1>2 DEF OperationStep, BeginOperation, AddReservation, EndReservation,
                      EndOperation, GiveBack, SetNetwork, writeVars
<1>3. CASE OpeningStep
    BY <1>1, <1>3 DEF OpeningStep, BeginOpen, ReadReservations, PublishWallet,
                      CloseWallet, writeVars
<1>4. CASE CloseClient
    BY <1>1, <1>4 DEF CloseClient, Forget
<1>5. CASE Crash
    BY <1>5 DEF Crash, Forget, Added
<1>6. CASE ReadNetworks
    BY <1>6 DEF ReadNetworks, writeVars, Added
<1>7. CASE CreateClient
    <2>1. \A c \in Writes : c # Default
        BY DEF NetworksAssumption
    <2>2. /\ DOMAIN fetched' = {} /\ DOMAIN registry' = DOMAIN fetched \cup {Default}
          /\ \A n \in DOMAIN fetched \ {Default} : registry'[n] = fetched[n]
          /\ UNCHANGED <<step, aim, shelf>>
        BY <1>7 DEF CreateClient, With, writeVars
    <2>3. ASSUME NEW c \in Writes, c \in DOMAIN registry'
          PROVE  c \in DOMAIN fetched /\ registry'[c] = fetched[c]
        BY <2>1, <2>2, <2>3
    <2>. QED
        BY <2>2, <2>3 DEF Added
<1>. QED
    BY <1>2, <1>3, <1>4, <1>5, <1>6, <1>7

\* An operation keeps its network: no change has it, and an addition is of none
\* it could run on.
LEMMA WritesKeepNetworks ==
    ASSUME NetworksAssumption, NetCore, Added, OperationsKeepTheirNetwork,
           NEW c \in Writes,
           \/ \E rec \in Asked[c] : BeginAdd(c, rec)
           \/ \E rec \in Asked[c], n \in Ids : BeginNetworkChange(c, n, rec)
           \/ Prepare(c) \/ WriteFails(c) \/ StoreNetwork(c) \/ ApplyNetwork(c)
           \/ RemoveNetwork(c) \/ ApplyFails(c) \/ DropReservations(c)
    PROVE  OperationsKeepTheirNetwork'
<1>. USE DEF OperationsKeepTheirNetwork, OfClient
<1>1. ASSUME UNCHANGED <<client, current, registry, work, strays, lowered>>
      PROVE  OperationsKeepTheirNetwork'
    BY <1>1 DEF Reservation
<1>2. CASE \/ \E rec \in Asked[c] : BeginAdd(c, rec)
           \/ \E rec \in Asked[c], n \in Ids : BeginNetworkChange(c, n, rec)
           \/ Prepare(c) \/ WriteFails(c) \/ StoreNetwork(c)
           \/ ApplyFails(c) \/ DropReservations(c)
    BY <1>1, <1>2 DEF BeginAdd, BeginNetworkChange, Enqueue, Prepare, WriteFails,
                      StoreNetwork, ApplyFails, DropReservations, pastVars
<1>3. CASE ApplyNetwork(c)
    <2>1. /\ UNCHANGED <<client, current, work, strays, lowered>>
          /\ registry' = With(registry, aim[c].net, aim[c].rec)
        BY <1>3 DEF ApplyNetwork, pastVars
    <2>2. c \in DOMAIN aim /\ step[c] = "stored"
        BY <1>3 DEF ApplyNetwork, NetCore, Turns, Going
    <2>3. ASSUME client = "ready", NEW o \in OfClient, work[o].net \notin lowered
          PROVE  /\ work[o].net \in DOMAIN registry'
                 /\ registry'[work[o].net] = registry[work[o].net]
        <3>1. work[o].net \in DOMAIN registry
            BY <2>3
        <3>2. CASE work[o].net # aim[c].net
            BY <2>1, <3>1, <3>2 DEF With
        <3>3. CASE work[o].net = aim[c].net
            <4>1. Task[c] = "add"
                BY <2>2, <2>3, <3>3, ChangedIsUnused DEF NetCore
            <4>2. aim[c].net = c /\ registry[c] = aim[c].rec
                BY <2>2, <3>1, <3>3, <4>1 DEF NetCore, Turns, Added
            <4>. QED
                BY <2>1, <3>1, <3>3, <4>2 DEF With
        <3>. QED
            BY <3>2, <3>3
    <2>4. current \in DOMAIN registry => current \in DOMAIN registry'
        BY <2>1 DEF With
    <2>. QED
        BY <2>1, <2>3, <2>4 DEF Reservation
<1>4. CASE RemoveNetwork(c)
    <2>1. /\ UNCHANGED <<client, work, strays, lowered>>
          /\ registry' = Without(registry, aim[c].net)
          /\ current' = IF current = aim[c].net THEN Default ELSE current
        BY <1>4 DEF RemoveNetwork, pastVars
    <2>2. c \in DOMAIN aim /\ Task[c] = "remove"
        BY <1>4 DEF RemoveNetwork, NetCore, Turns, Going
    <2>3. \A o \in OfClient : work[o].net = aim[c].net => aim[c].net \in lowered
        BY <2>2, ChangedIsUnused DEF NetCore
    <2>4. Default \in DOMAIN registry'
        BY <1>4, <2>1 DEF RemoveNetwork, Changeable, Without, NetCore, NetTables
    <2>. QED
        BY <2>1, <2>3, <2>4 DEF Reservation, Without
<1>. QED
    BY <1>2, <1>3, <1>4

\* It is one of its client only, and the selection is of a network there is.
LEMMA OthersKeepNetworks ==
    ASSUME NetworksAssumption, NetCore, OperationsKeepTheirNetwork,
           \/ OperationStep \/ OpeningStep
           \/ CloseClient \/ Crash \/ ReadNetworks \/ CreateClient
    PROVE  OperationsKeepTheirNetwork'
<1>. USE DEF OperationsKeepTheirNetwork, OfClient
<1>1. ASSUME UNCHANGED <<client, current, registry, work, strays, lowered>>
      PROVE  OperationsKeepTheirNetwork'
    BY <1>1 DEF Reservation
<1>2. ASSUME NEW o \in Operations, NEW n \in Ids, BeginOperation(o, n)
      PROVE  OperationsKeepTheirNetwork'
    <2>1. /\ UNCHANGED <<client, current, registry, strays, lowered>> /\ client = "ready"
          /\ DOMAIN work' = DOMAIN work \cup {o} /\ work'[o] = Reservation(n)
          /\ \A p \in DOMAIN work : p # o /\ work'[p] = work[p]
          /\ n \in DOMAIN registry
        BY <1>2 DEF BeginOperation, With, pastVars
    <2>2. Reservation(n).net = n
        BY DEF Reservation
    <2>. QED
        BY <2>1, <2>2 DEF Reservation
<1>3. ASSUME NEW o \in Operations, EndOperation(o)
      PROVE  OperationsKeepTheirNetwork'
    <2>1. /\ UNCHANGED <<client, current, registry>> /\ lowered \subseteq lowered'
          /\ OfClient' = OfClient \ {o}
          /\ \A p \in OfClient \ {o} : work'[p] = work[p]
        BY <1>3 DEF EndOperation, GiveBack, Without
    <2>. QED
        BY <2>1 DEF Reservation
<1>4. ASSUME NEW o \in Operations, NEW w \in Wallets, AddReservation(o, w)
      PROVE  OperationsKeepTheirNetwork'
    BY <1>1, <1>4 DEF AddReservation, pastVars
<1>5. ASSUME NEW w \in Wallets, NEW r, EndReservation(w, r)
      PROVE  OperationsKeepTheirNetwork'
    BY <1>1, <1>5 DEF EndReservation
<1>6. ASSUME NEW n \in Ids, SetNetwork(n)
      PROVE  OperationsKeepTheirNetwork'
    BY <1>6 DEF SetNetwork, Reservation, pastVars
<1>7. CASE OpeningStep
    BY <1>1, <1>7 DEF OpeningStep, BeginOpen, ReadReservations, PublishWallet,
                      CloseWallet, pastVars
<1>8. CASE CloseClient \/ Crash
    BY <1>8 DEF CloseClient, Crash, Forget
<1>9. CASE ReadNetworks
    BY <1>9 DEF ReadNetworks
<1>10. CASE CreateClient
    <2>1. OfClient' = {} /\ current' \in DOMAIN registry'
        BY <1>10 DEF CreateClient, With, NetCore, Scopes
    <2>. QED
        BY <2>1
<1>. QED
    BY <1>2, <1>3, <1>4, <1>5, <1>6, <1>7, <1>8, <1>9, <1>10 DEF OperationStep

-----------------------------------------------------------------------------
(* Memory and storage of the networks                                      *)

\* The networks that the next client will have, and that it may have them.
Merged == With(shelf, Default, DefaultRecord)
Distinct(t) ==
    \A m, n \in DOMAIN t : m # n => t[m].name # t[n].name /\ t[m].config # t[n].config
NewRecord(n, rec, t) ==
    \A m \in DOMAIN t \ {n} : t[m].name # rec.name /\ t[m].config # rec.config

\* The write c has reached storage, and memory can follow.
Written(c) ==
    LET n == aim[c].net IN
    IF Task[c] = "remove"
    THEN Merged = IF Changeable(n) THEN Without(registry, n) ELSE registry
    ELSE Merged = With(registry, n, aim[c].rec) /\ (Task[c] = "update" => Changeable(n))

\* As long as no client was closed in the middle of a write, storage is what
\* memory is, or one write ahead of it.
OneAhead ==
    ~torn =>
        /\ Distinct(Merged)
        /\ client = "reading" => fetched = shelf
        /\ client = "ready" /\ (\A c \in Writes : step[c] # "stored") => registry = Merged
        /\ \A c \in Writes : step[c] = "storing" /\ Task[c] # "remove" =>
              /\ NewRecord(aim[c].net, aim[c].rec, Merged)
              /\ Task[c] = "update" => aim[c].net \in DOMAIN Merged \ {Default}
        /\ \A c \in Writes : step[c] = "stored" => client = "ready" /\ Written(c)

\* Two changes of different networks may be made in either order.
LEMMA ChangesCommute ==
    ASSUME NEW t, NEW x, NEW y, x # y, NEW u, NEW v
    PROVE  With(With(t, x, u), y, v) = With(With(t, y, v), x, u)
BY DEF With

\* Records stay distinct with a fresh one, and without one.
LEMMA DistinctChanges ==
    ASSUME NEW t, Distinct(t), NEW n, NEW rec
    PROVE  /\ NewRecord(n, rec, t) => Distinct(With(t, n, rec))
           /\ Distinct(Without(t, n))
<1>1. ASSUME NewRecord(n, rec, t) PROVE Distinct(With(t, n, rec))
    BY <1>1 DEF Distinct, NewRecord, With
<1>2. Distinct(Without(t, n))
    BY DEF Distinct, Without
<1>. QED
    BY <1>1, <1>2

\* A record is fresh for the others of a table of distinct ones.
LEMMA DistinctIsFresh ==
    ASSUME NEW t, NEW n, NEW rec, Distinct(With(t, n, rec))
    PROVE  NewRecord(n, rec, t)
<1>. SUFFICES ASSUME NEW m \in DOMAIN t \ {n}
              PROVE  t[m].name # rec.name /\ t[m].config # rec.config
    BY DEF NewRecord
<1>1. /\ m \in DOMAIN With(t, n, rec) /\ n \in DOMAIN With(t, n, rec)
      /\ With(t, n, rec)[m] = t[m] /\ With(t, n, rec)[n] = rec
    BY DEF With
<1>. QED
    BY <1>1 DEF Distinct

\* A step that touches no table and brings no write to storage or from there.
LEMMA StillAhead ==
    ASSUME OneAhead, ~torn, UNCHANGED <<client, registry, shelf, fetched>>,
           \A d \in Writes : step'[d] \in {"storing", "stored"} =>
               step'[d] = step[d] /\ aim'[d] = aim[d],
           \A d \in Writes : step[d] = "stored" => step'[d] = "stored"
    PROVE  OneAhead'
<1>1. Merged' = Merged
    BY DEF Merged
<1>2. \A d \in Writes : step'[d] = "stored" => (Written(d)' <=> Written(d))
    BY <1>1 DEF Written, Changeable
<1>. QED
    BY <1>1, <1>2 DEF OneAhead

\* The writes keep storage at most one ahead.
LEMMA WritesStayAhead ==
    ASSUME NetworksAssumption, NetCore, OneAhead, ~torn', NEW c \in Writes,
           \/ \E rec \in Asked[c] : BeginAdd(c, rec)
           \/ \E rec \in Asked[c], n \in Ids : BeginNetworkChange(c, n, rec)
           \/ Prepare(c) \/ WriteFails(c) \/ StoreNetwork(c) \/ ApplyNetwork(c)
           \/ RemoveNetwork(c) \/ ApplyFails(c) \/ DropReservations(c)
    PROVE  OneAhead'
<1>. DEFINE n == aim[c].net
            rec == aim[c].rec
<1>0. /\ step \in [Writes -> Steps] /\ DOMAIN aim \subseteq Writes
      /\ Default \in DOMAIN registry
      /\ Default \notin DOMAIN shelf
      /\ step[c] \in Going => c \in DOMAIN aim
      /\ \A d \in Writes : step[d] \in {"storing", "stored"} => d \in DOMAIN aim
      /\ ItsTurn(c) => \A d \in Writes \ {c} : step[d] \notin {"storing", "stored"}
    BY DEF NetCore, NetVars, NetTables, Turns, Going, ItsTurn
<1>1. ~torn
    BY DEF BeginAdd, BeginNetworkChange, Enqueue, Prepare, WriteFails, StoreNetwork,
           ApplyNetwork, RemoveNetwork, ApplyFails, DropReservations, pastVars
<1>2. ASSUME step[c] = "idle", step' = [step EXCEPT ![c] = "queued"],
             NEW r, aim' = With(aim, c, r),
             UNCHANGED <<client, registry, shelf, fetched>>
      PROVE  OneAhead'
    BY <1>0, <1>1, <1>2, StillAhead DEF With
<1>3. CASE \E r \in Asked[c] : BeginAdd(c, r)
    BY <1>2, <1>3 DEF BeginAdd
<1>4. CASE \E r \in Asked[c], m \in Ids : BeginNetworkChange(c, m, r)
    BY <1>2, <1>4 DEF BeginNetworkChange, Enqueue
<1>5. ASSUME Settle(c) \/ Clear(c)
      PROVE  /\ step'[c] \in {"done", "dropping"}
             /\ \A d \in Writes \ {c} : step'[d] = step[d]
             /\ \A d \in DOMAIN aim \ {c} : aim'[d] = aim[d]
    BY <1>0, <1>5 DEF Settle, Clear, Without
<1>6. CASE WriteFails(c) \/ DropReservations(c)
    <2>1. Settle(c) /\ UNCHANGED <<client, registry, shelf, fetched>> /\ step[c] # "stored"
        BY <1>6 DEF WriteFails, DropReservations
    <2>. QED
        BY <1>0, <1>1, <1>5, <2>1, StillAhead
<1>7. CASE Prepare(c)
    <2>1. /\ UNCHANGED <<client, registry, shelf, fetched, aim>>
          /\ step'[c] = "storing" /\ \A d \in Writes \ {c} : step'[d] = step[d]
        BY <1>0, <1>7 DEF Prepare
    <2>2. /\ ItsTurn(c) /\ step[c] = "queued"
          /\ Task[c] # "remove" => client = "ready" /\ Unique(n, rec)
          /\ Task[c] = "update" => Changeable(n)
        BY <1>7 DEF Prepare, Allowed
    <2>3. \A d \in Writes : step[d] # "stored"
        BY <1>0, <2>2
    <2>4. ASSUME Task[c] # "remove"
          PROVE  /\ NewRecord(n, rec, Merged)
                 /\ Task[c] = "update" => n \in DOMAIN Merged \ {Default}
        <3>1. registry = Merged
            BY <1>1, <2>2, <2>3, <2>4 DEF OneAhead
        <3>. QED
            BY <2>2, <2>4, <3>1 DEF NewRecord, Unique, Changeable
    <2>5. Merged' = Merged
        BY <2>1 DEF Merged
    <2>. QED
        BY <1>1, <2>1, <2>3, <2>4, <2>5 DEF OneAhead
<1>8. CASE StoreNetwork(c)
    <2>1. /\ client = "ready" /\ UNCHANGED <<client, registry, fetched, aim>>
          /\ step'[c] = "stored" /\ \A d \in Writes \ {c} : step'[d] = step[d]
          /\ step[c] = "storing"
        BY <1>0, <1>8 DEF StoreNetwork
    <2>2. /\ \A d \in Writes \ {c} : step[d] \notin {"storing", "stored"}
          /\ c \in DOMAIN aim
        BY <1>0, <2>1 DEF NetCore, Turns
    <2>3. registry = Merged /\ Distinct(Merged)
        BY <1>1, <2>1, <2>2 DEF OneAhead
    <2>4. CASE Task[c] # "remove"
        <3>1. NewRecord(n, rec, Merged) /\ (Task[c] = "update" => Changeable(n))
            BY <1>1, <2>1, <2>3, <2>4 DEF OneAhead, Changeable
        <3>2. n # Default
            BY <2>2, <2>4, <3>1 DEF NetCore, Turns, NetworksAssumption, Changeable
        <3>3. shelf' = With(shelf, n, rec)
            BY <1>8, <2>4 DEF StoreNetwork
        <3>4. Merged' = With(registry, n, rec)
            BY <2>3, <3>2, <3>3, ChangesCommute DEF Merged
        <3>5. Distinct(Merged')
            BY <2>3, <3>1, <3>4, DistinctChanges
        <3>6. Written(c)'
            BY <2>1, <2>4, <3>1, <3>4 DEF Written, Changeable
        <3>. QED
            BY <2>1, <2>2, <3>5, <3>6 DEF OneAhead
    <2>5. CASE Task[c] = "remove"
        <3>1. shelf' = Without(shelf, n)
            BY <1>8, <2>5 DEF StoreNetwork
        <3>2. CASE Changeable(n)
            <4>1. n # Default
                BY <3>2 DEF Changeable
            <4>2. Merged' = Without(registry, n)
                <5>1. With(Without(shelf, n), Default, DefaultRecord)
                          = Without(With(shelf, Default, DefaultRecord), n)
                    BY <4>1 DEF With, Without
                <5>2. Merged' = With(shelf', Default, DefaultRecord)
                    BY DEF Merged
                <5>. QED
                    BY <2>3, <3>1, <5>1, <5>2, Zenon DEF Merged
            <4>3. Distinct(Merged') /\ Written(c)'
                BY <2>1, <2>3, <2>5, <3>2, <4>2, DistinctChanges DEF Written, Changeable
            <4>. QED
                BY <2>1, <2>2, <4>3 DEF OneAhead
        <3>3. CASE ~Changeable(n)
            <4>1. n \notin DOMAIN shelf
                BY <1>0, <2>3, <3>3 DEF Changeable, Merged, With
            <4>2. Merged' = registry
                <5>1. CASE n = Default
                    BY <2>3, <3>1, <5>1 DEF Merged, With, Without
                <5>2. CASE n # Default
                    <6>1. With(Without(shelf, n), Default, DefaultRecord)
                              = With(shelf, Default, DefaultRecord)
                        BY <4>1, <5>2 DEF With, Without
                    <6>2. Merged' = With(shelf', Default, DefaultRecord)
                        BY DEF Merged
                    <6>. QED
                        BY <2>3, <3>1, <6>1, <6>2, Zenon DEF Merged
                <5>. QED
                    BY <5>1, <5>2
            <4>3. Distinct(Merged') /\ Written(c)'
                BY <2>1, <2>3, <2>5, <3>3, <4>2 DEF Written, Changeable
            <4>. QED
                BY <2>1, <2>2, <4>3 DEF OneAhead
        <3>. QED
            BY <3>2, <3>3
    <2>. QED
        BY <2>4, <2>5
<1>9. ASSUME step[c] = "stored", Settle(c) \/ Clear(c), registry' = Merged,
             UNCHANGED <<client, shelf, fetched>>
      PROVE  OneAhead'
    <2>1. \A d \in Writes : step'[d] \notin {"storing", "stored"}
        BY <1>0, <1>5, <1>9 DEF NetCore, Turns
    <2>2. Merged' = Merged /\ Distinct(Merged)
        BY <1>1, <1>9 DEF OneAhead, Merged
    <2>3. client' # "reading" \/ fetched' = shelf'
        BY <1>1, <1>9 DEF OneAhead
    <2>. QED
        BY <1>9, <2>1, <2>2, <2>3 DEF OneAhead
<1>10. step[c] = "stored" => client = "ready" /\ Written(c) /\ c \in DOMAIN aim
    BY <1>0, <1>1 DEF OneAhead
<1>11. CASE ApplyNetwork(c)
    <2>1. registry' = Merged
        BY <1>10, <1>11 DEF ApplyNetwork, Written
    <2>. QED
        BY <1>9, <1>11, <2>1 DEF ApplyNetwork
<1>12. CASE RemoveNetwork(c)
    <2>1. registry' = Merged
        BY <1>10, <1>12 DEF RemoveNetwork, Written
    <2>. QED
        BY <1>9, <1>12, <2>1 DEF RemoveNetwork
<1>13. CASE ApplyFails(c)
    <2>1. step[c] = "stored" /\ Settle(c) /\ UNCHANGED <<client, registry, shelf, fetched>>
        BY <1>13 DEF ApplyFails
    <2>2. Task[c] = "remove"
        <3>1. SUFFICES ASSUME Task[c] # "remove" PROVE FALSE
            OBVIOUS
        <3>2. Distinct(With(registry, n, rec))
            BY <1>1, <1>10, <2>1, <3>1 DEF OneAhead, Written
        <3>3. Unique(n, rec)
            BY <3>2, DistinctIsFresh DEF NewRecord, Unique
        <3>4. Allowed(c)
            BY <1>10, <2>1, <3>1, <3>3 DEF Allowed, Written
        <3>. QED
            BY <1>10, <1>13, <2>1, <3>1, <3>4 DEF ApplyFails
    <2>3. Idle(n)
        BY <1>10, <2>1, <2>2 DEF NetCore, Scopes, Idle
    <2>4. registry' = Merged
        BY <1>10, <1>13, <2>1, <2>2, <2>3 DEF ApplyFails, Written
    <2>. QED
        BY <1>9, <2>1, <2>4
<1>. QED
    BY <1>3, <1>4, <1>6, <1>7, <1>8, <1>11, <1>12, <1>13

\* So do clients that close and start.
LEMMA OthersStayAhead ==
    ASSUME NetworksAssumption, NetCore, OneAhead, ~torn',
           \/ OperationStep \/ OpeningStep
           \/ CloseClient \/ Crash \/ ReadNetworks \/ CreateClient
    PROVE  OneAhead'
<1>1. ~torn
    BY DEF OperationStep, BeginOperation, AddReservation, EndReservation, EndOperation,
           GiveBack,
           SetNetwork, OpeningStep, BeginOpen, ReadReservations, PublishWallet,
           CloseWallet, CloseClient, Crash, ReadNetworks, CreateClient, pastVars
<1>2. ASSUME UNCHANGED <<client, registry, shelf, fetched, step, aim>>
      PROVE  OneAhead'
    BY <1>1, <1>2, StillAhead
<1>3. CASE OperationStep
    BY <1>2, <1>3 DEF OperationStep, BeginOperation, AddReservation, EndReservation,
                      EndOperation, GiveBack, SetNetwork, writeVars
<1>4. CASE OpeningStep
    BY <1>2, <1>4 DEF OpeningStep, BeginOpen, ReadReservations, PublishWallet,
                      CloseWallet, writeVars
<1>5. CASE CloseClient
    <2>1. /\ client' = "closed" /\ UNCHANGED <<shelf, step, aim>>
          /\ \A c \in Writes : step[c] # "stored"
        BY <1>5 DEF CloseClient, Forget
    <2>2. Merged' = Merged
        BY <2>1 DEF Merged
    <2>. QED
        BY <1>1, <2>1, <2>2 DEF OneAhead
<1>6. CASE Crash
    <2>1. /\ client' = "closed" /\ shelf' = shelf
          /\ \A c \in Writes : step'[c] \notin {"storing", "stored"}
        BY <1>6 DEF Crash, Forget
    <2>2. Merged' = Merged
        BY <2>1 DEF Merged
    <2>. QED
        BY <1>1, <2>1, <2>2 DEF OneAhead
<1>7. CASE ReadNetworks
    <2>1. /\ client = "closed" /\ client' = "reading" /\ fetched' = shelf
          /\ UNCHANGED <<shelf, step, aim>>
        BY <1>7 DEF ReadNetworks, writeVars
    <2>2. Merged' = Merged
        BY <2>1 DEF Merged
    <2>. QED
        BY <1>1, <2>1, <2>2 DEF OneAhead
<1>8. CASE CreateClient
    <2>1. /\ client = "reading" /\ client' = "ready" /\ UNCHANGED <<shelf, step, aim>>
          /\ registry' = With(fetched, Default, DefaultRecord)
        BY <1>8 DEF CreateClient, writeVars
    <2>2. Merged' = Merged /\ registry' = Merged
        BY <1>1, <2>1 DEF OneAhead, Merged
    <2>. QED
        BY <1>1, <2>1, <2>2 DEF OneAhead
<1>. QED
    BY <1>3, <1>4, <1>5, <1>6, <1>7, <1>8

-----------------------------------------------------------------------------
(* Reservations and the networks they were made on                         *)

\* The networks of the client, or those the next one will have.
Known == IF client = "ready" THEN registry ELSE Merged
FitIn(r, t) == r.net \in DOMAIN t /\ r = [net |-> r.net, config |-> t[r.net].config]
SameConfig(n, rec, t) == n \in DOMAIN t /\ t[n].config = rec.config
Leaving(n) == \E c \in reset : step[c] = "dropping" /\ aim[c].net = n

\* An update that takes no reservation with it changes no config, and what is
\* locked fits its network, is about to be dropped, or was missed.
UpdatesFit ==
    \A c \in DOMAIN aim \ reset :
        Task[c] = "update" => SameConfig(aim[c].net, aim[c].rec, Known)
KeptFits ==
    \A w \in Wallets : \A r \in kept[w] :
        r \in outlived[w] \/ FitIn(r, Known) \/ Leaving(r.net)
RecordsFit == ~torn => UpdatesFit /\ KeptFits

\* A wallet has nothing in memory that is not in storage.
HeldIsKept ==
    \A w \in Wallets : /\ held[w] \subseteq kept[w]
                       /\ phase[w] = "open" => client = "ready"

\* A step that keeps the networks what they are for reservations.
LEMMA StillFits ==
    ASSUME UpdatesFit, KeptFits,
           \A n \in DOMAIN Known : SameConfig(n, Known[n], Known'),
           \A d \in DOMAIN aim' \ reset' : Task[d] = "update" =>
               \/ d \in DOMAIN aim \ reset /\ aim'[d] = aim[d]
               \/ SameConfig(aim'[d].net, aim'[d].rec, Known'),
           \A d \in reset : step[d] = "dropping" =>
               d \in reset' /\ step'[d] = "dropping" /\ aim'[d] = aim[d],
           \A w \in Wallets : \A r \in kept'[w] :
               \/ r \in kept[w] /\ (r \in outlived[w] => r \in outlived'[w])
               \/ FitIn(r, Known')
    PROVE  UpdatesFit' /\ KeptFits'
<1>1. UpdatesFit'
    <2>1. ASSUME NEW d \in DOMAIN aim' \ reset', Task[d] = "update"
          PROVE  SameConfig(aim'[d].net, aim'[d].rec, Known')
        <3>1. CASE d \in DOMAIN aim \ reset /\ aim'[d] = aim[d]
            <4>1. SameConfig(aim[d].net, aim[d].rec, Known)
                BY <2>1, <3>1 DEF UpdatesFit
            <4>. QED
                BY <3>1, <4>1 DEF SameConfig
        <3>. QED
            BY <2>1, <3>1
    <2>. QED
        BY <2>1 DEF UpdatesFit
<1>2. KeptFits'
    <2>1. ASSUME NEW w \in Wallets, NEW r \in kept'[w]
          PROVE  r \in outlived'[w] \/ FitIn(r, Known') \/ Leaving(r.net)'
        <3>1. CASE r \in kept[w] /\ (r \in outlived[w] => r \in outlived'[w])
            <4>1. FitIn(r, Known) => FitIn(r, Known')
                BY DEF FitIn, SameConfig
            <4>2. Leaving(r.net) => Leaving(r.net)'
                BY DEF Leaving
            <4>. QED
                BY <3>1, <4>1, <4>2 DEF KeptFits
        <3>. QED
            BY <2>1, <3>1
    <2>. QED
        BY <2>1 DEF KeptFits
<1>. QED
    BY <1>1, <1>2

\* A step that leaves the tables of networks and the reservations alone.
LEMMA StillFitsAtRest ==
    ASSUME UpdatesFit, KeptFits, UNCHANGED <<client, registry, kept, outlived>>,
           client = "ready" \/ shelf' = shelf,
           \A d \in DOMAIN aim' \ reset' : Task[d] = "update" =>
               \/ d \in DOMAIN aim \ reset /\ aim'[d] = aim[d]
               \/ SameConfig(aim'[d].net, aim'[d].rec, Known),
           \A d \in reset : step[d] = "dropping" =>
               d \in reset' /\ step'[d] = "dropping" /\ aim'[d] = aim[d]
    PROVE  UpdatesFit' /\ KeptFits'
<1>1. Known' = Known
    BY DEF Known, Merged
<1>2. \A n \in DOMAIN Known : SameConfig(n, Known[n], Known')
    BY <1>1 DEF SameConfig
<1>3. \A d \in DOMAIN aim' \ reset' : Task[d] = "update" =>
          \/ d \in DOMAIN aim \ reset /\ aim'[d] = aim[d]
          \/ SameConfig(aim'[d].net, aim'[d].rec, Known')
    BY <1>1 DEF SameConfig
<1>. QED
    BY <1>2, <1>3, StillFits

\* A change of network n that goes on to drop the reservations of n.
LEMMA ChangeFits ==
    ASSUME NetCore, UpdatesFit, KeptFits, NEW c \in DOMAIN aim, c \in reset, Clear(c),
           UNCHANGED <<kept, outlived>>,
           \A m \in DOMAIN Known \ {aim[c].net} : SameConfig(m, Known[m], Known')
    PROVE  UpdatesFit' /\ KeptFits'
<1>. DEFINE n == aim[c].net
<1>1. /\ UNCHANGED <<aim, reset>> /\ step'[c] = "dropping" /\ c \in Writes
      /\ \A d \in Writes \ {c} : step'[d] = step[d]
      /\ DOMAIN aim \subseteq Writes /\ reset \subseteq DOMAIN aim /\ Task[c] # "add"
    BY DEF Clear, NetCore, NetVars, Turns
<1>2. UpdatesFit'
    <2>1. ASSUME NEW d \in DOMAIN aim \ reset, Task[d] = "update"
          PROVE  SameConfig(aim[d].net, aim[d].rec, Known')
        <3>1. SameConfig(aim[d].net, aim[d].rec, Known)
            BY <2>1 DEF UpdatesFit
        <3>2. aim[d].net # n
            BY <1>1, <2>1 DEF NetCore, Scopes
        <3>. QED
            BY <3>1, <3>2 DEF SameConfig
    <2>. QED
        BY <1>1, <2>1 DEF UpdatesFit
<1>3. KeptFits'
    <2>1. ASSUME NEW w \in Wallets, NEW r \in kept[w]
          PROVE  r \in outlived[w] \/ FitIn(r, Known') \/ Leaving(r.net)'
        <3>1. CASE r.net = n
            BY <1>1, <3>1 DEF Leaving
        <3>2. CASE r.net # n
            <4>1. FitIn(r, Known) => FitIn(r, Known')
                BY <3>2 DEF FitIn, SameConfig
            <4>2. Leaving(r.net) => Leaving(r.net)'
                BY <1>1 DEF Leaving
            <4>. QED
                BY <4>1, <4>2 DEF KeptFits
        <3>. QED
            BY <3>1, <3>2
    <2>. QED
        BY <2>1 DEF KeptFits
<1>. QED
    BY <1>2, <1>3

\* A write touches no network but its own.
LEMMA OnlyItsNetwork ==
    ASSUME NEW t, NEW n, NEW rec
    PROVE  \A m \in DOMAIN t \ {n} :
               /\ SameConfig(m, t[m], With(t, n, rec))
               /\ SameConfig(m, t[m], Without(t, n))
BY DEF SameConfig, With, Without

\* A write that takes no reservation with it leaves the config of its own too.
LEMMA WrittenFits ==
    ASSUME NetCore, Added, UpdatesFit, client = "ready",
           NEW c \in DOMAIN aim \ reset, step[c] = "stored"
    PROVE  /\ Task[c] # "remove"
           /\ \A m \in DOMAIN registry :
                  SameConfig(m, registry[m], With(registry, aim[c].net, aim[c].rec))
<1>. DEFINE n == aim[c].net
            rec == aim[c].rec
<1>1. c \in Writes /\ Task[c] # "remove"
    BY DEF NetCore, NetVars, Turns
<1>2. ASSUME n \in DOMAIN registry
      PROVE  registry[n].config = rec.config
    <2>1. CASE Task[c] = "add"
        BY <1>1, <1>2, <2>1 DEF NetCore, Turns, Added
    <2>2. CASE Task[c] = "update"
        BY <2>2 DEF UpdatesFit, SameConfig, Known
    <2>. QED
        BY <1>1, <2>1, <2>2, NetworksAssumption
<1>. QED
    BY <1>1, <1>2 DEF SameConfig, With

\* The writes keep what is locked fit for its network.
LEMMA WritesKeepFits ==
    ASSUME NetCore, Added, OneAhead, RecordsFit, ~torn', NEW c \in Writes,
           \/ \E rec \in Asked[c] : BeginAdd(c, rec)
           \/ \E rec \in Asked[c], n \in Ids : BeginNetworkChange(c, n, rec)
           \/ Prepare(c) \/ WriteFails(c) \/ StoreNetwork(c) \/ ApplyNetwork(c)
           \/ RemoveNetwork(c) \/ ApplyFails(c) \/ DropReservations(c)
    PROVE  UpdatesFit' /\ KeptFits'
<1>. DEFINE n == aim[c].net
            rec == aim[c].rec
<1>0. /\ step \in [Writes -> Steps] /\ DOMAIN aim \subseteq Writes
      /\ step[c] \in Going \cup {"dropping"} <=> c \in DOMAIN aim
      /\ reset \subseteq DOMAIN aim
    BY DEF NetCore, NetVars, Turns
<1>1. ~torn
    BY DEF BeginAdd, BeginNetworkChange, Enqueue, Prepare, WriteFails, StoreNetwork,
           ApplyNetwork, RemoveNetwork, ApplyFails, DropReservations, pastVars
<1>2. UpdatesFit /\ KeptFits
    BY <1>1 DEF RecordsFit
<1>3. ASSUME NEW r \in Asked[c], BeginAdd(c, r)
      PROVE  UpdatesFit' /\ KeptFits'
    <2>1. /\ UNCHANGED <<client, registry, shelf, reset, kept, outlived>>
          /\ Task[c] = "add" /\ step[c] = "idle"
          /\ \A d \in Writes \ {c} : step'[d] = step[d]
          /\ DOMAIN aim' = DOMAIN aim \cup {c}
          /\ \A d \in DOMAIN aim \ {c} : aim'[d] = aim[d]
        BY <1>0, <1>3 DEF BeginAdd, With, walletVars, pastVars
    <2>2. c \notin DOMAIN aim
        BY <1>0, <2>1 DEF Going
    <2>. QED
        BY <1>0, <1>2, <2>1, <2>2, StillFitsAtRest
<1>4. ASSUME NEW r \in Asked[c], NEW m \in Ids, BeginNetworkChange(c, m, r)
      PROVE  UpdatesFit' /\ KeptFits'
    <2>1. /\ UNCHANGED <<client, registry, shelf, kept, outlived>>
          /\ client = "ready" /\ step[c] = "idle"
          /\ \A d \in Writes \ {c} : step'[d] = step[d]
          /\ DOMAIN aim' = DOMAIN aim \cup {c} /\ aim'[c] = [net |-> m, rec |-> r]
          /\ \A d \in DOMAIN aim \ {c} : aim'[d] = aim[d]
          /\ reset' = IF Task[c] = "remove" \/ Reconfigures(m, r)
                        THEN reset \cup {c} ELSE reset
          /\ Task[c] = "update" => m \in DOMAIN registry
        BY <1>0, <1>4 DEF BeginNetworkChange, Enqueue, With, walletVars, pastVars
    <2>2. c \notin DOMAIN aim
        BY <1>0, <2>1 DEF Going
    <2>3. Task[c] = "update" /\ c \notin reset' => SameConfig(m, r, Known)
        BY <2>1 DEF SameConfig, Known, Reconfigures
    <2>4. aim'[c].net = m /\ aim'[c].rec = r
        BY <2>1
    <2>5. \A d \in DOMAIN aim' \ reset' : Task[d] = "update" =>
              \/ d \in DOMAIN aim \ reset /\ aim'[d] = aim[d]
              \/ SameConfig(aim'[d].net, aim'[d].rec, Known)
        <3>1. ASSUME NEW d \in DOMAIN aim' \ reset', Task[d] = "update", d # c
              PROVE  d \in DOMAIN aim \ reset /\ aim'[d] = aim[d]
            BY <2>1, <3>1
        <3>2. c \notin reset' /\ Task[c] = "update" =>
                  SameConfig(aim'[c].net, aim'[c].rec, Known)
            BY <2>3, <2>4
        <3>. QED
            BY <3>1, <3>2
    <2>6. \A d \in reset : step[d] = "dropping" =>
              d \in reset' /\ step'[d] = "dropping" /\ aim'[d] = aim[d]
        BY <1>0, <2>1, <2>2
    <2>. QED
        BY <1>2, <2>1, <2>5, <2>6, StillFitsAtRest
<1>5. CASE Prepare(c) \/ StoreNetwork(c)
    <2>1. /\ UNCHANGED <<client, registry, aim, reset, kept, outlived>>
          /\ step[c] # "dropping" /\ \A d \in Writes \ {c} : step'[d] = step[d]
          /\ client = "ready" \/ shelf' = shelf
        BY <1>0, <1>5 DEF Prepare, StoreNetwork, walletVars, pastVars
    <2>. QED
        BY <1>0, <1>2, <2>1, StillFitsAtRest
<1>6. ASSUME Settle(c)
      PROVE  /\ \A d \in DOMAIN aim' \ reset' : d \in DOMAIN aim \ reset /\ aim'[d] = aim[d]
             /\ \A d \in reset \ {c} : step[d] = "dropping" =>
                    d \in reset' /\ step'[d] = "dropping" /\ aim'[d] = aim[d]
    BY <1>0, <1>6 DEF Settle, Without
<1>7. CASE WriteFails(c) \/ ApplyFails(c)
    <2>1. /\ UNCHANGED <<client, registry, shelf, kept, outlived>>
          /\ Settle(c) /\ step[c] # "dropping"
        BY <1>7 DEF WriteFails, ApplyFails, walletVars, pastVars
    <2>. QED
        BY <1>2, <1>6, <2>1, StillFitsAtRest
<1>8. CASE DropReservations(c)
    <2>1. /\ UNCHANGED <<client, registry, shelf>> /\ Settle(c)
          /\ \A w \in Wallets : kept'[w] \subseteq kept[w]
          /\ \A w \in Wallets :
                outlived'[w] = outlived[w] \cup {r \in kept'[w] : r.net = n}
        BY <1>8 DEF DropReservations, Outlive
    <2>2. Known' = Known
        BY <2>1 DEF Known, Merged
    <2>3. UpdatesFit'
        <3>1. ASSUME NEW d \in DOMAIN aim' \ reset', Task[d] = "update"
              PROVE  SameConfig(aim'[d].net, aim'[d].rec, Known)
            <4>1. d \in DOMAIN aim \ reset /\ aim'[d] = aim[d]
                BY <1>6, <2>1, <3>1
            <4>. QED
                BY <1>2, <3>1, <4>1 DEF UpdatesFit
        <3>. QED
            BY <2>2, <3>1 DEF UpdatesFit, SameConfig
    <2>4. ASSUME NEW w \in Wallets, NEW r \in kept'[w]
          PROVE  r \in outlived'[w] \/ FitIn(r, Known') \/ Leaving(r.net)'
        <3>1. CASE r.net = n
            BY <2>1, <2>4, <3>1
        <3>2. CASE r.net # n
            <4>1. r \in outlived[w] \/ FitIn(r, Known) \/ Leaving(r.net)
                BY <1>2, <2>1, <2>4 DEF KeptFits
            <4>2. Leaving(r.net) => Leaving(r.net)'
                BY <1>6, <2>1, <3>2 DEF Leaving
            <4>3. FitIn(r, Known) => FitIn(r, Known')
                BY <2>2 DEF FitIn
            <4>. QED
                BY <2>1, <4>1, <4>2, <4>3
        <3>. QED
            BY <3>1, <3>2
    <2>. QED
        BY <2>3, <2>4 DEF KeptFits
<1>9. step[c] = "stored" => client = "ready" /\ Written(c) /\ c \in DOMAIN aim
    BY <1>0, <1>1 DEF OneAhead, Going
<1>10. CASE ApplyNetwork(c)
    <2>1. /\ client = "ready" /\ c \in DOMAIN aim /\ step[c] = "stored"
          /\ UNCHANGED <<client, shelf, current, kept, outlived>>
          /\ registry' = With(registry, n, rec)
        BY <1>9, <1>10 DEF ApplyNetwork, walletVars, pastVars
    <2>2. Known = registry /\ Known' = With(registry, n, rec)
        BY <2>1 DEF Known
    <2>3. CASE c \in reset
        <3>1. Task[c] # "add"
            BY <2>1, <2>3 DEF NetCore, Turns
        <3>2. Idle(n)
            BY <2>1, <3>1 DEF NetCore, Scopes, Idle
        <3>3. Clear(c)
            BY <1>10, <2>3, <3>2 DEF ApplyNetwork, CurrentIdle, Idle
        <3>4. \A m \in DOMAIN Known \ {n} : SameConfig(m, Known[m], Known')
            BY <2>2, OnlyItsNetwork DEF SameConfig
        <3>. QED
            BY <1>2, <2>1, <2>3, <3>3, <3>4, ChangeFits
    <2>4. CASE c \notin reset
        <3>1. Settle(c)
            BY <1>10, <2>4 DEF ApplyNetwork
        <3>2. \A m \in DOMAIN registry : SameConfig(m, registry[m], With(registry, n, rec))
            BY <1>2, <2>1, <2>4, WrittenFits
        <3>3. \A m \in DOMAIN Known : SameConfig(m, Known[m], Known')
            BY <2>2, <3>2 DEF SameConfig
        <3>. QED
            BY <1>2, <1>6, <2>1, <2>4, <3>1, <3>3, StillFits
    <2>. QED
        BY <2>3, <2>4
<1>11. CASE RemoveNetwork(c)
    <2>1. /\ client = "ready" /\ c \in DOMAIN aim /\ Task[c] = "remove"
          /\ UNCHANGED <<client, shelf, kept, outlived>>
          /\ registry' = Without(registry, n) /\ Clear(c)
        BY <1>9, <1>11 DEF RemoveNetwork, walletVars, pastVars
    <2>2. Known = registry /\ Known' = Without(registry, n)
        BY <2>1 DEF Known
    <2>3. c \in reset
        BY <2>1 DEF NetCore, Turns
    <2>4. \A m \in DOMAIN Known \ {n} : SameConfig(m, Known[m], Known')
        BY <2>2, OnlyItsNetwork DEF SameConfig
    <2>. QED
        BY <1>2, <2>1, <2>3, <2>4, ChangeFits
<1>. QED
    BY <1>3, <1>4, <1>5, <1>7, <1>8, <1>10, <1>11

\* A step that keeps the writes, and the networks what they are.
LEMMA OtherStillFits ==
    ASSUME UpdatesFit, KeptFits, UNCHANGED <<step, aim, reset>>,
           \A n \in DOMAIN Known : SameConfig(n, Known[n], Known'),
           \A w \in Wallets : \A r \in kept'[w] :
               \/ r \in kept[w] /\ (r \in outlived[w] => r \in outlived'[w])
               \/ FitIn(r, Known')
    PROVE  UpdatesFit' /\ KeptFits'
BY StillFits

\* The others keep what is locked fit: it is made on a network there is.
LEMMA OthersKeepFits ==
    ASSUME NetCore, Added, OneAhead, RecordsFit, OperationsKeepTheirNetwork, ~torn',
           OperationStep \/ OpeningStep \/ CloseClient \/ ReadNetworks \/ CreateClient
    PROVE  UpdatesFit' /\ KeptFits'
<1>1. ~torn
    BY DEF OperationStep, BeginOperation, AddReservation, EndReservation, EndOperation,
           GiveBack,
           SetNetwork, OpeningStep, BeginOpen, ReadReservations, PublishWallet,
           CloseWallet, CloseClient, Crash, ReadNetworks, CreateClient, pastVars
<1>2. UpdatesFit /\ KeptFits
    BY <1>1 DEF RecordsFit
<1>3. UNCHANGED <<step, aim, reset>>
    BY OthersKeepTurns DEF NetCore
<1>4. ASSUME Known' = Known,
             \A w \in Wallets : \A r \in kept'[w] :
                 \/ r \in kept[w] /\ (r \in outlived[w] => r \in outlived'[w])
                 \/ FitIn(r, Known)
      PROVE  UpdatesFit' /\ KeptFits'
    <2>1. \A n \in DOMAIN Known : SameConfig(n, Known[n], Known')
        BY <1>4 DEF SameConfig
    <2>2. \A w \in Wallets : \A r \in kept'[w] : FitIn(r, Known) => FitIn(r, Known')
        BY <1>4 DEF FitIn
    <2>. QED
        BY <1>2, <1>3, <1>4, <2>1, <2>2, OtherStillFits
<1>5. ASSUME UNCHANGED <<client, registry, shelf>>
      PROVE  Known' = Known
    BY <1>5 DEF Known, Merged
<1>6. ASSUME NEW o \in Operations, NEW w \in Wallets, AddReservation(o, w)
      PROVE  UpdatesFit' /\ KeptFits'
    <2>1. /\ client = "ready" /\ current \in DOMAIN registry
          /\ UNCHANGED <<client, registry, shelf, outlived>>
          /\ \A v \in Wallets : kept'[v] \subseteq kept[v] \cup {Reservation(current)}
        BY <1>6 DEF AddReservation, pastVars, NetCore, NetVars, Scopes,
                    OperationsKeepTheirNetwork
    <2>2. FitIn(Reservation(current), Known)
        BY <2>1 DEF FitIn, Reservation, Known
    <2>. QED
        BY <1>4, <1>5, <2>1, <2>2
<1>7. ASSUME NEW w \in Wallets, NEW r, EndReservation(w, r)
      PROVE  UpdatesFit' /\ KeptFits'
    <2>1. /\ UNCHANGED <<client, registry, shelf>>
          /\ \A v \in Wallets : \A s \in kept'[v] :
                s \in kept[v] /\ (s \in outlived[v] => s \in outlived'[v])
        BY <1>7 DEF EndReservation, NetCore, NetVars
    <2>. QED
        BY <1>4, <1>5, <2>1
<1>8. CASE OperationStep
    <2>1. ASSUME UNCHANGED <<client, registry, shelf, kept, outlived>>
          PROVE  UpdatesFit' /\ KeptFits'
        BY <1>4, <1>5, <2>1
    <2>2. \/ \E o \in Operations, w \in Wallets : AddReservation(o, w)
          \/ \E w \in Wallets, r \in UNION {held[v] : v \in Wallets} : EndReservation(w, r)
          \/ UNCHANGED <<client, registry, shelf, kept, outlived>>
        BY <1>8 DEF OperationStep, BeginOperation, EndOperation, GiveBack, SetNetwork,
                    walletVars,
                    pastVars
    <2>. QED
        BY <1>6, <1>7, <2>1, <2>2
<1>9. CASE OpeningStep
    <2>1. /\ UNCHANGED <<client, registry, shelf, outlived>>
          /\ \A w \in Wallets : kept'[w] \subseteq kept[w]
        BY <1>9 DEF OpeningStep, BeginOpen, ReadReservations, PublishWallet, CloseWallet,
                    pastVars, NetCore, NetVars
    <2>. QED
        BY <1>4, <1>5, <2>1
<1>10. CASE CloseClient
    <2>1. /\ client = "ready" /\ client' = "closed"
          /\ UNCHANGED <<shelf, kept, outlived>>
          /\ \A c \in Writes : step[c] # "stored"
        BY <1>10 DEF CloseClient, Forget
    <2>2. Known' = Known
        BY <1>1, <2>1 DEF OneAhead, Known, Merged
    <2>. QED
        BY <1>4, <2>1, <2>2
<1>11. CASE ReadNetworks
    <2>1. /\ client = "closed" /\ client' = "reading"
          /\ UNCHANGED <<shelf, kept, outlived>>
        BY <1>11 DEF ReadNetworks, walletVars, pastVars
    <2>2. Known' = Known
        BY <2>1 DEF Known, Merged
    <2>. QED
        BY <1>4, <2>1, <2>2
<1>12. CASE CreateClient
    <2>1. /\ client = "reading" /\ client' = "ready"
          /\ UNCHANGED <<shelf, kept, outlived>>
          /\ registry' = With(fetched, Default, DefaultRecord)
        BY <1>12 DEF CreateClient, walletVars, pastVars
    <2>2. Known' = Known
        BY <1>1, <2>1 DEF OneAhead, Known, Merged
    <2>. QED
        BY <1>4, <2>1, <2>2
<1>. QED
    BY <1>8, <1>9, <1>10, <1>11, <1>12

\* A crash leaves nothing locked on a network that storage has otherwise, but
\* for what the change had yet to drop.
LEMMA CrashKeepsFits ==
    ASSUME NetCore, Added, OneAhead, RecordsFit, ~torn', Crash
    PROVE  UpdatesFit' /\ KeptFits'
<1>. DEFINE Missed(n) ==
         \E c \in reset : step[c] \in {"stored", "dropping"} /\ aim[c].net = n
<1>1. UpdatesFit /\ KeptFits /\ ~torn
    BY DEF Crash, RecordsFit
<1>2. /\ client = "ready" /\ client' = "closed" /\ UNCHANGED <<registry, shelf, kept>>
      /\ DOMAIN aim' = {} /\ reset \subseteq DOMAIN aim /\ DOMAIN aim \subseteq Writes
    BY CrashKeepsTurns DEF Crash, Forget, NetCore, NetVars, Turns
<1>3. Known = registry /\ Known' = Merged
    BY <1>2 DEF Known, Merged
<1>4. \A w \in Wallets : \A r \in kept[w] :
          r \in outlived[w] \/ Missed(r.net) => r \in outlived'[w]
    BY DEF Crash, Outlive
<1>5. ASSUME NEW w \in Wallets, NEW r \in kept[w], r \notin outlived'[w]
      PROVE  FitIn(r, Merged)
    <2>1. FitIn(r, registry)
        BY <1>1, <1>3, <1>4, <1>5 DEF KeptFits, Leaving
    <2>2. CASE \A c \in Writes : step[c] # "stored"
        BY <1>1, <1>2, <2>1, <2>2 DEF OneAhead
    <2>3. ASSUME NEW c \in Writes, step[c] = "stored"
          PROVE  FitIn(r, Merged)
        <3>1. c \in DOMAIN aim /\ Written(c)
            BY <1>1, <2>3 DEF OneAhead, NetCore, Turns, Going
        <3>2. c \in reset => r.net # aim[c].net
            BY <1>4, <1>5, <2>3
        <3>3. SameConfig(r.net, registry[r.net], Merged)
            <4>1. CASE c \notin reset
                <5>1. SameConfig(r.net, registry[r.net],
                                 With(registry, aim[c].net, aim[c].rec))
                      /\ Task[c] # "remove"
                    BY <1>1, <1>2, <2>1, <2>3, <3>1, <4>1, WrittenFits DEF FitIn
                <5>2. Merged = With(registry, aim[c].net, aim[c].rec)
                    BY <3>1, <5>1 DEF Written
                <5>. QED
                    BY <5>1, <5>2 DEF SameConfig
            <4>2. CASE c \in reset
                <5>1. r.net \in DOMAIN registry \ {aim[c].net}
                    BY <2>1, <3>2, <4>2 DEF FitIn
                <5>2. \/ Merged = With(registry, aim[c].net, aim[c].rec)
                      \/ Merged = Without(registry, aim[c].net)
                      \/ Merged = registry
                    BY <3>1 DEF Written
                <5>. QED
                    BY <5>1, <5>2, OnlyItsNetwork DEF SameConfig
            <4>. QED
                BY <4>1, <4>2
        <3>. QED
            BY <2>1, <3>3 DEF FitIn, SameConfig
    <2>. QED
        BY <2>2, <2>3
<1>6. UpdatesFit'
    BY <1>2 DEF UpdatesFit
<1>7. KeptFits'
    <2>1. ASSUME NEW w \in Wallets, NEW r \in kept'[w]
          PROVE  r \in outlived'[w] \/ FitIn(r, Known')
        <3>1. r \in outlived'[w] \/ FitIn(r, Merged)
            BY <1>2, <1>5, <2>1
        <3>. QED
            BY <1>3, <3>1 DEF FitIn
    <2>. QED
        BY <2>1 DEF KeptFits
<1>. QED
    BY <1>6, <1>7

\* What is in memory stays in storage, and no wallet outlives its client.
LEMMA HeldIsKeptStep ==
    ASSUME NetVars, HeldIsKept, [NetworksNext]_networkVars
    PROVE  HeldIsKept'
<1>. USE DEF HeldIsKept, NetVars
<1>1. ASSUME UNCHANGED <<client, phase, held, kept>>
      PROVE  HeldIsKept'
    BY <1>1
<1>2. CASE WriteStep
    <2>1. PICK c \in Writes :
              \/ DropReservations(c)
              \/ UNCHANGED <<client, phase, held, kept>>
        BY <1>2 DEF WriteStep, BeginAdd, BeginNetworkChange, Enqueue, Prepare, WriteFails,
                    StoreNetwork, ApplyNetwork, RemoveNetwork, ApplyFails, walletVars
    <2>2. CASE DropReservations(c)
        <3>. DEFINE Seen(w) == IF phase[w] = "open" /\ c \notin orphaned
                                 THEN OfNetwork(held[w], aim[c].net) ELSE {}
        <3>1. /\ UNCHANGED <<client, phase>>
              /\ \A w \in Wallets : held'[w] = held[w] \ Seen(w)
              /\ \A w \in Wallets : kept'[w] \in {kept[w], kept[w] \ Seen(w)}
            BY <2>2 DEF DropReservations
        <3>. QED
            BY <3>1
    <2>. QED
        BY <1>1, <2>1, <2>2
<1>3. CASE OperationStep
    <2>1. \/ UNCHANGED <<client, phase, held, kept>>
          \/ \E o \in Operations, w \in Wallets : AddReservation(o, w)
          \/ \E w \in Wallets, r \in UNION {held[v] : v \in Wallets} : EndReservation(w, r)
        BY <1>3 DEF OperationStep, BeginOperation, EndOperation, GiveBack, SetNetwork,
                    walletVars
    <2>2. ASSUME NEW o \in Operations, NEW w \in Wallets, AddReservation(o, w)
          PROVE  HeldIsKept'
        BY <2>2 DEF AddReservation
    <2>3. ASSUME NEW w \in Wallets, NEW r, EndReservation(w, r)
          PROVE  HeldIsKept'
        BY <2>3 DEF EndReservation
    <2>. QED
        BY <1>1, <2>1, <2>2, <2>3
<1>4. CASE OpeningStep
    BY <1>4 DEF OpeningStep, BeginOpen, ReadReservations, PublishWallet, CloseWallet
<1>5. CASE CloseClient \/ Crash
    BY <1>5 DEF CloseClient, Crash, Forget
<1>6. CASE ReadNetworks \/ CreateClient
    BY <1>6 DEF ReadNetworks, CreateClient, walletVars
<1>7. CASE UNCHANGED networkVars
    BY <1>7 DEF networkVars, walletVars
<1>. QED
    BY <1>2, <1>3, <1>4, <1>5, <1>6, <1>7 DEF NetworksNext

-----------------------------------------------------------------------------
(* The inductive invariant, and what it implies                            *)

NetworksInv ==
    /\ NetCore /\ Added /\ OperationsKeepTheirNetwork
    /\ OneAhead /\ RecordsFit /\ HeldIsKept

\* At first memory and storage have the same networks, whose records differ.
LEMMA InitialNetworks ==
    ASSUME NetworksInit
    PROVE  NetworksInv
<1>1. NetCore
    BY InitialCore, NetworksAssumption
<1>2. Added
    BY NetworksAssumption DEF NetworksInit, Added, With
<1>3. OperationsKeepTheirNetwork
    <2>1. OfClient = {}
        BY EmptySeq DEF NetworksInit, OfClient
    <2>. QED
        BY <2>1 DEF NetworksInit, OperationsKeepTheirNetwork, With
<1>4. /\ Merged = registry /\ DOMAIN registry = Customs \cup {Default}
      /\ registry[Default] = DefaultRecord
      /\ \A n \in Customs : registry[n] = Custom[n]
    BY NetworksAssumption DEF NetworksInit, Merged, With
<1>5. Distinct(registry)
    BY <1>4, RecordsDiffer DEF Distinct
<1>6. OneAhead
    BY <1>4, <1>5 DEF NetworksInit, OneAhead
<1>7. RecordsFit /\ HeldIsKept
    BY DEF NetworksInit, RecordsFit, UpdatesFit, KeptFits, HeldIsKept
<1>. QED
    BY <1>1, <1>2, <1>3, <1>6, <1>7 DEF NetworksInv

\* Every step keeps it.
LEMMA NetworksStep ==
    ASSUME NetworksInv, [NetworksNext]_networkVars
    PROVE  NetworksInv'
<1>. USE DEF NetworksInv
<1>1. NetCore' /\ HeldIsKept'
    BY CoreStep, HeldIsKeptStep, NetworksAssumption DEF NetCore
<1>2. ASSUME Added', OperationsKeepTheirNetwork',
             ~torn' => OneAhead' /\ UpdatesFit' /\ KeptFits'
      PROVE  NetworksInv'
    BY <1>1, <1>2 DEF OneAhead, RecordsFit
<1>3. ASSUME NEW c \in Writes,
             \/ \E rec \in Asked[c] : BeginAdd(c, rec)
             \/ \E rec \in Asked[c], n \in Ids : BeginNetworkChange(c, n, rec)
             \/ Prepare(c) \/ WriteFails(c) \/ StoreNetwork(c) \/ ApplyNetwork(c)
             \/ RemoveNetwork(c) \/ ApplyFails(c) \/ DropReservations(c)
      PROVE  NetworksInv'
    <2>1. Added' /\ OperationsKeepTheirNetwork'
        BY <1>3, WritesKeepAdded, WritesKeepNetworks, NetworksAssumption
    <2>2. ~torn' => OneAhead' /\ UpdatesFit' /\ KeptFits'
        BY <1>3, WritesStayAhead, WritesKeepFits, NetworksAssumption
    <2>. QED
        BY <1>2, <2>1, <2>2
<1>4. CASE \/ OperationStep \/ OpeningStep
           \/ CloseClient \/ Crash \/ ReadNetworks \/ CreateClient
    <2>1. Added' /\ OperationsKeepTheirNetwork'
        BY <1>4, OthersKeepAdded, OthersKeepNetworks, NetworksAssumption
    <2>2. ~torn' => OneAhead'
        BY <1>4, OthersStayAhead, NetworksAssumption
    <2>3. ~torn' => UpdatesFit' /\ KeptFits'
        BY <1>4, OthersKeepFits, CrashKeepsFits
    <2>. QED
        BY <1>2, <2>1, <2>2, <2>3
<1>5. CASE UNCHANGED networkVars
    BY <1>1, <1>5
    DEF networkVars, writeVars, walletVars, pastVars, Added, OperationsKeepTheirNetwork,
        OfClient, Reservation, OneAhead, Merged, Written, Changeable, RecordsFit,
        UpdatesFit, KeptFits, SameConfig, Known, FitIn, Leaving
<1>. QED
    BY <1>3, <1>4, <1>5 DEF NetworksNext, WriteStep

\* The invariant holds of every state of the networks, however many writes,
\* operations, wallets and networks there are.
THEOREM NetworksInvariance == NetworksSpec => []NetworksInv
<1>1. NetworksInit => NetworksInv
    BY InitialNetworks
<1>2. NetworksInv /\ [NetworksNext]_networkVars => NetworksInv'
    BY NetworksStep
<1>. QED
    BY <1>1, <1>2, PTL DEF NetworksSpec

\* The variables keep their types, and the counter of a network is the number
\* of the client's operations on it; only the late end of an operation of a
\* client closed before it (a stray) makes the counter less than that number.
THEOREM NetworksTypeCorrect == NetworksSpec => []NetworksTypeOK
<1>1. NetworksInv => NetworksTypeOK
    BY DEF NetworksInv, NetCore, NetVars, NetTables, Turns, Scopes, Counted, On, Going,
           NetworksTypeOK
<1>. QED
    BY <1>1, NetworksInvariance, PTL

\* An operation has its network, with the config it began with, until it or
\* its client ends, on every network whose counter no stray has lowered.
THEOREM NetworksAreKept == NetworksSpec => []OperationsKeepTheirNetwork
<1>1. NetworksInv => OperationsKeepTheirNetwork
    BY DEF NetworksInv
<1>. QED
    BY <1>1, NetworksInvariance, PTL

\* While no write runs, memory and storage have the same networks, no two with
\* one name or one config.
THEOREM MemoryFollowsStorage == NetworksSpec => []WritesAgree
<1>1. ASSUME NetworksInv, client = "ready", queue = <<>>, ~torn
      PROVE  /\ registry = With(shelf, Default, DefaultRecord)
             /\ \A n \in DOMAIN registry : Unique(n, registry[n])
    <2>1. \A c \in Writes : step[c] # "stored"
        BY <1>1 DEF NetworksInv, NetCore, Turns, ItsTurn
    <2>2. registry = Merged /\ Distinct(Merged)
        BY <1>1, <2>1 DEF NetworksInv, OneAhead
    <2>. QED
        BY <2>2 DEF Merged, Distinct, Unique
<1>2. NetworksInv => WritesAgree
    BY <1>1 DEF WritesAgree
<1>. QED
    BY <1>2, NetworksInvariance, PTL

\* What an open wallet has locked fits its network, as soon as the change of
\* the network is through.
THEOREM ReservationsFit == NetworksSpec => []ReservationsFitNetwork
<1>1. ASSUME NetworksInv, ~torn, NEW w \in Wallets, NEW r \in held[w],
             phase[w] = "open", ~Reconfiguring(r.net), r \notin outlived[w]
      PROVE  r.net \in DOMAIN registry /\ r = Reservation(r.net)
    <2>1. r \in kept[w] /\ Known = registry
        BY <1>1 DEF NetworksInv, HeldIsKept, Known
    <2>2. FitIn(r, registry) \/ Leaving(r.net)
        BY <1>1, <2>1 DEF NetworksInv, RecordsFit, KeptFits
    <2>3. ~Leaving(r.net)
        BY <1>1 DEF Leaving, Reconfiguring, NetworksInv, NetCore, Turns
    <2>. QED
        BY <2>2, <2>3 DEF FitIn, Reservation
<1>2. NetworksInv => ReservationsFitNetwork
    BY <1>1 DEF ReservationsFitNetwork
<1>. QED
    BY <1>2, NetworksInvariance, PTL

-----------------------------------------------------------------------------
(* The one table of networks                                               *)

\* Every record there is was in the config or in storage at first, or was
\* asked for.
Recorded ==
    /\ \A n \in DOMAIN registry : registry[n] \in RecordsEver
    /\ \A n \in DOMAIN shelf : shelf[n] \in RecordsEver
    /\ \A n \in DOMAIN fetched : fetched[n] \in RecordsEver
    /\ \A c \in DOMAIN aim : aim[c].rec \in RecordsEver

\* Every step keeps it: records are only copied.
LEMMA RecordedStep ==
    ASSUME NetCore, Recorded, [NetworksNext]_networkVars
    PROVE  Recorded'
<1>. USE DEF Recorded
<1>1. ASSUME UNCHANGED <<registry, shelf, fetched, aim>>
      PROVE  Recorded'
    BY <1>1
<1>2. ASSUME NEW c \in Writes, NEW n \in Ids, NEW rec \in Asked[c],
             BeginAdd(c, rec) \/ BeginNetworkChange(c, n, rec)
      PROVE  Recorded'
    <2>1. /\ UNCHANGED <<registry, shelf, fetched>>
          /\ \E m \in Ids \cup {c} : aim' = With(aim, c, [net |-> m, rec |-> rec])
        BY <1>2 DEF BeginAdd, BeginNetworkChange, Enqueue
    <2>2. rec \in RecordsEver
        BY DEF RecordsEver
    <2>. QED
        BY <2>1, <2>2 DEF With
<1>3. ASSUME NEW c \in Writes,
             WriteFails(c) \/ ApplyFails(c) \/ DropReservations(c) \/ Prepare(c)
      PROVE  Recorded'
    <2>1. UNCHANGED <<registry, shelf, fetched>> /\ aim' \in {aim, Without(aim, c)}
        BY <1>3 DEF WriteFails, ApplyFails, DropReservations, Prepare, Settle
    <2>. QED
        BY <2>1 DEF Without
<1>4. ASSUME NEW c \in Writes, StoreNetwork(c) \/ ApplyNetwork(c) \/ RemoveNetwork(c)
      PROVE  Recorded'
    <2>1. c \in DOMAIN aim
        BY <1>4 DEF StoreNetwork, ApplyNetwork, RemoveNetwork, NetCore, Turns, Going
    <2>2. /\ UNCHANGED fetched /\ aim' \in {aim, Without(aim, c)}
          /\ registry' \in {registry, Without(registry, aim[c].net),
                            With(registry, aim[c].net, aim[c].rec)}
          /\ shelf' \in {shelf, Without(shelf, aim[c].net),
                         With(shelf, aim[c].net, aim[c].rec)}
        BY <1>4 DEF StoreNetwork, ApplyNetwork, RemoveNetwork, Settle, Clear
    <2>3. aim[c].rec \in RecordsEver
        BY <2>1
    <2>4. \A n \in DOMAIN registry' : registry'[n] \in RecordsEver
        BY <2>2, <2>3 DEF With, Without
    <2>5. \A n \in DOMAIN shelf' : shelf'[n] \in RecordsEver
        BY <2>2, <2>3 DEF With, Without
    <2>6. \A d \in DOMAIN aim' : aim'[d].rec \in RecordsEver
        BY <2>2 DEF Without
    <2>. QED
        BY <2>2, <2>4, <2>5, <2>6
<1>5. CASE WriteStep
    BY <1>2, <1>3, <1>4, <1>5 DEF WriteStep, Ids
<1>6. CASE OperationStep \/ OpeningStep \/ CloseClient
    BY <1>1, <1>6
    DEF OperationStep, BeginOperation, AddReservation, EndReservation, EndOperation,
        GiveBack,
        SetNetwork, OpeningStep, BeginOpen, ReadReservations, PublishWallet, CloseWallet,
        CloseClient, Forget, writeVars
<1>7. CASE Crash
    <2>1. DOMAIN aim' = {} /\ UNCHANGED <<registry, shelf, fetched>>
        BY <1>7, CrashKeepsTurns DEF Crash, Forget, NetCore
    <2>. QED
        BY <2>1
<1>8. CASE ReadNetworks
    BY <1>8 DEF ReadNetworks, writeVars
<1>9. CASE CreateClient
    <2>1. /\ fetched' = <<>> /\ registry' = With(fetched, Default, DefaultRecord)
          /\ UNCHANGED <<shelf, aim>>
        BY <1>9 DEF CreateClient, writeVars
    <2>2. DefaultRecord \in RecordsEver
        BY DEF RecordsEver
    <2>3. DOMAIN fetched' = {}
        BY <2>1, EmptySeq
    <2>. QED
        BY <2>1, <2>2, <2>3 DEF With
<1>10. CASE UNCHANGED networkVars
    BY <1>1, <1>10 DEF networkVars, writeVars
<1>. QED
    BY <1>5, <1>6, <1>7, <1>8, <1>9, <1>10 DEF NetworksNext

\* What reaches storage puts a network into the table or takes one out, that
\* no operation runs on, if its counter can tell.
LEMMA StoringRefines ==
    ASSUME NetworksAssumption, NetworksInv, Recorded, NEW c \in Writes, StoreNetwork(c)
    PROVE  Table!Next
<1>. DEFINE n == aim[c].net
            rec == aim[c].rec
<1>1. /\ step[c] = "storing" /\ c \in DOMAIN aim
      /\ n \in Ids /\ rec \in RecordsEver
      /\ Task[c] \in {"add", "update", "remove"}
      /\ Default \notin DOMAIN shelf
    BY DEF StoreNetwork, NetworksInv, NetCore, NetVars, NetTables, Turns, Going, Recorded,
           NetworksAssumption
<1>2. /\ UNCHANGED <<work, strays, lowered>> /\ (torn => torn')
      /\ Task[c] = "update" => n \in DOMAIN shelf
      /\ shelf' = IF Task[c] = "remove" THEN Without(shelf, n) ELSE With(shelf, n, rec)
    BY DEF StoreNetwork
<1>3. n \notin lowered => \A o \in OfClient : work[o].net # n
    <2>1. CASE Task[c] # "add"
        BY <1>1, <2>1, ChangedIsUnused DEF NetworksInv, NetCore
    <2>2. CASE Task[c] = "add"
        <3>1. n = c /\ c \notin DOMAIN registry
            BY <1>1, <2>2 DEF NetworksInv, NetCore, Turns, Added
        <3>2. \A o \in OfClient : work[o].net \in DOMAIN registry \cup lowered
            BY DEF NetworksInv, NetCore, Scopes, OperationsKeepTheirNetwork
        <3>. QED
            BY <3>1, <3>2
    <2>. QED
        BY <2>1, <2>2
<1>. DEFINE Using == [o \in OfClient |-> work[o]]
<1>4. UNCHANGED Using /\ DOMAIN Using = OfClient /\ \A o \in OfClient : Using[o] = work[o]
    BY <1>2 DEF OfClient
<1>. HIDE DEF Using
<1>5. Task[c] # "remove" => n # Default
    BY <1>1, <1>2 DEF NetworksInv, NetCore, Turns, NetworksAssumption
<1>6. CASE Task[c] # "remove"
    <2>1. Merged' = With(Merged, n, rec)
        BY <1>2, <1>5, <1>6, ChangesCommute DEF Merged
    <2>2. ~torn => NewRecord(n, rec, Merged)
        BY <1>1, <1>6 DEF NetworksInv, OneAhead
    <2>3. Table!Put(n, rec)
        BY <1>2, <1>3, <1>4, <1>5, <1>6, <2>1, <2>2
        DEF Table!Put, Table!Unused, Table!Unlike, NewRecord, Merged, With, Using
    <2>. QED
        BY <1>1, <2>3 DEF Table!Next
<1>7. CASE Task[c] = "remove" /\ n # Default
    <2>1. Merged' = Without(Merged, n)
        BY <1>2, <1>7 DEF Merged, With, Without
    <2>2. Table!Drop(n)
        BY <1>2, <1>3, <1>4, <1>7, <2>1
        DEF Table!Drop, Table!Unused, Merged, Without, Using
    <2>. QED
        BY <1>1, <2>2 DEF Table!Next
<1>8. CASE Task[c] = "remove" /\ n = Default
    <2>1. Merged' = Merged
        BY <1>1, <1>2, <1>8 DEF Merged, With, Without
    <2>. QED
        BY <1>2, <1>4, <2>1 DEF Table!Next, Table!Tear, Merged, Using
<1>. QED
    BY <1>6, <1>7, <1>8

\* An operation begins on a network that is in the table, as it is there: a
\* change that memory has yet to follow is of another network.
LEMMA BeginningRefines ==
    ASSUME NetworksInv, Recorded, NEW o \in Operations, NEW n \in Ids,
           BeginOperation(o, n)
    PROVE  Table!Next
<1>1. /\ client = "ready" /\ o \notin DOMAIN work /\ n \in DOMAIN registry
      /\ \A c \in DOMAIN aim : Task[c] # "add" => aim[c].net # n
      /\ work' = With(work, o, Reservation(n))
      /\ UNCHANGED <<shelf, strays, torn, lowered>>
    BY DEF BeginOperation, Reconfiguring, pastVars
<1>2. ~torn => n \in DOMAIN Merged /\ Merged[n] = registry[n]
    <2>1. CASE \A c \in Writes : step[c] # "stored"
        BY <1>1, <2>1 DEF NetworksInv, OneAhead
    <2>2. ASSUME NEW c \in Writes, step[c] = "stored", ~torn
          PROVE  n \in DOMAIN Merged /\ Merged[n] = registry[n]
        <3>1. c \in DOMAIN aim /\ Written(c)
            BY <2>2 DEF NetworksInv, NetCore, Turns, Going, OneAhead
        <3>2. CASE Task[c] = "add"
            <4>1. aim[c].net = c /\ (c \in DOMAIN registry => registry[c] = aim[c].rec)
                BY <2>2, <3>1, <3>2 DEF NetworksInv, NetCore, Turns, Added
            <4>2. Merged = With(registry, c, aim[c].rec)
                BY <3>1, <3>2, <4>1 DEF Written
            <4>. QED
                BY <1>1, <4>1, <4>2 DEF With
        <3>3. CASE Task[c] # "add"
            <4>1. aim[c].net # n
                BY <1>1, <3>1, <3>3
            <4>2. Merged \in {With(registry, aim[c].net, aim[c].rec),
                              Without(registry, aim[c].net), registry}
                BY <3>1 DEF Written
            <4>. QED
                BY <1>1, <4>1, <4>2 DEF With, Without
        <3>. QED
            BY <3>2, <3>3
    <2>. QED
        BY <2>1, <2>2
<1>3. PICK rec \in RecordsEver : rec = registry[n]
    BY <1>1 DEF Recorded
<1>4. /\ o \notin OfClient /\ OfClient' = OfClient \cup {o}
      /\ [p \in OfClient |-> work[p]]'
             = [p \in OfClient \cup {o} |-> IF p = o THEN Reservation(n) ELSE work[p]]
    BY <1>1 DEF OfClient, With, NetworksInv, NetCore, NetVars
<1>5. Table!Begin(o, n, rec)
    BY <1>1, <1>2, <1>3, <1>4 DEF Table!Begin, Merged, With, Reservation
<1>. QED
    BY <1>5 DEF Table!Next

\* A table of nothing.
LEMMA NothingIsEmpty ==
    ASSUME NEW f, f = [x \in {} |-> f[x]]
    PROVE  f = <<>>
BY EmptySeq

\* Every step of the networks is one of the table, or leaves it alone.
LEMMA TableStep ==
    ASSUME NetworksAssumption, NetworksInv, Recorded, [NetworksNext]_networkVars
    PROVE  [Table!Next]_Table!vars
<1>1. ASSUME UNCHANGED <<shelf, OfClient>>, torn => torn', lowered \subseteq lowered',
             \A o \in OfClient : work'[o] = work[o]
      PROVE  Table!Next
    <2>1. [o \in OfClient |-> work[o]]' = [o \in OfClient |-> work[o]]
        BY <1>1
    <2>. QED
        BY <1>1, <2>1 DEF Table!Next, Table!Tear, With
<1>2. ASSUME UNCHANGED <<shelf, work, strays, torn, lowered>>
      PROVE  Table!Next
    BY <1>1, <1>2 DEF OfClient
<1>3. CASE WriteStep
    <2>1. PICK c \in Writes :
              StoreNetwork(c) \/ UNCHANGED <<shelf, work, strays, torn, lowered>>
        BY <1>3 DEF WriteStep, BeginAdd, BeginNetworkChange, Enqueue, Prepare, WriteFails,
                    ApplyNetwork, RemoveNetwork, ApplyFails, DropReservations, pastVars
    <2>. QED
        BY <1>2, <2>1, StoringRefines
<1>4. ASSUME NEW o \in Operations, EndOperation(o)
      PROVE  Table!Next
    <2>1. /\ UNCHANGED <<shelf, torn>> /\ lowered \subseteq lowered'
          /\ o \in DOMAIN work /\ OfClient' = OfClient \ {o}
          /\ \A p \in OfClient \ {o} : work'[p] = work[p]
          /\ o \in OfClient => lowered' = lowered
        BY <1>4 DEF EndOperation, GiveBack, Without, OfClient
    <2>2. CASE o \in OfClient
        <3>1. [p \in OfClient |-> work[p]]'
                  = [p \in OfClient \ {o} |-> [q \in OfClient |-> work[q]][p]]
            BY <2>1
        <3>2. Table!End(o)
            BY <2>1, <2>2, <3>1 DEF Table!End
        <3>. QED
            BY <3>2 DEF Table!Next
    <2>3. CASE o \notin OfClient
        BY <1>1, <2>1, <2>3
    <2>. QED
        BY <2>2, <2>3
<1>5. CASE OperationStep
    <2>1. \/ \E o \in Operations, n \in Ids : BeginOperation(o, n)
          \/ \E o \in Operations : EndOperation(o)
          \/ UNCHANGED <<shelf, work, strays, torn, lowered>>
        BY <1>5 DEF OperationStep, AddReservation, EndReservation, SetNetwork, pastVars
    <2>. QED
        BY <1>2, <1>4, <2>1, BeginningRefines
<1>6. CASE OpeningStep \/ ReadNetworks \/ CreateClient
    <2>1. UNCHANGED <<shelf, work, strays, torn, lowered>>
        BY <1>6 DEF OpeningStep, BeginOpen, ReadReservations, PublishWallet, CloseWallet,
                    ReadNetworks, CreateClient, pastVars
    <2>. QED
        BY <1>2, <2>1
<1>7. CASE CloseClient \/ Crash
    <2>1. shelf' = shelf /\ OfClient' = {} /\ lowered' = {}
        BY <1>7 DEF CloseClient, Crash, Forget, OfClient
    <2>2. torn => torn'
        BY <1>7, Zenon DEF CloseClient, Crash
    <2>3. [o \in OfClient |-> work[o]]' = <<>>
        BY <2>1, NothingIsEmpty
    <2>. QED
        BY <2>1, <2>2, <2>3 DEF Table!Next, Table!Restart, With
<1>8. CASE UNCHANGED networkVars
    <2>1. UNCHANGED <<shelf, work, strays, torn, lowered>>
        BY <1>8 DEF networkVars, pastVars
    <2>. QED
        BY <1>2, <2>1
<1>. QED
    BY <1>3, <1>5, <1>6, <1>7, <1>8 DEF NetworksNext

\* Memory, storage, queue, scopes and counters together implement the one table
\* of networks in which nothing happens to a network that is in use, as far as
\* no stray has lowered its counter.
THEOREM NetworksRefineTable == NetworksSpec => ImplementsNetworkTable
<1>1. NetworksInit => Recorded /\ Table!Init
    <2>. SUFFICES ASSUME NetworksInit PROVE Recorded /\ Table!Init
        OBVIOUS
    <2>1. NetworksInv
        BY InitialNetworks
    <2>2. /\ registry = Merged /\ Distinct(Merged) /\ OfClient = {} /\ torn = FALSE
          /\ DOMAIN fetched = {} /\ DOMAIN aim = {} /\ lowered = {}
        BY <2>1, EmptySeq DEF NetworksInit, NetworksInv, OneAhead, OfClient
    <2>3. Recorded
        BY <2>2 DEF NetworksInit, Recorded, RecordsEver, With
    <2>4. Default \in DOMAIN Merged
        BY DEF Merged, With
    <2>5. \A n \in DOMAIN Merged : Table!Unlike(n, Merged[n], Merged)
        BY <2>2 DEF Table!Unlike, Distinct
    <2>6. [o \in OfClient |-> work[o]] = <<>>
        BY <2>2, NothingIsEmpty
    <2>7. Table!Init
        BY <2>2, <2>4, <2>5, <2>6 DEF Table!Init, Merged
    <2>. QED
        BY <2>3, <2>7
<1>2. NetworksInv /\ Recorded /\ [NetworksNext]_networkVars => Recorded'
    BY RecordedStep DEF NetworksInv
<1>3. NetworksInv /\ Recorded /\ [NetworksNext]_networkVars => [Table!Next]_Table!vars
    BY TableStep, NetworksAssumption
<1>. QED
    BY <1>1, <1>2, <1>3, NetworksInvariance, PTL
    DEF NetworksSpec, ImplementsNetworkTable

\* Every step of the table keeps what it promises.
LEMMA TableKeeps ==
    ASSUME Table!Kept, [Table!Next]_Table!vars
    PROVE  Table!Kept'
<1>. DEFINE Using == [o \in OfClient |-> work[o]]
            KeptIn(t, u, L) ==
                /\ \A n \in DOMAIN t : Table!Unlike(n, t[n], t)
                /\ \A o \in DOMAIN u :
                      u[o].net \notin L =>
                          u[o].net \in DOMAIN t /\ t[u[o].net].config = u[o].config
<1>1. Table!Kept <=> (~torn => KeptIn(Merged, Using, lowered))
    BY DEF Table!Kept, Merged
<1>2. ASSUME ~torn' => KeptIn(Merged', Using', lowered')
      PROVE  Table!Kept'
    BY <1>2 DEF Table!Kept, Table!Unlike, Merged
<1>. HIDE DEF Using
<1>3. ASSUME NEW n, NEW rec, Table!Put(n, rec)
      PROVE  Table!Kept'
    <2>1. /\ UNCHANGED <<Using, lowered>> /\ Merged' = With(Merged, n, rec)
          /\ n \notin lowered => \A o \in DOMAIN Using : Using[o].net # n
          /\ (torn => torn')
          /\ ~torn => Table!Unlike(n, rec, Merged)
        BY <1>3 DEF Table!Put, Table!Unused, Merged, With, Using
    <2>2. ASSUME ~torn' PROVE KeptIn(With(Merged, n, rec), Using, lowered)
        BY <1>1, <2>1, <2>2 DEF Table!Unlike, With
    <2>. QED
        BY <1>2, <2>1, <2>2
<1>4. ASSUME NEW n, Table!Drop(n)
      PROVE  Table!Kept'
    <2>1. /\ UNCHANGED <<Using, lowered>> /\ Merged' = Without(Merged, n)
          /\ n \notin lowered => \A o \in DOMAIN Using : Using[o].net # n
          /\ (torn => torn')
        BY <1>4 DEF Table!Drop, Table!Unused, Merged, Without, Using
    <2>2. ASSUME ~torn' PROVE KeptIn(Without(Merged, n), Using, lowered)
        BY <1>1, <2>1, <2>2 DEF Table!Unlike, Without
    <2>. QED
        BY <1>2, <2>1, <2>2
<1>5. ASSUME NEW o, NEW n, NEW rec, Table!Begin(o, n, rec)
      PROVE  Table!Kept'
    <2>1. /\ UNCHANGED <<torn, lowered>> /\ Merged' = Merged
          /\ ~torn => n \in DOMAIN Merged /\ Merged[n] = rec
          /\ Using' = [p \in DOMAIN Using \cup {o} |->
                          IF p = o THEN [net |-> n, config |-> rec.config] ELSE Using[p]]
        BY <1>5 DEF Table!Begin, Merged, Using
    <2>. QED
        BY <1>1, <1>2, <2>1
<1>6. ASSUME NEW o, Table!End(o)
      PROVE  Table!Kept'
    <2>1. /\ UNCHANGED <<torn, lowered>> /\ Merged' = Merged
          /\ Using' = [p \in DOMAIN Using \ {o} |-> Using[p]]
        BY <1>6 DEF Table!End, Merged, Using
    <2>. QED
        BY <1>1, <1>2, <2>1
<1>7. CASE Table!Restart
    <2>1. Using' = <<>> /\ Merged' = Merged /\ (torn => torn')
        BY <1>7 DEF Table!Restart, Merged, Using
    <2>2. DOMAIN Using' = {}
        BY <2>1, EmptySeq
    <2>. QED
        BY <1>1, <1>2, <2>1, <2>2
<1>8. CASE Table!Tear \/ UNCHANGED Table!vars
    <2>1. /\ UNCHANGED Using /\ Merged' = Merged /\ (torn => torn')
          /\ lowered \subseteq lowered'
        BY <1>8 DEF Table!Tear, Table!vars, Merged, Using
    <2>. QED
        BY <1>1, <1>2, <2>1
<1>. QED
    BY <1>3, <1>4, <1>5, <1>6, <1>7, <1>8 DEF Table!Next

\* So an operation finds its network in storage until it or its client ends,
\* with the config it began with, unless a write went on without its client or
\* the end of a stray has lowered the counter of the network.
THEOREM TableIsKept == NetworksSpec => []Table!Kept
<1>1. Table!Init => Table!Kept
    BY EmptySeq DEF Table!Init, Table!Kept
<1>2. Table!Kept /\ [Table!Next]_Table!vars => Table!Kept'
    BY TableKeeps
<1>. QED
    BY <1>1, <1>2, NetworksRefineTable, PTL DEF ImplementsNetworkTable

=============================================================================
