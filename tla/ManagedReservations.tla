-------------------------- MODULE ManagedReservations --------------------------
(***************************************************************************)
(* External reservations: deploys submitted by others, whose funds a       *)
(* wallet locks by addTransactionReservation, changes by                   *)
(* updateTransactionReservation and frees by removeTransactionReservation. *)
(* While a call changes a reservation it has it for itself: neither poller *)
(* nor timer of the reservation run.  The wallet may be closed and opened  *)
(* again under a call, and a change of the network may drop everything.    *)
(*                                                                         *)
(* One signer, one account, one network.  A reservation is named after the *)
(* call that added it.  Reservations of the wallet's own submissions are   *)
(* in module Reservations, the keys of OperationGuard are seen here as     *)
(* what they exclude.                                                      *)
(***************************************************************************)
EXTENDS Integers, FiniteSets, Functions

CONSTANTS
    Requests,   \* calls of the three operations
    Job,        \* Job[c] \in {"lock", "change", "free"}
    ForDeploy,  \* ForDeploy[c]: the deploy a lock or change is for
    Pending,    \* Pending[c]: its pendingAmount
    Wealth      \* the balance of the account at first

ASSUME ManagedAssumption ==
    /\ IsFiniteSet(Requests)
    /\ Job \in [Requests -> {"lock", "change", "free"}]
    /\ Pending \in [Requests -> Nat \ {0}]   \* validateReservationPayload
    /\ Wealth \in Nat

VARIABLES
    adapter,    \* closed, restoring, open
    fetchedRows,\* the records an opening has read
    locks,      \* the reservations in memory
    polled,     \* those whose deploy is polled
    timed,      \* those whose expiration timer runs
    rows,       \* the reservations in storage
    deleting,   \* records whose deletion was started and not awaited
    at,         \* at[c]: the await c is parked at
    goal,       \* goal[c]: the reservation c is about
    counted,    \* counted[c]: what its balance check adds up
    strayed,    \* calls whose adapter has been closed
    overdue,    \* calls whose reservation has reached its expirationTime
    settled,    \* deploys the chain has executed
    remote,     \* the balance of the account
    missed      \* history: an opening read storage under a running call or
                \* deletion, storage kept a record that memory had dropped, or a deploy
                \* was executed while its reservation was given to another

callVars == <<at, goal, counted, strayed>>
tendVars == <<polled, timed>>
worldVars == <<overdue, settled, remote>>
managedVars == <<adapter, fetchedRows, locks, tendVars, rows, deleting, callVars,
                 worldVars, missed>>

-----------------------------------------------------------------------------
Parked == {"balance", "writing", "written"}

\* A reservation: its deploy, its amount, and the call that built it, from
\* whose time the expiration counts.
Draft(c) == [deploy |-> ForDeploy[c], amount |-> Pending[c], by |-> c]
Drafts == {Draft(c) : c \in Requests}
NoLocks == [r \in {} |-> 0]

Under(D) == {c \in Requests : at[c] \in Parked /\ Job[c] \in D}
Running == Under({"lock", "change", "free"})

\* Changed or freed right now: a member of exclusiveIds of the manager.
Exclusive == {goal[c] : c \in Under({"change", "free"}) \ strayed}

\* What the reservations R of a table t lock.
Locked(t, R) == SumFunctionOnSet([r \in R |-> t[r].amount], R)
Reserved == Locked(locks, DOMAIN locks)

\* The table t with rec as r.
Put(t, r, rec) == [x \in DOMAIN t \cup {r} |-> IF x = r THEN rec ELSE t[x]]

\* Memory without R, whose pollers and timers stop.
Untrack(R) ==
    /\ locks' = Restrict(locks, DOMAIN locks \ R)
    /\ polled' = polled \ R
    /\ timed' = timed \ R

\* r as rec in memory, polled and timed; if its time is over already, the
\* timer releases it in the same turn.
Track(r, rec) ==
    IF rec.by \in overdue
    THEN /\ Untrack({r})
         /\ deleting' = deleting \cup {r}
    ELSE /\ locks' = Put(locks, r, rec)
         /\ polled' = polled \cup {r}
         /\ timed' = timed \cup {r}
         /\ UNCHANGED deleting

ManagedInit ==
    /\ adapter = "closed"
    /\ fetchedRows = NoLocks /\ locks = NoLocks /\ rows = NoLocks
    /\ polled = {} /\ timed = {} /\ deleting = {}
    /\ at = [c \in Requests |-> "idle"]
    /\ goal = [c \in Requests |-> c]
    /\ counted = [c \in Requests |-> 0]
    /\ strayed = {} /\ overdue = {} /\ settled = {}
    /\ remote = Wealth
    /\ missed = FALSE

-----------------------------------------------------------------------------
(* The calls                                                               *)

Move(c, stage) == at' = [at EXCEPT ![c] = stage]

\* The call settles, one way or the other.
Finish(c) ==
    /\ Move(c, "over")
    /\ goal' = [goal EXCEPT ![c] = c]
    /\ counted' = [counted EXCEPT ![c] = 0]
    /\ strayed' = strayed \ {c}

\* ensureUniqueDeployId, in the memory of the adapter.
UniqueDeploy(c, others) ==
    \A r \in DOMAIN locks \ others : locks[r].deploy # ForDeploy[c]

\* The account key keeps two calls for one account apart.
BeginLock(c) ==
    /\ Job[c] = "lock" /\ at[c] = "idle"
    /\ adapter = "open" /\ Running = {}
    /\ UniqueDeploy(c, {})
    /\ Move(c, "balance")
    /\ counted' = [counted EXCEPT ![c] = Reserved + Pending[c]]
    /\ UNCHANGED <<adapter, fetchedRows, locks, tendVars, rows, deleting, goal,
                   strayed, worldVars, missed>>

\* Mutant: an update begins while another call for the account runs.
BeginChangeBeside(c, r) ==
    /\ Job[c] = "change" /\ at[c] = "idle"
    /\ adapter = "open" /\ r \notin Exclusive
    /\ r \in DOMAIN locks
    /\ UniqueDeploy(c, {r})
    /\ Move(c, "balance")
    /\ goal' = [goal EXCEPT ![c] = r]
    /\ counted' = [counted EXCEPT ![c] = Reserved + Pending[c] - locks[r].amount]
    /\ polled' = polled \ {r}
    /\ timed' = timed \ {r}
    /\ UNCHANGED <<adapter, fetchedRows, locks, rows, deleting, strayed,
                   worldVars, missed>>

\* runExclusive stops poller and timer; the balance has to cover the
\* difference to the amount reserved so far.
BeginChange(c, r) ==
    /\ Job[c] = "change" /\ at[c] = "idle"
    /\ adapter = "open" /\ Running = {}
    /\ r \in DOMAIN locks
    /\ UniqueDeploy(c, {r})
    /\ Move(c, "balance")
    /\ goal' = [goal EXCEPT ![c] = r]
    /\ counted' = [counted EXCEPT ![c] = Reserved + Pending[c] - locks[r].amount]
    /\ polled' = polled \ {r}
    /\ timed' = timed \ {r}
    /\ UNCHANGED <<adapter, fetchedRows, locks, rows, deleting, strayed,
                   worldVars, missed>>

\* Another reservation is for that deploy: refused within the turn, which
\* re-arms the reservation, also one whose polling had ended.
ChangeRefused(c, r) ==
    /\ Job[c] = "change" /\ at[c] = "idle"
    /\ adapter = "open" /\ Running = {}
    /\ r \in DOMAIN locks
    /\ ~UniqueDeploy(c, {r})
    /\ Finish(c)
    /\ Track(r, locks[r])
    /\ UNCHANGED <<adapter, fetchedRows, rows, worldVars, missed>>

BeginFree(c, r) ==
    /\ Job[c] = "free" /\ at[c] = "idle"
    /\ adapter = "open" /\ Running = {}
    /\ r \in DOMAIN locks
    /\ Move(c, "writing")
    /\ goal' = [goal EXCEPT ![c] = r]
    /\ polled' = polled \ {r}
    /\ timed' = timed \ {r}
    /\ UNCHANGED <<adapter, fetchedRows, locks, rows, deleting, counted, strayed,
                   worldVars, missed>>

BalanceCovers(c) ==
    /\ at[c] = "balance"
    /\ remote - counted[c] >= 0
    /\ Move(c, "writing")
    /\ UNCHANGED <<adapter, fetchedRows, locks, tendVars, rows, deleting, goal,
                   counted, strayed, worldVars, missed>>

\* An update finds its record, or fails.
WriteRow(c) ==
    /\ at[c] = "writing"
    /\ Job[c] = "change" => goal[c] \in DOMAIN rows
    /\ rows' = IF Job[c] = "free" THEN Restrict(rows, DOMAIN rows \ {goal[c]})
               ELSE Put(rows, goal[c], Draft(c))
    /\ Move(c, "written")
    /\ UNCHANGED <<adapter, fetchedRows, locks, tendVars, deleting, goal, counted,
                   strayed, worldVars, missed>>

\* Mutant: an update that fails leaves the reservation as runExclusive made it.
CallFailsUnarmed(c) ==
    /\ at[c] \in {"balance", "writing"}
    /\ Finish(c)
    /\ UNCHANGED <<adapter, fetchedRows, locks, tendVars, rows, deleting,
                   worldVars, missed>>

\* The balance is short or unknown, the signer is locked, storage fails: the
\* finally of runExclusive re-arms a reservation that is still there.
CallFails(c) ==
    /\ at[c] \in {"balance", "writing"}
    /\ Finish(c)
    /\ IF Job[c] # "lock" /\ c \notin strayed
       THEN Track(goal[c], locks[goal[c]])
       ELSE UNCHANGED <<locks, tendVars, deleting>>
    /\ UNCHANGED <<adapter, fetchedRows, rows, worldVars, missed>>

\* The record is written: now memory.
ChangeMemory(c) ==
    /\ at[c] = "written"
    /\ c \notin strayed
    /\ Finish(c)
    /\ IF Job[c] = "free"
       THEN Untrack({goal[c]}) /\ UNCHANGED deleting
       ELSE Track(goal[c], Draft(c))
    /\ UNCHANGED <<adapter, fetchedRows, rows, worldVars, missed>>

\* The adapter of the call is closed: add is skipped and its call succeeds,
\* replace and remove do not find the reservation and their calls fail.
MemoryGone(c) ==
    /\ at[c] = "written"
    /\ c \in strayed
    /\ Finish(c)
    /\ UNCHANGED <<adapter, fetchedRows, locks, tendVars, rows, deleting,
                   worldVars, missed>>

-----------------------------------------------------------------------------
(* Pollers, timers and the world                                           *)

Release(r) ==
    /\ Untrack({r})
    /\ deleting' = deleting \cup {r}
    /\ UNCHANGED <<adapter, fetchedRows, rows, callVars, worldVars, missed>>

Confirmed(r) == r \in polled /\ locks[r].deploy \in settled /\ Release(r)
Expired(r) == r \in timed /\ locks[r].by \in overdue /\ Release(r)

PollingFails(r) ==
    /\ r \in polled
    /\ polled' = polled \ {r}
    /\ UNCHANGED <<adapter, fetchedRows, locks, timed, rows, deleting, callVars,
                   worldVars, missed>>

\* The deletion a release started ends; a failure is only logged.
DeletionEnds(r) ==
    /\ r \in deleting
    /\ deleting' = deleting \ {r}
    /\ \/ rows' = Restrict(rows, DOMAIN rows \ {r}) /\ UNCHANGED missed
       \/ missed' = TRUE /\ UNCHANGED rows
    /\ UNCHANGED <<adapter, fetchedRows, locks, tendVars, callVars, worldVars>>

\* removeByNetworkId, and the deletion of what it found, which may fail.
NetworkDropped ==
    /\ adapter = "open" /\ Running = {} /\ locks # NoLocks
    /\ Untrack(DOMAIN locks)
    /\ \/ rows' = Restrict(rows, DOMAIN rows \ DOMAIN locks) /\ UNCHANGED missed
       \/ missed' = TRUE /\ UNCHANGED rows
    /\ UNCHANGED <<adapter, fetchedRows, deleting, callVars, worldVars>>

TimePasses(c) ==
    /\ c \notin overdue
    /\ Draft(c) \in Range(locks) \cup Range(rows)
    /\ overdue' = overdue \cup {c}
    /\ UNCHANGED <<adapter, fetchedRows, locks, tendVars, rows, deleting,
                   callVars, settled, remote, missed>>

\* The chain executes a deploy, at the cost of what is reserved for it.
Settles(c) ==
    /\ ForDeploy[c] \notin settled
    /\ \E r \in DOMAIN locks :
          /\ locks[r] = Draft(c)
          /\ missed' = (missed \/ \E d \in Under({"change"}) :
                                    goal[d] = r /\ ForDeploy[d] # ForDeploy[c])
    /\ settled' = settled \cup {ForDeploy[c]}
    /\ remote' = remote - Pending[c]
    /\ UNCHANGED <<adapter, fetchedRows, locks, tendVars, rows, deleting,
                   callVars, overdue>>

-----------------------------------------------------------------------------
(* Opening and closing the wallet                                          *)

ReadRecords ==
    /\ adapter = "closed"
    /\ adapter' = "restoring"
    /\ fetchedRows' = rows
    /\ missed' = (missed \/ Running # {} \/ deleting # {})
    /\ UNCHANGED <<locks, tendVars, rows, deleting, callVars, worldVars>>

\* Expired records are deleted on the way.
Restore ==
    LET live == {r \in DOMAIN fetchedRows : fetchedRows[r].by \notin overdue} IN
    /\ adapter = "restoring"
    /\ adapter' = "open"
    /\ locks' = Restrict(fetchedRows, live)
    /\ polled' = live
    /\ timed' = live
    /\ rows' = Restrict(rows, DOMAIN rows \ (DOMAIN fetchedRows \ live))
    /\ fetchedRows' = NoLocks
    /\ UNCHANGED <<deleting, callVars, worldVars, missed>>

CloseAdapter ==
    /\ adapter = "open"
    /\ adapter' = "closed"
    /\ locks' = NoLocks /\ polled' = {} /\ timed' = {}
    /\ strayed' = strayed \cup Running
    /\ UNCHANGED <<fetchedRows, rows, deleting, at, goal, counted, worldVars, missed>>

ManagedNext ==
    \/ \E c \in Requests :
          \/ BeginLock(c) \/ BalanceCovers(c) \/ WriteRow(c) \/ CallFails(c)
          \/ ChangeMemory(c) \/ MemoryGone(c) \/ TimePasses(c) \/ Settles(c)
    \/ \E c, r \in Requests :
          BeginChange(c, r) \/ ChangeRefused(c, r) \/ BeginFree(c, r)
    \/ \E r \in Requests :
          Confirmed(r) \/ Expired(r) \/ PollingFails(r) \/ DeletionEnds(r)
    \/ NetworkDropped \/ ReadRecords \/ Restore \/ CloseAdapter

ManagedSpec == ManagedInit /\ [][ManagedNext]_managedVars

-----------------------------------------------------------------------------
(* Properties                                                              *)

IsLocks(f) == DOMAIN f \subseteq Requests /\ \A r \in DOMAIN f : f[r] \in Drafts

ManagedTypeOK ==
    /\ adapter \in {"closed", "restoring", "open"}
    /\ IsLocks(locks) /\ IsLocks(rows) /\ IsLocks(fetchedRows)
    /\ at \in [Requests -> {"idle", "over"} \cup Parked]
    /\ goal \in [Requests -> Requests]
    /\ deleting \subseteq Requests /\ strayed \subseteq Requests

\* DOMAINS.md:530: "While an update or a remove runs, the reservation's deploy
\* watcher and expiration timer are suspended and re-armed afterwards", however
\* the call ends: every other reservation in memory has its timer, the only
\* step that surely frees its funds.
Tended ==
    /\ polled \subseteq DOMAIN locks /\ timed = DOMAIN locks \ Exclusive
    /\ polled \cap Exclusive = {}
    /\ Exclusive \subseteq DOMAIN locks

\* No deploy has two reservations in t; what those in R lock for deploys that
\* are not paid.
OneEach(t) == \A r, s \in DOMAIN t : t[r].deploy = t[s].deploy => r = s
Owed(t, R, paid) == Locked(t, {r \in R : t[r].deploy \notin paid})

\* What memory locks is stored as it is in memory, no deploy is reserved twice,
\* and what has not been executed yet is covered by the balance; updates of the
\* amount, expirations and confirmations may come in between.  Not so once an
\* opening has read storage under a running call or deletion, a record could not
\* be deleted, or a deploy was executed while its reservation was given to
\* another.
LocksAgree ==
    adapter = "open" /\ ~missed =>
        /\ \A r \in DOMAIN locks \ Exclusive : r \in DOMAIN rows /\ rows[r] = locks[r]
        /\ OneEach(locks)
        /\ Owed(locks, DOMAIN locks, settled) <= remote

===============================================================================
