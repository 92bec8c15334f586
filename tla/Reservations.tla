---------------------------- MODULE Reservations ----------------------------
(***************************************************************************)
(* The reservation adapter of one wallet (one signer): how a transfer or a *)
(* deploy locks the funds of its account, from the balance check to the    *)
(* answer of the node, and how the lock survives closing and reopening the *)
(* wallet and a crash of the process.                                      *)
(*                                                                         *)
(* The program is single threaded, so an action is the code between two    *)
(* awaits; stage[d] names the await a submission is parked at.  A deploy   *)
(* id is the signature of that one attempt, so every attempt is its own    *)
(* element of Deploys and its reservation goes by the same name.           *)
(* External reservations (add, update, remove) and network changes are not *)
(* part of this module.                                                    *)
(***************************************************************************)
EXTENDS Integers, FiniteSets, FiniteSetsExt

CONSTANTS
    Deploys,    \* attempts to submit a transfer or a deploy
    Accounts,   \* accounts of the wallet
    AccountOf,  \* AccountOf[d]: the account that pays for d
    Amount,     \* Amount[d]: pendingAmount of d, at least what d costs on chain
    Funds       \* Funds[a]: remote balance of a before any of these deploys

ASSUME ConstantsAssumption ==
    /\ IsFiniteSet(Deploys)
    /\ AccountOf \in [Deploys -> Accounts]
    /\ Amount \in [Deploys -> Nat \ {0}]
    /\ Funds \in [Accounts -> Nat]

VARIABLES
    phase,      \* the wallet: closed, the await ReservationAdapter.create is at, open
    unread,     \* while loading: stored records still to be decrypted
    restored,   \* while loading: reservations rebuilt from records so far
    live,       \* reservations in the memory of the open adapter
    watched,    \* live reservations whose deploy status poller still runs
    store,      \* reservation records of this signer in storage
    releasing,  \* records whose fire-and-forget deletion is under way
    stage,      \* stage[d]: where the submission of d is
    counted,    \* counted[d]: reservations summed by the balance check of d
    stale,      \* submissions whose adapter has been closed since they began
    expired,    \* reservations whose expirationTime has passed
    chain,      \* chain[d]: what the node and the chain did with d
    lapsed      \* history: deploys that expired before they were settled

walletVars == <<phase, unread, restored>>
memoryVars == <<live, watched>>
storageVars == <<store, releasing>>
submissionVars == <<stage, counted, stale>>
worldVars == <<expired, chain, lapsed>>
vars == <<walletVars, memoryVars, storageVars, submissionVars, worldVars>>

-----------------------------------------------------------------------------
Opening == {"draining", "reading", "loading"}
Phases == {"closed", "open"} \cup Opening

\* Stages in which the account key of operationsGuard is held ...
Active == {"balance", "sign", "persist", "stored", "sent", "rollback"}
\* ... and those inside submissionsGuard.track.
Tracked == {"persist", "stored", "sent", "rollback"}
Stages == {"idle", "done"} \cup Active

Unsettled == {"inflight", "pending"}
Fates == {"none", "refused", "finalized", "dropped"} \cup Unsettled

OfAccount(D, a) == {d \in D : AccountOf[d] = a}
Total(D) == MapThenSumSet(LAMBDA d : Amount[d], D)

\* What account.getBalance() answers: the settled part of the chain.
Balance(a) ==
    Funds[a] - Total({d \in OfAccount(Deploys, a) : chain[d] = "finalized"})

\* The deploys of a that may still take its funds.
Outgoing(a) == {d \in OfAccount(Deploys, a) : chain[d] \in Unsettled}

Busy(a) == \E d \in OfAccount(Deploys, a) : stage[d] \in Active
HasPendingSubmissions == \E d \in Deploys : stage[d] \in Tracked

\* reservationsManager.isActive() of the adapter the submission d runs on.
AdapterActive(d) == phase = "open" /\ d \notin stale

Init ==
    /\ phase = "closed"
    /\ unread = {} /\ restored = {}
    /\ live = {} /\ watched = {}
    /\ store = {} /\ releasing = {}
    /\ stage = [d \in Deploys |-> "idle"]
    /\ counted = [d \in Deploys |-> {}]
    /\ stale = {}
    /\ expired = {}
    /\ chain = [d \in Deploys |-> "none"]
    /\ lapsed = {}

-----------------------------------------------------------------------------
(* A submission: ReservationAdapter.transfer and .deploy                   *)

\* Mutant: the key of the account is not looked at.
BeginUnguarded(d) ==
    /\ phase = "open"
    /\ stage[d] = "idle"
    /\ stage' = [stage EXCEPT ![d] = "balance"]
    /\ counted' = [counted EXCEPT ![d] = OfAccount(live, AccountOf[d])]
    /\ UNCHANGED <<walletVars, memoryVars, storageVars, stale, worldVars>>

\* The account key is taken and the reserved amount is read in the same turn
\* that starts the balance request.
BeginSubmission(d) ==
    /\ phase = "open"
    /\ stage[d] = "idle"
    /\ ~Busy(AccountOf[d])
    /\ stage' = [stage EXCEPT ![d] = "balance"]
    /\ counted' = [counted EXCEPT ![d] = OfAccount(live, AccountOf[d])]
    /\ UNCHANGED <<walletVars, memoryVars, storageVars, stale, worldVars>>

\* remoteBalance - (reserved + amount) >= 0, with the balance as it is when
\* the answer is made.
BalanceSuffices(d) ==
    /\ stage[d] = "balance"
    /\ Balance(AccountOf[d]) - (Total(counted[d]) + Amount[d]) >= 0
    /\ stage' = [stage EXCEPT ![d] = "sign"]
    /\ UNCHANGED <<walletVars, memoryVars, storageVars, counted, stale,
                   worldVars>>

Signed(d) ==
    /\ stage[d] = "sign"
    /\ stage' = [stage EXCEPT ![d] = "persist"]
    /\ UNCHANGED <<walletVars, memoryVars, storageVars, counted, stale,
                   worldVars>>

\* The balance is short or unknown, the wallet is locked and no password was
\* given, or the record could not be encrypted or written.
SubmissionAborts(d) ==
    /\ stage[d] \in {"balance", "sign", "persist"}
    /\ stage' = [stage EXCEPT ![d] = "done"]
    /\ UNCHANGED <<walletVars, memoryVars, storageVars, counted, stale,
                   worldVars>>

PersistReservation(d) ==
    /\ stage[d] = "persist"
    /\ store' = store \cup {d}
    /\ stage' = [stage EXCEPT ![d] = "stored"]
    /\ UNCHANGED <<walletVars, memoryVars, releasing, counted, stale,
                   worldVars>>

\* Mutant: the closed adapter sends all the same.
SubmitThoughClosed(d) ==
    /\ stage[d] = "stored"
    /\ stage' = [stage EXCEPT ![d] = "sent"]
    /\ chain' = [chain EXCEPT ![d] = "inflight"]
    /\ UNCHANGED <<walletVars, memoryVars, storageVars, counted, stale,
                   expired, lapsed>>

\* @EnsureReservationsManagerActive: a closed adapter sends nothing and
\* settles the refusal as DomainClosedError.
Submit(d) ==
    /\ stage[d] = "stored"
    /\ AdapterActive(d)
    /\ stage' = [stage EXCEPT ![d] = "sent"]
    /\ chain' = [chain EXCEPT ![d] = "inflight"]
    /\ UNCHANGED <<walletVars, memoryVars, storageVars, counted, stale,
                   expired, lapsed>>

SubmitRefusedAsClosed(d) ==
    /\ stage[d] = "stored"
    /\ ~AdapterActive(d)
    /\ stage' = [stage EXCEPT ![d] = "rollback"]
    /\ UNCHANGED <<walletVars, memoryVars, storageVars, counted, stale,
                   worldVars>>

\* manager.add: skipped by an inactive manager; an expired reservation is
\* dropped again by scheduleExpiration in the same turn, which starts the
\* deletion of its record.
Track(d) ==
    IF ~AdapterActive(d)
    THEN UNCHANGED <<memoryVars, releasing>>
    ELSE IF d \in expired
    THEN /\ releasing' = releasing \cup {d}
         /\ UNCHANGED memoryVars
    ELSE /\ live' = live \cup {d}
         /\ watched' = watched \cup {d}
         /\ UNCHANGED releasing

SubmissionAccepted(d) ==
    /\ stage[d] = "sent"
    /\ chain[d] \in {"pending", "finalized", "dropped"}
    /\ stage' = [stage EXCEPT ![d] = "done"]
    /\ Track(d)
    /\ UNCHANGED <<walletVars, store, counted, stale, worldVars>>

\* DeploySubmissionRejectedError (HTTP 4xx)
SubmissionRejected(d) ==
    /\ stage[d] = "sent"
    /\ chain[d] = "refused"
    /\ stage' = [stage EXCEPT ![d] = "rollback"]
    /\ UNCHANGED <<walletVars, memoryVars, storageVars, counted, stale,
                   worldVars>>

\* Mutant: every failed submission is rolled back.
OutcomeUnknownRolledBack(d) ==
    /\ stage[d] = "sent"
    /\ stage' = [stage EXCEPT ![d] = "rollback"]
    /\ UNCHANGED <<walletVars, memoryVars, storageVars, counted, stale,
                   worldVars>>

\* Mutant: the request has no timeout of its own.
OutcomeAwaited(d) ==
    /\ stage[d] = "sent"
    /\ chain[d] # "inflight"
    /\ stage' = [stage EXCEPT ![d] = "done"]
    /\ Track(d)
    /\ UNCHANGED <<walletVars, store, counted, stale, worldVars>>

\* Dropped connection, timeout or HTTP 5xx: the deploy may have arrived, may
\* still be on its way, or may never arrive.  The reservation is kept.
SubmissionOutcomeUnknown(d) ==
    /\ stage[d] = "sent"
    /\ stage' = [stage EXCEPT ![d] = "done"]
    /\ Track(d)
    /\ UNCHANGED <<walletVars, store, counted, stale, worldVars>>

\* settleFailedSubmission awaits releaseFromStorage, which swallows a failure.
RollBack(d) ==
    /\ stage[d] = "rollback"
    /\ \/ store' = store \ {d}
       \/ store' = store
    /\ stage' = [stage EXCEPT ![d] = "done"]
    /\ UNCHANGED <<walletVars, memoryVars, releasing, counted, stale,
                   worldVars>>

-----------------------------------------------------------------------------
(* A tracked reservation: poller, expiration timer, release                *)

Release(d) ==
    /\ live' = live \ {d}
    /\ watched' = watched \ {d}
    /\ releasing' = releasing \cup {d}
    /\ UNCHANGED <<walletVars, store, submissionVars, worldVars>>

Confirmed(d) ==
    /\ d \in watched
    /\ chain[d] = "finalized"
    /\ Release(d)

\* Mutant: the timer goes with the poller when polling fails.
TimerOfWatched(d) ==
    /\ d \in watched
    /\ d \in expired
    /\ Release(d)

TimerElapsed(d) ==
    /\ d \in live
    /\ d \in expired
    /\ Release(d)

\* Mutant: a failed status poll releases the reservation.
WatchFailureReleases(d) ==
    /\ d \in watched
    /\ Release(d)

\* Any error of a status request, or the poller's own deadline: the poller
\* stops, the reservation waits for its timer.
WatchFailed(d) ==
    /\ d \in watched
    /\ watched' = watched \ {d}
    /\ UNCHANGED <<walletVars, live, storageVars, submissionVars, worldVars>>

\* The deletion started by a release ends; a failure is only logged.
ReleaseFromStorage(d) ==
    /\ d \in releasing
    /\ releasing' = releasing \ {d}
    /\ \/ store' = store \ {d}
       \/ store' = store
    /\ UNCHANGED <<walletVars, memoryVars, submissionVars, worldVars>>

-----------------------------------------------------------------------------
(* Opening, closing and losing the wallet                                  *)

OpenWallet ==
    /\ phase = "closed"
    /\ phase' = "draining"
    /\ UNCHANGED <<unread, restored, memoryVars, storageVars, submissionVars,
                   worldVars>>

\* Mutant: opening goes on after the wait whatever is still pending.
DrainedByTimeout ==
    /\ phase = "draining"
    /\ phase' = "reading"
    /\ UNCHANGED <<unread, restored, memoryVars, storageVars, submissionVars,
                   worldVars>>

\* submissionsGuard.drain returned, because every submission settled or after
\* SUBMISSION_SETTLE_TIMEOUT_MS, and none is pending.
Drained ==
    /\ phase = "draining"
    /\ ~HasPendingSubmissions
    /\ phase' = "reading"
    /\ UNCHANGED <<unread, restored, memoryVars, storageVars, submissionVars,
                   worldVars>>

\* A submission is pending after the wait, or a later step of opening fails.
OpeningFails ==
    /\ \/ phase = "draining" /\ HasPendingSubmissions
       \/ phase \in {"reading", "loading"}
    /\ phase' = "closed"
    /\ unread' = {}
    /\ restored' = {}
    /\ UNCHANGED <<memoryVars, storageVars, submissionVars, worldVars>>

ReadRecords ==
    /\ phase = "reading"
    /\ phase' = "loading"
    /\ unread' = store
    /\ restored' = {}
    /\ UNCHANGED <<memoryVars, storageVars, submissionVars, worldVars>>

RestoreRecord(d) ==
    /\ phase = "loading"
    /\ d \in unread
    /\ unread' = unread \ {d}
    /\ IF d \in expired
       THEN /\ store' = store \ {d}
            /\ UNCHANGED restored
       ELSE /\ restored' = restored \cup {d}
            /\ UNCHANGED store
    /\ UNCHANGED <<phase, memoryVars, releasing, submissionVars, worldVars>>

\* new ReservationAdapter: every restored reservation is tracked, those that
\* expired while the others were decrypted are released at once.
Publish ==
    /\ phase = "loading"
    /\ unread = {}
    /\ phase' = "open"
    /\ live' = restored \ expired
    /\ watched' = restored \ expired
    /\ releasing' = releasing \cup (restored \cap expired)
    /\ restored' = {}
    /\ UNCHANGED <<unread, store, submissionVars, worldVars>>

\* dispose: memory, pollers and timers go, submissions under way keep running
\* on the closed adapter.
CloseWallet ==
    /\ phase = "open"
    /\ phase' = "closed"
    /\ live' = {}
    /\ watched' = {}
    /\ stale' = stale \cup {d \in Deploys : stage[d] \in Active}
    /\ UNCHANGED <<unread, restored, storageVars, stage, counted, worldVars>>

\* The process dies: only storage and the world outside are left.
Crash ==
    /\ phase' = "closed"
    /\ unread' = {}
    /\ restored' = {}
    /\ live' = {}
    /\ watched' = {}
    /\ releasing' = {}
    /\ stage' = [d \in Deploys |->
                    IF stage[d] \in Active THEN "done" ELSE stage[d]]
    /\ stale' = {}
    /\ counted' = [d \in Deploys |-> {}]
    /\ UNCHANGED <<store, worldVars>>

-----------------------------------------------------------------------------
(* The world outside: the clock, the node, the chain                       *)

\* The clock runs from the moment the reservation is built, before it is
\* persisted.
ExpirationTimePasses(d) ==
    /\ d \notin expired
    /\ stage[d] \in Tracked \cup {"done"}
    /\ expired' = expired \cup {d}
    /\ lapsed' = IF chain[d] \in Unsettled \/ stage[d] \in {"persist", "stored"}
                 THEN lapsed \cup {d} ELSE lapsed
    /\ UNCHANGED <<walletVars, memoryVars, storageVars, submissionVars, chain>>

NodeDecides(d) ==
    /\ chain[d] = "inflight"
    /\ \E f \in {"pending", "refused", "dropped"} :
          chain' = [chain EXCEPT ![d] = f]
    /\ UNCHANGED <<walletVars, memoryVars, storageVars, submissionVars,
                   expired, lapsed>>

\* A deploy the account can no longer pay for is not executed.
ChainSettles(d) ==
    /\ chain[d] = "pending"
    /\ \/ /\ Balance(AccountOf[d]) >= Amount[d]
          /\ chain' = [chain EXCEPT ![d] = "finalized"]
       \/ chain' = [chain EXCEPT ![d] = "dropped"]
    /\ UNCHANGED <<walletVars, memoryVars, storageVars, submissionVars,
                   expired, lapsed>>

-----------------------------------------------------------------------------
\* The steps a submission takes by itself once begun.
SubmissionStep(d) ==
    \/ BalanceSuffices(d)
    \/ Signed(d)
    \/ SubmissionAborts(d)
    \/ PersistReservation(d)
    \/ Submit(d)
    \/ SubmitRefusedAsClosed(d)
    \/ SubmissionAccepted(d)
    \/ SubmissionRejected(d)
    \/ SubmissionOutcomeUnknown(d)
    \/ RollBack(d)

\* The steps of ReservationAdapter.create.
OpeningStep ==
    \/ Drained
    \/ OpeningFails
    \/ ReadRecords
    \/ \E d \in Deploys : RestoreRecord(d)
    \/ Publish

Next ==
    \/ \E d \in Deploys :
          \/ BeginSubmission(d)
          \/ SubmissionStep(d)
          \/ Confirmed(d)
          \/ TimerElapsed(d)
          \/ WatchFailed(d)
          \/ ReleaseFromStorage(d)
          \/ ExpirationTimePasses(d)
          \/ NodeDecides(d)
          \/ ChainSettles(d)
    \/ OpenWallet
    \/ OpeningStep
    \/ CloseWallet
    \/ Crash

\* Awaits end: requests time out (DEFAULT_REQUEST_TIMEOUT), storage and
\* crypto calls return, the drain is bounded; timers fire and clocks run.
\* Nothing is assumed of the user, of crashes, of the node or of the chain.
Fairness ==
    /\ \A d \in Deploys :
          /\ WF_vars(SubmissionStep(d))
          /\ WF_vars(ExpirationTimePasses(d))
          /\ WF_vars(TimerElapsed(d))
          /\ WF_vars(ReleaseFromStorage(d))
    /\ WF_vars(OpeningStep)

Spec == Init /\ [][Next]_vars /\ Fairness

-----------------------------------------------------------------------------
(* Properties                                                              *)

TypeOK ==
    /\ phase \in Phases
    /\ unread \subseteq Deploys
    /\ restored \subseteq Deploys
    /\ live \subseteq Deploys
    /\ watched \subseteq live
    /\ store \subseteq Deploys
    /\ releasing \subseteq Deploys
    /\ stage \in [Deploys -> Stages]
    /\ counted \in [Deploys -> SUBSET Deploys]
    /\ stale \subseteq Deploys
    /\ expired \subseteq Deploys
    /\ chain \in [Deploys -> Fates]
    /\ lapsed \subseteq expired

\* A deploy that left the SDK and may still take the funds has its record in
\* storage until it expires: no order of failures, closings, reopenings and
\* crashes loses the lock.
DurableLock ==
    \A d \in Deploys : chain[d] \in Unsettled /\ d \notin expired => d \in store

\* An open wallet counts every such deploy when it checks a balance, except
\* the one its own submission is still waiting for (whose account is busy).
LiveCoversUnsettled ==
    phase = "open" =>
        \A d \in Deploys :
            chain[d] \in Unsettled /\ d \notin expired =>
                d \in live \/ stage[d] = "sent"

\* Until its record is written, a submission leaves no trace, and until it is
\* sent nothing is on its way.
Traceless ==
    \A d \in Deploys :
        stage[d] \in {"idle", "balance", "sign", "persist"} =>
            d \notin store \cup live \cup releasing \cup unread \cup restored

UnsentBeforeSubmit ==
    \A d \in Deploys :
        stage[d] \in {"idle", "balance", "sign", "persist", "stored"} =>
            chain[d] = "none"

\* Nobody but the submission itself touches the reservation of a submission
\* that still runs on the open adapter, and its record is there to be sent.
FreshIsPrivate ==
    \A d \in Deploys :
        /\ stage[d] # "done" /\ d \notin stale =>
              d \notin live \cup releasing \cup unread \cup restored
        /\ stage[d] = "stored" /\ d \notin stale => d \in store

\* A submission that runs while the wallet is not open runs on a closed
\* adapter, and none of those waits for the node once opening has drained.
ClosedMakesStale ==
    phase # "open" => \A d \in Deploys : stage[d] \in Active => d \in stale

DrainedOfSent ==
    phase \in {"reading", "loading", "open"} =>
        \A d \in stale : stage[d] # "sent"

\* What is being given up can no longer take the funds, or has expired.
RollbackHarmless ==
    \A d \in Deploys : stage[d] = "rollback" => chain[d] \in {"none", "refused"}

ReleaseJustified ==
    \A d \in releasing : chain[d] = "finalized" \/ d \in expired

\* Loading has every lock in hand, read or still to be read.
LoadingCovers ==
    phase = "loading" =>
        \A d \in Deploys :
            chain[d] \in Unsettled /\ d \notin expired =>
                d \in unread \cup restored

\* The inductive invariant behind DurableLock and LiveCoversUnsettled: how far
\* a submission, an opening and a release may have got at the same time.
LockInv ==
    /\ TypeOK
    /\ Traceless
    /\ UnsentBeforeSubmit
    /\ FreshIsPrivate
    /\ ClosedMakesStale
    /\ DrainedOfSent
    /\ RollbackHarmless
    /\ ReleaseJustified
    /\ LoadingCovers
    /\ DurableLock
    /\ LiveCoversUnsettled

\* The deploys of an account that may still take funds never exceed what the
\* account has, unless one of them was given up as expired.
NoOverspend ==
    \A a \in Accounts :
        OfAccount(lapsed, a) = {} => Total(Outgoing(a)) <= Balance(a)

\* operationsGuard holds the key of an account for one submission at a time.
OneSubmissionPerAccount ==
    \A d, e \in Deploys :
        /\ stage[d] \in Active
        /\ stage[e] \in Active
        /\ AccountOf[d] = AccountOf[e]
        => d = e

\* The clock of a reservation starts when it is built, and what expires before
\* the chain has decided is on record as lapsed.
ClockStartsWithReservation ==
    \A d \in expired :
        /\ stage[d] \notin {"idle", "balance", "sign"}
        /\ chain[d] \in Unsettled \/ stage[d] \in {"persist", "stored"}
              => d \in lapsed

\* The reserved amount read before the balance request still covers, when the
\* answer comes, every deploy of the account that may take funds.
CountedCovers ==
    \A d \in Deploys :
        stage[d] = "balance" /\ OfAccount(lapsed, AccountOf[d]) = {} =>
            Outgoing(AccountOf[d]) \subseteq counted[d]

\* What the balance check found is still there when the deploy is sent.
CheckedFundsStay ==
    \A d \in Deploys :
        /\ stage[d] \in {"sign", "persist", "stored"}
        /\ OfAccount(lapsed, AccountOf[d]) = {}
        => Total(Outgoing(AccountOf[d])) + Amount[d] <= Balance(AccountOf[d])

\* The inductive invariant behind NoOverspend.
FundsInv ==
    /\ LockInv
    /\ OneSubmissionPerAccount
    /\ ClockStartsWithReservation
    /\ CountedCovers
    /\ CheckedFundsStay
    /\ NoOverspend

\* Opening never restores a reservation whose submission is about to roll
\* back (docs/DOMAINS.md on openWallet).
NeverRestoresDoomed ==
    \A d \in live : stage[d] # "rollback"

\* A submission comes to an end whatever happens to the wallet meanwhile, so
\* the keys it holds for its account are given back.
SubmissionEnds ==
    \A d \in Deploys : stage[d] \in Active ~> stage[d] \notin Active

\* Funds never stay locked for ever in an open wallet.
LocksLapse == \A d \in Deploys : d \in live ~> d \notin live

\* Storage implements the lock the SDK promises.
Lock == INSTANCE FundsLock WITH held <- store, fate <- chain, due <- expired
ImplementsFundsLock == Lock!Init /\ [][Lock!Next]_Lock!vars
=============================================================================
