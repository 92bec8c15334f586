------------------------- MODULE ReservationsProofs -------------------------
(***************************************************************************)
(* What Reservations guarantees for every set of deploys and accounts: its *)
(* types, the durable lock and its image in the memory of an open wallet,  *)
(* and that storage implements FundsLock.  The argument is LockInv, proved *)
(* inductive one actor at a time.                                          *)
(***************************************************************************)
EXTENDS Reservations, SumTheorems, TLAPS

\* Which variables a step leaves alone, and the small sets it tests.
USE DEF vars, walletVars, memoryVars, storageVars, submissionVars, worldVars,
        Phases, Opening, Stages, Active, Tracked, Fates, Unsettled

-----------------------------------------------------------------------------
(* Types                                                                   *)

\* A step of a submission keeps every variable in its type.
LEMMA SubmissionKeepsTypes ==
    ASSUME TypeOK, NEW d \in Deploys, BeginSubmission(d) \/ SubmissionStep(d)
    PROVE  TypeOK'
<1>1. CASE BeginSubmission(d)
    BY <1>1 DEF TypeOK, BeginSubmission, OfAccount
<1>2. CASE BalanceSuffices(d)
    BY <1>2 DEF TypeOK, BalanceSuffices
<1>3. CASE Signed(d)
    BY <1>3 DEF TypeOK, Signed
<1>4. CASE SubmissionAborts(d)
    BY <1>4 DEF TypeOK, SubmissionAborts
<1>5. CASE PersistReservation(d)
    BY <1>5 DEF TypeOK, PersistReservation
<1>6. CASE Submit(d)
    BY <1>6 DEF TypeOK, Submit
<1>7. CASE SubmitRefusedAsClosed(d)
    BY <1>7 DEF TypeOK, SubmitRefusedAsClosed
<1>8. CASE SubmissionAccepted(d)
    BY <1>8 DEF TypeOK, SubmissionAccepted, Track
<1>9. CASE SubmissionRejected(d)
    BY <1>9 DEF TypeOK, SubmissionRejected
<1>10. CASE SubmissionOutcomeUnknown(d)
    BY <1>10 DEF TypeOK, SubmissionOutcomeUnknown, Track
<1>11. CASE RollBack(d)
    BY <1>11 DEF TypeOK, RollBack
<1>. QED
    BY <1>1, <1>2, <1>3, <1>4, <1>5, <1>6, <1>7, <1>8, <1>9, <1>10, <1>11 DEF SubmissionStep

\* So does a step of a reservation that is tracked or being released.
LEMMA ReservationKeepsTypes ==
    ASSUME TypeOK, NEW d \in Deploys,
           \/ Confirmed(d)
           \/ TimerElapsed(d)
           \/ WatchFailed(d)
           \/ ReleaseFromStorage(d)
    PROVE  TypeOK'
<1>1. CASE Confirmed(d)
    BY <1>1 DEF TypeOK, Confirmed, Release
<1>2. CASE TimerElapsed(d)
    BY <1>2 DEF TypeOK, TimerElapsed, Release
<1>3. CASE WatchFailed(d)
    BY <1>3 DEF TypeOK, WatchFailed
<1>4. CASE ReleaseFromStorage(d)
    BY <1>4 DEF TypeOK, ReleaseFromStorage
<1>. QED
    BY <1>1, <1>2, <1>3, <1>4

\* So does opening, closing or losing the wallet.
LEMMA WalletKeepsTypes ==
    ASSUME TypeOK, OpenWallet \/ OpeningStep \/ CloseWallet \/ Crash
    PROVE  TypeOK'
<1>1. CASE OpenWallet
    BY <1>1 DEF TypeOK, OpenWallet
<1>2. CASE Drained
    BY <1>2 DEF TypeOK, Drained
<1>3. CASE OpeningFails
    BY <1>3 DEF TypeOK, OpeningFails
<1>4. CASE ReadRecords
    BY <1>4 DEF TypeOK, ReadRecords
<1>5. ASSUME NEW d \in Deploys, RestoreRecord(d) PROVE TypeOK'
    BY <1>5 DEF TypeOK, RestoreRecord
<1>6. CASE Publish
    BY <1>6 DEF TypeOK, Publish
<1>7. CASE CloseWallet
    BY <1>7 DEF TypeOK, CloseWallet
<1>8. CASE Crash
    BY <1>8 DEF TypeOK, Crash
<1>. QED
    BY <1>1, <1>2, <1>3, <1>4, <1>5, <1>6, <1>7, <1>8 DEF OpeningStep

\* So does a step of the world outside.
LEMMA WorldKeepsTypes ==
    ASSUME TypeOK, NEW d \in Deploys,
           ExpirationTimePasses(d) \/ NodeDecides(d) \/ ChainSettles(d)
    PROVE  TypeOK'
<1>1. CASE ExpirationTimePasses(d)
    BY <1>1 DEF TypeOK, ExpirationTimePasses
<1>2. CASE NodeDecides(d)
    BY <1>2 DEF TypeOK, NodeDecides
<1>3. CASE ChainSettles(d)
    BY <1>3 DEF TypeOK, ChainSettles
<1>. QED
    BY <1>1, <1>2, <1>3

\* Every step keeps every variable in its type.
LEMMA TypeStep == TypeOK /\ [Next]_vars => TypeOK'
<1>. SUFFICES ASSUME TypeOK, [Next]_vars PROVE TypeOK'
    OBVIOUS
<1>1. CASE UNCHANGED vars
    BY <1>1 DEF TypeOK
<1>2. CASE Next
    BY <1>2, SubmissionKeepsTypes, ReservationKeepsTypes, WalletKeepsTypes,
       WorldKeepsTypes DEF Next
<1>. QED
    BY <1>1, <1>2

\* Type correctness: every variable of the adapter, its storage and the world
\* stays in its type, pollers only run for live reservations, and only
\* expired deploys count as lapsed.
THEOREM TypeCorrect == Spec => []TypeOK
<1>1. Init => TypeOK
    BY DEF Init, TypeOK
<1>. QED
    BY <1>1, TypeStep, PTL DEF Spec

-----------------------------------------------------------------------------
(* The lock                                                                *)

\* A step of a submission preserves the lock.  The record is there when the
\* deploy is sent because nobody else touches a fresh reservation; what is
\* rolled back was never sent, or was refused.
LEMMA SubmissionKeepsLock ==
    ASSUME LockInv, TypeOK', NEW d \in Deploys,
           BeginSubmission(d) \/ SubmissionStep(d)
    PROVE  LockInv'
<1>. USE DEF LockInv, TypeOK, Traceless, UnsentBeforeSubmit, FreshIsPrivate,
            ClosedMakesStale, DrainedOfSent, RollbackHarmless,
            ReleaseJustified, LoadingCovers, DurableLock, LiveCoversUnsettled
<1>1. CASE BeginSubmission(d)
    BY <1>1 DEF BeginSubmission, OfAccount
<1>2. CASE BalanceSuffices(d)
    BY <1>2 DEF BalanceSuffices
<1>3. CASE Signed(d)
    BY <1>3 DEF Signed
<1>4. CASE SubmissionAborts(d)
    BY <1>4 DEF SubmissionAborts
<1>5. CASE PersistReservation(d)
    BY <1>5 DEF PersistReservation
<1>6. CASE Submit(d)
    <2>1. ReleaseJustified'
        BY <1>6 DEF Submit, AdapterActive
    <2>2. DurableLock'
        BY <1>6 DEF Submit, AdapterActive
    <2>. QED
        BY <1>6, <2>1, <2>2 DEF Submit, AdapterActive
<1>7. CASE SubmitRefusedAsClosed(d)
    <2>1. RollbackHarmless'
        BY <1>7 DEF SubmitRefusedAsClosed, AdapterActive
    <2>. QED
        BY <1>7, <2>1 DEF SubmitRefusedAsClosed, AdapterActive
<1>8. CASE SubmissionAccepted(d)
    <2>1. LiveCoversUnsettled'
        BY <1>8 DEF SubmissionAccepted, Track, AdapterActive
    <2>. QED
        BY <1>8, <2>1 DEF SubmissionAccepted, Track, AdapterActive
<1>9. CASE SubmissionRejected(d)
    BY <1>9 DEF SubmissionRejected
<1>10. CASE SubmissionOutcomeUnknown(d)
    <2>1. LiveCoversUnsettled'
        BY <1>10 DEF SubmissionOutcomeUnknown, Track, AdapterActive
    <2>. QED
        BY <1>10, <2>1 DEF SubmissionOutcomeUnknown, Track, AdapterActive
<1>11. CASE RollBack(d)
    <2>1. DurableLock'
        BY <1>11 DEF RollBack
    <2>. QED
        BY <1>11, <2>1 DEF RollBack
<1>. QED
    BY <1>1, <1>2, <1>3, <1>4, <1>5, <1>6, <1>7, <1>8, <1>9, <1>10,
       <1>11 DEF SubmissionStep

\* A release only ever gives up what is final or has expired.
LEMMA ReservationKeepsLock ==
    ASSUME LockInv, TypeOK', NEW d \in Deploys,
           \/ Confirmed(d)
           \/ TimerElapsed(d)
           \/ WatchFailed(d)
           \/ ReleaseFromStorage(d)
    PROVE  LockInv'
<1>. USE DEF LockInv, TypeOK, Traceless, UnsentBeforeSubmit, FreshIsPrivate,
            ClosedMakesStale, DrainedOfSent, RollbackHarmless,
            ReleaseJustified, LoadingCovers, DurableLock, LiveCoversUnsettled
<1>1. CASE Confirmed(d)
    BY <1>1 DEF Confirmed, Release
<1>2. CASE TimerElapsed(d)
    BY <1>2 DEF TimerElapsed, Release
<1>3. CASE WatchFailed(d)
    BY <1>3 DEF WatchFailed
<1>4. CASE ReleaseFromStorage(d)
    <2>1. DurableLock'
        BY <1>4 DEF ReleaseFromStorage
    <2>. QED
        BY <1>4, <2>1 DEF ReleaseFromStorage
<1>. QED
    BY <1>1, <1>2, <1>3, <1>4

\* Opening rebuilds the memory of the wallet from the records: every lock is
\* read because it is stored, and published because it was read.
LEMMA WalletKeepsLock ==
    ASSUME LockInv, TypeOK', OpenWallet \/ OpeningStep \/ CloseWallet \/ Crash
    PROVE  LockInv'
<1>. USE DEF LockInv, TypeOK, Traceless, UnsentBeforeSubmit, FreshIsPrivate,
            ClosedMakesStale, DrainedOfSent, RollbackHarmless,
            ReleaseJustified, LoadingCovers, DurableLock, LiveCoversUnsettled
<1>1. CASE OpenWallet
    BY <1>1 DEF OpenWallet
<1>2. CASE Drained
    BY <1>2 DEF Drained, HasPendingSubmissions
<1>3. CASE OpeningFails
    BY <1>3 DEF OpeningFails
<1>4. CASE ReadRecords
    <2>1. FreshIsPrivate'
        BY <1>4 DEF ReadRecords
    <2>2. LoadingCovers'
        BY <1>4 DEF ReadRecords
    <2>. QED
        BY <1>4, <2>1, <2>2 DEF ReadRecords
<1>5. ASSUME NEW d \in Deploys, RestoreRecord(d) PROVE LockInv'
    BY <1>5 DEF RestoreRecord
<1>6. CASE Publish
    <2>1. LiveCoversUnsettled'
        BY <1>6 DEF Publish
    <2>. QED
        BY <1>6, <2>1 DEF Publish
<1>7. CASE CloseWallet
    BY <1>7 DEF CloseWallet
<1>8. CASE Crash
    BY <1>8 DEF Crash
<1>. QED
    BY <1>1, <1>2, <1>3, <1>4, <1>5, <1>6, <1>7, <1>8 DEF OpeningStep

\* Nothing becomes unsettled again once the chain has decided.
LEMMA WorldKeepsLock ==
    ASSUME LockInv, TypeOK', NEW d \in Deploys,
           ExpirationTimePasses(d) \/ NodeDecides(d) \/ ChainSettles(d)
    PROVE  LockInv'
<1>. USE DEF LockInv, TypeOK, Traceless, UnsentBeforeSubmit, FreshIsPrivate,
            ClosedMakesStale, DrainedOfSent, RollbackHarmless,
            ReleaseJustified, LoadingCovers, DurableLock, LiveCoversUnsettled
<1>1. CASE ExpirationTimePasses(d)
    BY <1>1 DEF ExpirationTimePasses
<1>2. CASE NodeDecides(d)
    BY <1>2 DEF NodeDecides
<1>3. CASE ChainSettles(d)
    BY <1>3 DEF ChainSettles
<1>. QED
    BY <1>1, <1>2, <1>3

\* Every step preserves the lock.
LEMMA LockStep == LockInv /\ [Next]_vars => LockInv'
<1>. SUFFICES ASSUME LockInv, [Next]_vars PROVE LockInv'
    OBVIOUS
<1>1. TypeOK'
    BY TypeStep DEF LockInv
<1>2. CASE UNCHANGED vars
    BY <1>2 DEF LockInv, TypeOK, Traceless, UnsentBeforeSubmit,
       FreshIsPrivate, ClosedMakesStale, DrainedOfSent, RollbackHarmless,
       ReleaseJustified, LoadingCovers, DurableLock, LiveCoversUnsettled
<1>3. CASE Next
    BY <1>1, <1>3, SubmissionKeepsLock, ReservationKeepsLock, WalletKeepsLock,
       WorldKeepsLock DEF Next
<1>. QED
    BY <1>2, <1>3

\* LockInv holds of every behaviour.
LEMMA LockInvariance == Spec => []LockInv
<1>1. Init => LockInv
    BY DEF Init, LockInv, TypeOK, Traceless, UnsentBeforeSubmit,
       FreshIsPrivate, ClosedMakesStale, DrainedOfSent, RollbackHarmless,
       ReleaseJustified, LoadingCovers, DurableLock, LiveCoversUnsettled
<1>. QED
    BY <1>1, LockStep, PTL DEF Spec

\* A deploy that may still take the funds keeps its record in storage until
\* it expires, whatever is closed, reopened, lost or delayed meanwhile.
THEOREM LockIsDurable == Spec => []DurableLock
<1>1. LockInv => DurableLock
    BY DEF LockInv
<1>. QED
    BY <1>1, LockInvariance, PTL

\* An open wallet counts every such deploy in its memory, so the balance check
\* of the next submission sees it.
THEOREM MemoryCoversUnsettled == Spec => []LiveCoversUnsettled
<1>1. LockInv => LiveCoversUnsettled
    BY DEF LockInv
<1>. QED
    BY <1>1, LockInvariance, PTL

-----------------------------------------------------------------------------
(* The funds                                                               *)

\* Total is the sum of Amount over a set of deploys, and SumTheorems apply.
LEMMA TotalFacts ==
    ASSUME NEW D \in SUBSET Deploys
    PROVE  /\ IsFiniteSet(D)
           /\ Total(D) \in Nat
           /\ \A E \in SUBSET D : Total(E) \in Nat /\ Total(E) <= Total(D)
           /\ \A d \in D : Total(D) = Amount[d] + Total(D \ {d})
           /\ \A d \in D : Amount[d] \in Nat
<1>1. IsFiniteSet(D)
    BY ConstantsAssumption, FS_Subset
<1>2. \A d \in D : Amount[d] \in Nat
    BY ConstantsAssumption
<1>3. \A E : Total(E) = SumFunctionOnSet(Amount, E)
    BY DEF Total, MapThenSumSet, SumFunctionOnSet, FoldFunctionOnSet
<1>4. Total(D) \in Nat
    BY <1>1, <1>2, <1>3, SumType
<1>5. ASSUME NEW E \in SUBSET D PROVE Total(E) \in Nat /\ Total(E) <= Total(D)
    <2>1. IsFiniteSet(E)
        BY <1>1, FS_Subset
    <2>2. SumFunctionOnSet(Amount, E) \in Nat
        BY <1>2, <2>1, SumType
    <2>3. SumFunctionOnSet(Amount, E) <= SumFunctionOnSet(Amount, D)
        BY <1>1, <1>2, SumMonotone
    <2>. QED
        BY <1>3, <2>2, <2>3
<1>6. ASSUME NEW d \in D PROVE Total(D) = Amount[d] + Total(D \ {d})
    BY <1>1, <1>2, <1>3, SumSplit
<1>. QED
    BY <1>1, <1>2, <1>4, <1>5, <1>6

\* Balances and totals are integers, before a step and after it.
LEMMA FundsTypes ==
    ASSUME NEW a \in Accounts
    PROVE  /\ Balance(a) \in Int /\ Total(Outgoing(a)) \in Nat
           /\ Balance(a)' \in Int /\ Total(Outgoing(a)') \in Nat
<1>. DEFINE Fin == {d \in OfAccount(Deploys, a) : chain[d] = "finalized"}
<1>1. /\ Outgoing(a) \in SUBSET Deploys /\ Outgoing(a)' \in SUBSET Deploys
      /\ Fin \in SUBSET Deploys /\ Fin' \in SUBSET Deploys
    BY DEF Outgoing, OfAccount
<1>2. Balance(a) = Funds[a] - Total(Fin) /\ Balance(a)' = Funds[a] - Total(Fin')
    BY DEF Balance
<1>. HIDE DEF Fin
<1>3. /\ Total(Outgoing(a)) \in Nat /\ Total(Outgoing(a)') \in Nat
      /\ Total(Fin) \in Nat /\ Total(Fin') \in Nat
    BY <1>1, TotalFacts
<1>. QED
    BY <1>2, <1>3, ConstantsAssumption

\* A step that moves no money: the chain and the clock stand still, and no
\* submission starts to count, to rely on a balance or to hold its account.
Quiet ==
    /\ UNCHANGED worldVars
    /\ \A d \in Deploys :
          /\ stage'[d] \in {"idle", "sign"} => stage'[d] = stage[d]
          /\ stage'[d] = "balance" =>
                stage[d] = "balance" /\ counted'[d] = counted[d]
          /\ stage'[d] \in {"persist", "stored"} =>
                stage[d] \in {"sign", "persist", "stored"}
          /\ stage'[d] \in Active => stage[d] \in Active

\* What an account has, and what is about to leave it, depend on the chain alone.
LEMMA StillMoney ==
    ASSUME chain' = chain, NEW a \in Accounts
    PROVE  Balance(a)' = Balance(a) /\ Outgoing(a)' = Outgoing(a)
BY DEF Balance, Outgoing

\* A step that moves no money keeps every promise about it.
LEMMA QuietKeepsFunds ==
    ASSUME FundsInv, LockInv', Quiet
    PROVE  FundsInv'
<1>. USE DEF FundsInv, Quiet
<1>1. \A a \in Accounts : Balance(a)' = Balance(a) /\ Outgoing(a)' = Outgoing(a)
    BY StillMoney
<1>2. \A d \in Deploys : AccountOf[d] \in Accounts
    BY ConstantsAssumption
<1>3. OneSubmissionPerAccount'
    BY DEF OneSubmissionPerAccount
<1>4. ClockStartsWithReservation'
    BY DEF ClockStartsWithReservation, LockInv, TypeOK
<1>5. CountedCovers'
    BY <1>1, <1>2 DEF CountedCovers
<1>6. CheckedFundsStay'
    BY <1>1, <1>2 DEF CheckedFundsStay
<1>7. NoOverspend'
    BY <1>1 DEF NoOverspend
<1>. QED
    BY <1>3, <1>4, <1>5, <1>6, <1>7

\* The account was free, so the memory of the wallet covers its unsettled
\* deploys.
LEMMA BeginKeepsFunds ==
    ASSUME FundsInv, LockInv', NEW d \in Deploys, BeginSubmission(d)
    PROVE  FundsInv'
<1>. USE DEF FundsInv, BeginSubmission
<1>1. \A a \in Accounts : Balance(a)' = Balance(a) /\ Outgoing(a)' = Outgoing(a)
    BY StillMoney
<1>2. \A e \in Deploys : AccountOf[e] \in Accounts
    BY ConstantsAssumption
<1>3. OneSubmissionPerAccount'
    BY DEF OneSubmissionPerAccount, Busy, OfAccount, LockInv, TypeOK
<1>4. ClockStartsWithReservation'
    BY DEF ClockStartsWithReservation, LockInv, TypeOK
<1>5. CountedCovers'
    <2>1. SUFFICES ASSUME NEW e \in Deploys, stage'[e] = "balance",
                          OfAccount(lapsed', AccountOf[e]) = {}
                   PROVE  Outgoing(AccountOf[e])' \subseteq counted'[e]
        BY DEF CountedCovers
    <2>2. CASE e = d
        <3>1. SUFFICES ASSUME NEW f \in Outgoing(AccountOf[d])
                       PROVE  f \in OfAccount(live, AccountOf[d])
            BY <1>1, <1>2, <2>2 DEF LockInv, TypeOK
        <3>2. f \in Deploys /\ AccountOf[f] = AccountOf[d] /\ chain[f] \in Unsettled
            BY <3>1 DEF Outgoing, OfAccount
        <3>3. f \notin lapsed
            BY <2>1, <2>2, <3>2 DEF OfAccount
        <3>4. f \notin expired
            BY <3>2, <3>3 DEF ClockStartsWithReservation
        <3>5. stage[f] \notin Active
            BY <3>2 DEF Busy, OfAccount
        <3>6. f \in live
            BY <3>2, <3>4, <3>5 DEF LockInv, LiveCoversUnsettled
        <3>. QED
            BY <3>2, <3>6 DEF OfAccount
    <2>3. CASE e # d
        BY <1>1, <1>2, <2>1, <2>3 DEF CountedCovers, LockInv, TypeOK
    <2>. QED
        BY <2>2, <2>3
<1>6. CheckedFundsStay'
    BY <1>1, <1>2 DEF CheckedFundsStay, LockInv, TypeOK
<1>7. NoOverspend'
    BY <1>1 DEF NoOverspend
<1>. QED
    BY <1>3, <1>4, <1>5, <1>6, <1>7

\* The balance covers what was counted, and what was counted covers what is
\* unsettled.
LEMMA BalanceKeepsFunds ==
    ASSUME FundsInv, LockInv', NEW d \in Deploys, BalanceSuffices(d)
    PROVE  FundsInv'
<1>. USE DEF FundsInv, BalanceSuffices
<1>1. \A a \in Accounts : Balance(a)' = Balance(a) /\ Outgoing(a)' = Outgoing(a)
    BY StillMoney
<1>2. \A e \in Deploys : AccountOf[e] \in Accounts
    BY ConstantsAssumption
<1>3. OneSubmissionPerAccount'
    BY DEF OneSubmissionPerAccount, LockInv, TypeOK
<1>4. ClockStartsWithReservation'
    BY DEF ClockStartsWithReservation, LockInv, TypeOK
<1>5. CountedCovers'
    BY <1>1, <1>2 DEF CountedCovers, LockInv, TypeOK
<1>6. CheckedFundsStay'
    <2>1. SUFFICES ASSUME OfAccount(lapsed, AccountOf[d]) = {}
                   PROVE  Total(Outgoing(AccountOf[d])) + Amount[d]
                              <= Balance(AccountOf[d])
        BY <1>1, <1>2 DEF CheckedFundsStay, LockInv, TypeOK
    <2>2. Outgoing(AccountOf[d]) \subseteq counted[d]
        BY <2>1 DEF CountedCovers
    <2>3. counted[d] \in SUBSET Deploys
        BY DEF LockInv, TypeOK
    <2>4. Total(Outgoing(AccountOf[d])) <= Total(counted[d])
        BY <2>2, <2>3, TotalFacts
    <2>5. Total(counted[d]) \in Nat /\ Amount[d] \in Nat
        BY <2>3, TotalFacts, ConstantsAssumption
    <2>. QED
        BY <1>2, <2>4, <2>5, FundsTypes
<1>7. NoOverspend'
    BY <1>1 DEF NoOverspend
<1>. QED
    BY <1>3, <1>4, <1>5, <1>6, <1>7

\* What is sent was checked, and nobody else checked against the same funds.
LEMMA SubmitKeepsFunds ==
    ASSUME FundsInv, LockInv', NEW d \in Deploys, Submit(d)
    PROVE  FundsInv'
<1>. USE DEF FundsInv, Submit
<1>. DEFINE a == AccountOf[d]
<1>1. \A e \in Deploys : AccountOf[e] \in Accounts /\ Amount[e] \in Nat
    BY ConstantsAssumption
<1>2. chain[d] = "none"
    BY DEF LockInv, UnsentBeforeSubmit
<1>3. \A b \in Accounts : Balance(b)' = Balance(b)
    BY <1>2 DEF Balance, OfAccount, LockInv, TypeOK
<1>4. \A b \in Accounts \ {a} : Outgoing(b)' = Outgoing(b)
    BY <1>2 DEF Outgoing, OfAccount, LockInv, TypeOK
<1>5. /\ Outgoing(a)' = Outgoing(a) \cup {d}
      /\ d \notin Outgoing(a)
    BY <1>2 DEF Outgoing, OfAccount, LockInv, TypeOK
<1>6. Total(Outgoing(a)') = Total(Outgoing(a)) + Amount[d]
    <2>1. Outgoing(a)' \in SUBSET Deploys
        BY DEF Outgoing, OfAccount
    <2>2. Outgoing(a)' \ {d} = Outgoing(a)
        BY <1>5
    <2>3. Total(Outgoing(a)') = Amount[d] + Total(Outgoing(a)' \ {d})
        BY <1>5, <2>1, TotalFacts
    <2>4. Total(Outgoing(a)' \ {d}) = Total(Outgoing(a))
        BY <2>2, Zenon
    <2>. QED
        BY <1>1, <2>3, <2>4, FundsTypes
<1>7. \A e \in Deploys : e # d /\ AccountOf[e] = a => stage'[e] \notin Active
    BY DEF OneSubmissionPerAccount, LockInv, TypeOK
<1>8. OneSubmissionPerAccount'
    BY DEF OneSubmissionPerAccount, LockInv, TypeOK
<1>9. ClockStartsWithReservation'
    BY DEF ClockStartsWithReservation, LockInv, TypeOK
<1>10. CountedCovers'
    BY <1>1, <1>4, <1>7 DEF CountedCovers, LockInv, TypeOK
<1>11. CheckedFundsStay'
    BY <1>1, <1>3, <1>4, <1>7 DEF CheckedFundsStay, LockInv, TypeOK
<1>12. NoOverspend'
    <2>1. SUFFICES ASSUME NEW b \in Accounts, OfAccount(lapsed, b) = {}
                   PROVE  Total(Outgoing(b)') <= Balance(b)'
        BY DEF NoOverspend
    <2>2. CASE b = a
        BY <1>3, <1>6, <2>1, <2>2 DEF CheckedFundsStay
    <2>3. CASE b # a
        BY <1>3, <1>4, <2>1, <2>3 DEF NoOverspend
    <2>. QED
        BY <2>2, <2>3
<1>. QED
    BY <1>8, <1>9, <1>10, <1>11, <1>12

\* What the node or the chain decides leaves an account no poorer: a deploy
\* that is finalized takes what was counted against it.
LEMMA DecisionsFree ==
    ASSUME TypeOK, NEW d \in Deploys, NodeDecides(d) \/ ChainSettles(d),
           NEW a \in Accounts
    PROVE  /\ Outgoing(a)' \subseteq Outgoing(a)
           /\ Total(Outgoing(a)') + Balance(a) <= Total(Outgoing(a)) + Balance(a)'
<1>. DEFINE Fin == {e \in OfAccount(Deploys, a) : chain[e] = "finalized"}
<1>1. Outgoing(a)' \subseteq Outgoing(a)
    <2>1. \A e \in Deploys : chain'[e] \in Unsettled => chain[e] \in Unsettled
        BY DEF NodeDecides, ChainSettles, TypeOK
    <2>. QED
        BY <2>1 DEF Outgoing, OfAccount
<1>2. /\ Outgoing(a) \in SUBSET Deploys /\ Outgoing(a)' \in SUBSET Deploys
      /\ Fin \in SUBSET Deploys /\ Fin' \in SUBSET Deploys
    BY DEF Outgoing, OfAccount
<1>3. /\ Total(Outgoing(a)) \in Nat /\ Total(Outgoing(a)') \in Nat
      /\ Total(Outgoing(a)') <= Total(Outgoing(a))
    BY <1>1, <1>2, TotalFacts
<1>4. Total(Fin) \in Nat /\ Total(Fin') \in Nat
    BY <1>2, TotalFacts
<1>5. Balance(a) = Funds[a] - Total(Fin) /\ Balance(a)' = Funds[a] - Total(Fin')
    BY DEF Balance
<1>6. Funds[a] \in Nat /\ Amount[d] \in Nat
    BY ConstantsAssumption
<1>. HIDE DEF Fin
<1>7. CASE Fin' = Fin
    <2>1. Total(Fin') = Total(Fin)
        BY <1>7, Zenon
    <2>. QED
        BY <1>1, <1>3, <1>4, <1>5, <1>6, <2>1
<1>8. CASE Fin' # Fin
    <2>1. /\ d \in Fin' /\ Fin' \ {d} = Fin
          /\ d \in Outgoing(a) /\ Outgoing(a) \ {d} = Outgoing(a)'
        BY <1>8 DEF Fin, Outgoing, OfAccount, NodeDecides, ChainSettles, TypeOK
    <2>2. Total(Fin' \ {d}) = Total(Fin)
        BY <2>1, Zenon
    <2>3. Total(Fin') = Amount[d] + Total(Fin' \ {d})
        BY <1>2, <2>1, TotalFacts
    <2>4. Total(Outgoing(a) \ {d}) = Total(Outgoing(a)')
        BY <2>1, Zenon
    <2>5. Total(Outgoing(a)) = Amount[d] + Total(Outgoing(a) \ {d})
        BY <1>2, <2>1, TotalFacts
    <2>. QED
        BY <1>1, <1>3, <1>4, <1>5, <1>6, <2>2, <2>3, <2>4, <2>5
<1>. QED
    BY <1>1, <1>7, <1>8

\* So a decision of the node or the chain keeps every promise.
LEMMA DecisionsKeepFunds ==
    ASSUME FundsInv, LockInv', NEW d \in Deploys, NodeDecides(d) \/ ChainSettles(d)
    PROVE  FundsInv'
<1>. USE DEF FundsInv
<1>1. \A e \in Deploys : AccountOf[e] \in Accounts /\ Amount[e] \in Nat
    BY ConstantsAssumption
<1>2. /\ UNCHANGED <<stage, counted, expired, lapsed>>
      /\ \A e \in Deploys : chain'[e] \in Unsettled => chain[e] \in Unsettled
    BY DEF NodeDecides, ChainSettles, LockInv, TypeOK
<1>3. \A a \in Accounts :
          /\ Outgoing(a)' \subseteq Outgoing(a)
          /\ Total(Outgoing(a)') + Balance(a) <= Total(Outgoing(a)) + Balance(a)'
    BY DecisionsFree DEF LockInv
<1>4. \A a \in Accounts :
          /\ Balance(a) \in Int /\ Balance(a)' \in Int
          /\ Total(Outgoing(a)) \in Nat /\ Total(Outgoing(a)') \in Nat
    BY FundsTypes
<1>5. OneSubmissionPerAccount'
    BY <1>2 DEF OneSubmissionPerAccount
<1>6. ClockStartsWithReservation'
    BY <1>2 DEF ClockStartsWithReservation, LockInv, TypeOK
<1>7. CountedCovers'
    BY <1>1, <1>2, <1>3 DEF CountedCovers
<1>8. CheckedFundsStay'
    BY <1>1, <1>2, <1>3, <1>4 DEF CheckedFundsStay
<1>9. NoOverspend'
    BY <1>2, <1>3, <1>4 DEF NoOverspend
<1>. QED
    BY <1>5, <1>6, <1>7, <1>8, <1>9

\* The clock only ever excuses an account.
LEMMA ClockKeepsFunds ==
    ASSUME FundsInv, LockInv', NEW d \in Deploys, ExpirationTimePasses(d)
    PROVE  FundsInv'
<1>. USE DEF FundsInv, ExpirationTimePasses
<1>1. \A a \in Accounts : Balance(a)' = Balance(a) /\ Outgoing(a)' = Outgoing(a)
    BY StillMoney
<1>2. \A e \in Deploys : AccountOf[e] \in Accounts
    BY ConstantsAssumption
<1>3. \A a \in Accounts : OfAccount(lapsed', a) = {} => OfAccount(lapsed, a) = {}
    BY DEF OfAccount
<1>4. OneSubmissionPerAccount'
    BY DEF OneSubmissionPerAccount
<1>5. ClockStartsWithReservation'
    BY DEF ClockStartsWithReservation, LockInv, TypeOK
<1>6. CountedCovers'
    BY <1>1, <1>2, <1>3 DEF CountedCovers
<1>7. CheckedFundsStay'
    BY <1>1, <1>2, <1>3 DEF CheckedFundsStay
<1>8. NoOverspend'
    BY <1>1, <1>3 DEF NoOverspend
<1>. QED
    BY <1>4, <1>5, <1>6, <1>7, <1>8

\* The other steps of a submission move no money.
LEMMA SubmissionKeepsFunds ==
    ASSUME FundsInv, LockInv', NEW d \in Deploys, SubmissionStep(d)
    PROVE  FundsInv'
<1>. USE DEF FundsInv, LockInv, TypeOK, Quiet
<1>1. CASE Signed(d) \/ SubmissionAborts(d) \/ PersistReservation(d)
    BY <1>1, QuietKeepsFunds DEF Signed, SubmissionAborts, PersistReservation
<1>2. CASE \/ SubmitRefusedAsClosed(d)
           \/ SubmissionAccepted(d)
           \/ SubmissionRejected(d)
           \/ SubmissionOutcomeUnknown(d)
           \/ RollBack(d)
    BY <1>2, QuietKeepsFunds DEF SubmitRefusedAsClosed, SubmissionAccepted,
       SubmissionRejected, SubmissionOutcomeUnknown, RollBack
<1>. QED
    BY <1>1, <1>2, BalanceKeepsFunds, SubmitKeepsFunds DEF SubmissionStep

\* Nor do releases, nor opening, closing or losing the wallet.
LEMMA WalletKeepsFunds ==
    ASSUME FundsInv, LockInv',
           \/ \E d \in Deploys :
                 Confirmed(d) \/ TimerElapsed(d) \/ WatchFailed(d) \/ ReleaseFromStorage(d)
           \/ OpenWallet \/ OpeningStep \/ CloseWallet \/ Crash
    PROVE  FundsInv'
<1>1. CASE \E d \in Deploys : Confirmed(d) \/ TimerElapsed(d) \/ WatchFailed(d)
                                 \/ ReleaseFromStorage(d)
    BY <1>1, QuietKeepsFunds DEF Confirmed, TimerElapsed, WatchFailed, Release,
       ReleaseFromStorage, Quiet
<1>2. CASE OpenWallet \/ OpeningStep \/ CloseWallet
    BY <1>2, QuietKeepsFunds DEF OpenWallet, OpeningStep, Drained, OpeningFails,
       ReadRecords, RestoreRecord, Publish, CloseWallet, Quiet
<1>3. CASE Crash
    BY <1>3, QuietKeepsFunds DEF Crash, Quiet, FundsInv, LockInv, TypeOK
<1>. QED
    BY <1>1, <1>2, <1>3

\* Every step preserves FundsInv.
LEMMA FundsStep == FundsInv /\ [Next]_vars => FundsInv'
<1>. SUFFICES ASSUME FundsInv, [Next]_vars PROVE FundsInv'
    OBVIOUS
<1>1. LockInv'
    BY LockStep DEF FundsInv
<1>2. CASE UNCHANGED vars
    BY <1>1, <1>2, QuietKeepsFunds DEF Quiet
<1>3. CASE Next
    BY <1>1, <1>3, BeginKeepsFunds, SubmissionKeepsFunds, WalletKeepsFunds,
       ClockKeepsFunds, DecisionsKeepFunds DEF Next
<1>. QED
    BY <1>2, <1>3

\* FundsInv holds before the first submission.
LEMMA InitialFunds == Init => FundsInv
<1>. SUFFICES ASSUME Init PROVE FundsInv
    OBVIOUS
<1>1. LockInv
    BY DEF Init, LockInv, TypeOK, Traceless, UnsentBeforeSubmit,
       FreshIsPrivate, ClosedMakesStale, DrainedOfSent, RollbackHarmless,
       ReleaseJustified, LoadingCovers, DurableLock, LiveCoversUnsettled
<1>2. OneSubmissionPerAccount /\ ClockStartsWithReservation
    BY DEF Init, OneSubmissionPerAccount, ClockStartsWithReservation
<1>3. CountedCovers /\ CheckedFundsStay
    BY DEF Init, CountedCovers, CheckedFundsStay
<1>4. ASSUME NEW a \in Accounts PROVE Total(Outgoing(a)) <= Balance(a)
    <2>1. /\ Outgoing(a) = {}
          /\ {d \in OfAccount(Deploys, a) : chain[d] = "finalized"} = {}
        BY DEF Init, Outgoing, OfAccount
    <2>2. Total({}) = SumFunctionOnSet(Amount, {})
        BY DEF Total, MapThenSumSet, SumFunctionOnSet, FoldFunctionOnSet
    <2>3. Total({}) = 0
        BY <2>2, SumOfNone
    <2>4. Total(Outgoing(a)) = 0
        BY <2>1, <2>3, Zenon
    <2>5. Balance(a) = Funds[a] - Total({})
        BY <2>1, Zenon DEF Balance
    <2>. QED
        BY <2>3, <2>4, <2>5, ConstantsAssumption
<1>. QED
    BY <1>1, <1>2, <1>3, <1>4 DEF FundsInv, NoOverspend

\* The inductive invariant holds of every behaviour: the lock of LockInv, and
\* what a balance check has found stays true until the deploy is sent.
THEOREM FundsInvariance == Spec => []FundsInv
BY InitialFunds, FundsStep, PTL DEF Spec

\* The deploys of an account that may still take funds never exceed what the
\* account has, for any number of accounts, deploys, closings and crashes.
THEOREM NeverOverspends == Spec => []NoOverspend
<1>1. FundsInv => NoOverspend
    BY DEF FundsInv
<1>. QED
    BY <1>1, FundsInvariance, PTL

-----------------------------------------------------------------------------
(* Refinement                                                              *)

\* The records of a wallet start out as a lock with nothing held.
LEMMA InitRefines == Init => Lock!Init
    BY DEF Init, Lock!Init

\* Every step is a step of the lock or invisible to it.  Seven actions are
\* visible: a record is written, sent or deleted (after a rollback, a release
\* or an expiry found while loading), the clock runs, the node or the chain
\* decides.
LEMMA StepRefines == LockInv /\ [Next]_vars => [Lock!Next]_Lock!vars
<1>. SUFFICES ASSUME LockInv, [Next]_vars PROVE [Lock!Next]_Lock!vars
    OBVIOUS
<1>1. ASSUME NEW d \in Deploys, PersistReservation(d) PROVE Lock!Hold(d)
    BY <1>1 DEF LockInv, UnsentBeforeSubmit, PersistReservation, Lock!Hold
<1>2. ASSUME NEW d \in Deploys, Submit(d) PROVE Lock!Send(d)
    BY <1>2 DEF LockInv, UnsentBeforeSubmit, FreshIsPrivate, Submit,
       AdapterActive, Lock!Send
<1>3. ASSUME NEW d \in Deploys, RollBack(d)
      PROVE  Lock!Release(d) \/ UNCHANGED Lock!vars
    BY <1>3 DEF LockInv, RollbackHarmless, RollBack, Lock!Release,
       Lock!Outstanding, Lock!vars
<1>4. ASSUME NEW d \in Deploys, ReleaseFromStorage(d)
      PROVE  Lock!Release(d) \/ UNCHANGED Lock!vars
    BY <1>4 DEF LockInv, ReleaseJustified, ReleaseFromStorage, Lock!Release,
       Lock!Outstanding, Lock!vars
<1>5. ASSUME NEW d \in Deploys, RestoreRecord(d)
      PROVE  Lock!Release(d) \/ UNCHANGED Lock!vars
    BY <1>5 DEF RestoreRecord, Lock!Release, Lock!vars
<1>6. ASSUME NEW d \in Deploys, NodeDecides(d) \/ ChainSettles(d)
      PROVE  Lock!Decide(d)
    BY <1>6 DEF NodeDecides, ChainSettles, Lock!Decide
<1>7. ASSUME NEW d \in Deploys, ExpirationTimePasses(d) PROVE Lock!Expire(d)
    BY <1>7 DEF ExpirationTimePasses, Lock!Expire
<1>8. ASSUME NEW d \in Deploys,
             \/ BeginSubmission(d)
             \/ BalanceSuffices(d)
             \/ Signed(d)
             \/ SubmissionAborts(d)
             \/ SubmitRefusedAsClosed(d)
             \/ SubmissionAccepted(d)
             \/ SubmissionRejected(d)
             \/ SubmissionOutcomeUnknown(d)
      PROVE  UNCHANGED Lock!vars
    BY <1>8 DEF BeginSubmission, BalanceSuffices, Signed, SubmissionAborts,
       SubmitRefusedAsClosed, SubmissionAccepted, SubmissionRejected,
       SubmissionOutcomeUnknown, Lock!vars
<1>9. ASSUME NEW d \in Deploys, Confirmed(d) \/ TimerElapsed(d) \/ WatchFailed(d)
      PROVE  UNCHANGED Lock!vars
    BY <1>9 DEF Confirmed, TimerElapsed, WatchFailed, Release, Lock!vars
<1>10. ASSUME \/ OpenWallet \/ Drained \/ OpeningFails \/ ReadRecords
              \/ Publish \/ CloseWallet \/ Crash
       PROVE  UNCHANGED Lock!vars
    BY <1>10 DEF OpenWallet, Drained, OpeningFails, ReadRecords, Publish,
       CloseWallet, Crash, Lock!vars
<1>11. CASE UNCHANGED vars
    BY <1>11 DEF Lock!vars
<1>12. CASE Next
    BY <1>1, <1>2, <1>3, <1>4, <1>5, <1>6, <1>7, <1>8, <1>9, <1>10, <1>12
       DEF Next, SubmissionStep, OpeningStep, Lock!Next
<1>. QED
    BY <1>11, <1>12

\* The storage of the wallet implements the lock the SDK promises: funds are
\* held before a deploy leaves, and the hold ends when the deploy is decided
\* or has expired.
THEOREM ReservationsRefineFundsLock == Spec => ImplementsFundsLock
<1>. QED
    BY InitRefines, StepRefines, LockInvariance, PTL DEF Spec, ImplementsFundsLock
=============================================================================
