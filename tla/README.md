# A verified model of the ASI chain wallet SDK

The SDK keeps wallets on the device of their user: it creates, imports, opens,
locks and removes them, signs transfers and deploys, sends these to a validator
node, and locks ("reserves") the funds of what it has sent until the chain has
decided. It is single-threaded TypeScript, and everything hard about it happens
at its `await`s: what was read before one is used after it, the user closes,
locks or wipes things in between, requests time out while the node has already
acted, and the process may end at any of them.

This directory holds TLA+ modules of the parts where that matters, the
configurations that check small instances of them with TLC, and TLAPS proofs of
theorems for all instances. `PROJECT.json` maps each definition to the lines it
models and lists runs, mutants, findings, hazards and theorems.

## The system

| component | code (below `src/src`, or `src/playground`) | state | operations | modules |
| --- | --- | --- | --- | --- |
| reservation adapter, reservations manager | `domains/ReservationAdapter`, `services/TransactionReservationsManager`, `fabrics/transactionReservation` | reservations in memory, pollers, timers, encrypted records in storage | transfer, deploy, add, update, remove, clean up, open, close, expire, confirm | `Reservations`, `FundsLock`, `ManagedReservations` |
| deploy status poller | `services/DeployStatusPoller` | one interval per watch, subscribers | watch, subscribe, cancel | `DeployWatch` |
| operation guards | `services/ConcurrentOperationGuard` and its three heirs | owners of keys, holders of scopes | run | `OperationGuard` |
| client, lifecycle guard | `domains/Client`, `domains/LifecycleGuard`, `services/ClientLifecycleGuard`, `domains/ClosableDomain` | open wallets, generation, pending operations, suspension | create, import, open, close, remove, wipe, close the client | `WalletLifecycle` |
| wallet manager and persistence | `services/WalletManager`, `services/StorageManager`, `services/WalletPersistence`, `services/WalletUniqueness`, `services/WalletImport` | stored signers and accounts | persist, open, delete, derive, import accounts, rename | `WalletAccounts`, `Keyfiles` |
| wallet and accounts | `domains/Wallet`, `domains/Account`, `services/AccountManager` | accounts, their names and indexes | derive, rename, remove | `WalletAccounts`, `AccountTable` |
| keyfiles | `services/Keyfile*`, the import modal of the playground | files | export, plan, import | `Keyfiles` |
| signing session | `domains/SigningSession`, `domains/Signer`, `domains/AutoTimer` | decrypted secret, generation, timer | unlock, lock, auto-lock | `SigningSession` |
| networks | `services/NetworkManager`, `domains/ApiClientManager`, `domains/NetworkBusyRegistry`, `domains/NetworkConfigProvider` | configurations, current network, busy counters, write queue | add, update, remove, switch, run an operation | `Networks` |
| storage migration | `services/StorageMigrationRunner`, `services/StorageBootstrap` | schema version, pending mark, backup | start | `StorageMigration` |
| table storage | `domains/NodeStorage`, `domains/BrowserStorage`, repositories | tables | insert, update, delete | in `WalletAccounts` |
| history | `services/TransactionsHistoryAggregator`, `services/AccountDataService` | none | merge a page | `History` |
| playground | `playground/src` | what the pages show | open, lock, sign, ask, reserve, import | `SessionBadge`, `NetworkResults`, `ReservationForm`, `Keyfiles` |
| cryptography, node clients, deploy terms | the rest of `src/src` | none | | |

How they interact: `Client` enters the lifecycle guard for everything that may
be under way at a logout, asks the wallet manager for wallets and the adapter
manager for one reservation adapter per open wallet. A transfer goes through
the adapter, which holds the account's keys in the (static) reservation guard,
asks the node for the balance, lets the signer sign with the session's secret
or a password, writes the record, sends the deploy and hands the reservation to
its manager; the manager polls the node and sets a timer. Adapters of one
signer that follow each other, because the wallet was closed and opened again,
meet only in storage and in the static `submissionsGuard`.

The playground calls the client and listens to its events; it keeps copies of
what it was told, and the user acts on the copies.

What is hard, and what makes each part correct:

- *Reservations.* Lost answers, crashes, closing and reopening while a
  submission is in flight; changes of a reservation that its timer, a
  confirmation, a clean-up or a closing overtakes. Correct: a deploy that may
  still take funds is locked in storage and counted in memory; no two deploys
  are promised the same funds; every lock and every submission ends; a
  reservation is always tended, and memory and storage agree at rest.
- *Watches.* Late answers, overlapping ticks, callbacks that throw or close.
  Correct: one watch per reservation, one last word per listener, an end.
- *Guards.* Refusals, failures and shared scopes. Correct: exclusion, and no
  refusal for something that is over.
- *Lifecycle.* Publications that end after a logout, drains that time out,
  removals that fail half way. Correct: nothing from before a logout stays,
  nothing wiped or removed comes back, one wallet per signer, work resumes.
- *Session.* Locks and timers between the two decryptions of an unlock.
  Correct: a lock wins, secrets are wiped, a session lasts its time and no
  longer.
- *Networks.* A change is written in steps, behind a queue, while operations
  start, the client closes or the process ends. Correct: an operation ends on
  the network and configuration it began with, memory and storage agree, no
  reservation belongs to a configuration that is gone.
- *Starting on stored data.* Crashes in migrations and in their rollbacks, and
  builds of different ages on one storage. Correct: the version tells the
  shape of the data, rows survive, what is damaged stays refused, and "intact"
  means intact.
- *Accounts and secrets.* Indexes and fingerprints chosen before an await and
  written after it, in steps that may fail, on tables that are written back
  whole. Correct: what was reported is stored, no key twice, no secret twice, a
  removal leaves nothing.
- *History.* A page cut out of two lists that were read at different times.
  Correct: the pages of one state are the pages of one list.
- *Playground.* Answers and events in an order nobody chose. Correct: a locked
  session is shown as locked, an answer belongs to the network shown, the form
  accepts what the SDK accepts.

## Conventions

An action is the code between two awaits. A variable `stage`, `callStage`,
`phase`, `step` or `at` names the await something is parked at; every await may
also fail. Names are those of the source where TLA+ allows it. Variables marked
*history* in their comment are read by properties only, or say of a property
which behaviours it is not about; each such exception is a finding below or an
abstraction named with its module. Operators introduced by `\* Mutant:` are
not used by any specification: each is a variant of the definition after it,
with a plausible bug, and shows that a property can fail.

## Modules

### FundsLock, Reservations

`FundsLock` states what the SDK promises about the funds of a deploy, without
memory, sessions or restarts: held before it leaves, and given up only when the
deploy can no longer take the funds or its time is over.

`Reservations` is one wallet's adapter with its manager, its records, the node
and the chain.

| model | code |
| --- | --- |
| `BeginSubmission` .. `SubmissionAborts` | `transfer`/`deploy` up to the signature: account key taken, reserved amount read, balance awaited, deploy signed |
| `PersistReservation`, `Submit`, `SubmitRefusedAsClosed` | `reserveAndSubmit`, the decorator that refuses a closed adapter |
| `SubmissionAccepted`, `SubmissionRejected`, `SubmissionOutcomeUnknown`, `RollBack` | the three outcomes of `settleFailedSubmission` and of success |
| `Release` and its users, `WatchFailed`, `ReleaseFromStorage` | the manager's handlers, the deletion nobody waits for |
| `OpenWallet` .. `Publish` | `ReservationAdapter.create`, await by await |
| `CloseWallet`, `Crash` | `dispose`; the end of the process |
| `ExpirationTimePasses`, `NodeDecides`, `ChainSettles` | outside the SDK |

Abstractions. Amounts are natural numbers and `Amount[d]` covers what `d` costs
on chain, so `Balance` is the settled part of the chain. A deploy id is the
signature of one attempt, so it never occurs twice. The poller is silent
once stopped, as `DeployWatch` shows it to be. Storage writes one record at a time, as the browser's
does. One network, one signer. `lapsed` remembers deploys that expired before
they were settled: those are given up by design, and `NoOverspend` speaks of
accounts without any.

### ManagedReservations

Reservations for deploys that somebody else submits: `addTransactionReservation`,
`updateTransactionReservation`, `removeTransactionReservation` on one account,
with `runExclusive`, which suspends poller and timer while a call has the
reservation, and re-arms in a `finally`. The clean-up of a network, the opening
and the closing of the wallet run in between; a call that began in one adapter
ends in it, whatever has been opened since (`strayed`).

Abstractions. The keys of the guard are what they exclude: calls of one account
do not run together (`Running`). `LocksAgree` speaks of an open wallet at rest and not of what `missed` marks:
calls that a closing or opening has crossed (a finding), failed deletions, and
deploys that were executed while their reservation was given to another.

### DeployWatch

One reservation, its watches and its subscribers. `Tick`, the answers (`Pending`,
`TimesOut`, `Finalized`, `RequestFails`, `AnswerTooLate`) and `DeadlinePasses`
are the poller; `Subscribe` .. `Close` the manager. A callback may throw, and
may close the wallet from within (`ClosedByListener`). `endings` counts up to
two, which is what `OneEnding` forbids.

### OperationGuard

`ConcurrentOperationGuardService.run` for any set of operations, the keys each
claims and the scope each enters, shared or alone. Entering and refusing are
one synchronous turn, leaving is the `finally`. `MCGuards` gives it the
operations of `ReservationOperationGuard` on one network and a wallet creation
of `WalletOperationGuard`.

### WalletLifecycle

How wallet instances come into and go out of one client. An element of
`Wallets` is one call that creates, imports or opens; a signer is named after
the call that created it. `Begin`, `Prepared` .. `SetUp` are a publication,
await by await, with the generation compared at its end. `BeginCall` ..
`CallEnds` are a submission as far as it writes. `CloseWallet`,
`CloseAllWallets`, `Close`, `ClearPersistence` and `RemoveWallet` are the ways
out, the last two with the deletions that follow their drain
(`WipeSigners` .. `DeleteSigner`), each of which may fail.

Abstractions. Local work (cryptography, storage) is faster than the ten seconds
of a drain; only what waits for the node, or for earlier submissions to settle
(forty seconds), may outlast it (`Drained`). Storage does not fail while a
submission rolls back. The later half of `Close`, which closes storage and API
clients, changes nothing here. Expiry and confirmation of records are in
`Reservations`. The process does not crash. Accounts are present or absent per
signer.

### SigningSession

The session of one signer: an unlock reads the generation, decrypts the secret,
decrypts the data key and holds or cancels; locks and timers release. An unlock
with a non-positive `autoLockMs` (`Unlocks` outside `Timed`) ends the session
before it and holds nothing. `Zeroized` is about secrets that were held or
cancelled; an unlock whose second decryption fails drops its secret unwiped,
which the code does and no document rules out. Secrets that are strings (HD
seeds) are dropped rather than overwritten; the model calls both wiped.

### NetworkTable, Networks

`NetworkTable` states what the SDK promises about networks, without memory,
queue, counters or failures: one table, no two networks in it with one name or
one configuration, the default one untouched, and nothing happens to a network
as long as an operation runs on it. `Networks` implements it, the table being
what is in storage. The exceptions both modules name are `torn`, a write that
went on without its client, and `lowered`, the networks whose counter an
operation of an earlier client has lowered.

`Networks` is registry, stored copy, selection and busy counters of one client; the
queue of writes; operations, which take a network and its configuration when they begin;
the reservations of wallets, each with the configuration it was made for.
A write goes `queued`, `storing`, `stored`, `dropping`: the record first, then
memory, then the reservations, then the end of the exclusive scope. `CloseClient`,
`Crash` and a new start may come anywhere. Closing waits ten seconds for the
operations that are tracked, which is less than one request may take, and then
clears the counters: the operations that go on are `strays`, and their end
(`GiveBack`) lowers a counter of the next client, if there is one by then. The
counters, `OperationsKeepTheirNetwork` and the promise of the table therefore
speak of the operations of the client there is (`OfClient`), on networks that are
not `lowered`; what happens to the others is a finding. The scope that
reservation operations share is not lost in this way, since
`ReservationOperationGuard` knows its holders one by one.

Abstractions. Names and configurations stand for themselves. A wallet opens and
closes as a whole; an opening that is under way when the client closes ends
without a wallet. Strays do not add reservations: what they still write is in
`Reservations`. An operation may add one whatever it is, a removal too, which
only adds behaviours. `outlived[w]` has the reservations of wallet `w` that a change
of their network missed (a finding): they are restored with the wrong
configuration. `torn` marks writes that were stored for a client that is gone,
which are seen at the next start only.

### StorageMigration

`StorageBootstrap` and the migration runner: the schema record, the creation of
tables, each migration with its backup, the rollback in two loops, the marks.
A table is the version its rows follow. Builds that declare a gap, or that are
older than the data, are among the builds. Resumable migrations may be run
again from the middle; the others are refused.

Abstractions. A migration rewrites one table per step. A backup copies the
records of `Migratable[b]`, the `MIGRATABLE_TABLES` of the build, and knows the
names of all tables; that every table a migration works on is among them is an
assumption, which the developer has to keep and nothing in the code checks. A
table it works on that is not among them would come back from a rollback as the
migration left it. A failure within a migration, of its backup and of its mark
too, is told as `StorageMigrationFailedError`, any other of a start as itself.
Two clients never start at once. `resumed` and `tainted` remember rollbacks that were themselves
interrupted, went unrecorded, or began from a backup of a broken state;
`IntactMeansIntact` makes no exception for the last and fails on it.

### AccountTable, WalletAccounts

`AccountTable` states what the SDK promises about the accounts of a wallet,
without memory, wallet objects or awaits: one table on which every call takes
effect once, at one moment, or fails without effect; a row goes when it, or the
wallet, was asked to go; an index is given to one account that stays.
`WalletAccounts` implements it: the moment is the write, whatever the call read
before. Two flags are the exceptions, taken from `trouble`: `lost`, when
NodeStorage wrote back a table that was not the one there was any more, and
`astray`, when a call failed, crossed an opening or another call it does not
expect, or a removal was torn or overdue. While `astray` only, effects are still
exactly those of the calls.

`WalletAccounts` has the accounts of one HD wallet in the objects that hold them and in the table,
through every call that writes them. Both table services are modelled: the
browser's transaction on named rows, and the whole table read, awaited and
written back. `trouble` collects what a property does not speak of: a failed
save, a crash, an import mixed with a derivation (a finding).

`KeepsAnAccount` holds whatever imports, renames and removals do, fail or crash,
but not of every behaviour: a derivation that failed or was cut off leaves an
account in memory that storage never gets, `removeAccount` counts it, and the one
stored account may go. That is a finding; the other exceptions (a wallet reopened
under a running call, a lost write of NodeStorage, a torn creation or removal)
are named with the property. What a removal of the wallet deletes is what its
object had when the deletion began (`BeginDeletion`).

Abstractions. A call is one or two awaits of storage, as in the code; keys of
the guard are what they exclude. Submissions that make an account busy are left
to `OperationGuard`.

### Keyfiles

Secrets, the fingerprints of two formulas, keyfiles, and the calls that create,
export, import, open and remove by them. The plan of an import and its write are
separate steps with the check under the key in between. The modal that previews
a keyfile and submits later is part of the module.

An import of accounts holds another key than creations and imports of wallets and
does not stop them (`Creating`).

Abstractions. A fingerprint is a secret seen through a formula: the older one
drops the root path. Names, passwords and the bytes of a file are left out.

### History

`getTransactionsHistory` as an action in two parts, the request and the answer,
over every page of a small account; the answer is the page that the code cuts,
by the offsets and limits it computes. `PagesAgree` compares it with
`ReferencePage`, the page of the merged list.

### SessionBadge, NetworkResults, ReservationForm

The three places of the playground where its copy of the SDK's state may be
wrong: `lockedWalletIds` of `useSdk`, the request guard of balances, history
and watches, and the page for reservations, whose form decides before
the SDK does. In `ReservationForm` the reservations listed are those of the SDK,
since an event follows every change at once; the balance is as old as its
answer, and `FormMirrorsSdk` speaks of moments when it is current (`exact`).
The selected account may change or be given up; the network of the form, and with
it the rows it lists, stays. In `NetworkResults` a network stands for its
configuration: an update of the selected network's URLs under its id is not
modelled, after which `useRelevantResultGuard`, which compares ids, would still
count an answer of the old endpoint.

### MCGuards, MCStorage, MCServices

Each checks several parts that share no state at the grain they are modelled
with. `focus` is chosen at the start and never changes: a behaviour is one of
its part, with the others at rest, and the states add up rather than multiply.

## Runs

| run | bounds | shows |
| --- | --- | --- |
| `shared_account` | 2 deploys, 1 account that can pay one of them | `NoOverspend`, `SubmissionEnds`, `LocksLapse` |
| `two_accounts` | 2 deploys, each on its own account | `DurableLock`, `LiveCoversUnsettled`, `ImplementsFundsLock` |
| `reopen_race` | as `shared_account` | violates `NeverRestoresDoomed` |
| `guards` | 7 operations, 4 keys, 1 scope; 3 unlocks, 2 of them timed, 2 locks; 3 watches, 2 listeners | `KeyExclusion`, `ScopeExclusion`, `RefusalsJustified`; `LockBeatsUnlock`, `Zeroized`, `SessionLastsItsTime`, `SessionsExpire`; `OneEnding`, `EveryWatchEnds` |
| `lifecycle` | 3 calls that create or open, 1 submission, 2 logouts or wipes | `TypeOK`, `NoWalletFromBeforeLogout`, `OpeningsExclude`, `TeardownIsFinal` |
| `lifecycle_live` | 2 calls of any kind, 1 submission, 1 logout or wipe | `SuspensionEnds` |
| `import_after_logout` | 1 call of any kind, 1 logout | violates `NoWalletFromBeforeLogout` |
| `create_open_twins` | 2 calls that create or open | violates `OneWalletPerSigner` |
| `storage` | 4 builds, 3 versions, 3 tables; 2 of 5 calls on accounts, 2 wallet objects, 3 indexes, both table services; 1 mnemonic under 2 roots, 1 private key of it, 2 signers, files and imports | `StorageTypeOK`; `VersionTellsData`, `RowsSurvive`, `DamageIsSticky`; `ReportedIsStored`, `NoTwins`, `KeepsAnAccount`, `StorageFollowsWallet`; `OneWalletPerSecret` |
| `removal_leaves_account` | as `storage`, browser only, no keyfiles | violates `RemovalIsComplete` |
| `rollback_intact` | as `removal_leaves_account` | violates `IntactMeansIntact` |
| `services` | 2 of 3 writes, 1 operation, 1 wallet, 2 networks at first; 4 calls, a balance of 3; 2 wallets; 2 networks, 3 requests; 4 transactions; 2 accounts, 2 deploys, 2 rows | `ServicesTypeOK`; `OperationsKeepTheirNetwork`, `WritesAgree`, `ReservationsFitNetwork`, `ImplementsNetworkTable`; `Tended`, `LocksAgree`; `LocksShown`; `AnswersFit`; `PagesAgree`; `FormMirrorsSdk` |

Why the bounds are enough. In `Reservations` deploys of different accounts
share nothing but the phase of the wallet, and deploys of one account exclude
each other while they run; two deploys give every pair, and closing, opening
and crashing are unbounded. The first run lets them compete for funds, the
second lets them really run at once, which one account forbids. The guard's
instance has every kind of conflict: a common key, a key shared through the
reservation only, shared against exclusive, exclusive against exclusive, and
an operation without a scope. In the lifecycle, three instances are a creation
and two openings of what it created, and two generations a logout between any
two of them; its instances are symmetric, and the run with liveness uses no
symmetry. Three unlocks are one that is held, one that takes over and one that
holds nothing. Three watches are the first, the one after an update, and the one
after that; two listeners are one that throws or closes and one that hears it.

Writes of networks are serialized, so two of them meet in every way two of three
can. Two calls on accounts, on top of the creation and the removal, give every
pair on one table; two objects are the wallet and its reopening. Three versions
have a migration after a migration, which is where a failed second one must not
undo the first; `gap` is the build whose migrations are not consecutive. Two
requests under way and one to come are the least in which an answer is
late twice. Four transactions and pages of one and two put a page border
before, in and after the pending rows.

`MaxGeneration`, `MaxLocks`, `MaxWatches`, `MaxVersion`, `MaxIndex`, `MaxCalls`,
`MaxWallets`, `MaxSigners`, `MaxFiles`, `MaxImports`, `MaxAsked`, `MaxRows`,
`Balance` and `TwoWrites` are the only bounds on what grows, and occur in the
guards of the actions that make it grow. `lifecycle` leaves out keyfile imports
because of the finding below: with them `NoWalletFromBeforeLogout` fails, and
for the same reason `TeardownIsFinal`. `CHECK_DEADLOCK FALSE` stands where
everything may be over: all calls made, all bounds reached.

The largest runs are `storage` with about 930 000 distinct states and `services`
with about 960 000, two to three minutes each; the others take seconds.

### Findings

Refuted by a run of their own:

- **reopen_race.** `openWallet` waits for submissions inside
  `submissionsGuard.track` only. One still asking for its balance or signing
  when the wallet was closed is waited for by nobody; the reopened wallet may
  restore its record just before it is rolled back. `docs/DOMAINS.md` says it
  never does. The effect is a lock on funds until the expiration time.
- **import_after_logout.** `importWalletKeyfile` decrypts the keyfile before it
  enters the lifecycle guard. After a logout, wipe or close during that time
  the wallet is written and published all the same, against
  `SECURITY_INVARIANTS.md` 2.7 and 2.8.
- **create_open_twins.** A wallet under creation is stored before it is in the
  wallet manager. Opening it by its signer id at that moment yields a second
  open wallet of that signer, against `docs/DOMAINS.md` on `openWallet`.
- **removal_leaves_account.** `removeWallet` waits for a keyfile import into the
  wallet and then deletes the accounts of the wallet object, which the import
  could not add to any more. The rows stay, against `SECURITY_INVARIANTS.md`
  2.11.
- **rollback_intact.** A resumed migration takes its backup of what the
  interrupted run left. When the backup fails, nothing is rolled back; when the
  migration fails again, what the interrupted run left is restored. Either way
  the error says storage is intact, against `docs/DOMAINS.md` on
  `StorageMigrationFailedError`.

Met while modelling; each is how the model behaves, and where a property would
fail on it a history variable names the exception:

- a derivation whose save fails leaves an account in memory, which lets the one
  stored account be removed, against `SECURITY_INVARIANTS.md` 2b.1
  (`KeepsAnAccount`);
- an operation that outlasts the drain of its client lowers a counter of the next
  one, which may then change or remove a network in use (`lowered`);
- shrinking a reservation may fail on funds (`BalanceCovers`);
- a deploy reserved across a reopening may be reserved twice (`missed`);
- deriving and importing may store one key under two accounts (`mixed`);
- a changed network leaves the records of closed wallets (`outlived`);
- a listener that subscribes after the end of a reservation hears nothing
  (`Subscribe`), and a callback that throws keeps the end from the manager
  (`thrown`);
- the playground loses a lock that comes during an opening (`lockedEarly`) and
  shows a created wallet as unlocked; its import modal may submit a keyfile
  other than the previewed one; its form accepts a transfer of nothing and is
  cleared under the user; a balance card looks settled too early;
- every error of a history request reads as an empty history.

`PROJECT.json` quotes the lines for each.

## Fairness

Only what the code and its runtime guarantee is fair: an await of the SDK ends
(requests by `DEFAULT_REQUEST_TIMEOUT`, drains by their own timeouts, local work
by itself), a timer or interval that is set fires, the clock runs, a started
deletion ends. Nothing is assumed of the user, of crashes, of the node or the
chain: they may do nothing for ever. Fairness is weak and on the steps of one
submission, publication, teardown or watch together, since each is one thread of
control in which some step is enabled until it is over. A watch needs no answer
of the node that is final: its deadline ends it. In `MCGuards` the same fairness
is stated for the part in focus.

## Proofs

Every safety property of a passing run, refinements and types included, is a
theorem for all values of the constants; only liveness is left to TLC. Each proof
has an inductive invariant; the table says why the property alone is not one.

| module | argument |
| --- | --- |
| `SumTheorems` | the sums of the community modules are recursive in a choice of the next element, and no induction theorem can be used. Instead a least counterexample is taken among the subsets of a finite set, which shows that a sum of naturals is the number of their units; type, splitting, monotony and agreement of sums are then facts about cardinalities |
| `ReservationsProofs` | `LockInv`: besides the two properties it is named for, it says how far things may have got together. `Traceless` and `UnsentBeforeSubmit` order the record and the deploy; `FreshIsPrivate` keeps everyone else's hands off a running submission; `ClosedMakesStale` and `DrainedOfSent` say why an opening that has drained reads every record that matters; `RollbackHarmless`, `ReleaseJustified` and `LoadingCovers` carry the lock through the rest. `DurableLock` alone is not inductive: a rollback needs to know that its deploy is not on its way. `FundsInv` adds to it what a balance check is worth: what was reserved when the request went out still covers every deploy that may take funds when the answer comes (`CountedCovers`), and what the check found is still there when the deploy is sent (`CheckedFundsStay`), because an account has one submission at a time (`OneSubmissionPerAccount`). `NoOverspend` follows, and so does the refinement of `FundsLock`, step by step |
| `ManagedReservationsProofs` | `TendedInv`: one call runs at a time, and one that outlives its adapter has strayed (`CallsApart`), so what a call suspended nobody else has taken away. `Tended` alone is not inductive: the re-arming in a `finally` needs that the reservation is still the call's. `BookInv` adds which reservation every call under way has in memory and which in storage, while the wallet is open, restoring or closed (`Agreement`), and that both fit under the balance the call is compared with. `LocksAgree` speaks of rest only |
| `NetworksProofs` | `NetworksInv`, in parts: queue turns, exclusive and shared scopes, and counters as cardinalities of the operations of the client, at most where a stray has lowered them (`NetCore`); a network an operation is on stays as it was (`OperationsKeepTheirNetwork`); storage is what memory is, or one write ahead, and the write to come fits it (`OneAhead`); what a wallet has stored fits its network, or the network is on its way out, or a change has missed it (`RecordsFit`, `HeldIsKept`). Refinement of `NetworkTable`: what reaches storage is a network nobody runs on, as `Scopes` says of a change and `Added` of an addition, whose record differs from the others (`OneAhead`); an operation begins on what memory has, and the one network on which storage is ahead is closed to it. `TableIsKept` brings the promise of the table back to the storage of `Networks` |
| `GuardsProofs` | `GuardInv`: the tables name exactly the running operations; exclusion needs exactness, since entering looks at the tables and not at the operations. `SessionInv`: an unlock that still has the current generation has seen every lock, the only running timer is the session's, and what is wiped is over. `WatchInv`: at most one watch runs, and it is the one the manager can cancel (`OneWatch`); a closed manager has nothing (`ClosedIsEmpty`); who has heard an end has left (`HeardAndLeft`), so a last word is said once, however late an answer is |
| `ServicesProofs`, playground | `BadgeInv`: a session that began while its wallet was being opened still runs, or its lock fell into the opening, and what is under way belongs to a wallet on the page; an answer takes an entry off the list without looking. `ResultsInv`: every call of a request that will count has gone to the network it began on, and a removed network that the page still shows does not come back. `FormInv`: a balance that is up to date is what the account has beyond its reservations |
| `ServicesProofs`, history | A page is a sequence of the newest rows, cut and merged; sorting recursively could not be reasoned about, so `Newest(S)` is *the* sequence of the rows of a finite set in falling order (`CHOOSE`), that is there and is the only one, because the ranks of the rows, how many are at least as new, are the numbers up to their count (`RankOnto`, `DecreasingRanks`, `NewestSorts`, `SortedIsNewest`). A window of a merged list is then the merge of wider windows (`MergedLate`, `WindowFacts`), which is what the code does with the limits it sends to the indexer, and `PagesAgree` is an action property of it |
| `ServicesProofs`, `StorageProofs`: compositions | `ServicesComposed` and `StorageComposed`: what the runs explore implements the specification of every part, so each theorem about a part holds of the composition; `ServicesTypeOK`, `StorageTypeOK` and `ServicesRefineTable` follow. The bounds on ids, indexes and wallet objects in the types of the storage parts are invariants of their own (`KeyfileBounds`, `AccountBounds`) |
| `StorageProofs`, migrations | `MigrationInv` joins the shape of the starting process with what is stored: a start past its check has migrations from version to version (`Chained`), the record's marks fit the step (`Marks`), the rows of every table are those of the version or of the step the loop has reached (`DataInv`), a backup not taken of an interrupted run is the state before the step (`CopyInv`), the rollback loops have restored exactly what they have passed (`LoopInv`), and nothing without a copy has changed (`CoverInv`). It holds at every await, so a crash leaves no case of its own; `VersionTellsData` alone says nothing while a mark is set, which is where every start begins |
| `StorageProofs`, keyfiles | `KeyfileInv`: ids are given out once, one creation claims a secret under its key, and by the time it saves it has found the secret neither in the older records nor in the others (`ClaimsHold`). An older record can be read because it tells its root (`OldRecordsTold`) |
| `StorageProofs`, accounts | `AccountsInv` in layers, each under its own exception: who may be where (`AccountsBase`); what was reported is stored (`ReportsHold`); every account was put there by its call, and what an opening has read is what is stored, first as long as no derivation failed (`SteadyInv`, which is enough for `KeepsAnAccount`), then as long as no call did (`CleanInv`); the last wallet object has what is stored or being stored (`SmoothInv`); the indexes of what stays and of what is being made differ, so calls never meet (`ApartInv`); memory is ahead of storage by the calls under way, one an account (`FollowInv`). `NoTwins` and `StorageFollowsWallet` alone speak of what is stored or at rest, not of what is about to be. Refinement of `AccountTable`: a call comes to be over for the table by its write, a refusal or a failure (`SpentMoves`); the write finds its index free (`IndexesApart`) and its row there (`CallsApart`), and the deletion of a wallet leaves rows only that are going anyway (`RemovalApart`). `AccountTableIsKept` says more than `NoTwins`, at every moment, under a stricter exception |
| `WalletLifecycleProofs` | `OpeningInv`: types, whose call a stage belongs to (`Founded`), and the OPEN key held from the look-up until the wallet is in memory (`OpeningsApart`). `LifecycleInv`, under `NoImports`, adds: a call sees the generation it was made in (`Punctual`), signers and submissions stem from instances that exist (`Rooted`), an exclusive action past its drain finds nothing being created and what it deleted stays away (`Cleared`), and what is condemned has no writer left, since an instance that is `Gone` never gets an adapter again (`Destroyed`, `GoneStays`) |

Assumptions: those named in the modules, which TLC evaluates on the instances.
Most say that the bounds are naturals and the sets what they are used as. Those
with content: sets that are summed over or counted are finite; `RecordsDiffer`,
that the networks a client starts with have different names and configurations,
which `validateNetworkUniqueness` checks of every other; and, in
`MigrationAssumption`, that the tables of a migration are in its backup. No size of an
instance enters a proof. `NoImports` is not an assumption about the code but a
restriction of two theorems: with imports both properties fail, which is the
finding `import_after_logout`.

Proved only: `ImplementsAccountTable` and the promise `AccountsTable!Kept` of
`WalletAccounts`, which no run lists. TLC agrees with both on the instance of
`MCStorage.cfg`, when they are added to it, and finds the first one violated
when derivations do not claim their key or the browser's service writes back
what it read.

Model-checked only: liveness (`SubmissionEnds`, `LocksLapse`, `SuspensionEnds`,
`SessionsExpire`, `EveryWatchEnds`), which is out of the prover's reach. `FundsInv`
is proved and no longer an invariant of a run, having been one until it was.

## Not modelled

Cryptography, key derivation, codecs, keyfile formats, deploy terms, HTTP and
GraphQL clients and their parsers are stateless and seen as awaits that end or
fail. The insensitive cache is read back by nobody. Of the playground,
rendering, routing and the pages that only call the SDK and show its answer.
Two clients on one storage: the SDK has one per process, and `createTable`
runs before it. `closeWallet` of a wallet that is
still being set up is modelled in `WalletLifecycle`; no document says what
should come of it, so no property does.

## Plan

Action properties from the invariants that exist: storage is written only under
the turn, scope or key that allows it.
