--------------------------- MODULE WalletLifecycle ---------------------------
(***************************************************************************)
(* How wallets come into and go out of one Client: creating, importing and *)
(* opening them, closing one or all, removing one for good, wiping the     *)
(* storage and closing the client, with the submissions that run meanwhile.*)
(*                                                                         *)
(* An element of Wallets is one wallet instance: one call that creates,    *)
(* imports or opens.  A signer is named after the instance that created    *)
(* it.  An action is the code between two awaits; stage and callStage name *)
(* the await an instance or a submission is parked at.                     *)
(*                                                                         *)
(* What a submission does to locks is the subject of Reservations; here it *)
(* only matters when it writes.  Storage never fails while it rolls back.  *)
(***************************************************************************)
EXTENDS Integers

CONSTANTS
    Wallets,       \* wallet instances, one per call
    Submissions,   \* transfers and deploys
    Kinds,         \* kinds of publication that are called
    MaxGeneration, \* bound: how often the client is logged out or wiped
    None

ASSUME LifecycleAssumption ==
    /\ Kinds \subseteq {"create", "import", "open"}
    /\ MaxGeneration \in Nat
    /\ None \notin Wallets
    /\ Wallets \cap Submissions = {}   \* condemned has elements of both

VARIABLES
    stage,       \* stage[w]: where the publication of w is
    kind,        \* kind[w]: the call that w comes from, None before it
    signerOf,    \* signerOf[w]: the signer of w, None until it is known
    called,      \* called[w]: generation when the call was made
    born,        \* born[w]: generation the lifecycle guard saw at the start
    wallets,     \* walletManager: the wallets in memory
    adapters,    \* reservationAdapterManager: those with an active adapter
    callStage,   \* callStage[c]: where submission c is
    callOn,      \* callOn[c]: the instance c was called on
    signers,     \* stored signers
    accounts,    \* signers whose accounts are stored
    records,     \* stored reservation records, by submission
    generation,  \* of the lifecycle guard
    active,      \* the client is not closed
    teardown,    \* where the exclusive action is, "none" if there is none
    victim,      \* the wallet being removed
    condemned    \* history: signers and submissions a finished wipe or removal
                 \* was to leave nothing of

publicationVars == <<stage, kind, signerOf, called, born>>
memoryVars == <<wallets, adapters>>
callVars == <<callStage, callOn>>
storageVars == <<signers, accounts, records>>
teardownVars == <<teardown, victim, condemned>>
vars == <<publicationVars, memoryVars, callVars, storageVars, generation,
          active, teardownVars>>

-----------------------------------------------------------------------------
\* Stages of a publication inside the lifecycle guard; all but the last are
\* local work.
Creating == {"building", "savingAccounts"}
Loading == {"looking", "loading"}
Local == Creating \cup Loading
Tracked == Local \cup {"setup"}
Stages == {"idle", "preparing", "published", "ended"} \cup Tracked

CallLocal == {"unlocking", "writing", "stored", "rollback"}
CallStages == {"idle", "asking", "sent", "done"} \cup CallLocal

Wiping == {"wipeDrain", "wipeAccounts", "wipeRecords"}
Removing == {"removeDrain", "removeRecords", "removeSigner"}

Suspended == teardown # "none"

\* The OPEN action key of a signer, held by walletManager.open.
OpenKeyHeld(s) == \E w \in Wallets : stage[w] = "loading" /\ signerOf[w] = s

Init ==
    /\ stage = [w \in Wallets |-> "idle"]
    /\ kind = [w \in Wallets |-> None]
    /\ signerOf = [w \in Wallets |-> None]
    /\ called = [w \in Wallets |-> 0]
    /\ born = [w \in Wallets |-> 0]
    /\ wallets = {} /\ adapters = {}
    /\ callStage = [c \in Submissions |-> "idle"]
    /\ callOn = [c \in Submissions |-> None]
    /\ signers = {} /\ accounts = {} /\ records = {}
    /\ generation = 0
    /\ active = TRUE
    /\ teardown = "none" /\ victim = None
    /\ condemned = {}

-----------------------------------------------------------------------------
(* Publications: runWalletPublication                                      *)

Goto(w, s) == stage' = [stage EXCEPT ![w] = s]

\* createHDWallet, createPrivateKeyWallet and openWallet enter the guard in
\* the turn of the call; importWalletKeyfile first decrypts the keyfile.
Begin(w, k, s) ==
    /\ active
    /\ k \in Kinds
    /\ stage[w] = "idle"
    /\ k # "import" => ~Suspended
    /\ Goto(w, CASE k = "create" -> "building"
                 [] k = "import" -> "preparing"
                 [] k = "open" -> "looking")
    /\ kind' = [kind EXCEPT ![w] = k]
    /\ signerOf' = [signerOf EXCEPT ![w] = s]
    /\ called' = [called EXCEPT ![w] = generation]
    /\ born' = [born EXCEPT ![w] = generation]
    /\ UNCHANGED <<memoryVars, callVars, storageVars, generation, active,
                   teardownVars>>

Create(w) == \E k \in {"create", "import"} : Begin(w, k, w)
Open(w) == \E s \in signers : Begin(w, "open", s)

\* The keyfile is decrypted: now the guard is entered.
Prepared(w) ==
    /\ stage[w] = "preparing"
    /\ ~Suspended
    /\ Goto(w, "building")
    /\ born' = [born EXCEPT ![w] = generation]
    /\ UNCHANGED <<kind, signerOf, called, memoryVars, callVars, storageVars,
                   generation, active, teardownVars>>

SaveSigner(w) ==
    /\ stage[w] = "building"
    /\ signers' = signers \cup {w}
    /\ Goto(w, "savingAccounts")
    /\ UNCHANGED <<kind, signerOf, called, born, memoryVars, callVars,
                   accounts, records, generation, active, teardownVars>>

SaveAccounts(w) ==
    /\ stage[w] = "savingAccounts"
    /\ accounts' = accounts \cup {w}
    /\ wallets' = wallets \cup {w}
    /\ Goto(w, "setup")
    /\ UNCHANGED <<kind, signerOf, called, born, adapters, callVars, signers,
                   records, generation, active, teardownVars>>

\* Mutant: openings of one signer are not serialized.
LookUpUnserialized(w) ==
    /\ stage[w] = "looking"
    /\ signerOf[w] \in signers
    /\ \A v \in wallets : signerOf[v] # signerOf[w]
    /\ Goto(w, "loading")
    /\ UNCHANGED <<kind, signerOf, called, born, memoryVars, callVars,
                   storageVars, generation, active, teardownVars>>

\* The signer is read, it is not open yet and nobody else is opening it.
LookUp(w) ==
    /\ stage[w] = "looking"
    /\ signerOf[w] \in signers
    /\ \A v \in wallets : signerOf[v] # signerOf[w]
    /\ ~OpenKeyHeld(signerOf[w])
    /\ Goto(w, "loading")
    /\ UNCHANGED <<kind, signerOf, called, born, memoryVars, callVars,
                   storageVars, generation, active, teardownVars>>

Load(w) ==
    /\ stage[w] = "loading"
    /\ wallets' = wallets \cup {w}
    /\ Goto(w, "setup")
    /\ UNCHANGED <<kind, signerOf, called, born, adapters, callVars,
                   storageVars, generation, active, teardownVars>>

\* A keyfile, a password, storage or a uniqueness check fails before the
\* wallet is in memory, or the call is refused.
PublicationFails(w) ==
    /\ stage[w] \in Local \cup {"preparing"}
    /\ Goto(w, "ended")
    /\ UNCHANGED <<kind, signerOf, called, born, memoryVars, callVars,
                   storageVars, generation, active, teardownVars>>

\* discardWallet
Discard(w) ==
    /\ wallets' = wallets \ {w}
    /\ adapters' = adapters \ {w}
    /\ Goto(w, "ended")

\* Mutant: the generation is not compared at the end.
PublishAnyway(w) ==
    /\ stage[w] = "setup"
    /\ Goto(w, "published")
    /\ adapters' = adapters \cup {w}
    /\ UNCHANGED wallets
    /\ UNCHANGED <<kind, signerOf, called, born, callVars, storageVars,
                   generation, active, teardownVars>>

\* Mutant: only the wallet manager is cleaned.
DiscardWalletOnly(w) ==
    /\ stage[w] = "setup"
    /\ adapters' = adapters \cup {w}
    /\ IF born[w] = generation
       THEN Goto(w, "published") /\ UNCHANGED wallets
       ELSE Goto(w, "ended") /\ wallets' = wallets \ {w}
    /\ UNCHANGED <<kind, signerOf, called, born, callVars, storageVars,
                   generation, active, teardownVars>>

\* The session is held and the adapter is created; a publication that began
\* before the guard was invalidated is thrown away again.
SetUp(w) ==
    /\ stage[w] = "setup"
    /\ IF born[w] = generation
       THEN /\ Goto(w, "published")
            /\ adapters' = adapters \cup {w}
            /\ UNCHANGED wallets
       ELSE Discard(w)
    /\ UNCHANGED <<kind, signerOf, called, born, callVars, storageVars,
                   generation, active, teardownVars>>

SetUpFails(w) ==
    /\ stage[w] = "setup"
    /\ Discard(w)
    /\ UNCHANGED <<kind, signerOf, called, born, callVars, storageVars,
                   generation, active, teardownVars>>

-----------------------------------------------------------------------------
(* Submissions: Client.transfer and .deploy, tracked by the same guard     *)

CallGoto(c, s) == callStage' = [callStage EXCEPT ![c] = s]

BeginCall(c) ==
    /\ active
    /\ ~Suspended
    /\ callStage[c] = "idle"
    /\ \E w \in wallets : callOn' = [callOn EXCEPT ![c] = w]
    /\ CallGoto(c, "unlocking")
    /\ UNCHANGED <<publicationVars, memoryVars, storageVars, generation, active,
                   teardownVars>>

\* The session is there, by ensureSession if need be, and the adapter is found.
FindAdapter(c) ==
    /\ callStage[c] = "unlocking"
    /\ callOn[c] \in adapters
    /\ CallGoto(c, "asking")
    /\ UNCHANGED <<publicationVars, memoryVars, callOn, storageVars, generation,
                   active, teardownVars>>

\* The balance suffices and the deploy is signed, with the session or, after
\* the wallet was locked, with the password of the call.
Answered(c) ==
    /\ callStage[c] = "asking"
    /\ CallGoto(c, "writing")
    /\ UNCHANGED <<publicationVars, memoryVars, callOn, storageVars, generation,
                   active, teardownVars>>

Write(c) ==
    /\ callStage[c] = "writing"
    /\ records' = records \cup {c}
    /\ CallGoto(c, "stored")
    /\ UNCHANGED <<publicationVars, memoryVars, callOn, signers, accounts,
                   generation, active, teardownVars>>

\* A closed adapter submits nothing and takes its record back.
Submit(c) ==
    /\ callStage[c] = "stored"
    /\ CallGoto(c, IF callOn[c] \in adapters THEN "sent" ELSE "rollback")
    /\ UNCHANGED <<publicationVars, memoryVars, callOn, storageVars, generation,
                   active, teardownVars>>

Rejected(c) ==
    /\ callStage[c] = "sent"
    /\ CallGoto(c, "rollback")
    /\ UNCHANGED <<publicationVars, memoryVars, callOn, storageVars, generation,
                   active, teardownVars>>

RollBack(c) ==
    /\ callStage[c] = "rollback"
    /\ records' = records \ {c}
    /\ CallGoto(c, "done")
    /\ UNCHANGED <<publicationVars, memoryVars, callOn, signers, accounts,
                   generation, active, teardownVars>>

\* The call fails before it wrote anything, or the node has answered.
CallEnds(c) ==
    /\ callStage[c] \in {"unlocking", "asking", "writing", "sent"}
    /\ CallGoto(c, "done")
    /\ UNCHANGED <<publicationVars, memoryVars, callOn, storageVars, generation,
                   active, teardownVars>>

-----------------------------------------------------------------------------
(* Closing, removing, wiping                                               *)

\* Also of a wallet that is still being set up: it goes, then the call throws
\* because there is no adapter to remove.
CloseWallet(w) ==
    /\ active
    /\ w \in wallets
    /\ wallets' = wallets \ {w}
    /\ adapters' = adapters \ {w}
    /\ UNCHANGED <<publicationVars, callVars, storageVars, generation, active,
                   teardownVars>>

\* resetRuntimeState
Reset ==
    /\ generation' = generation + 1
    /\ wallets' = {}
    /\ adapters' = {}

CloseAllWallets ==
    /\ active
    /\ generation < MaxGeneration
    /\ Reset
    /\ UNCHANGED <<publicationVars, callVars, storageVars, active, teardownVars>>

\* The drain that follows closes storage and API clients and nothing else.
Close ==
    /\ active
    /\ generation < MaxGeneration
    /\ active' = FALSE
    /\ Reset
    /\ UNCHANGED <<publicationVars, callVars, storageVars, teardownVars>>

ClearPersistence ==
    /\ active
    /\ ~Suspended
    /\ generation < MaxGeneration
    /\ Reset
    /\ teardown' = "wipeDrain"
    /\ UNCHANGED <<publicationVars, callVars, storageVars, active, victim,
                   condemned>>

\* Mutant: the suspension is not lifted when the removal throws half way.
RemoveStaysSuspended(w) ==
    /\ active
    /\ ~Suspended
    /\ w \in wallets
    /\ wallets' = wallets \ {w}
    /\ adapters' = adapters \ {w}
    /\ IF w \in adapters
       THEN teardown' = "removeDrain" /\ victim' = w
       ELSE teardown' = "stuck" /\ victim' = w
    /\ UNCHANGED <<publicationVars, callVars, storageVars, generation, active,
                   condemned>>

\* A wallet that is still being set up leaves memory, then the removal throws.
RemoveWallet(w) ==
    /\ active
    /\ ~Suspended
    /\ w \in wallets
    /\ wallets' = wallets \ {w}
    /\ adapters' = adapters \ {w}
    /\ IF w \in adapters
       THEN teardown' = "removeDrain" /\ victim' = w
       ELSE UNCHANGED <<teardown, victim>>
    /\ UNCHANGED <<publicationVars, callVars, storageVars, generation, active,
                   condemned>>

\* drain returned: nothing is pending, or what is left has been waiting for
\* the node, or for submissions to settle, for DEFAULT_DRAIN_TIMEOUT_MS.
\* Local work is taken to be faster than that.
Drained ==
    /\ \A w \in Wallets : stage[w] \notin Local
    /\ \A c \in Submissions : callStage[c] \notin CallLocal

\* Mutant: storage is wiped without waiting.
WipeUndrained ==
    /\ teardown = "wipeDrain"
    /\ signers' = {}
    /\ teardown' = "wipeAccounts"
    /\ UNCHANGED <<publicationVars, memoryVars, callVars, accounts, records,
                   generation, active, victim, condemned>>

WipeSigners ==
    /\ teardown = "wipeDrain"
    /\ Drained
    /\ signers' = {}
    /\ teardown' = "wipeAccounts"
    /\ UNCHANGED <<publicationVars, memoryVars, callVars, accounts, records,
                   generation, active, victim, condemned>>

WipeAccounts ==
    /\ teardown = "wipeAccounts"
    /\ accounts' = {}
    /\ teardown' = "wipeRecords"
    /\ UNCHANGED <<publicationVars, memoryVars, callVars, signers, records,
                   generation, active, victim, condemned>>

WipeRecords ==
    /\ teardown = "wipeRecords"
    /\ records' = {}
    /\ teardown' = "none"
    /\ condemned' = condemned
          \cup {w \in Wallets : stage[w] # "idle" /\ kind[w] # "open"}
          \cup {c \in Submissions : callStage[c] # "idle"}
    /\ UNCHANGED <<publicationVars, memoryVars, callVars, signers, accounts,
                   generation, active, victim>>

\* deletePersisted: the accounts in the memory of the wallet, the records and
\* the signer.
DeleteAccounts ==
    /\ teardown = "removeDrain"
    /\ Drained
    /\ accounts' = accounts \ {signerOf[victim]}
    /\ teardown' = "removeRecords"
    /\ UNCHANGED <<publicationVars, memoryVars, callVars, signers, records,
                   generation, active, victim, condemned>>

DeleteRecords ==
    /\ teardown = "removeRecords"
    /\ records' = {c \in records : signerOf[callOn[c]] # signerOf[victim]}
    /\ teardown' = "removeSigner"
    /\ UNCHANGED <<publicationVars, memoryVars, callVars, signers, accounts,
                   generation, active, victim, condemned>>

DeleteSigner ==
    /\ teardown = "removeSigner"
    /\ signers' = signers \ {signerOf[victim]}
    /\ teardown' = "none"
    /\ victim' = None
    /\ condemned' = condemned \cup {signerOf[victim]}
          \cup {c \in Submissions : callOn[c] = victim}
    /\ UNCHANGED <<publicationVars, memoryVars, callVars, accounts, records,
                   generation, active>>

\* Storage fails: the action ends and lifts the suspension, what was deleted
\* stays deleted.
TeardownFails ==
    /\ teardown \in Wiping \cup Removing
    /\ teardown \in {"wipeDrain", "removeDrain"} => Drained
    /\ teardown' = "none"
    /\ victim' = None
    /\ UNCHANGED <<publicationVars, memoryVars, callVars, storageVars,
                   generation, active, condemned>>

-----------------------------------------------------------------------------
PublicationStep(w) ==
    \/ Prepared(w)
    \/ SaveSigner(w)
    \/ SaveAccounts(w)
    \/ LookUp(w)
    \/ Load(w)
    \/ SetUp(w)
    \/ PublicationFails(w)
    \/ SetUpFails(w)

CallStep(c) ==
    \/ FindAdapter(c)
    \/ Answered(c)
    \/ Write(c)
    \/ Submit(c)
    \/ Rejected(c)
    \/ RollBack(c)
    \/ CallEnds(c)

TeardownStep ==
    \/ WipeSigners
    \/ WipeAccounts
    \/ WipeRecords
    \/ DeleteAccounts
    \/ DeleteRecords
    \/ DeleteSigner
    \/ TeardownFails

Next ==
    \/ \E w \in Wallets :
          \/ Create(w)
          \/ Open(w)
          \/ PublicationStep(w)
          \/ CloseWallet(w)
          \/ RemoveWallet(w)
    \/ \E c \in Submissions :
          \/ BeginCall(c)
          \/ CallStep(c)
    \/ CloseAllWallets
    \/ ClearPersistence
    \/ Close
    \/ TeardownStep

\* Awaits end, timers fire; nothing is assumed of the user.
Fairness ==
    /\ \A w \in Wallets : WF_vars(PublicationStep(w))
    /\ \A c \in Submissions : WF_vars(CallStep(c))
    /\ WF_vars(TeardownStep)

Spec == Init /\ [][Next]_vars /\ Fairness

-----------------------------------------------------------------------------
(* Properties                                                              *)

\* Types; an adapter belongs to a wallet whose publication succeeded, and a
\* wallet under removal has neither.
TypeOK ==
    /\ stage \in [Wallets -> Stages]
    /\ kind \in [Wallets -> Kinds \cup {None}]
    /\ signerOf \in [Wallets -> Wallets \cup {None}]
    /\ called \in [Wallets -> Nat]
    /\ born \in [Wallets -> Nat]
    /\ wallets \subseteq {w \in Wallets : stage[w] \in {"setup", "published"}}
    /\ adapters \subseteq {w \in Wallets : stage[w] = "published"}
    /\ callStage \in [Submissions -> CallStages]
    /\ callOn \in [Submissions -> Wallets \cup {None}]
    /\ signers \subseteq Wallets
    /\ accounts \subseteq Wallets
    /\ records \subseteq Submissions
    /\ generation \in Nat
    /\ active \in BOOLEAN
    /\ teardown \in {"none"} \cup Wiping \cup Removing
    /\ victim \in (Wallets \cup {None}) \ (wallets \cup adapters)
    /\ condemned \subseteq Wallets \cup Submissions

\* A wallet whose call was made before a logout, a wipe or the closing of the
\* client is never left in the client (SECURITY_INVARIANTS.md, 2.8).
NoWalletFromBeforeLogout ==
    \A w \in wallets \cup adapters :
        stage[w] = "published" => called[w] = generation

\* Opening a signer twice, in whatever order the calls run, never yields two
\* wallets (DOMAINS.md, open vs unlocked).
OpeningsExclude ==
    \A v, w \in wallets :
        v # w /\ kind[v] = "open" /\ kind[w] = "open" =>
            signerOf[v] # signerOf[w]

\* When everything that was running has ended, nothing is stored of what a
\* finished wipe or removal was to destroy, also if the drain gave up before.
TeardownIsFinal ==
    /\ \A w \in Wallets \cap condemned :
          stage[w] \notin Creating => w \notin signers \cup accounts
    /\ \A c \in Submissions \cap condemned :
          callStage[c] = "done" => c \notin records

\* No wallet is in the client twice, whoever published it (DOMAINS.md:161,
\* "Opening the same signer twice throws").
OneWalletPerSigner ==
    \A v, w \in wallets : v # w => signerOf[v] # signerOf[w]

\* An exclusive action ends, whatever is still running, and new work is
\* accepted again.
SuspensionEnds == Suspended ~> ~Suspended
=============================================================================
