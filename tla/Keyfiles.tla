------------------------------- MODULE Keyfiles -------------------------------
(***************************************************************************)
(* A keyfile carries a wallet's secret and the indexes of its accounts from  *)
(* one storage to another, or back into the one it came from.  The same      *)
(* secret must then be recognised: importWalletKeyfile stores a wallet that  *)
(* is not there, importKeyfileAccounts adds accounts to the one that is.     *)
(* Signers are found by a fingerprint of their secret.  Records of older     *)
(* builds carry a fingerprint of the mnemonic alone, which every root path   *)
(* shares; they are told apart by the key of their lowest account, and their *)
(* fingerprint is upgraded when the wallet is opened.                        *)
(*                                                                         *)
(* The modal that previews a keyfile and submits the import is part of it.   *)
(***************************************************************************)
EXTENDS Naturals, FiniteSets

CONSTANTS
    Seeds,     \* mnemonics
    Roots,     \* root HD paths
    Indexes,   \* indexes of HD accounts
    HeldKeys,  \* HD accounts whose private key is at hand, too
    MaxSigners, \* bound: signers ever stored
    MaxFiles,   \* bound: keyfiles kept
    MaxImports  \* bound: creations and imports under way

ASSUME KeyfilesAssumption ==
    /\ Indexes \subseteq Nat
    /\ MaxSigners \in Nat \ {0} /\ MaxFiles \in Nat /\ MaxImports \in Nat

\* An HD account's key, and the secrets of the two kinds of wallet.  A private
\* key wallet may hold the key of an HD account.
HDSecrets == [seed : Seeds, root : Roots]
PrivateKeys == [of : HDSecrets, index : Indexes]
Secrets == HDSecrets \cup (PrivateKeys \cap HeldKeys)

Nobody == 0
NoFile == [none |-> TRUE]

VARIABLES
    signers, \* stored signers: id, secret, the formula of the fingerprint
    accountRows, \* stored accounts: signer id, key
    issued,  \* ids given out
    files,   \* keyfiles exported so far
    imports, \* creations and imports under way
    modal    \* ImportKeyfileWalletModal

keyfileVars == <<signers, accountRows, issued, files, imports, modal>>

-----------------------------------------------------------------------------
KeyOf(secret, index) ==
    IF secret \in PrivateKeys THEN secret ELSE [of |-> secret, index |-> index]

Keys(secret, indexes) ==
    IF secret \in PrivateKeys THEN {secret}
    ELSE {KeyOf(secret, i) : i \in indexes}

RowsOf(id) == {r \in accountRows : r.signer = id}

Least(S) == CHOOSE i \in S : \A j \in S : i <= j

\* hasSameRootPath
SameRootPath(s, secret) ==
    LET indexes == {r.key.index : r \in RowsOf(s.id)}
    IN indexes # {} =>
         \A r \in RowsOf(s.id) :
             r.key.index = Least(indexes)
                 => r.key = KeyOf(secret, Least(indexes))

\* findSignerByFingerprint with the formula of today.
CurrentSigners(secret) == {s \in signers : s.mark = "path" /\ s.secret = secret}

\* findLegacyHDSigner
LegacySigners(secret) ==
    IF secret \in PrivateKeys THEN {}
    ELSE {s \in signers : /\ s.mark = "seed"
                          /\ s.secret.seed = secret.seed
                          /\ SameRootPath(s, secret)}

Id(found) == IF found = {} THEN Nobody ELSE (CHOOSE s \in found : TRUE).id

-----------------------------------------------------------------------------
NoModal == [file |-> NoFile, asked |-> NoFile, preview |-> NoFile,
            existing |-> FALSE, fresh |-> {}]

\* A storage of an older build: at most one signer of each mnemonic.
KeyfilesInit ==
    /\ \E S \in {{}} \cup {{m} : m \in Seeds}, root \in Roots, i \in Indexes :
         /\ issued = Cardinality(S)
         /\ signers = {[id |-> 1, mark |-> "seed",
                        secret |-> [seed |-> m, root |-> root]] : m \in S}
         /\ accountRows = {[signer |-> 1,
                    key |-> KeyOf([seed |-> m, root |-> root], i)] : m \in S}
    /\ files = {}
    /\ imports = {}
    /\ modal = NoModal

Storage == <<signers, accountRows, issued>>

EndJob(job) == imports' = imports \ {job}

To(job, stage) ==
    imports' = (imports \ {job}) \cup {[job EXCEPT !.stage = stage]}

\* createHDWallet, createPrivateKeyWallet.
BeginCreation(secret, i) ==
    /\ Cardinality(imports) < MaxImports
    /\ imports' = imports \cup
         {[id |-> Nobody, kind |-> "create", secret |-> secret,
           indexes |-> IF secret \in PrivateKeys THEN {} ELSE {i},
           stage |-> "persist"]}
    /\ UNCHANGED <<Storage, files, modal>>

\* The keyfile is parsed and decrypted, and the indexes are its own.
BeginFileImport(kind, file, indexes) ==
    imports' = imports \cup
        {[id |-> Nobody, kind |-> kind, secret |-> file.secret,
          indexes |-> indexes, stage |-> "plan"]}

\* findSignerBySecret looks up today's fingerprint, then the old one.
PlanByFingerprint(job) ==
    /\ job.stage = "plan"
    /\ imports' = (imports \ {job}) \cup
         {[job EXCEPT !.id = Id(CurrentSigners(job.secret)), !.stage = "plan legacy"]}
    /\ UNCHANGED <<Storage, files, modal>>

\* A private key that is stored is refused; a wallet that is stored has no
\* wallet to create, one that is not has none to add accounts to.
PlanByLegacy(job) ==
    LET id == IF job.id # Nobody THEN job.id ELSE Id(LegacySigners(job.secret))
    IN /\ job.stage = "plan legacy"
       /\ \/ /\ job.kind = "wallet" <=> id = Nobody
             /\ id # Nobody => job.secret \notin PrivateKeys
             /\ imports' = (imports \ {job}) \cup
                  {[job EXCEPT !.id = id,
                      !.stage = IF job.kind = "wallet" THEN "persist"
                                                       ELSE "check"]}
          \/ /\ \/ job.kind = "wallet" /\ id # Nobody
                \/ job.kind = "accounts" /\ id = Nobody
                \/ id # Nobody /\ job.secret \in PrivateKeys
             /\ EndJob(job)
       /\ UNCHANGED <<Storage, files, modal>>

-----------------------------------------------------------------------------
\* A new wallet on its way into storage; accounts for a stored one claim the
\* signer alone.
Creating(job) ==
    job.kind # "accounts" /\ job.stage \in {"legacy", "fingerprint", "save"}

\* runWalletCreation: no other creation has this secret or one of its keys.
CanPersist(job) ==
    \A other \in imports :
        Creating(other) =>
            /\ other.secret # job.secret
            /\ Keys(other.secret, other.indexes)
                   \cap Keys(job.secret, job.indexes) = {}

BeginPersist(job) ==
    /\ job.stage = "persist"
    /\ IF CanPersist(job) THEN To(job, "legacy") ELSE EndJob(job)
    /\ UNCHANGED <<Storage, files, modal>>

KeysStored(job) ==
    Keys(job.secret, job.indexes) \cap {r.key : r \in accountRows} # {}

\* Mutant: the check of older records comes after the check of today's.
CheckLegacyLast(job) ==
    /\ \/ /\ job.stage = "legacy"
          /\ IF CurrentSigners(job.secret) = {} /\ ~KeysStored(job)
             THEN To(job, "fingerprint") ELSE EndJob(job)
       \/ /\ job.stage = "fingerprint"
          /\ IF LegacySigners(job.secret) = {} THEN To(job, "save") ELSE EndJob(job)
    /\ UNCHANGED <<Storage, files, modal>>

\* persist: an older record first, then today's fingerprint and the keys, so
\* that an upgrade between the two is seen by one of them.
CheckWallet(job) ==
    /\ \/ /\ job.stage = "legacy"
          /\ IF LegacySigners(job.secret) = {} THEN To(job, "fingerprint")
                                        ELSE EndJob(job)
       \/ /\ job.stage = "fingerprint"
          /\ IF CurrentSigners(job.secret) = {} /\ ~KeysStored(job)
             THEN To(job, "save") ELSE EndJob(job)
    /\ UNCHANGED <<Storage, files, modal>>

NewRows(id, job) ==
    {[signer |-> id, key |-> k] : k \in Keys(job.secret, job.indexes)}

\* saveWallet, under a new id.
SaveWallet(job) ==
    /\ job.stage = "save" /\ job.kind # "accounts"
    /\ issued < MaxSigners
    /\ issued' = issued + 1
    /\ signers' = signers \cup
         {[id |-> issued + 1, mark |-> "path", secret |-> job.secret]}
    /\ accountRows' = accountRows \cup NewRows(issued + 1, job)
    /\ EndJob(job)
    /\ UNCHANGED <<files, modal>>

\* saveAccounts refuses a key that is stored, under any signer.
CheckAccounts(job) ==
    /\ job.stage = "check"
    /\ IF KeysStored(job) THEN EndJob(job) ELSE To(job, "save")
    /\ UNCHANGED <<Storage, files, modal>>

SaveAccounts(job) ==
    /\ job.stage = "save" /\ job.kind = "accounts"
    /\ accountRows' = accountRows \cup NewRows(job.id, job)
    /\ EndJob(job)
    /\ UNCHANGED <<signers, issued, files, modal>>

\* A read or a write of the storage fails, or a password is wrong.
ImportFails(job) ==
    /\ EndJob(job)
    /\ UNCHANGED <<Storage, files, modal>>

-----------------------------------------------------------------------------
\* openWallet upgrades the fingerprint of an older record.
OpenStored(s) ==
    /\ s.mark = "seed"
    /\ signers' = (signers \ {s}) \cup {[s EXCEPT !.mark = "path"]}
    /\ UNCHANGED <<accountRows, issued, files, imports, modal>>

RemoveStored(s) ==
    /\ signers' = signers \ {s}
    /\ accountRows' = accountRows \ RowsOf(s.id)
    /\ UNCHANGED <<issued, files, imports, modal>>

\* serializeWallet: the secret and the indexes, names left out.  A private key
\* wallet's account has none.
Exported(s) ==
    [secret |-> s.secret,
     indexes |-> IF s.secret \in PrivateKeys THEN {}
                 ELSE {r.key.index : r \in RowsOf(s.id)}]

ExportKeyfile(s) ==
    /\ RowsOf(s.id) # {}
    /\ Cardinality(files) < MaxFiles
    /\ files' = files \cup {Exported(s)}
    /\ UNCHANGED <<Storage, imports, modal>>

-----------------------------------------------------------------------------
\* A file is chosen; its text arrives.  The input stays enabled meanwhile and
\* while a preview is under way, which is not told that the file changed.
PickFile(f) ==
    /\ modal' = [NoModal EXCEPT !.file = f, !.asked = modal.asked]
    /\ UNCHANGED <<Storage, files, imports>>

AskPreview ==
    /\ modal.file # NoFile /\ modal.asked = NoFile /\ modal.preview = NoFile
    /\ modal' = [modal EXCEPT !.asked = modal.file]
    /\ UNCHANGED <<Storage, files, imports>>

\* previewKeyfileImport: the accounts that are not stored, under any signer.
NewAccounts(f) ==
    {i \in f.indexes : \A r \in accountRows : r.key # KeyOf(f.secret, i)}

\* The preview lists the accounts; the new ones can be chosen.  A
\* stored private key is refused instead.
ShowPreview ==
    LET f == modal.asked
        found == CurrentSigners(f.secret) \cup LegacySigners(f.secret)
    IN /\ f # NoFile
       /\ modal' = IF found # {} /\ f.secret \in PrivateKeys
                   THEN [modal EXCEPT !.asked = NoFile]
                   ELSE [modal EXCEPT !.asked = NoFile, !.preview = f,
                           !.existing = found # {},
                           !.fresh = NewAccounts(f)]
       /\ UNCHANGED <<Storage, files, imports>>

\* selectAccounts: every account when none is named; each that is named must
\* be in the file.
Selectable(f, chosen) == chosen \subseteq f.indexes
Selected(f, chosen) == IF chosen = {} THEN f.indexes ELSE chosen

\* The file as it is now, with what the preview said.  The modal is closed by
\* an import that succeeds and stays as it is beside one that fails.
SubmitImport(chosen) ==
    LET f == modal.file
    IN /\ f # NoFile /\ modal.preview # NoFile
       /\ IF modal.preview.secret \in HDSecrets
          THEN chosen \subseteq modal.fresh /\ chosen # {}
          ELSE chosen = {}
       /\ Cardinality(imports) < MaxImports
       /\ \/ /\ Selectable(f, chosen)
             /\ BeginFileImport(IF modal.existing THEN "accounts" ELSE "wallet",
                                f, Selected(f, chosen))
             /\ modal' \in {NoModal, modal}
          \/ /\ ~Selectable(f, chosen)
             /\ UNCHANGED <<imports, modal>>
       /\ UNCHANGED <<Storage, files>>

BackToKeyfile ==
    /\ modal.preview # NoFile
    /\ modal' = [NoModal EXCEPT !.file = modal.file, !.asked = modal.asked]
    /\ UNCHANGED <<Storage, files, imports>>

CloseModal ==
    /\ modal # NoModal
    /\ modal' = NoModal
    /\ UNCHANGED <<Storage, files, imports>>

KeyfilesNext ==
    \/ \E secret \in Secrets, i \in Indexes : BeginCreation(secret, i)
    \/ \E job \in imports :
         \/ PlanByFingerprint(job) \/ PlanByLegacy(job)
         \/ BeginPersist(job) \/ CheckWallet(job) \/ SaveWallet(job)
         \/ CheckAccounts(job) \/ SaveAccounts(job) \/ ImportFails(job)
    \/ \E s \in signers : OpenStored(s) \/ RemoveStored(s) \/ ExportKeyfile(s)
    \/ \E f \in files : PickFile(f)
    \/ \E chosen \in SUBSET Indexes : SubmitImport(chosen)
    \/ AskPreview \/ ShowPreview \/ BackToKeyfile \/ CloseModal

KeyfilesSpec == KeyfilesInit /\ [][KeyfilesNext]_keyfileVars

-----------------------------------------------------------------------------
\* The type of the state.
KeyfilesTypeOK ==
    /\ signers \subseteq [id : 1..MaxSigners, mark : {"seed", "path"},
                          secret : Secrets]
    /\ accountRows \subseteq [signer : 1..MaxSigners, key : PrivateKeys]
    /\ issued \in 0..MaxSigners
    /\ files \subseteq [secret : Secrets, indexes : SUBSET Indexes]
    /\ imports \subseteq
         [id : 0..MaxSigners, kind : {"create", "wallet", "accounts"},
          secret : Secrets, indexes : SUBSET Indexes,
          stage : {"plan", "plan legacy", "persist", "legacy", "fingerprint",
                   "check", "save"}]
    /\ modal \in [file : files \cup {NoFile}, asked : files \cup {NoFile},
                  preview : files \cup {NoFile}, existing : BOOLEAN,
                  fresh : SUBSET Indexes]

\* A secret is stored once, whichever formula its fingerprint has, and the
\* accounts stored under a signer are keys of its secret: imports that were
\* planned before the storage changed end as refusals.
OneWalletPerSecret ==
    /\ \A s, t \in signers : s.secret = t.secret => s = t
    /\ \A s \in signers : \A r \in RowsOf(s.id) :
         r.key = KeyOf(s.secret, r.key.index)

=============================================================================
