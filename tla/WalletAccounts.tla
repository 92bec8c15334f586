---------------------------- MODULE WalletAccounts ----------------------------
(***************************************************************************)
(* The accounts of one HD wallet, in memory and in the accounts table.     *)
(* Accounts are derived, imported from a keyfile, renamed and removed;     *)
(* the wallet is created, closed, opened again and removed; every storage  *)
(* call is an await, may fail, and works on one of two table services:     *)
(* IndexedDB runs a write as a transaction on the rows it names, NodeStorage *)
(* reads the whole table, waits, and writes the whole table back.          *)
(*                                                                         *)
(* A wallet object that was closed lives on in the calls that hold it.     *)
(* Whether a submission makes an account busy is in OperationGuard, and an  *)
(* opening during the creation in WalletLifecycle.                         *)
(***************************************************************************)
EXTENDS Integers, Sequences, FiniteSets, Functions

CONSTANTS
    Calls,      \* calls of deriveAccount, importKeyfileAccounts, ...
    Kind,       \* Kind[c]: "derive", "import", "rename" or "remove"
    Wanted,     \* Wanted[c]: the index an import asks for
    Creation,   \* the call that created the wallet
    Backends,   \* subset of {"browser", "node"}
    MaxIndex,   \* bound: derivation indexes
    MaxCalls,   \* bound: calls that are started
    MaxWallets  \* bound: wallet objects, one per opening

ASSUME AccountsAssumption ==
    /\ Kind \in [Calls -> {"derive", "import", "rename", "remove"}]
    /\ Wanted \in [Calls -> 0..MaxIndex]
    /\ Creation \notin Calls
    /\ Backends \subseteq {"browser", "node"}
    /\ MaxIndex \in Nat /\ MaxCalls \in Nat /\ MaxWallets \in Nat \ {0}

\* The id of an account is random: who made it tells it apart.  Its
\* fingerprint is that of the key at its index.
Accounts == (Calls \cup {Creation}) \X (0..MaxIndex)
First == <<Creation, 0>>
Index(a) == a[2]

\* A set of rows, in memory or stored, maps accounts to their names: the one
\* they were created with, or that of a rename.
Given == "given"
IsRows(rows) ==
    DOMAIN rows \subseteq Accounts /\ \A a \in DOMAIN rows : rows[a] \in {Given} \cup Calls
NoRows == [a \in {} |-> Given]
Put(rows, a, name) ==
    [b \in DOMAIN rows \cup {a} |-> IF b = a THEN name ELSE rows[b]]
Drop(rows, accounts) == Restrict(rows, DOMAIN rows \ accounts)
In(rows) == DOMAIN rows

VARIABLES
    backend,      \* the table service
    rowsStored,   \* the accounts table
    signerStored, \* the signer has its record
    wallets,      \* the wallet objects there have been: their accounts
    current,      \* the one in the wallet manager, 0 if none
    creating,     \* persist of the wallet is under way
    opener,       \* what openWallet read: a singleton, or empty
    removal,      \* removeWallet: the wallet object and where it is
    calls,        \* the calls
    trouble       \* history: what went wrong or overlapped

accountVars == <<backend, rowsStored, signerStored, wallets, current, creating,
                 opener, removal, calls, trouble>>

Stages == {"idle", "decrypting", "deriving", "checking", "saving", "writing",
           "stored", "done", "failed"}
Over == {"idle", "done", "failed"}
Troubles == {"failed", "overdue", "reopened", "contended", "lost", "lateImport",
             "torn", "mixed", "crashed"}

AccountsTypeOK ==
    /\ backend \in Backends
    /\ IsRows(rowsStored)
    /\ signerStored \in BOOLEAN
    /\ Len(wallets) <= MaxWallets /\ \A n \in 1..Len(wallets) : IsRows(wallets[n])
    /\ current \in 0..Len(wallets)
    /\ creating \in BOOLEAN
    /\ Cardinality(opener) <= 1 /\ \A rows \in opener : IsRows(rows)
    /\ removal.stage \in {"none", "draining", "deleting", "rowsDeleted"}
    /\ removal.wallet \in 0..Len(wallets) /\ IsRows(removal.view)
    /\ removal.gone \subseteq Accounts
    /\ DOMAIN calls = Calls
    /\ \A c \in Calls :
          /\ calls[c].stage \in Stages
          /\ calls[c].wallet \in 0..Len(wallets)
          /\ calls[c].account \in Accounts
          /\ IsRows(calls[c].view)
    /\ trouble \subseteq Troubles

IdleCall == [stage |-> "idle", wallet |-> 0, account |-> First, view |-> NoRows]
NoRemoval == [stage |-> "none", wallet |-> 0, view |-> NoRows, gone |-> {}]

AccountsInit ==
    /\ backend \in Backends
    /\ rowsStored = NoRows
    /\ signerStored = FALSE
    /\ wallets = <<>>
    /\ current = 0
    /\ creating = TRUE
    /\ opener = {}
    /\ removal = NoRemoval
    /\ calls = [c \in Calls |-> IdleCall]
    /\ trouble = {}

UnderWay(kinds) == {c \in Calls : Kind[c] \in kinds /\ calls[c].stage \notin Over}
At(c, stage) == calls[c].stage = stage
Suspended == removal.stage # "none"
Adding(what, if) == trouble \cup (IF if THEN {what} ELSE {})
CanStart(c) ==
    /\ At(c, "idle")
    /\ Cardinality({d \in Calls : ~At(d, "idle")}) < MaxCalls

-----------------------------------------------------------------------------
(* Creating, closing and opening the wallet *)

\* WalletManager.persist: the signer first, ...
SaveSigner ==
    /\ creating /\ ~signerStored
    /\ signerStored' = TRUE
    /\ UNCHANGED <<backend, rowsStored, wallets, current, creating, opener, removal,
                   calls, trouble>>

\* ... then its accounts; the wallet is in the manager afterwards.
SaveFirstAccount ==
    /\ creating /\ signerStored
    /\ rowsStored' = Put(rowsStored, First, Given)
    /\ wallets' = <<Put(NoRows, First, Given)>>
    /\ current' = 1
    /\ creating' = FALSE
    /\ UNCHANGED <<backend, signerStored, opener, removal, calls, trouble>>

CreationFails ==
    /\ creating
    /\ creating' = FALSE
    /\ trouble' = Adding("torn", signerStored)
    /\ UNCHANGED <<backend, rowsStored, signerStored, wallets, current, opener,
                   removal, calls>>

CloseWallet ==
    /\ current # 0
    /\ current' = 0
    /\ UNCHANGED <<backend, rowsStored, signerStored, wallets, creating, opener,
                   removal, calls, trouble>>

ReadWallet ==
    /\ current = 0 /\ opener = {} /\ ~creating /\ ~Suspended
    /\ signerStored
    /\ Len(wallets) < MaxWallets
    /\ opener' = {rowsStored}
    /\ trouble' = Adding("reopened",
                         UnderWay({"derive", "import", "rename", "remove"}) # {})
    /\ UNCHANGED <<backend, rowsStored, signerStored, wallets, current, creating,
                   removal, calls>>

PublishWallet ==
    /\ opener # {}
    /\ \E rows \in opener : wallets' = Append(wallets, rows)
    /\ current' = Len(wallets')
    /\ opener' = {}
    /\ UNCHANGED <<backend, rowsStored, signerStored, creating, removal, calls, trouble>>

-----------------------------------------------------------------------------
(* The calls *)

Step(c, stage) == calls' = [calls EXCEPT ![c].stage = stage]

\* Mutant: deriveAccount does not claim its key.
BeginDeriveUnkeyed(c) ==
    /\ Kind[c] = "derive" /\ CanStart(c)
    /\ current # 0 /\ ~Suspended
    /\ calls' = [calls EXCEPT ![c].stage = "decrypting", ![c].wallet = current]
    /\ trouble' = Adding("mixed", UnderWay({"import"}) # {})
    /\ UNCHANGED <<backend, rowsStored, signerStored, wallets, current, creating,
                   opener, removal>>

\* One derivation per signer, whichever object of its wallet it works on.
BeginDerive(c) ==
    /\ Kind[c] = "derive" /\ CanStart(c)
    /\ current # 0 /\ ~Suspended
    /\ UnderWay({"derive"}) = {}
    /\ calls' = [calls EXCEPT ![c].stage = "decrypting", ![c].wallet = current]
    /\ trouble' = Adding("mixed", UnderWay({"import"}) # {})
    /\ UNCHANGED <<backend, rowsStored, signerStored, wallets, current, creating,
                   opener, removal>>

\* The initial index is taken again only by a wallet without accounts; others
\* take the first free index after it.
DerivationIndex(rows) ==
    LET indexes == {Index(a) : a \in In(rows)} IN
    IF indexes = {} THEN 0
    ELSE CHOOSE i \in 1 .. Cardinality(indexes) + 1 :
            i \notin indexes /\ \A j \in 1 .. i - 1 : j \in indexes

ChooseIndex(c) ==
    /\ Kind[c] = "derive" /\ At(c, "decrypting")
    /\ LET i == DerivationIndex(wallets[calls[c].wallet]) IN
          /\ i <= MaxIndex
          /\ calls' = [calls EXCEPT ![c].stage = "deriving", ![c].account = <<c, i>>]
    /\ UNCHANGED <<backend, rowsStored, signerStored, wallets, current, creating,
                   opener, removal, trouble>>

AddDerived(c) ==
    /\ Kind[c] = "derive" /\ At(c, "deriving")
    /\ wallets' = [wallets EXCEPT ![calls[c].wallet] = Put(@, calls[c].account, Given)]
    /\ Step(c, "saving")
    /\ UNCHANGED <<backend, rowsStored, signerStored, current, creating, opener,
                   removal, trouble>>

\* importKeyfileAccounts finds the signer of the keyfile in storage, ...
BeginImport(c) ==
    /\ Kind[c] = "import" /\ CanStart(c)
    /\ signerStored
    /\ calls' = [calls EXCEPT ![c].stage = "decrypting", ![c].account = <<c, Wanted[c]>>]
    /\ trouble' = Adding("mixed", creating \/ UnderWay({"derive"}) # {})
    /\ UNCHANGED <<backend, rowsStored, signerStored, wallets, current, creating,
                   opener, removal>>

\* ... is tracked only from here on, ...
EnterImport(c) ==
    /\ Kind[c] = "import" /\ At(c, "decrypting")
    /\ ~Suspended
    /\ Step(c, "checking")
    /\ trouble' = Adding("lateImport", ~signerStored)
    /\ UNCHANGED <<backend, rowsStored, signerStored, wallets, current, creating,
                   opener, removal>>

\* ... and, once it holds the key for saving, is refused a key that is stored.
CheckDuplicates(c) ==
    /\ Kind[c] = "import" /\ At(c, "checking")
    /\ \A d \in UnderWay({"import"}) \ {c} : calls[d].stage \in {"decrypting", "checking"}
    /\ Step(c, IF \E a \in In(rowsStored) : Index(a) = Wanted[c]
               THEN "failed" ELSE "saving")
    /\ UNCHANGED <<backend, rowsStored, signerStored, wallets, current, creating,
                   opener, removal, trouble>>

\* The wallet is looked up when the accounts are stored: it gets them if open.
JoinWallet(c) ==
    /\ Kind[c] = "import" /\ At(c, "stored")
    /\ wallets' = IF current = 0 THEN wallets
                  ELSE [wallets EXCEPT ![current] = Put(@, calls[c].account, Given)]
    /\ Step(c, "done")
    /\ UNCHANGED <<backend, rowsStored, signerStored, current, creating, opener,
                   removal, trouble>>

On(a, kinds) == {c \in UnderWay(kinds) : calls[c].account = a}

\* Mutant: the last account may go, too.
BeginRemoveAny(c, a) ==
    /\ Kind[c] = "remove" /\ CanStart(c)
    /\ current # 0
    /\ a \in In(wallets[current])
    /\ wallets' = [wallets EXCEPT ![current] = Drop(@, {a})]
    /\ calls' = [calls EXCEPT ![c].stage = "saving", ![c].account = a]
    /\ trouble' = Adding("contended", On(a, {"rename", "derive"}) # {})
    /\ UNCHANGED <<backend, rowsStored, signerStored, current, creating, opener, removal>>

\* The last account stays.  Memory first, then storage.
BeginRemove(c, a) ==
    /\ Kind[c] = "remove" /\ CanStart(c)
    /\ current # 0
    /\ a \in In(wallets[current])
    /\ Cardinality(In(wallets[current])) > 1
    /\ wallets' = [wallets EXCEPT ![current] = Drop(@, {a})]
    /\ calls' = [calls EXCEPT ![c].stage = "saving", ![c].account = a]
    /\ trouble' = Adding("contended", On(a, {"rename", "derive"}) # {})
    /\ UNCHANGED <<backend, rowsStored, signerStored, current, creating, opener, removal>>

\* An account that memory does not have is left alone there, and updated in
\* storage all the same.
BeginRename(c, a) ==
    /\ Kind[c] = "rename" /\ CanStart(c)
    /\ current # 0
    /\ a \in In(wallets[current]) \cup In(rowsStored)
    /\ wallets' = IF a \in In(wallets[current])
                  THEN [wallets EXCEPT ![current] = Put(@, a, c)] ELSE wallets
    /\ calls' = [calls EXCEPT ![c].stage = "saving", ![c].account = a]
    /\ trouble' = Adding("contended",
                         \/ a \notin In(wallets[current])
                         \/ On(a, {"rename", "remove", "derive", "import"}) # {})
    /\ UNCHANGED <<backend, rowsStored, signerStored, current, creating, opener, removal>>

-----------------------------------------------------------------------------
(* The accounts table *)

\* Every write begins with awaits: NodeStorage reads the table, an update of
\* either service reads the row, which must be there.
ReadRows(c) ==
    /\ At(c, "saving")
    /\ IF Kind[c] = "rename" /\ calls[c].account \notin In(rowsStored)
       THEN Step(c, "failed") /\ trouble' = Adding("failed", TRUE)
       ELSE /\ calls' = [calls EXCEPT ![c].stage = "writing", ![c].view = rowsStored]
            /\ UNCHANGED trouble
    /\ UNCHANGED <<backend, rowsStored, signerStored, wallets, current, creating,
                   opener, removal>>

Effect(c, rows) ==
    CASE Kind[c] \in {"derive", "import"} -> Put(rows, calls[c].account, Given)
      [] Kind[c] = "rename" -> Put(rows, calls[c].account, c)
      [] Kind[c] = "remove" -> Drop(rows, {calls[c].account})

\* Mutant: the browser's service, too, writes back what it read.
BaseAsRead(view) == view

\* NodeStorage writes back the table it read.
Base(view) == IF backend = "node" THEN view ELSE rowsStored

WriteRows(c) ==
    /\ At(c, "writing")
    /\ rowsStored' = Effect(c, Base(calls[c].view))
    /\ calls' = [calls EXCEPT ![c].stage = IF Kind[c] = "import" THEN "stored" ELSE "done",
                              ![c].view = NoRows]
    /\ trouble' = Adding("lost", backend = "node" /\ calls[c].view # rowsStored)
                     \cup Adding("reopened", opener # {})
    /\ UNCHANGED <<backend, signerStored, wallets, current, creating, opener, removal>>

SaveFails(c) ==
    /\ calls[c].stage \in {"checking", "saving", "writing"}
    /\ calls' = [calls EXCEPT ![c].stage = "failed", ![c].view = NoRows]
    /\ trouble' = Adding("failed", TRUE)
    /\ UNCHANGED <<backend, rowsStored, signerStored, wallets, current, creating,
                   opener, removal>>

-----------------------------------------------------------------------------
(* Removing the wallet *)

BeginRemoval ==
    /\ current # 0 /\ ~Suspended
    /\ removal' = [NoRemoval EXCEPT !.stage = "draining", !.wallet = current]
    /\ current' = 0
    /\ trouble' = Adding("contended", UnderWay({"rename", "import"}) # {})
    /\ UNCHANGED <<backend, rowsStored, signerStored, wallets, creating, opener, calls>>

Tracked == {c \in UnderWay({"derive", "import"}) :
                Kind[c] = "import" => ~At(c, "decrypting")}

\* deletePersisted begins: the accounts the wallet object has now.
BeginDeletion ==
    removal' = [removal EXCEPT !.stage = "deleting", !.view = rowsStored,
                               !.gone = In(wallets[removal.wallet])]

\* Mutant: the removal does not wait.
DrainNothing ==
    /\ removal.stage = "draining"
    /\ BeginDeletion
    /\ UNCHANGED <<backend, rowsStored, signerStored, wallets, current, creating,
                   opener, calls, trouble>>

\* drain waits for what is tracked, or for its timeout.
Drain ==
    /\ removal.stage = "draining"
    /\ BeginDeletion
    /\ trouble' = Adding("overdue", Tracked # {})
    /\ UNCHANGED <<backend, rowsStored, signerStored, wallets, current, creating,
                   opener, calls>>

\* The accounts the wallet object had are deleted, not those of the signer.
DeleteRows ==
    /\ removal.stage = "deleting"
    /\ rowsStored' = Drop(Base(removal.view), removal.gone)
    /\ removal' = [removal EXCEPT !.stage = "rowsDeleted", !.view = NoRows, !.gone = {}]
    /\ trouble' = Adding("lost", backend = "node" /\ removal.view # rowsStored)
    /\ UNCHANGED <<backend, signerStored, wallets, current, creating, opener, calls>>

DeleteSigner ==
    /\ removal.stage = "rowsDeleted"
    /\ signerStored' = FALSE
    /\ removal' = NoRemoval
    /\ UNCHANGED <<backend, rowsStored, wallets, current, creating, opener, calls, trouble>>

RemovalFails ==
    /\ removal.stage \in {"deleting", "rowsDeleted"}
    /\ removal' = NoRemoval
    /\ trouble' = Adding("torn", TRUE)
    /\ UNCHANGED <<backend, rowsStored, signerStored, wallets, current, creating,
                   opener, calls>>

\* The process ends.  Calls under way never return.
Crash ==
    /\ current # 0 \/ creating \/ opener # {} \/ Suspended
    /\ current' = 0
    /\ creating' = FALSE
    /\ opener' = {}
    /\ removal' = NoRemoval
    /\ calls' = [c \in Calls |-> IF calls[c].stage \in Over THEN calls[c]
                                 ELSE [calls[c] EXCEPT !.stage = "failed", !.view = NoRows]]
    /\ trouble' = Adding("torn", \/ creating /\ signerStored
                                 \/ removal.stage \in {"deleting", "rowsDeleted"})
                   \cup Adding("crashed", UnderWay({"derive", "import", "rename", "remove"}) # {})
    /\ UNCHANGED <<backend, rowsStored, signerStored, wallets>>

-----------------------------------------------------------------------------
AccountsNext ==
    \/ SaveSigner \/ SaveFirstAccount \/ CreationFails
    \/ CloseWallet \/ ReadWallet \/ PublishWallet
    \/ BeginRemoval \/ Drain \/ DeleteRows \/ DeleteSigner \/ RemovalFails \/ Crash
    \/ \E c \in Calls :
          \/ BeginDerive(c) \/ ChooseIndex(c) \/ AddDerived(c)
          \/ BeginImport(c) \/ EnterImport(c) \/ CheckDuplicates(c) \/ JoinWallet(c)
          \/ ReadRows(c) \/ WriteRows(c) \/ SaveFails(c)
    \/ \E c \in Calls, a \in Accounts : BeginRemove(c, a) \/ BeginRename(c, a)

AccountsSpec == AccountsInit /\ [][AccountsNext]_accountVars

-----------------------------------------------------------------------------
(* Properties *)

AtRest ==
    /\ ~creating /\ ~Suspended /\ opener = {}
    /\ UnderWay({"derive", "import", "rename", "remove"}) = {}
Without(kinds) == trouble \cap kinds = {}

Reported == {calls[c].account : c \in {d \in Calls : Kind[d] \in {"derive", "import"}
                                                      /\ At(d, "done")}}
AskedToGo == {calls[c].account : c \in {d \in Calls : Kind[d] = "remove" /\ ~At(d, "idle")}}

\* An account a caller was given is stored until it or its wallet is removed:
\* through failures of other calls, reopenings and crashes.  The one thing that
\* loses it is a NodeStorage write that undoes another one.
ReportedIsStored ==
    signerStored /\ ~Suspended /\ Without({"lost", "torn"})
        => Reported \ AskedToGo \subseteq In(rowsStored)

\* No two stored accounts share an index and with it a key, unless storage
\* failed, the wallet was reopened under a running call, or an account was
\* derived while others were imported.
NoTwins ==
    AtRest /\ Without({"failed", "reopened", "lost", "mixed", "contended", "crashed"})
        => \A a, b \in In(rowsStored) : Index(a) = Index(b) => a = b

\* SECURITY_INVARIANTS.md:149: "A wallet must never be left with zero
\* accounts", stored ones here, where removeAccount counts those in memory.  It
\* does not hold of every behaviour.  Excepted are: a derivation that failed or
\* was cut off by a crash, whose account memory keeps and storage never gets, so
\* that the stored one passes for the second and may go (WalletManager:152);
\* a wallet reopened under a running call, when two objects each lose what is
\* the last account of the other; a NodeStorage write that undoes another one;
\* a creation or removal cut short between the signer and its accounts.
\* Failures and crashes of imports, renames and removals are not excepted.
KeepsAnAccount ==
    /\ AtRest /\ signerStored
    /\ \A c \in Calls : Kind[c] = "derive" => ~At(c, "failed")
    /\ Without({"reopened", "lost", "torn"})
    => In(rowsStored) # {}

\* When nothing is under way, the table has what the open wallet has, names
\* included, and a removed wallet leaves no account behind, whose key could
\* never be imported again.
StorageFollowsWallet ==
    AtRest /\ trouble = {} =>
        /\ current # 0 => rowsStored = wallets[current]
        /\ ~signerStored => rowsStored = NoRows

\* SECURITY_INVARIANTS.md:102: "Removing a wallet must remove everything
\* persisted for its signer", where no failure, crash or timeout interferes.
\* Broken by an import that is under way when the removal begins: the removal
\* waits for it, and deletes the accounts of an object the import did not join.
RemovalIsComplete ==
    AtRest /\ ~signerStored /\ Without({"failed", "torn", "overdue", "lost", "crashed"})
        => rowsStored = NoRows

-----------------------------------------------------------------------------
(* What the accounts table implements *)

\* The calls that had their effect on the table, or never will.
Spent == {c \in Calls : calls[c].stage \in {"stored", "done", "failed"}}

AccountsTable ==
    INSTANCE AccountTable WITH
        rows <- rowsStored, spent <- Spent, asked <- AskedToGo,
        astray <- trouble \ {"lost"} # {}, lost <- "lost" \in trouble

\* The accounts table, under calls that wait, fail, cross and outlive their
\* wallet objects, implements a table on which they take effect one by one.
ImplementsAccountTable ==
    AccountsTable!Init /\ [][AccountsTable!Next]_AccountsTable!vars
===============================================================================
