------------------------------ MODULE MCStorage ------------------------------
(***************************************************************************)
(* What is stored, in three parts that are explored one at a time; focus     *)
(* says which, for the whole behaviour.                                     *)
(*   "start": the start of the SDK on it, before there is a client;           *)
(*   "accounts": the accounts of one wallet, through five calls;              *)
(*   "keyfiles": wallets by their secrets, one mnemonic under two root paths  *)
(*     and one private key held besides.                                    *)
(***************************************************************************)
EXTENDS StorageMigration, WalletAccounts, Keyfiles

CONSTANTS ta, tb, tc, oldest, mid, latest, gap, d1, d2, i1, r1, x1, seed, path1, path2

VARIABLE focus

MCLayout == <<{ta, tb}, {ta, tb, tc}, {ta, tc}>>
MCBuildVersion == [b \in Builds |-> CASE b = oldest -> 1 [] b = mid -> 2 [] OTHER -> 3]
MCDeclared == [b \in Builds |-> CASE b = oldest -> {} [] b = mid -> {2}
                                  [] b = latest -> {2, 3} [] b = gap -> {3}]
MCMigratable == [b \in Builds |-> IF b = oldest THEN {ta} ELSE Tables]

MCKind == [c \in Calls |-> CASE c \in {d1, d2} -> "derive" [] c = i1 -> "import"
                              [] c = r1 -> "rename" [] c = x1 -> "remove"]
MCWanted == [c \in Calls |-> 1]

MCHeldKeys == {[of |-> [seed |-> seed, root |-> path1], index |-> 1]}

-----------------------------------------------------------------------------
\* A part that begins in several ways does so in its own focus only.
MCInit ==
    /\ focus \in {"start", "accounts", "keyfiles"}
    /\ MigrationInit /\ AccountsInit /\ KeyfilesInit
    /\ focus # "accounts" => backend = "browser"
    /\ focus # "keyfiles" => signers = {}

MCNext ==
    /\ \/ /\ focus = "start" /\ MigrationNext
          /\ UNCHANGED <<accountVars, keyfileVars>>
       \/ /\ focus = "accounts" /\ AccountsNext
          /\ UNCHANGED <<migrationVars, keyfileVars>>
       \/ /\ focus = "keyfiles" /\ KeyfilesNext
          /\ UNCHANGED <<migrationVars, accountVars>>
    /\ UNCHANGED focus

MCSpec == MCInit /\ [][MCNext]_<<focus, migrationVars, accountVars, keyfileVars>>

\* What the types of the three parts say of the values of their variables.
StorageTypeOK == MigrationTypeOK /\ AccountsTypeOK /\ KeyfilesTypeOK
=============================================================================
