---------------------------- MODULE AccountTable ----------------------------
(***************************************************************************)
(* What the wallet SDK promises about the accounts of a wallet: one table,  *)
(* on which every call takes effect once, at one moment, or fails without   *)
(* effect, and which loses a row only when it, or the wallet, was asked to  *)
(* go.  That the wallet has objects in memory, ahead of the table or behind *)
(* it, that calls wait between reading and writing, and that the wallet may *)
(* be closed, opened again or left by a crash meanwhile, does not occur     *)
(* here.                                                                   *)
(*                                                                         *)
(* Two flags say how much of it is promised: as long as nothing went        *)
(* astray, the accounts that stay are told apart by their indexes; as long  *)
(* as no write was lost, the rows are what the calls made of them.          *)
(***************************************************************************)
CONSTANTS
    Calls,      \* calls of deriveAccount, importKeyfileAccounts, ...
    Kind,       \* Kind[c]: "derive", "import", "rename" or "remove"
    Wanted,     \* Wanted[c]: the index an import asks for
    Accounts,   \* accounts: the call that made it, and an index
    First,      \* the account a wallet begins with
    Given       \* the name an account begins with

VARIABLES
    rows,       \* rows[a]: the name of an account in the table
    spent,      \* the calls that had their effect, or never will
    asked,      \* the accounts that were asked to go
    astray,     \* something failed, or crossed what it does not expect
    lost        \* a write undid another one

vars == <<rows, spent, asked, astray, lost>>

IndexOf(a) == a[2]
Empty == [a \in {} |-> Given]
With(a, name) == [b \in DOMAIN rows \cup {a} |-> IF b = a THEN name ELSE rows[b]]
Less(gone) == [b \in DOMAIN rows \ gone |-> rows[b]]
IsTable(t) ==
    DOMAIN t \subseteq Accounts /\ \A a \in DOMAIN t : t[a] \in {Given} \cup Calls

Staying == DOMAIN rows \ asked

Spend(c) == c \notin spent /\ spent' = spent \cup {c}

\* A flag that is set stays set.
Onward == (astray => astray') /\ (lost => lost')
Orderly == ~astray' /\ ~lost'

Init ==
    /\ rows = Empty
    /\ spent = {} /\ asked = {}
    /\ astray = FALSE /\ lost = FALSE

\* The wallet is created, with one account.
Create ==
    /\ Orderly => rows = Empty
    /\ rows' = With(First, Given)
    /\ Onward /\ UNCHANGED <<spent, asked>>

\* A call stores its account, a derivation under an index it chooses: no
\* account that stays has it.
Store(c, a) ==
    /\ a[1] = c
    /\ Kind[c] = "derive" \/ (Kind[c] = "import" /\ IndexOf(a) = Wanted[c])
    /\ Spend(c)
    /\ Orderly => \A b \in Staying : IndexOf(b) # IndexOf(a)
    /\ rows' = With(a, Given)
    /\ Onward /\ UNCHANGED asked

Rename(c, a) ==
    /\ Kind[c] = "rename"
    /\ Spend(c)
    /\ Orderly => a \in DOMAIN rows
    /\ rows' = With(a, c)
    /\ Onward /\ UNCHANGED asked

\* An account is asked to go, ...
Ask(c, a) ==
    /\ Kind[c] = "remove" /\ c \notin spent
    /\ asked' = asked \cup {a}
    /\ Onward /\ UNCHANGED <<rows, spent>>

\* ... and goes.
Remove(c, a) ==
    /\ Kind[c] = "remove" /\ a \in asked
    /\ Spend(c)
    /\ rows' = Less({a})
    /\ Onward /\ UNCHANGED asked

\* An import is refused an index that is taken.
Refuse(c) ==
    /\ Kind[c] = "import" /\ \E a \in DOMAIN rows : IndexOf(a) = Wanted[c]
    /\ Spend(c)
    /\ Onward /\ UNCHANGED <<rows, asked>>

\* Calls fail, or end with the client, and have no effect.
Fail(cs) ==
    /\ cs \cap spent = {} /\ spent' = spent \cup cs
    /\ astray' /\ Onward /\ UNCHANGED <<rows, asked>>

\* The wallet is removed, and with it all accounts that are not asked to go
\* by themselves.
Wipe(gone) ==
    /\ Orderly => Staying \subseteq gone
    /\ rows' = Less(gone)
    /\ Onward /\ UNCHANGED <<spent, asked>>

\* NodeStorage writes back a whole table, which is not the one there is.
Lose(cs) ==
    /\ cs \cap spent = {} /\ spent' = spent \cup cs
    /\ IsTable(rows')
    /\ lost' /\ Onward /\ UNCHANGED asked

\* Nothing the table shows; something may go astray.
Stray == Onward /\ UNCHANGED <<rows, spent, asked>>

Next ==
    \/ Create \/ Stray
    \/ \E c \in Calls : Refuse(c)
    \/ \E c \in Calls, a \in Accounts :
          Store(c, a) \/ Rename(c, a) \/ Ask(c, a) \/ Remove(c, a)
    \/ \E cs \in SUBSET Calls : Fail(cs) \/ Lose(cs)
    \/ \E gone \in SUBSET DOMAIN rows : Wipe(gone)

Spec == Init /\ [][Next]_vars

\* At every moment, not only when the calls are over, the accounts that stay
\* have keys of their own, and no account is there before the call that makes
\* it is through.
Kept ==
    ~astray /\ ~lost =>
        /\ \A a, b \in Staying : IndexOf(a) = IndexOf(b) => a = b
        /\ \A a \in DOMAIN rows : a = First \/ a[1] \in spent
=============================================================================
