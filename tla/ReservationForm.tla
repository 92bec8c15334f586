---------------------------- MODULE ReservationForm ----------------------------
(***************************************************************************)
(* The page on which reservations are made by hand.  It decides what may be *)
(* submitted from what it has: the reservations of the last event, the       *)
(* available balance it has last been told, the account that is selected and *)
(* the row that is edited.  ReservationAdapter decides again, after a         *)
(* password prompt, from the reservations in memory and a balance it asks    *)
(* for, and in other terms: a total where the page compares a difference.    *)
(* Meanwhile rows expire, funds move and the user goes on.                   *)
(***************************************************************************)
EXTENDS Integers, FiniteSetsExt

CONSTANTS
    Accounts,  \* accounts of the selected wallet
    DeployIds,
    Costs,     \* gas costs and transfer amounts a user may type
    GasMin, GasMax,
    Balance,   \* bound: the balance of an account
    MaxRows    \* bound: reservations at a time

ASSUME FormAssumption ==
    /\ Costs \subseteq Nat /\ {GasMin, GasMax, Balance, MaxRows} \subseteq Nat
    /\ 0 < GasMin /\ GasMin <= GasMax

NoAccount == "no account"
Unknown == -1
NoRow == 0
NoSubmission == [row |-> -1]

VARIABLES
    account,    \* selectedAccountId
    editedId,   \* editedReservationId, or NoRow
    available,  \* the available balance shown, or Unknown
    loading,    \* its effect awaits an answer
    listed,     \* the reservations of the wallet on the current network
    funds,      \* the balance of every account, on the chain
    submission, \* the call of the SDK under way
    exact       \* history: nothing has moved since available was told

pageVars == <<account, editedId, available, loading>>
formVars == <<pageVars, listed, funds, submission, exact>>

-----------------------------------------------------------------------------
\* What a user can have typed: a gas cost above the maximum of a transfer does
\* not get into the field.
Forms ==
    {f \in [kind : {"transfer", "deploy"}, deployId : DeployIds, gas : Costs,
            amount : Costs, toIsAddress : BOOLEAN] :
        f.kind = "transfer" => f.gas <= GasMax}

ReservedAmount(f) == IF f.kind = "deploy" THEN f.gas ELSE f.amount + f.gas

Total(rows) == MapThenSumSet(LAMBDA r : r.pending, rows)

OfAccount(rows, a) == {r \in rows : r.account = a}

Edited == {r \in listed : r.id = editedId}

GasCostFits(f) == IF f.kind = "deploy" THEN f.gas > 0 ELSE f.gas >= GasMin

RecipientFits(f) == f.kind = "deploy" \/ f.toIsAddress

Duplicate(f) == \E r \in listed : r.id # editedId /\ r.deployId = f.deployId

\* Mutant: an edited row has to be covered once more by what is available.
OverByTotal(f) == available # Unknown /\ ReservedAmount(f) > available

Over(f) == available # Unknown /\ ReservedAmount(f) - Total(Edited) > available

\* isFormReady: the button is enabled.
FormReady(f) ==
    /\ account # NoAccount
    /\ ReservedAmount(f) > 0
    /\ GasCostFits(f) /\ RecipientFits(f)
    /\ ~Duplicate(f) /\ ~Over(f)

-----------------------------------------------------------------------------
\* validateReservationPayload of what toReservationMeta makes of the form.
PayloadFits(f) ==
    /\ ReservedAmount(f) > 0
    /\ f.gas <= ReservedAmount(f)
    /\ f.kind = "transfer" =>
           f.toIsAddress /\ f.amount > 0 /\ f.amount + f.gas <= ReservedAmount(f)

Payload(f) ==
    [row |-> editedId, account |-> account, deployId |-> f.deployId,
     pending |-> ReservedAmount(f), fits |-> PayloadFits(f)]

\* getKnown, validateReservationUpdateTarget, ensureUniqueDeployId and the
\* balance check of add and update.
Accepts(p) ==
    LET replaced == {r \in listed : r.id = p.row}
    IN  /\ p.fits
        /\ p.row # NoRow => \E r \in replaced : r.account = p.account
        /\ \A r \in listed \ replaced : r.deployId # p.deployId
        /\ funds - (Total(OfAccount(listed, p.account))
                        + (p.pending - Total(replaced))) >= 0

FormInit ==
    /\ account = NoAccount /\ editedId = NoRow
    /\ available = Unknown /\ loading = FALSE
    /\ listed = {}
    /\ funds = Balance
    /\ submission = NoSubmission
    /\ exact = FALSE

-----------------------------------------------------------------------------
\* The effect on the selected account and its reserved total: an answer for
\* other values is dropped, the balance shown stays until the next one.
LimitEffect(a, rows) ==
    LET same == a = account /\ Total(OfAccount(rows, a))
                                   = Total(OfAccount(listed, a))
    IN  /\ available' = IF a = NoAccount THEN Unknown ELSE available
        /\ loading' = (a # NoAccount /\ (loading \/ ~same))
        /\ exact' = (exact /\ same)

LimitTold ==
    /\ loading
    /\ available' = Max({0, funds - Total(OfAccount(listed, account))})
    /\ loading' = FALSE /\ exact' = TRUE
    /\ UNCHANGED <<account, editedId, listed, funds, submission>>

LimitFails ==
    /\ loading
    /\ available' = Unknown /\ loading' = FALSE /\ exact' = FALSE
    /\ UNCHANGED <<account, editedId, listed, funds, submission>>

SelectAccount(a) ==
    /\ account' = a
    /\ LimitEffect(a, listed)
    /\ UNCHANGED <<editedId, listed, funds, submission>>

SelectWallet ==
    /\ account' = NoAccount /\ editedId' = NoRow
    /\ LimitEffect(NoAccount, listed)
    /\ UNCHANGED <<listed, funds, submission>>

StartEditing(r) ==
    /\ account' = r.account /\ editedId' = r.id
    /\ LimitEffect(r.account, listed)
    /\ UNCHANGED <<listed, funds, submission>>

StopEditing ==
    /\ editedId' = NoRow
    /\ UNCHANGED <<account, available, loading, listed, funds, submission, exact>>

Submit(f) ==
    /\ submission = NoSubmission
    /\ FormReady(f)
    /\ submission' = Payload(f)
    /\ UNCHANGED <<pageVars, listed, funds, exact>>

-----------------------------------------------------------------------------
FreeIds == 1 .. MaxRows \ {r.id : r \in listed}

\* RESERVATIONS_CHANGED.
Listed(rows) == listed' = rows /\ LimitEffect(account, rows)

Row(id, p) == [id |-> id, account |-> p.account, deployId |-> p.deployId,
               pending |-> p.pending]

\* The form is reset when the call ends, whatever is being edited by then.
SubmissionSucceeds(id) ==
    /\ submission # NoSubmission
    /\ Accepts(submission)
    /\ id \in IF submission.row = NoRow THEN FreeIds ELSE {submission.row}
    /\ Listed({r \in listed : r.id # id} \cup {Row(id, submission)})
    /\ editedId' = NoRow
    /\ submission' = NoSubmission
    /\ UNCHANGED <<account, funds>>

\* Cancelled at the prompt, refused, or failed on the way.
SubmissionFails ==
    /\ submission # NoSubmission
    /\ submission' = NoSubmission
    /\ UNCHANGED <<pageVars, listed, funds, exact>>

RemoveListed(r) ==
    /\ Listed(listed \ {r})
    /\ editedId' = IF editedId = r.id THEN NoRow ELSE editedId
    /\ UNCHANGED <<account, funds, submission>>

\* It has expired, or its deploy is confirmed; the page goes on editing it.
RowSettled(r) ==
    /\ Listed(listed \ {r})
    /\ UNCHANGED <<account, editedId, funds, submission>>

\* A transfer or a deploy on another page.
RowAppears(id, a, d) ==
    /\ id \in FreeIds
    /\ d \notin {r.deployId : r \in listed}
    /\ Total(OfAccount(listed, a)) + GasMax <= funds
    /\ Listed(listed \cup {[id |-> id, account |-> a, deployId |-> d,
                            pending |-> GasMax]})
    /\ UNCHANGED <<account, editedId, funds, submission>>

\* Deploys and transfers the wallet has not made; the page is not told.
FundsMove(n) ==
    /\ funds' = n
    /\ exact' = FALSE
    /\ UNCHANGED <<pageVars, listed, submission>>

-----------------------------------------------------------------------------
FormNext ==
    \/ LimitTold \/ LimitFails \/ SelectWallet \/ StopEditing
    \/ SubmissionFails
    \/ \E a \in Accounts \cup {NoAccount} : SelectAccount(a)
    \/ \E r \in listed : StartEditing(r) \/ RemoveListed(r) \/ RowSettled(r)
    \/ \E f \in Forms : Submit(f)
    \/ \E id \in 1 .. MaxRows :
           \/ SubmissionSucceeds(id)
           \/ \E a \in Accounts, d \in DeployIds : RowAppears(id, a, d)
    \/ \E n \in 0 .. Balance : FundsMove(n)

FormSpec == FormInit /\ [][FormNext]_formVars

-----------------------------------------------------------------------------
FormTypeOK ==
    /\ account \in Accounts \cup {NoAccount}
    /\ editedId \in 0 .. MaxRows
    /\ available \in -1 .. Balance
    /\ loading \in BOOLEAN /\ exact \in BOOLEAN
    /\ \A r, s \in listed : r.id = s.id => r = s
    /\ loading => account # NoAccount

(* Page and SDK decide alike: while the available balance is up to date and   *)
(* covers what is reserved, the button is enabled for exactly those forms the *)
(* SDK accepts.  Left out are a transfer of nothing, which the page lets      *)
(* through, an edited row that is gone, and one of another account.          *)
FormMirrorsSdk ==
    exact /\ funds >= Total(OfAccount(listed, account)) =>
        \A f \in Forms :
            /\ f.kind = "transfer" => f.amount > 0
            /\ GasCostFits(f)
            /\ editedId # NoRow => \E r \in Edited : r.account = account
            => (FormReady(f) <=> Accepts(Payload(f)))
=============================================================================
