----------------------------- MODULE SessionBadge -----------------------------
(***************************************************************************)
(* What the playground shows of the signing sessions.  useSdk keeps a list  *)
(* of locked wallet ids: WALLET_LOCKED events add to it, the app's own calls *)
(* take away after they have been answered, and a signing call looks at the  *)
(* session when it ends.  The client changes sessions by itself meanwhile.   *)
(***************************************************************************)
EXTENDS FiniteSets

CONSTANTS
    Openings  \* wallet ids: every opening or creation makes a new one

VARIABLES
    place,       \* place[w]: closed, opening, settling, open or gone
    sessions,        \* wallets whose signing session is active
    unlocking,   \* unlockWallet calls whose decryption still counts
    stale,       \* unlockWallet calls overtaken by a lock or another hold
    signing,     \* signing[w]: none, unlocking, sending or refused
    lockedIds,   \* lockedWalletIds of useSdk
    started,     \* history: wallets that have had a session
    lockedEarly  \* history: locked before openWallet was answered, not since

sessionVars == <<sessions, unlocking, stale, signing, started>>
badgeVars == <<place, sessionVars, lockedIds, lockedEarly>>

-----------------------------------------------------------------------------
BadgeInit ==
    /\ place = [w \in Openings |-> "closed"]
    /\ sessions = {} /\ unlocking = {} /\ stale = {} /\ started = {}
    /\ signing = [w \in Openings |-> "none"]
    /\ lockedIds = {} /\ lockedEarly = {}

SettingUp(w) == place[w] \in {"opening", "settling"}
InManager(w) == SettingUp(w) \/ place[w] = "open"

\* SigningSession.hold and release: both overtake the unlocks under way,
\* those of unlockWallet and those of ensureSession.
Overtake(ws) ==
    /\ stale' = stale \cup (unlocking \cap ws)
    /\ unlocking' = unlocking \ ws
    /\ signing' = [w \in Openings |->
           IF w \in ws /\ signing[w] = "unlocking" THEN "refused" ELSE signing[w]]

HoldSession(w) ==
    /\ sessions' = sessions \cup {w}
    /\ started' = started \cup {w}

ReleaseSessions(ws) ==
    /\ sessions' = sessions \ ws
    /\ Overtake(ws)
    /\ UNCHANGED started

\* createHDWallet, createPrivateKeyWallet and the imports hold no session.
CreateWallet(w) ==
    /\ place[w] = "closed"
    /\ place' = [place EXCEPT ![w] = "open"]
    /\ UNCHANGED <<sessionVars, lockedIds, lockedEarly>>

\* openWallet: in the manager, and so on the page after any refresh, before
\* the session and the reservations are there.
BeginOpening(w) ==
    /\ place[w] = "closed"
    /\ place' = [place EXCEPT ![w] = "opening"]
    /\ UNCHANGED <<sessionVars, lockedIds, lockedEarly>>

OpenHolds(w) ==
    /\ place[w] = "opening"
    /\ w \notin started \cup lockedEarly
    /\ HoldSession(w)
    /\ Overtake({w})
    /\ place' = [place EXCEPT ![w] = "settling"]
    /\ UNCHANGED <<lockedIds, lockedEarly>>

OpenWallet(w) ==
    /\ place[w] = "settling"
    /\ place' = [place EXCEPT ![w] = "open"]
    /\ lockedIds' = lockedIds \ {w}
    /\ UNCHANGED <<sessionVars, lockedEarly>>

\* A wrong password, a lock during the decryption, unreadable reservations:
\* discardWallet locks, and nothing tells the list.
OpenFails(w) ==
    /\ SettingUp(w)
    /\ place' = [place EXCEPT ![w] = "gone"]
    /\ ReleaseSessions({w})
    /\ UNCHANGED <<lockedIds, lockedEarly>>

LockedEvent(w) ==
    /\ lockedIds' = lockedIds \cup {w}
    /\ lockedEarly' = IF SettingUp(w) THEN lockedEarly \cup {w}
                      ELSE lockedEarly \ {w}

LockWallet(w) ==
    /\ InManager(w)
    /\ ReleaseSessions({w})
    /\ LockedEvent(w)
    /\ UNCHANGED place

AutoLock(w) ==
    /\ w \in sessions
    /\ ReleaseSessions({w})
    /\ LockedEvent(w)
    /\ UNCHANGED place

\* Mutant: the list forgets the wallet before unlockWallet is answered.
BeginUnlockForgets(w) ==
    /\ InManager(w)
    /\ w \in lockedIds \ (unlocking \cup stale)
    /\ unlocking' = unlocking \cup {w}
    /\ lockedIds' = lockedIds \ {w}
    /\ UNCHANGED <<place, sessions, stale, signing, started, lockedEarly>>

\* The button is there for a wallet listed as locked.
BeginUnlock(w) ==
    /\ InManager(w)
    /\ w \in lockedIds \ (unlocking \cup stale)
    /\ unlocking' = unlocking \cup {w}
    /\ UNCHANGED <<place, sessions, stale, signing, started, lockedIds, lockedEarly>>

UnlockWallet(w) ==
    /\ w \in unlocking
    /\ unlocking' = unlocking \ {w}
    /\ signing' = [signing EXCEPT ![w] = IF @ = "unlocking" THEN "refused" ELSE @]
    /\ HoldSession(w)
    /\ lockedIds' = lockedIds \ {w}
    /\ UNCHANGED <<place, stale, lockedEarly>>

\* A wrong password or WalletOperationCancelledError: the list is left alone.
UnlockFails(w) ==
    /\ w \in unlocking \cup stale
    /\ unlocking' = unlocking \ {w}
    /\ stale' = stale \ {w}
    /\ UNCHANGED <<place, sessions, signing, started, lockedIds, lockedEarly>>

\* transfer, deploy, signDeploy and the changes of reservations, wrapped in
\* withSessionSync; ensureSession unlocks when a password comes with the call.
BeginSign(w) ==
    /\ InManager(w)
    /\ signing[w] = "none"
    /\ \E withPassword \in BOOLEAN :
           signing' = [signing EXCEPT ![w] =
               IF w \in sessions THEN "sending"
               ELSE IF withPassword THEN "unlocking" ELSE "refused"]
    /\ UNCHANGED <<place, sessions, unlocking, stale, started, lockedIds, lockedEarly>>

SignHolds(w) ==
    /\ signing[w] = "unlocking"
    /\ HoldSession(w)
    /\ stale' = stale \cup (unlocking \cap {w})
    /\ unlocking' = unlocking \ {w}
    /\ signing' = [signing EXCEPT ![w] = "sending"]
    /\ UNCHANGED <<place, lockedIds, lockedEarly>>

\* A wrong password, a closed wallet, a refusal of the node.
SignFails(w) ==
    /\ signing[w] = "unlocking"
    /\ signing' = [signing EXCEPT ![w] = "refused"]
    /\ UNCHANGED <<place, sessions, unlocking, stale, started, lockedIds, lockedEarly>>

\* The finally of withSessionSync: syncWalletLock, of a closed wallet too.
SignEnds(w) ==
    /\ signing[w] \in {"sending", "refused"}
    /\ lockedIds' = IF w \in sessions THEN lockedIds \ {w} ELSE lockedIds \cup {w}
    /\ signing' = [signing EXCEPT ![w] = "none"]
    /\ UNCHANGED <<place, sessions, unlocking, stale, started, lockedEarly>>

\* closeWallet and removeWallet.
CloseFromPage(w) ==
    /\ place[w] = "open"
    /\ place' = [place EXCEPT ![w] = "gone"]
    /\ ReleaseSessions({w})
    /\ lockedIds' = lockedIds \ {w}
    /\ UNCHANGED lockedEarly

\* closeAllWallets and clearPersistence.
CloseAllWallets ==
    /\ \E w \in Openings : InManager(w)
    /\ place' = [w \in Openings |-> IF InManager(w) THEN "gone" ELSE place[w]]
    /\ ReleaseSessions(Openings)
    /\ lockedIds' = {}
    /\ UNCHANGED lockedEarly

-----------------------------------------------------------------------------
BadgeNext ==
    \/ \E w \in Openings :
           \/ CreateWallet(w) \/ BeginOpening(w) \/ OpenHolds(w) \/ OpenWallet(w)
           \/ OpenFails(w) \/ LockWallet(w) \/ AutoLock(w)
           \/ BeginUnlock(w) \/ UnlockWallet(w) \/ UnlockFails(w)
           \/ BeginSign(w) \/ SignHolds(w) \/ SignFails(w) \/ SignEnds(w)
           \/ CloseFromPage(w)
    \/ CloseAllWallets

BadgeSpec == BadgeInit /\ [][BadgeNext]_badgeVars

-----------------------------------------------------------------------------
BadgeTypeOK ==
    /\ place \in [Openings -> {"closed", "opening", "settling", "open", "gone"}]
    /\ signing \in [Openings -> {"none", "unlocking", "sending", "refused"}]
    /\ unlocking \cap stale = {}
    /\ \A w \in sessions \cup unlocking : InManager(w)

(* The badge and the session agree once no call of the app is under way.  A  *)
(* wallet whose session has ended is listed as locked, unless the lock fell  *)
(* into the opening and was forgotten with its answer; and a listed wallet   *)
(* whose session is active is one that a signing call has just unlocked and  *)
(* will take off the list.                                                   *)
LocksShown ==
    \A w \in Openings : place[w] = "open" =>
        /\ w \in started \ (sessions \cup lockedEarly) => w \in lockedIds
        /\ w \in sessions \cap lockedIds => signing[w] \in {"sending", "refused"}
=============================================================================
