------------------------------ MODULE GuardsProofs ------------------------------
(***************************************************************************)
(* The three small parts that time and interleaving make hard, each for any *)
(* number of its actors: the reservation guard of a network, the signing    *)
(* session of a signer, the watch of a deploy.                              *)
(***************************************************************************)
EXTENDS OperationGuard, SigningSession, DeployWatch, TLAPS

-----------------------------------------------------------------------------
(***************************************************************************)
(* The reservation guard: mutual exclusion for every set of operations,     *)
(* keys and scopes.  The tables are exact (KeysExact, ScopesExact): what    *)
(* they name is what runs.  Exclusion follows, because an operation enters  *)
(* only past tables that name nothing it could meet.                        *)
(***************************************************************************)

\* Every step keeps the tables typed.
LEMMA GuardTypeStep == TypeOK /\ [Next]_vars => TypeOK'
<1> SUFFICES ASSUME TypeOK, [Next]_vars PROVE TypeOK'
  OBVIOUS
<1> USE GuardAssumption DEF TypeOK
<1>1. ASSUME NEW o \in Operations, Enter(o) PROVE TypeOK'
  BY <1>1 DEF Enter, AcquireScope
<1>2. ASSUME NEW o \in Operations, Refuse(o) PROVE TypeOK'
  BY <1>2 DEF Refuse, tables
<1>3. ASSUME NEW o \in Operations, Leave(o) PROVE TypeOK'
  BY <1>3 DEF Leave, ReleaseKeys, ReleaseScope
<1>4. CASE UNCHANGED vars
  BY <1>4 DEF vars
<1> QED
  BY <1>1, <1>2, <1>3, <1>4 DEF Next

\* Entering names the operation in the tables and nothing else in its place.
LEMMA EnterKeepsTables ==
    ASSUME GuardInv, NEW o \in Operations, Enter(o)
    PROVE  KeysExact' /\ ScopesExact'
<1> USE GuardAssumption DEF GuardInv, TypeOK
<1>1. \A p \in Operations : Running(p)' <=> Running(p) \/ p = o
  BY DEF Enter, Running
<1>2. \A k \in KeysOf[o], p \in Operations : items[k] # p
  BY DEF Enter, FindConflictOwner
<1>3. ~Running(o)
  BY DEF Enter, Running
<1>4. KeysExact'
  <2> SUFFICES ASSUME NEW k \in Keys, NEW p \in Operations
               PROVE  items'[k] = p <=> Running(p)' /\ k \in KeysOf[p]
    BY DEF KeysExact
  <2>1. items'[k] = IF k \in KeysOf[o] THEN o ELSE items[k]
    BY DEF Enter
  <2>2. items[k] = p <=> Running(p) /\ k \in KeysOf[p]
    BY DEF KeysExact
  <2> QED
    BY <1>1, <1>2, <1>3, <2>1, <2>2
<1>5. ScopesExact'
  <2> SUFFICES ASSUME NEW s \in Scopes, NEW p \in Operations
               PROVE  /\ exclusiveScopeHolders'[s] = p <=>
                            Running(p)' /\ ScopeOf[p] = s /\ p \in Exclusive
                      /\ p \in sharedScopeHolders'[s] <=>
                            Running(p)' /\ ScopeOf[p] = s /\ p \notin Exclusive
    BY DEF ScopesExact
  <2>1. /\ exclusiveScopeHolders[s] = p <=>
              Running(p) /\ ScopeOf[p] = s /\ p \in Exclusive
        /\ p \in sharedScopeHolders[s] <=>
              Running(p) /\ ScopeOf[p] = s /\ p \notin Exclusive
    BY DEF ScopesExact
  <2>2. /\ exclusiveScopeHolders'[s] = IF s = ScopeOf[o] /\ o \in Exclusive
                                       THEN o ELSE exclusiveScopeHolders[s]
        /\ sharedScopeHolders'[s] = IF s = ScopeOf[o] /\ o \notin Exclusive
                                    THEN sharedScopeHolders[s] \cup {o}
                                    ELSE sharedScopeHolders[s]
    BY DEF Enter, AcquireScope
  <2>3. s = ScopeOf[o] => exclusiveScopeHolders[s] = None
    BY DEF Enter, FindScopeConflictOwner
  <2> QED
    BY <1>1, <1>3, <2>1, <2>2, <2>3
<1> QED
  BY <1>4, <1>5

\* Whoever runs already holds the key, so a call that claims it cannot enter.
LEMMA EnterKeepsKeyExclusion ==
    ASSUME GuardInv, NEW o \in Operations, Enter(o)
    PROVE  KeyExclusion'
<1> USE GuardAssumption DEF GuardInv, TypeOK
<1>1. \A p \in Operations : Running(p)' => Running(p) \/ p = o
  BY DEF Enter, Running
<1>2. ASSUME NEW p \in Operations, Running(p)
      PROVE  KeysOf[o] \cap KeysOf[p] = {}
  <2> SUFFICES ASSUME NEW k \in KeysOf[o], k \in KeysOf[p] PROVE FALSE
    OBVIOUS
  <2>1. k \in Keys
    OBVIOUS
  <2>2. items[k] = p
    BY <1>2, <2>1 DEF KeysExact
  <2> QED
    BY <2>2 DEF Enter, FindConflictOwner
<1> QED
  BY <1>1, <1>2 DEF KeyExclusion

\* A scope is entered alone only when nobody is in it, and shared only when
\* nobody is alone in it.
LEMMA EnterKeepsScopeExclusion ==
    ASSUME GuardInv, NEW o \in Operations, Enter(o)
    PROVE  ScopeExclusion'
<1> USE GuardAssumption DEF GuardInv, TypeOK
<1>1. \A p \in Operations : Running(p)' => Running(p) \/ p = o
  BY DEF Enter, Running
<1>2. ASSUME NEW p \in Operations, Running(p),
             ScopeOf[o] = ScopeOf[p], ScopeOf[o] # None
      PROVE  o \notin Exclusive /\ p \notin Exclusive
  <2> DEFINE s == ScopeOf[o]
  <2>1. s \in Scopes
    BY <1>2
  <2>2. exclusiveScopeHolders[s] = None /\ (o \in Exclusive => sharedScopeHolders[s] = {})
    BY <2>1 DEF Enter, FindScopeConflictOwner
  <2>3. IF p \in Exclusive THEN exclusiveScopeHolders[s] = p ELSE p \in sharedScopeHolders[s]
    BY <1>2, <2>1 DEF ScopesExact
  <2> QED
    BY <2>2, <2>3
<1> QED
  BY <1>1, <1>2 DEF ScopeExclusion

\* Leaving takes the operation out of the tables and leaves the others alone,
\* for no other one that runs shares its keys.
LEMMA LeaveKeepsTables ==
    ASSUME GuardInv, NEW o \in Operations, Leave(o)
    PROVE  KeysExact' /\ ScopesExact'
<1> USE GuardAssumption DEF GuardInv, TypeOK
<1>1. \A p \in Operations : Running(p)' <=> Running(p) /\ p # o
  BY DEF Leave, Running
<1>2. Running(o)
  BY DEF Leave, Running
<1>3. KeysExact'
  <2> SUFFICES ASSUME NEW k \in Keys, NEW p \in Operations
               PROVE  items'[k] = p <=> Running(p)' /\ k \in KeysOf[p]
    BY DEF KeysExact
  <2>1. items'[k] = IF k \in KeysOf[o] THEN None ELSE items[k]
    BY DEF Leave, ReleaseKeys
  <2>2. items[k] = p <=> Running(p) /\ k \in KeysOf[p]
    BY DEF KeysExact
  <2>3. k \in KeysOf[o] /\ Running(p) /\ p # o => k \notin KeysOf[p]
    BY <1>2 DEF KeyExclusion
  <2>4. items[k] = o => k \in KeysOf[o]
    BY DEF KeysExact
  <2> QED
    BY <1>1, <2>1, <2>2, <2>3, <2>4
<1>4. ScopesExact'
  <2> SUFFICES ASSUME NEW s \in Scopes, NEW p \in Operations
               PROVE  /\ exclusiveScopeHolders'[s] = p <=>
                            Running(p)' /\ ScopeOf[p] = s /\ p \in Exclusive
                      /\ p \in sharedScopeHolders'[s] <=>
                            Running(p)' /\ ScopeOf[p] = s /\ p \notin Exclusive
    BY DEF ScopesExact
  <2>1. /\ exclusiveScopeHolders[s] = p <=>
              Running(p) /\ ScopeOf[p] = s /\ p \in Exclusive
        /\ p \in sharedScopeHolders[s] <=>
              Running(p) /\ ScopeOf[p] = s /\ p \notin Exclusive
    BY DEF ScopesExact
  <2>2. /\ exclusiveScopeHolders'[s] = IF s = ScopeOf[o] /\ o \in Exclusive
                                       THEN None ELSE exclusiveScopeHolders[s]
        /\ sharedScopeHolders'[s] = IF s = ScopeOf[o] /\ o \notin Exclusive
                                    THEN sharedScopeHolders[s] \ {o}
                                    ELSE sharedScopeHolders[s]
    BY DEF Leave, ReleaseScope
  <2>3. s = ScopeOf[o] /\ o \in Exclusive /\ ScopeOf[p] = s /\ Running(p) => p = o
    BY <1>2 DEF ScopeExclusion
  <2> QED
    BY <1>1, <1>2, <2>1, <2>2, <2>3
<1> QED
  BY <1>3, <1>4

\* Fewer operations run after one leaves.
LEMMA LeaveKeepsExclusion ==
    ASSUME GuardInv, NEW o \in Operations, Leave(o)
    PROVE  KeyExclusion' /\ ScopeExclusion'
<1>1. \A p \in Operations : Running(p)' => Running(p)
  BY DEF Leave, Running, GuardInv, TypeOK
<1> QED
  BY <1>1 DEF GuardInv, KeyExclusion, ScopeExclusion

\* A refused call changes no table and runs no more than before.
LEMMA RefuseKeepsRest ==
    ASSUME GuardInv, NEW o \in Operations, Refuse(o)
    PROVE  KeysExact' /\ ScopesExact' /\ KeyExclusion' /\ ScopeExclusion'
<1>1. \A p \in Operations : Running(p)' <=> Running(p)
  BY DEF Refuse, Running, GuardInv, TypeOK
<1> QED
  BY <1>1 DEF GuardInv, Refuse, tables,
              KeysExact, ScopesExact, KeyExclusion, ScopeExclusion

\* The guard's invariant: its tables name exactly the running operations, and
\* no two of those exclude each other.
THEOREM GuardInvariance == Spec => []GuardInv
<1>1. Init => GuardInv
  BY GuardAssumption DEF Init, GuardInv, TypeOK, KeysExact, ScopesExact,
                         KeyExclusion, ScopeExclusion, Running
<1>2. GuardInv /\ [Next]_vars => GuardInv'
  <2> SUFFICES ASSUME GuardInv, [Next]_vars PROVE GuardInv'
    OBVIOUS
  <2>1. TypeOK'
    BY GuardTypeStep DEF GuardInv
  <2>2. ASSUME NEW o \in Operations, Enter(o) PROVE GuardInv'
    BY <2>1, <2>2, EnterKeepsTables, EnterKeepsKeyExclusion,
       EnterKeepsScopeExclusion DEF GuardInv
  <2>3. ASSUME NEW o \in Operations, Refuse(o) PROVE GuardInv'
    BY <2>1, <2>3, RefuseKeepsRest DEF GuardInv
  <2>4. ASSUME NEW o \in Operations, Leave(o) PROVE GuardInv'
    BY <2>1, <2>4, LeaveKeepsTables, LeaveKeepsExclusion DEF GuardInv
  <2>5. CASE UNCHANGED vars
    BY <2>5 DEF vars, GuardInv, TypeOK, KeysExact, ScopesExact,
                KeyExclusion, ScopeExclusion, Running
  <2> QED
    BY <2>2, <2>3, <2>4, <2>5 DEF Next
<1> QED
  BY <1>1, <1>2, PTL DEF Spec

\* Operations with a common key never run at the same time.
THEOREM KeysExclude == Spec => []KeyExclusion
<1>1. GuardInv => KeyExclusion
  BY DEF GuardInv
<1> QED
  BY <1>1, GuardInvariance, PTL

\* An operation alone in its scope is alone there.
THEOREM ScopesExclude == Spec => []ScopeExclusion
<1>1. GuardInv => ScopeExclusion
  BY DEF GuardInv
<1> QED
  BY <1>1, GuardInvariance, PTL

\* Nobody is refused for the sake of an operation that is over.
THEOREM RefusalsAreJustified == Spec => RefusalsJustified
<1>1. ASSUME GuardInv, [Next]_vars,
             NEW o \in Operations, state[o] # "refused", state'[o] = "refused"
      PROVE  \E p \in Operations : p # o /\ Running(p) /\ Meet(o, p)
  <2> USE GuardAssumption DEF GuardInv, TypeOK
  <2>1. state[o] = "idle" /\ (FindScopeConflictOwner(o) \/ FindConflictOwner(o))
    BY <1>1 DEF Next, vars, Enter, Refuse, Leave
  <2>2. ASSUME NEW p \in Operations, Running(p) PROVE p # o
    BY <2>1, <2>2 DEF Running
  <2>3. CASE FindConflictOwner(o)
    <3>1. PICK k \in KeysOf[o] : items[k] # None
      BY <2>3 DEF FindConflictOwner
    <3>2. items[k] \in Operations /\ Running(items[k]) /\ k \in KeysOf[items[k]]
      BY <1>1, <3>1 DEF KeysExact
    <3> QED
      BY <2>2, <3>1, <3>2 DEF Meet
  <2>4. CASE FindScopeConflictOwner(o)
    <3>1. PICK s \in Scopes :
             /\ s = ScopeOf[o]
             /\ \/ exclusiveScopeHolders[s] # None
                \/ o \in Exclusive /\ sharedScopeHolders[s] # {}
      BY <2>4 DEF FindScopeConflictOwner
    <3>2. CASE exclusiveScopeHolders[s] # None
      <4> DEFINE p == exclusiveScopeHolders[s]
      <4>1. p \in Operations /\ Running(p) /\ ScopeOf[p] = s /\ p \in Exclusive
        BY <1>1, <3>1, <3>2 DEF ScopesExact
      <4> QED
        BY <2>2, <3>1, <4>1 DEF Meet
    <3>3. CASE o \in Exclusive /\ sharedScopeHolders[s] # {}
      <4>1. PICK p \in Operations : p \in sharedScopeHolders[s]
        BY <1>1, <3>1, <3>3
      <4>2. Running(p) /\ ScopeOf[p] = s
        BY <1>1, <4>1 DEF ScopesExact
      <4> QED
        BY <2>2, <3>1, <3>3, <4>1, <4>2 DEF Meet
    <3> QED
      BY <3>1, <3>2, <3>3
  <2> QED
    BY <2>1, <2>3, <2>4
<1>2. GuardInv /\ [Next]_vars =>
        [\A o \in Operations :
            state[o] # "refused" /\ state'[o] = "refused" =>
                \E p \in Operations : p # o /\ Running(p) /\ Meet(o, p)]_vars
  BY <1>1
<1> QED
  BY <1>2, GuardInvariance, PTL DEF Spec, RefusalsJustified

-----------------------------------------------------------------------------
(***************************************************************************)
(* The signing session, for any number of unlocks: its secret is the one of *)
(* an unlock that saw every lock, and every other secret is zeroized.       *)
(***************************************************************************)

\* Each step leaves a well-typed state.
LEMMA SessionTypeStep ==
    ASSUME SignerTypeOK, [SignerNext]_signerVars
    PROVE  SignerTypeOK'
<1> USE SessionAssumption DEF SignerTypeOK, Stages, Decrypting, unlockVars, sessionVars
<1>1. ASSUME NEW u \in Unlocks, Begin(u) PROVE SignerTypeOK'
  BY <1>1 DEF Begin
<1>2. ASSUME NEW u \in Unlocks, UnlockStep(u) PROVE SignerTypeOK'
  BY <1>2 DEF UnlockStep, SecretDecrypted, UnlockFails, Cancel, Hold,
              HoldNothing, Release
<1>3. ASSUME NEW u \in Unlocks, TimePasses(u) \/ AutoLock(u) PROVE SignerTypeOK'
  BY <1>3 DEF TimePasses, AutoLock
<1>4. CASE Lock
  BY <1>4 DEF Lock, Release
<1>5. CASE UNCHANGED signerVars
  BY <1>5 DEF signerVars
<1> QED
  BY <1>1, <1>2, <1>3, <1>4, <1>5 DEF SignerNext

\* An unlock that begins reads the generation and is held by nobody yet.
LEMMA BeginKeepsInv ==
    ASSUME SessionInv, NEW u \in Unlocks, Begin(u)
    PROVE  SessionInv'
<1>1. SignerTypeOK'
  BY SessionTypeStep DEF SessionInv, SignerNext
<1> USE SessionAssumption DEF SessionInv, SignerTypeOK, Decrypting, Begin, sessionVars
<1>2. session # u /\ u \notin wiped
  BY DEF SessionIsHeld, WipedAreOver
<1>3. UnlockSeesLocks'
  BY DEF UnlockSeesLocks
<1>4. TimerIsSessions' /\ SessionIsHeld' /\ WipedAreOver'
  BY <1>2 DEF TimerIsSessions, SessionIsHeld, WipedAreOver
<1>5. LockBeatsUnlock' /\ Zeroized'
  BY <1>2 DEF LockBeatsUnlock, Zeroized
<1> QED
  BY <1>1, <1>3, <1>4, <1>5

\* A decryption that ends, well or badly, changes nothing but its unlock.
LEMMA DecryptionKeepsInv ==
    ASSUME SessionInv, NEW u \in Unlocks, SecretDecrypted(u) \/ UnlockFails(u)
    PROVE  SessionInv'
<1>1. SignerTypeOK'
  BY SessionTypeStep DEF SessionInv, SignerNext, UnlockStep
<1> USE SessionAssumption DEF SessionInv, SignerTypeOK, Decrypting,
                              SecretDecrypted, UnlockFails, sessionVars
<1>2. session # u /\ u \notin wiped
  BY DEF SessionIsHeld, WipedAreOver
<1>3. UnlockSeesLocks'
  BY DEF UnlockSeesLocks
<1>4. TimerIsSessions' /\ SessionIsHeld' /\ WipedAreOver'
  BY <1>2 DEF TimerIsSessions, SessionIsHeld, WipedAreOver
<1>5. LockBeatsUnlock' /\ Zeroized'
  BY <1>2 DEF LockBeatsUnlock, Zeroized
<1> QED
  BY <1>1, <1>3, <1>4, <1>5

\* A cancelled unlock wipes its own secret, which nobody holds.
LEMMA CancelKeepsInv ==
    ASSUME SessionInv, NEW u \in Unlocks, Cancel(u)
    PROVE  SessionInv'
<1>1. SignerTypeOK'
  BY SessionTypeStep DEF SessionInv, SignerNext, UnlockStep
<1> USE SessionAssumption DEF SessionInv, SignerTypeOK, Decrypting, Cancel
<1>2. session # u
  BY DEF SessionIsHeld
<1>3. UnlockSeesLocks'
  BY DEF UnlockSeesLocks
<1>4. TimerIsSessions' /\ SessionIsHeld' /\ WipedAreOver'
  BY <1>2 DEF TimerIsSessions, SessionIsHeld, WipedAreOver
<1>5. LockBeatsUnlock' /\ Zeroized'
  BY <1>2 DEF LockBeatsUnlock, Zeroized
<1> QED
  BY <1>1, <1>3, <1>4, <1>5

\* An unlock that is held has seen every lock, and takes over from a session
\* whose timer stops and whose secret is wiped.
LEMMA HoldKeepsInv ==
    ASSUME SessionInv, NEW u \in Unlocks, Hold(u) \/ HoldNothing(u)
    PROVE  SessionInv'
<1>1. SignerTypeOK'
  BY SessionTypeStep DEF SessionInv, SignerNext, UnlockStep
<1> USE SessionAssumption DEF SessionInv, SignerTypeOK, Decrypting,
                              Hold, HoldNothing, Release
<1>2. session # u /\ u \notin wiped /\ seenLocks[u] = locks
  BY DEF SessionIsHeld, WipedAreOver, UnlockSeesLocks
<1>3. UnlockSeesLocks'
  BY DEF UnlockSeesLocks
<1>4. TimerIsSessions'
  BY <1>2 DEF TimerIsSessions
<1>5. SessionIsHeld' /\ WipedAreOver'
  BY <1>2 DEF SessionIsHeld, WipedAreOver
<1>6. LockBeatsUnlock' /\ Zeroized'
  BY <1>2 DEF LockBeatsUnlock, Zeroized
<1> QED
  BY <1>1, <1>3, <1>4, <1>5, <1>6

\* A lock, of the user or of the timer, leaves no session and moves the
\* generation past every unlock under way.
LEMMA LockKeepsInv ==
    ASSUME SessionInv, Lock \/ \E u \in Unlocks : AutoLock(u)
    PROVE  SessionInv'
<1>1. SignerTypeOK'
  BY SessionTypeStep DEF SessionInv, SignerNext
<1> USE SessionAssumption DEF SessionInv, SignerTypeOK, Decrypting,
                              Lock, AutoLock, Release, unlockVars
<1>2. \A v \in Unlocks : v \in armed => v = session
  BY DEF TimerIsSessions
<1>3. UnlockSeesLocks'
  BY DEF UnlockSeesLocks
<1>4. TimerIsSessions' /\ SessionIsHeld' /\ LockBeatsUnlock'
  BY <1>2 DEF TimerIsSessions, SessionIsHeld, LockBeatsUnlock
<1>5. WipedAreOver' /\ Zeroized'
  BY DEF WipedAreOver, Zeroized, SessionIsHeld
<1> QED
  BY <1>1, <1>3, <1>4, <1>5

\* The session's invariant: the unlock under way with the current generation
\* saw every lock, one timer runs and it is the session's, and every other
\* decrypted secret is wiped.
THEOREM SessionInvariance == SignerSpec => []SessionInv
<1>1. SignerInit => SessionInv
  BY SessionAssumption
     DEF SignerInit, SessionInv, SignerTypeOK, Stages, Decrypting, UnlockSeesLocks,
         TimerIsSessions, SessionIsHeld, WipedAreOver, LockBeatsUnlock, Zeroized
<1>2. SessionInv /\ [SignerNext]_signerVars => SessionInv'
  <2> SUFFICES ASSUME SessionInv, [SignerNext]_signerVars PROVE SessionInv'
    OBVIOUS
  <2>1. ASSUME NEW u \in Unlocks, UnlockStep(u) PROVE SessionInv'
    BY <2>1, DecryptionKeepsInv, CancelKeepsInv, HoldKeepsInv DEF UnlockStep
  <2>2. ASSUME NEW u \in Unlocks, TimePasses(u) PROVE SessionInv'
    <3>1. SignerTypeOK'
      BY <2>2, SessionTypeStep DEF SessionInv
    <3> QED
      BY <2>2, <3>1 DEF TimePasses, unlockVars, sessionVars, SessionInv,
            UnlockSeesLocks, TimerIsSessions, SessionIsHeld, WipedAreOver,
            LockBeatsUnlock, Zeroized
  <2>3. CASE UNCHANGED signerVars
    BY <2>3 DEF signerVars, unlockVars, sessionVars, SessionInv, SignerTypeOK,
          UnlockSeesLocks, TimerIsSessions, SessionIsHeld, WipedAreOver,
          LockBeatsUnlock, Zeroized
  <2> QED
    BY <2>1, <2>2, <2>3, BeginKeepsInv, LockKeepsInv DEF SignerNext
<1> QED
  BY <1>1, <1>2, PTL DEF SignerSpec

\* A session never stems from an unlock that began before the last lock.
THEOREM LocksWin == SignerSpec => []LockBeatsUnlock
<1>1. SessionInv => LockBeatsUnlock
  BY DEF SessionInv
<1> QED
  BY <1>1, SessionInvariance, PTL

\* Whatever ends a session or cancels an unlock zeroizes its secret.
THEOREM SecretsAreZeroized == SignerSpec => []Zeroized
<1>1. SessionInv => Zeroized
  BY DEF SessionInv
<1> QED
  BY <1>1, SessionInvariance, PTL

\* Only its own timer, a lock or a later unlock ends a session.
THEOREM SessionsLast == SignerSpec => SessionLastsItsTime
<1>1. ASSUME SessionInv, [SignerNext]_signerVars,
             NEW u \in Unlocks, session = u, session' # u
      PROVE  \/ u \in due
             \/ locks' # locks
             \/ \E v \in Unlocks : stage[v] = "dataKey" /\ stage'[v] = "held"
  <2> USE <1>1 DEF SessionInv, SignerTypeOK
  <2>1. ASSUME NEW v \in Unlocks, AutoLock(v) PROVE u \in due
    BY <2>1 DEF AutoLock, TimerIsSessions
  <2>2. ASSUME NEW v \in Unlocks, UnlockStep(v)
        PROVE  stage[v] = "dataKey" /\ stage'[v] = "held"
    BY <2>2 DEF UnlockStep, SecretDecrypted, UnlockFails, Cancel, Hold,
                HoldNothing, sessionVars
  <2>3. CASE Lock
    BY <2>3 DEF Lock
  <2>4. ~UNCHANGED session
    OBVIOUS
  <2> QED
    BY <2>1, <2>2, <2>3, <2>4 DEF SignerNext, Begin, TimePasses, signerVars, sessionVars
<1>2. SessionInv /\ [SignerNext]_signerVars =>
        [\A u \in Unlocks :
            session = u /\ session' # u =>
                \/ u \in due
                \/ locks' # locks
                \/ \E v \in Unlocks :
                      stage[v] = "dataKey" /\ stage'[v] = "held"]_signerVars
  BY <1>1
<1> QED
  BY <1>2, SessionInvariance, PTL DEF SignerSpec, SessionLastsItsTime

-----------------------------------------------------------------------------
(***************************************************************************)
(* The watch of a deploy, for any number of listeners and of watches: the   *)
(* manager's books and the pollers agree, and nobody is told twice how a    *)
(* watch ended.                                                             *)
(***************************************************************************)

(* A closed manager holds no reservation.                                   *)
ClosedIsEmpty == watched => opened

(* Who has heard a last word has left the set of the subscribers, and who    *)
(* never subscribed has heard none; a callback that throws breaks this.      *)
HeardAndLeft ==
    thrown \/ \A l \in Listeners :
                  /\ endings[l] < 2
                  /\ endings[l] > 0 => l \in joined \ subscribers

WatchInv == WatchTypeOK /\ OneWatch /\ ClosedIsEmpty /\ HeardAndLeft

-----------------------------------------------------------------------------
(* What the actions are made of keeps the types.                            *)

\* What cancellation, a check and the last words leave is typed, and a check moves no watch.
LEMMA HelpersTyped ==
    ASSUME WatchTypeOK
    PROVE  /\ Cancelled \in [Watches -> Handles]
           /\ \A w \in Watches : Checked(w) \in [Watches -> Handles]
           /\ \A w, v \in Watches : Checked(w)[v].stage = handle[v].stage
           /\ \A told \in SUBSET Listeners : LastWords(told) \in [Listeners -> 0 .. 2]
<1>1. Cancelled \in [Watches -> Handles]
  BY DEF WatchTypeOK, Handles, Cancelled, Stop
<1>2. \A w \in Watches : Checked(w) \in [Watches -> Handles]
  BY ZenonT(30) DEF WatchTypeOK, Handles, Checked
<1>3. \A told \in SUBSET Listeners : LastWords(told) \in [Listeners -> 0 .. 2]
  BY DEF WatchTypeOK, LastWords
<1>4. \A w, v \in Watches : Checked(w)[v].stage = handle[v].stage
  BY DEF WatchTypeOK, Handles, Checked
<1>. QED  BY <1>1, <1>2, <1>3, <1>4

(* Cancelling the manager's watch leaves none running.                      *)
LEMMA CancelledStops ==
    ASSUME WatchTypeOK, OneWatch
    PROVE  \A w \in Watches : Cancelled[w].stage # "running"
BY DEF WatchTypeOK, Handles, Watches, OneWatch, Cancelled, Stop

-----------------------------------------------------------------------------
(* The one action that tells the listeners.                                 *)
LEMMA FinishKeepsInv ==
    ASSUME WatchInv, NEW w \in Watches, Asked(w),
           NEW word \in {"resolved", "rejected"}, Finish(w, word)
    PROVE  WatchInv'
<1>1. PICK told \in SUBSET subscribers, throws \in BOOLEAN : Finish(w, word)!(told, throws)
  BY DEF Finish
<1>2. /\ WatchTypeOK /\ OneWatch /\ ClosedIsEmpty /\ HeardAndLeft
      /\ told \in SUBSET Listeners
      /\ handle[w].stage = "running" /\ watcher = w
      /\ watched /\ opened /\ ~exclusive /\ expiring
  BY <1>1 DEF WatchInv, WatchTypeOK, OneWatch, Asked
<1>3. PICK d \in {"pending", "resolved", "rejected"} :
          handle' = [Checked(w) EXCEPT ![w].stage = "stopped", ![w].done = d]
  <2>1. Checked(w)[w].done \in {"pending", "resolved", "rejected"}
    BY <1>2, HelpersTyped DEF Handles
  <2>2. CASE throws
    BY <1>1, <2>1, <2>2
  <2>3. CASE ~throws
    BY <1>1, <2>3
  <2>. QED  BY <2>2, <2>3
<1>4. endings' \in [Listeners -> 0 .. 2]
  BY <1>1, <1>2, HelpersTyped
<1>5. WatchTypeOK'
  <2>1. handle' \in [Watches -> Handles]
    <3>1. \A g \in [Watches -> Handles] :
              [g EXCEPT ![w].stage = "stopped", ![w].done = d] \in [Watches -> Handles]
      BY ZenonT(30) DEF Handles
    <3>. QED  BY <1>2, <1>3, <3>1, HelpersTyped
  <2>. QED  BY <1>1, <1>2, <1>4, <2>1 DEF WatchTypeOK, managerVars
<1>6. \A v \in Watches : handle'[v].stage # "running"
  <2>1. \A v \in Watches \ {w} : handle[v].stage # "running"
    BY <1>2 DEF OneWatch
  <2>2. \A v \in Watches : handle'[v].stage
                               = IF v = w THEN "stopped" ELSE Checked(w)[v].stage
    BY <1>2, <1>3, HelpersTyped DEF Handles
  <2>. QED  BY <1>2, <2>1, <2>2, HelpersTyped
<1>7. OneWatch' /\ ClosedIsEmpty'
  BY <1>1, <1>2, <1>6 DEF OneWatch, ClosedIsEmpty, managerVars
<1>8. HeardAndLeft'
  <2>1. CASE thrown \/ throws
    BY <2>1, <1>1 DEF HeardAndLeft
  <2>2. CASE ~thrown /\ ~throws
    <3>1. \A l \in Listeners : endings'[l] =
              IF l \in subscribers /\ endings[l] < 2 THEN endings[l] + 1 ELSE endings[l]
      BY <2>2, <1>1 DEF LastWords
    <3>. QED  BY <3>1, <2>2, <1>1, <1>2 DEF HeardAndLeft, WatchTypeOK
  <2>. QED  BY <2>1, <2>2
<1>. QED  BY <1>5, <1>7, <1>8 DEF WatchInv

-----------------------------------------------------------------------------
\* The invariant holds when the first watch starts.
LEMMA InitKeepsInv ==
    ASSUME WatchInit
    PROVE  WatchInv
<1>1. NewWatch \in Handles /\ Unused \in Handles
  BY DEF Handles, NewWatch, Unused
<1>2. \A w \in Watches : handle[w].stage = IF w = 1 THEN "running" ELSE "unused"
  BY DEF WatchInit, NewWatch, Unused
<1>3. 1 \in Watches
  BY WatchAssumption DEF Watches
<1>4. WatchTypeOK
  <2>1. handle \in [Watches -> Handles]
    BY <1>1 DEF WatchInit
  <2>2. endings \in [Listeners -> 0 .. 2]
    BY DEF WatchInit
  <2>. QED  BY <1>3, <2>1, <2>2 DEF WatchInit, WatchTypeOK
<1>5. OneWatch /\ ClosedIsEmpty /\ HeardAndLeft
  BY <1>2 DEF WatchInit, OneWatch, ClosedIsEmpty, HeardAndLeft
<1>. QED  BY <1>4, <1>5 DEF WatchInv

(* What the poller does without telling anybody the end.                    *)
LEMMA PollerKeepsInv ==
    ASSUME WatchInv, NEW w \in Watches,
           Tick(w) \/ DeadlinePasses(w) \/ Pending(w) \/ AnswerTooLate(w)
    PROVE  WatchInv'
<1>1. /\ handle' \in [Watches -> Handles]
      /\ \A v \in Watches : handle'[v].stage = handle[v].stage
  <2>. WatchTypeOK
    BY DEF WatchInv
  <2>1. CASE Tick(w)
    BY <2>1, ZenonT(30) DEF WatchTypeOK, Handles, Tick
  <2>2. CASE DeadlinePasses(w)
    BY <2>2 DEF WatchTypeOK, Handles, DeadlinePasses
  <2>3. CASE Pending(w) \/ AnswerTooLate(w)
    BY <2>3, HelpersTyped DEF Pending, AnswerTooLate
  <2>. QED  BY <2>1, <2>2, <2>3
<1>2. UNCHANGED <<final, managerVars, listenerVars>>
  BY DEF Tick, DeadlinePasses, Pending, AnswerTooLate
<1>3. WatchTypeOK'
  BY <1>1, <1>2 DEF WatchInv, WatchTypeOK, managerVars, listenerVars
<1>4. OneWatch' /\ ClosedIsEmpty' /\ HeardAndLeft'
  BY <1>1, <1>2 DEF WatchInv, OneWatch, ClosedIsEmpty, HeardAndLeft,
                    managerVars, listenerVars
<1>. QED  BY <1>3, <1>4 DEF WatchInv

(* Listeners come and go.                                                   *)
LEMMA ListenersKeepInv ==
    ASSUME WatchInv, NEW l \in Listeners,
           Subscribe(l) \/ FailSubscription(l) \/ Unsubscribe(l)
    PROVE  WatchInv'
<1>1. WatchTypeOK'
  BY DEF WatchInv, WatchTypeOK, Subscribe, FailSubscription, Unsubscribe, LastWords,
         pollVars, managerVars
<1>2. OneWatch' /\ ClosedIsEmpty'
  BY DEF WatchInv, OneWatch, ClosedIsEmpty, Subscribe, FailSubscription, Unsubscribe,
         pollVars, managerVars
<1>3. HeardAndLeft'
  <2>1. CASE Subscribe(l) \/ Unsubscribe(l)
    BY <2>1 DEF WatchInv, WatchTypeOK, HeardAndLeft, Subscribe, Unsubscribe
  <2>2. CASE FailSubscription(l)
    <3>1. \A k \in Listeners : endings'[k] =
              IF k = l /\ endings[k] < 2 THEN endings[k] + 1 ELSE endings[k]
      BY <2>2 DEF FailSubscription, LastWords
    <3>. QED  BY <3>1, <2>2 DEF WatchInv, WatchTypeOK, HeardAndLeft, FailSubscription
  <2>. QED  BY <2>1, <2>2
<1>. QED  BY <1>1, <1>2, <1>3 DEF WatchInv

(* What ends or suspends the watch from outside.                            *)
LEMMA ManagerKeepsInv ==
    ASSUME WatchInv,
           \/ BeginExclusive \/ EndExclusive \/ Expires \/ Remove \/ Close
           \/ \E w \in Watches : ClosedByListener(w)
    PROVE  WatchInv'
<1>. WatchTypeOK /\ OneWatch /\ ClosedIsEmpty /\ HeardAndLeft
  BY DEF WatchInv
<1>1. CASE BeginExclusive \/ Expires \/ Remove \/ Close
  <2>1. handle' = Cancelled
    BY <1>1 DEF BeginExclusive, Expires, Remove, Close, Untrack
  <2>2. WatchTypeOK'
    BY <1>1, <2>1, HelpersTyped
       DEF WatchTypeOK, BeginExclusive, Expires, Remove, Close, Untrack, listenerVars
  <2>3. OneWatch' /\ ClosedIsEmpty'
    BY <1>1, <2>1, CancelledStops
       DEF OneWatch, ClosedIsEmpty, BeginExclusive, Expires, Remove, Close, Untrack
  <2>4. HeardAndLeft'
    BY <1>1 DEF HeardAndLeft, BeginExclusive, Expires, Remove, Close, Untrack, listenerVars
  <2>. QED  BY <2>2, <2>3, <2>4 DEF WatchInv
<1>2. CASE EndExclusive
  <2>1. WatchTypeOK'
    <3>1. NewWatch \in Handles
      BY DEF Handles, NewWatch
    <3>2. CASE opened /\ watched
      BY <1>2, <3>1, <3>2 DEF WatchTypeOK, EndExclusive, listenerVars
    <3>3. CASE ~(opened /\ watched)
      BY <1>2, <3>3 DEF WatchTypeOK, EndExclusive, listenerVars
    <3>. QED  BY <3>2, <3>3
  <2>2. OneWatch'
    BY <1>2 DEF WatchTypeOK, Handles, OneWatch, ClosedIsEmpty, EndExclusive, NewWatch
  <2>3. ClosedIsEmpty' /\ HeardAndLeft'
    BY <1>2 DEF ClosedIsEmpty, HeardAndLeft, EndExclusive, listenerVars
  <2>. QED  BY <2>1, <2>2, <2>3 DEF WatchInv
<1>3. CASE \E w \in Watches : ClosedByListener(w)
  <2>1. PICK w \in Watches : ClosedByListener(w)
    BY <1>3
  <2>2. handle' \in [Watches -> Handles]
    <3>. \A g \in [Watches -> Handles] :
             [g EXCEPT ![w].stage = "stopped"] \in [Watches -> Handles]
      BY DEF Handles
    <3>. QED  BY <2>1, HelpersTyped DEF ClosedByListener
  <2>3. WatchTypeOK'
    BY <2>1, <2>2 DEF WatchTypeOK, ClosedByListener
  <2>4. \A v \in Watches : handle'[v].stage # "running"
    <3>. \A v \in Watches \ {w} : handle[v].stage # "running"
      BY <2>1 DEF OneWatch, ClosedByListener
    <3>. \A g \in [Watches -> Handles], v \in Watches :
             [g EXCEPT ![w].stage = "stopped"][v].stage
                 = IF v = w THEN "stopped" ELSE g[v].stage
      BY DEF Handles
    <3>. QED  BY <2>1, HelpersTyped, SMTT(30) DEF ClosedByListener
  <2>5. OneWatch' /\ ClosedIsEmpty' /\ HeardAndLeft'
    BY <2>1, <2>4 DEF OneWatch, ClosedIsEmpty, HeardAndLeft, ClosedByListener
  <2>. QED  BY <2>3, <2>5 DEF WatchInv
<1>. QED  BY <1>1, <1>2, <1>3

(* Every step keeps the invariant.                                          *)
LEMMA NextKeepsInv ==
    ASSUME WatchInv, [WatchNext]_watchVars
    PROVE  WatchInv'
<1>1. CASE \E w \in Watches : Tick(w) \/ DeadlinePasses(w) \/ Pending(w) \/ AnswerTooLate(w)
  BY <1>1, PollerKeepsInv
<1>2. CASE \E w \in Watches : TimesOut(w) \/ Finalized(w) \/ RequestFails(w)
  BY <1>2, FinishKeepsInv DEF TimesOut, Finalized, RequestFails
<1>3. CASE \E l \in Listeners : Subscribe(l) \/ FailSubscription(l) \/ Unsubscribe(l)
  BY <1>3, ListenersKeepInv
<1>4. CASE \/ BeginExclusive \/ EndExclusive \/ Expires \/ Remove \/ Close
           \/ \E w \in Watches : ClosedByListener(w)
  BY <1>4, ManagerKeepsInv
<1>5. CASE DeployFinal
  BY <1>5 DEF DeployFinal, WatchInv, WatchTypeOK, OneWatch, ClosedIsEmpty, HeardAndLeft,
              managerVars, listenerVars
<1>6. CASE UNCHANGED watchVars
  BY <1>6 DEF WatchInv, WatchTypeOK, OneWatch, ClosedIsEmpty, HeardAndLeft,
              watchVars, pollVars, managerVars, listenerVars
<1>. QED  BY <1>1, <1>2, <1>3, <1>4, <1>5, <1>6 DEF WatchNext, Answered

(* The inductive invariant holds of DeployStatusPoller and its manager.     *)
THEOREM WatchInvariance == WatchSpec => []WatchInv
<1>1. WatchInv /\ [WatchNext]_watchVars => WatchInv'
  BY NextKeepsInv
<1>. QED  BY <1>1, InitKeepsInv, PTL DEF WatchSpec

(* At most one poller of a reservation runs, the one the manager can cancel, *)
(* and whatever the manager keeps has an expiration timer.                   *)
THEOREM OneWatchRuns == WatchSpec => []OneWatch
<1>1. WatchInv => OneWatch
  BY DEF WatchInv
<1>. QED  BY <1>1, WatchInvariance, PTL

(* A listener hears one last word per subscription.                          *)
THEOREM OneLastWord == WatchSpec => []OneEnding
<1>1. WatchInv => OneEnding
  BY DEF WatchInv, HeardAndLeft, OneEnding
<1>. QED  BY <1>1, WatchInvariance, PTL

===============================================================================
