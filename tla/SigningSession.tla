---------------------------- MODULE SigningSession ----------------------------
(***************************************************************************)
(* The signing session of one signer: the decrypted secret is held from an *)
(* unlock until the session is locked, replaced or has lasted its fixed    *)
(* time.  Unlocking decrypts twice, so locks, other unlocks and the timer  *)
(* of an earlier session come in between.                                  *)
(***************************************************************************)
EXTENDS Integers

CONSTANTS
    Unlocks,   \* calls of Signer.unlock
    Timed,     \* those that come with a positive autoLockMs
    MaxLocks,  \* bound: calls of lock
    NoUnlock

ASSUME SessionAssumption ==
    /\ Timed \subseteq Unlocks
    /\ MaxLocks \in Nat
    /\ NoUnlock \notin Unlocks

VARIABLES
    stage,       \* stage[u]: the await the unlock u is parked at
    seen,        \* seen[u]: the generation u read before decrypting
    seenLocks,   \* history: how many locks there were when u began
    session,     \* the unlock whose secret is held, or NoUnlock
    generation,
    armed,       \* unlocks whose AutoTimer is running
    due,         \* unlocks whose autoLockMs have passed
    wiped,       \* unlocks whose secret has been zeroized
    locks        \* history: how many locks there have been

unlockVars == <<stage, seen, seenLocks>>
sessionVars == <<session, generation, armed, wiped>>
signerVars == <<unlockVars, sessionVars, due, locks>>

-----------------------------------------------------------------------------
Decrypting == {"secret", "dataKey"}
Stages == {"idle", "held", "cancelled", "failed"} \cup Decrypting

SignerInit ==
    /\ stage = [u \in Unlocks |-> "idle"]
    /\ seen = [u \in Unlocks |-> 0]
    /\ seenLocks = [u \in Unlocks |-> 0]
    /\ session = NoUnlock
    /\ generation = 0
    /\ armed = {}
    /\ due = {}
    /\ wiped = {}
    /\ locks = 0

Begin(u) ==
    /\ stage[u] = "idle"
    /\ stage' = [stage EXCEPT ![u] = "secret"]
    /\ seen' = [seen EXCEPT ![u] = generation]
    /\ seenLocks' = [seenLocks EXCEPT ![u] = locks]
    /\ UNCHANGED <<sessionVars, due, locks>>

SecretDecrypted(u) ==
    /\ stage[u] = "secret"
    /\ stage' = [stage EXCEPT ![u] = "dataKey"]
    /\ UNCHANGED <<seen, seenLocks, sessionVars, due, locks>>

\* A wrong password or a corrupted record.
UnlockFails(u) ==
    /\ stage[u] \in Decrypting
    /\ stage' = [stage EXCEPT ![u] = "failed"]
    /\ UNCHANGED <<seen, seenLocks, sessionVars, due, locks>>

\* Mutant: the generation is only bumped when there is a session to release.
ReleaseHeldOnly(next) ==
    /\ generation' = IF session = NoUnlock THEN generation ELSE generation + 1
    /\ armed' = (armed \ {session}) \cup next
    /\ wiped' = wiped \cup ({session} \ {NoUnlock})

\* Mutant: the timer of the released session goes on.
ReleaseKeepingTimer(next) ==
    /\ generation' = generation + 1
    /\ armed' = armed \cup next
    /\ wiped' = wiped \cup ({session} \ {NoUnlock})

\* release: the generation moves in any case, the timer is cleared and the
\* secret zeroized if there is a session.  next: the timer started after it.
Release(next) ==
    /\ generation' = generation + 1
    /\ armed' = (armed \ {session}) \cup next
    /\ wiped' = wiped \cup ({session} \ {NoUnlock})

\* Mutant: a cancelled unlock forgets the secret it decrypted.
CancelUnwiped(u) ==
    /\ stage[u] = "dataKey"
    /\ seen[u] # generation
    /\ stage' = [stage EXCEPT ![u] = "cancelled"]
    /\ UNCHANGED <<seen, seenLocks, sessionVars, due, locks>>

Cancel(u) ==
    /\ stage[u] = "dataKey"
    /\ seen[u] # generation
    /\ stage' = [stage EXCEPT ![u] = "cancelled"]
    /\ wiped' = wiped \cup {u}
    /\ UNCHANGED <<seen, seenLocks, session, generation, armed, due, locks>>

\* Mutant: the timer of a session that follows another is not started.
HoldUntimed(u) ==
    /\ stage[u] = "dataKey"
    /\ seen[u] = generation
    /\ u \in Timed
    /\ stage' = [stage EXCEPT ![u] = "held"]
    /\ Release(IF session = NoUnlock THEN {u} ELSE {})
    /\ session' = u
    /\ UNCHANGED <<seen, seenLocks, due, locks>>

\* hold: the earlier session ends, this one starts its timer.
Hold(u) ==
    /\ stage[u] = "dataKey"
    /\ seen[u] = generation
    /\ u \in Timed
    /\ stage' = [stage EXCEPT ![u] = "held"]
    /\ Release({u})
    /\ session' = u
    /\ UNCHANGED <<seen, seenLocks, due, locks>>

\* A non-positive autoLockMs: the earlier session ends and none follows.
HoldNothing(u) ==
    /\ stage[u] = "dataKey"
    /\ seen[u] = generation
    /\ u \notin Timed
    /\ stage' = [stage EXCEPT ![u] = "held"]
    /\ generation' = generation + 1
    /\ armed' = armed \ {session}
    /\ wiped' = wiped \cup {u} \cup ({session} \ {NoUnlock})
    /\ session' = NoUnlock
    /\ UNCHANGED <<seen, seenLocks, due, locks>>

Lock ==
    /\ locks < MaxLocks
    /\ locks' = locks + 1
    /\ Release({})
    /\ session' = NoUnlock
    /\ UNCHANGED <<unlockVars, due>>

TimePasses(u) ==
    /\ u \in armed
    /\ u \notin due
    /\ due' = due \cup {u}
    /\ UNCHANGED <<unlockVars, sessionVars, locks>>

\* The timer of u elapses and releases the session there is.
AutoLock(u) ==
    /\ u \in armed
    /\ u \in due
    /\ generation' = generation + 1
    /\ armed' = armed \ {u, session}
    /\ wiped' = wiped \cup ({session} \ {NoUnlock})
    /\ session' = NoUnlock
    /\ UNCHANGED <<unlockVars, due, locks>>

UnlockStep(u) ==
    \/ SecretDecrypted(u)
    \/ UnlockFails(u)
    \/ Cancel(u)
    \/ Hold(u)
    \/ HoldNothing(u)

SignerNext ==
    \/ \E u \in Unlocks :
          \/ Begin(u)
          \/ UnlockStep(u)
          \/ TimePasses(u)
          \/ AutoLock(u)
    \/ Lock

\* Time passes and timers fire.
SignerFairness == \A u \in Unlocks : WF_signerVars(TimePasses(u)) /\ WF_signerVars(AutoLock(u))

SignerSpec == SignerInit /\ [][SignerNext]_signerVars /\ SignerFairness

-----------------------------------------------------------------------------
(* Properties                                                              *)

SignerTypeOK ==
    /\ stage \in [Unlocks -> Stages]
    /\ seen \in [Unlocks -> Nat]
    /\ seenLocks \in [Unlocks -> Nat]
    /\ session \in Unlocks \cup {NoUnlock}
    /\ generation \in Nat
    /\ armed \subseteq Unlocks
    /\ due \subseteq Unlocks
    /\ wiped \subseteq Unlocks
    /\ locks \in Nat

\* An unlock that still decrypts and has seen the current generation has seen
\* every lock; none has seen a later one.
UnlockSeesLocks ==
    \A u \in Unlocks :
        /\ seen[u] <= generation
        /\ stage[u] \in Decrypting /\ seen[u] = generation =>
              seenLocks[u] = locks

\* The timers that run are those of the session.
TimerIsSessions == armed = {session} \ {NoUnlock}

\* The session was unlocked, and is not wiped under its user.
SessionIsHeld == session # NoUnlock => stage[session] = "held" /\ session \notin wiped

\* Nothing is wiped before its unlock is over.
WipedAreOver == \A u \in wiped : stage[u] \in {"held", "cancelled"}

\* A lock beats every unlock that was under way: a session never stems from
\* an unlock that began before the last lock (SECURITY_INVARIANTS.md, 1a.6).
LockBeatsUnlock == session # NoUnlock => seenLocks[session] = locks

\* Whatever ends a session or cancels an unlock zeroizes its secret
\* (SECURITY_INVARIANTS.md, 1a.3 and 1a.6).
Zeroized ==
    \A u \in Unlocks :
        stage[u] \in {"held", "cancelled"} => u = session \/ u \in wiped

SessionInv ==
    /\ SignerTypeOK
    /\ UnlockSeesLocks
    /\ TimerIsSessions
    /\ SessionIsHeld
    /\ WipedAreOver
    /\ LockBeatsUnlock
    /\ Zeroized

\* A session lasts until its own time has passed, unless it is locked or a
\* later unlock takes over: the timer of an earlier session never ends it.
SessionLastsItsTime ==
    [][\A u \in Unlocks :
          session = u /\ session' # u =>
              \/ u \in due
              \/ locks' # locks
              \/ \E v \in Unlocks : stage[v] = "dataKey" /\ stage'[v] = "held"]_signerVars

\* No session lasts for ever.
SessionsExpire == \A u \in Unlocks : session = u ~> session # u
=============================================================================
