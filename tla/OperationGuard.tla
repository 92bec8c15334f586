---------------------------- MODULE OperationGuard ----------------------------
(***************************************************************************)
(* ConcurrentOperationGuardService: operations that are refused, never     *)
(* queued, while one they conflict with is running.  An operation claims a *)
(* set of keys for itself and may enter one scope, shared with others or   *)
(* alone.  Reservation actions claim their account, deploy and reservation *)
(* and share the scope of their network; a network update or removal takes *)
(* that scope alone; creating a wallet claims the fingerprints of its      *)
(* signer and accounts.                                                    *)
(*                                                                         *)
(* The guard is entered in one synchronous turn and left in the finally of *)
(* the awaited operation, so Enter, Refuse and Leave are atomic and the    *)
(* operation itself is the time between Enter and Leave.                   *)
(***************************************************************************)
CONSTANTS
    Operations,  \* calls of run
    Keys,        \* what an operation may claim
    Scopes,      \* what operations may enter
    KeysOf,      \* KeysOf[o]: the keys o claims
    ScopeOf,     \* ScopeOf[o]: the scope o enters, or None
    Exclusive,   \* operations that enter their scope alone
    None

ASSUME GuardAssumption ==
    /\ KeysOf \in [Operations -> SUBSET Keys]
    /\ ScopeOf \in [Operations -> Scopes \cup {None}]
    /\ Exclusive \subseteq Operations
    /\ None \notin Operations
    /\ None \notin Scopes

VARIABLES
    items,                  \* items[k]: the owner of key k, or None
    exclusiveScopeHolders,  \* [s]: the operation alone in scope s, or None
    sharedScopeHolders,     \* [s]: the operations sharing scope s
    state                   \* state[o]: how far the call o is

vars == <<items, exclusiveScopeHolders, sharedScopeHolders, state>>
tables == <<items, exclusiveScopeHolders, sharedScopeHolders>>

-----------------------------------------------------------------------------
Init ==
    /\ items = [k \in Keys |-> None]
    /\ exclusiveScopeHolders = [s \in Scopes |-> None]
    /\ sharedScopeHolders = [s \in Scopes |-> {}]
    /\ state = [o \in Operations |-> "idle"]

FindConflictOwner(o) == \E k \in KeysOf[o] : items[k] # None

FindScopeConflictOwner(o) ==
    \E s \in Scopes :
        /\ s = ScopeOf[o]
        /\ \/ exclusiveScopeHolders[s] # None
           \/ o \in Exclusive /\ sharedScopeHolders[s] # {}

AcquireScope(o) ==
    /\ exclusiveScopeHolders' =
          [s \in Scopes |-> IF s = ScopeOf[o] /\ o \in Exclusive
                            THEN o ELSE exclusiveScopeHolders[s]]
    /\ sharedScopeHolders' =
          [s \in Scopes |-> IF s = ScopeOf[o] /\ o \notin Exclusive
                            THEN sharedScopeHolders[s] \cup {o}
                            ELSE sharedScopeHolders[s]]

\* Mutant: the scope is dropped with its first holder.
ReleaseWholeScope(o) ==
    /\ exclusiveScopeHolders' =
          [s \in Scopes |-> IF s = ScopeOf[o] /\ o \in Exclusive
                            THEN None ELSE exclusiveScopeHolders[s]]
    /\ sharedScopeHolders' =
          [s \in Scopes |-> IF s = ScopeOf[o] /\ o \notin Exclusive
                            THEN {} ELSE sharedScopeHolders[s]]

\* The token of the call tells its place among the shared holders.
ReleaseScope(o) ==
    /\ exclusiveScopeHolders' =
          [s \in Scopes |-> IF s = ScopeOf[o] /\ o \in Exclusive
                            THEN None ELSE exclusiveScopeHolders[s]]
    /\ sharedScopeHolders' =
          [s \in Scopes |-> IF s = ScopeOf[o] /\ o \notin Exclusive
                            THEN sharedScopeHolders[s] \ {o}
                            ELSE sharedScopeHolders[s]]

ReleaseKeys(o) ==
    items' = [k \in Keys |-> IF k \in KeysOf[o] THEN None ELSE items[k]]

Enter(o) ==
    /\ state[o] = "idle"
    /\ ~FindScopeConflictOwner(o)
    /\ ~FindConflictOwner(o)
    /\ AcquireScope(o)
    /\ items' = [k \in Keys |-> IF k \in KeysOf[o] THEN o ELSE items[k]]
    /\ state' = [state EXCEPT ![o] = "running"]

\* Mutant: the refusal leaves through the finally block.
RefuseReleasing(o) ==
    /\ state[o] = "idle"
    /\ FindScopeConflictOwner(o) \/ FindConflictOwner(o)
    /\ ReleaseKeys(o)
    /\ ReleaseScope(o)
    /\ state' = [state EXCEPT ![o] = "refused"]

Refuse(o) ==
    /\ state[o] = "idle"
    /\ FindScopeConflictOwner(o) \/ FindConflictOwner(o)
    /\ state' = [state EXCEPT ![o] = "refused"]
    /\ UNCHANGED tables

\* Mutant: keys are given back by a successful operation only.
LeaveKeepingKeys(o) ==
    /\ state[o] = "running"
    /\ \/ ReleaseKeys(o)
       \/ UNCHANGED items
    /\ ReleaseScope(o)
    /\ state' = [state EXCEPT ![o] = "over"]

\* The operation returned or threw.
Leave(o) ==
    /\ state[o] = "running"
    /\ ReleaseKeys(o)
    /\ ReleaseScope(o)
    /\ state' = [state EXCEPT ![o] = "over"]

Next == \E o \in Operations : Enter(o) \/ Refuse(o) \/ Leave(o)

Spec == Init /\ [][Next]_vars

-----------------------------------------------------------------------------
(* Properties                                                              *)

Running(o) == state[o] = "running"

Meet(o, p) ==
    \/ KeysOf[o] \cap KeysOf[p] # {}
    \/ /\ ScopeOf[o] = ScopeOf[p]
       /\ ScopeOf[o] # None
       /\ o \in Exclusive \/ p \in Exclusive

\* Types, and the tables name exactly the operations that are running.
TypeOK ==
    /\ items \in [Keys -> Operations \cup {None}]
    /\ exclusiveScopeHolders \in [Scopes -> Operations \cup {None}]
    /\ sharedScopeHolders \in [Scopes -> SUBSET Operations]
    /\ state \in [Operations -> {"idle", "running", "refused", "over"}]

\* A key belongs to an operation exactly as long as it runs.
KeysExact ==
    \A k \in Keys, o \in Operations :
        items[k] = o <=> Running(o) /\ k \in KeysOf[o]

\* A scope holds an operation exactly as long as it runs.
ScopesExact ==
    \A s \in Scopes, o \in Operations :
        /\ exclusiveScopeHolders[s] = o <=>
              Running(o) /\ ScopeOf[o] = s /\ o \in Exclusive
        /\ o \in sharedScopeHolders[s] <=>
              Running(o) /\ ScopeOf[o] = s /\ o \notin Exclusive

\* Two operations that claim a common key, a transfer and a reservation
\* update of one account say, never run at the same time.
KeyExclusion ==
    \A o, p \in Operations :
        o # p /\ Running(o) /\ Running(p) => KeysOf[o] \cap KeysOf[p] = {}

\* While the reservations of a network are cleaned up, nothing else runs on
\* that network.
ScopeExclusion ==
    \A o, p \in Operations :
        /\ o # p /\ Running(o) /\ Running(p)
        /\ ScopeOf[o] = ScopeOf[p] /\ ScopeOf[o] # None
        => o \notin Exclusive /\ p \notin Exclusive

\* The inductive invariant.
GuardInv ==
    /\ TypeOK
    /\ KeysExact
    /\ ScopesExact
    /\ KeyExclusion
    /\ ScopeExclusion

\* A call is only refused for the sake of one that runs right then: what is
\* over, in whatever way it ended, blocks nobody.
RefusalsJustified ==
    [][\A o \in Operations :
          state[o] # "refused" /\ state'[o] = "refused" =>
              \E p \in Operations : p # o /\ Running(p) /\ Meet(o, p)]_vars
=============================================================================
