----------------------- MODULE ManagedReservationsProofs -----------------------
(***************************************************************************)
(* For any number of calls and reservations, however calls, releases,       *)
(* closings and openings interleave: a reservation in memory has its        *)
(* expiration timer unless a call is changing it, what memory locks is what *)
(* storage holds, no deploy is reserved for twice, and the balance covers   *)
(* what is reserved.                                                        *)
(***************************************************************************)
EXTENDS ManagedReservations, SumTheorems, TLAPS

\* The calls, and the memory they work on: the keys let one call run at a
\* time, and a call that outlives its adapter has strayed.
CallsApart ==
    /\ at \in [Requests -> {"idle", "over"} \cup Parked]
    /\ goal \in [Requests -> Requests]
    /\ \A c \in Requests : Job[c] = "lock" => goal[c] = c
    /\ \A c, d \in Running : c = d
    /\ strayed \subseteq Running
    /\ adapter # "open" => Running \subseteq strayed

TendedInv == CallsApart /\ Tended

\* What the memory is after the two operations that change one reservation.
LEMMA UntrackDomain ==
    ASSUME NEW R, Untrack(R)
    PROVE  /\ DOMAIN locks' = DOMAIN locks \ R
           /\ polled' = polled \ R /\ timed' = timed \ R
BY DEF Untrack, Restrict

\* Tracking one reservation moves memory, poller and timer together.
LEMMA TrackDomain ==
    ASSUME NEW r, NEW rec, Track(r, rec)
    PROVE  \/ /\ DOMAIN locks' = DOMAIN locks \ {r}
              /\ polled' = polled \ {r} /\ timed' = timed \ {r}
           \/ /\ DOMAIN locks' = DOMAIN locks \cup {r}
              /\ polled' = polled \cup {r} /\ timed' = timed \cup {r}
<1>1. CASE rec.by \in overdue
  <2>1. Untrack({r})
    BY <1>1 DEF Track
  <2> QED
    BY <2>1, UntrackDomain
<1>2. CASE rec.by \notin overdue
  <2>1. locks' = Put(locks, r, rec)
    BY <1>2 DEF Track
  <2> QED
    BY <1>2, <2>1 DEF Track, Put
<1> QED
  BY <1>1, <1>2

\* A call that ends leaves none behind, and keeps the calls apart.
LEMMA FinishLeavesNone ==
    ASSUME ManagedAssumption, CallsApart, NEW c \in Running, Finish(c), adapter' = adapter
    PROVE  CallsApart' /\ Running' = {} /\ Exclusive' = {}
<1>1. \A d \in Requests : d # c => at[d] \notin Parked
  BY DEF CallsApart, Running, Under, ManagedAssumption
<1>2. \A d \in Requests : at'[d] \notin Parked
  BY <1>1 DEF Finish, Move, CallsApart, Running, Under, Parked
<1>3. Running' = {} /\ Exclusive' = {}
  BY <1>2 DEF Running, Exclusive, Under
<1> QED
  BY <1>3 DEF CallsApart, Finish, Move, Running, Under

\* A call that begins while none runs is the only one.
LEMMA BeginsAlone ==
    ASSUME ManagedAssumption, CallsApart, NEW c \in Requests, NEW stage \in Parked,
           Running = {}, adapter = "open", adapter' = adapter, Move(c, stage),
           strayed' = strayed,
           NEW r \in Requests, goal' = [goal EXCEPT ![c] = r],
           Job[c] = "lock" => r = c
    PROVE  /\ CallsApart'
           /\ Exclusive' \subseteq {r}
           /\ Job[c] # "lock" /\ c \notin strayed => Exclusive' = {r}
           /\ Job[c] = "lock" => Exclusive' = {}
<1>1. \A d \in Requests : at[d] \notin Parked
  BY DEF Running, Under, ManagedAssumption
<1>2. \A d \in Requests : at'[d] \in Parked <=> d = c
  BY <1>1 DEF Move, CallsApart
<1>3. Running' = {c}
  BY <1>2 DEF Running, Under, ManagedAssumption
<1>4. CallsApart'
  BY <1>3 DEF CallsApart, Move
<1>5. goal'[c] = r
  BY DEF CallsApart
<1> QED
  BY <1>2, <1>4, <1>5 DEF Exclusive, Under, ManagedAssumption

\* Without its timer stopped for a call, a reservation in memory has it.
LEMMA TendedFromDomains ==
    ASSUME TendedInv, NEW R,
           \/ /\ DOMAIN locks' = DOMAIN locks \ R
              /\ polled' = polled \ R /\ timed' = timed \ R
           \/ /\ DOMAIN locks' = DOMAIN locks \cup R
              /\ polled' = polled \cup R /\ timed' = timed \cup R,
           Exclusive' = {}, Exclusive \subseteq R
    PROVE  Tended'
BY DEF TendedInv, Tended

\* Beginning a call: the reservation it is about is untended, no other.
LEMMA BeginningsKeepInv ==
    ASSUME ManagedAssumption, TendedInv, NEW c \in Requests, NEW r \in Requests,
           BeginLock(c) \/ BeginChange(c, r) \/ BeginFree(c, r) \/ ChangeRefused(c, r)
    PROVE  TendedInv'
<1> USE DEF TendedInv
<1>1. CASE BeginLock(c)
  <2>1. c \in Requests /\ goal' = [goal EXCEPT ![c] = c]
    BY <1>1 DEF BeginLock, CallsApart
  <2>2. CallsApart' /\ Exclusive' = {}
    BY <1>1, <2>1, BeginsAlone DEF BeginLock, Parked
  <2>3. Exclusive = {}
    BY <1>1 DEF BeginLock, Exclusive, Running, Under
  <2> QED
    BY <1>1, <2>2, <2>3 DEF BeginLock, Tended, tendVars
<1>2. ASSUME BeginChange(c, r) \/ BeginFree(c, r)
      PROVE  TendedInv'
  <2>1. PICK stage \in {"balance", "writing"} :
            /\ Move(c, stage) /\ Running = {} /\ adapter = "open"
            /\ adapter' = adapter /\ strayed' = strayed
            /\ goal' = [goal EXCEPT ![c] = r]
            /\ Job[c] # "lock" /\ r \in DOMAIN locks /\ locks' = locks
            /\ polled' = polled \ {r} /\ timed' = timed \ {r}
    BY <1>2 DEF BeginChange, BeginFree
  <2>2. CallsApart' /\ Exclusive' \subseteq {r} /\ (c \notin strayed => Exclusive' = {r})
    BY <2>1, BeginsAlone, ZenonT(30) DEF Parked
  <2>3. Exclusive = {}
    BY <2>1 DEF Exclusive, Running, Under
  <2>4. c \notin strayed
    BY <2>1 DEF CallsApart
  <2> QED
    BY <2>1, <2>2, <2>3, <2>4 DEF Tended
<1>3. CASE ChangeRefused(c, r)
  <2>1. at' = [at EXCEPT ![c] = "over"] /\ goal' = [goal EXCEPT ![c] = c]
    BY <1>3 DEF ChangeRefused, Finish, Move
  <2>2. Running = {} /\ Exclusive = {} /\ adapter' = adapter /\ adapter = "open"
    BY <1>3 DEF ChangeRefused, Exclusive, Running, Under
  <2>3. \A d \in Requests : at'[d] \notin Parked
    BY <2>1, <2>2 DEF CallsApart, Running, Under, Parked, ManagedAssumption
  <2>4. Running' = {} /\ Exclusive' = {}
    BY <2>3 DEF Running, Exclusive, Under
  <2>5. CallsApart'
    <3>1. at' \in [Requests -> {"idle", "over"} \cup Parked]
      BY <2>1 DEF CallsApart
    <3>2. goal' \in [Requests -> Requests]
      BY <2>1 DEF CallsApart
    <3>3. \A d \in Requests : Job[d] = "lock" => goal'[d] = d
      BY <2>1 DEF CallsApart
    <3>4. strayed' = {}
      BY <1>3, <2>2 DEF ChangeRefused, Finish, CallsApart
    <3> QED
      BY <2>2, <2>4, <3>1, <3>2, <3>3, <3>4 DEF CallsApart
  <2>6. Track(r, locks[r])
    BY <1>3 DEF ChangeRefused
  <2> QED
    BY <2>2, <2>4, <2>5, <2>6, TrackDomain, TendedFromDomains
<1> QED
  BY <1>1, <1>2, <1>3

\* A call on its way: it fails with the reservation tended again, or writes.
LEMMA CallsKeepInv ==
    ASSUME ManagedAssumption, TendedInv, NEW c \in Requests,
           \/ BalanceCovers(c) \/ WriteRow(c) \/ CallFails(c)
           \/ ChangeMemory(c) \/ MemoryGone(c)
    PROVE  TendedInv'
<1> USE DEF TendedInv
<1>1. CASE BalanceCovers(c) \/ WriteRow(c)
  <2>1. PICK stage \in {"writing", "written"} :
            /\ Move(c, stage) /\ at[c] \in Parked
            /\ UNCHANGED <<adapter, goal, strayed, locks, polled, timed>>
    BY <1>1 DEF BalanceCovers, WriteRow, tendVars, Parked
  <2>2. Running' = Running /\ Exclusive' = Exclusive
    <3>1. \A d \in Requests : at'[d] \in Parked <=> at[d] \in Parked
      BY <2>1 DEF Move, CallsApart, Parked
    <3> QED
      BY <2>1, <3>1 DEF Running, Exclusive, Under
  <2> QED
    BY <2>1, <2>2 DEF CallsApart, Tended, Move, Parked
<1>2. CASE CallFails(c) \/ ChangeMemory(c) \/ MemoryGone(c)
  <2>1. c \in Running /\ Finish(c) /\ adapter' = adapter
    BY <1>2 DEF CallFails, ChangeMemory, MemoryGone, Running, Under, Parked,
                ManagedAssumption
  <2>2. CallsApart' /\ Exclusive' = {}
    BY <2>1, FinishLeavesNone
  <2>3. CASE Job[c] # "lock" /\ c \notin strayed
    <3>1. Exclusive = {goal[c]}
      BY <2>1, <2>3 DEF CallsApart, Running, Exclusive, Under, ManagedAssumption
    <3>2. Untrack({goal[c]}) \/ Track(goal[c], locks[goal[c]])
              \/ Track(goal[c], Draft(c))
      BY <1>2, <2>3 DEF CallFails, ChangeMemory, MemoryGone
    <3> QED
      BY <2>2, <3>1, <3>2, TrackDomain, UntrackDomain, TendedFromDomains
  <2>4. CASE ~(Job[c] # "lock" /\ c \notin strayed)
    <3>1. Exclusive = {}
      BY <2>1, <2>4 DEF CallsApart, Running, Exclusive, Under, ManagedAssumption
    <3>2. Track(goal[c], Draft(c)) \/ UNCHANGED <<locks, polled, timed>>
      BY <1>2, <2>4 DEF CallFails, ChangeMemory, MemoryGone, tendVars
    <3>3. CASE Track(goal[c], Draft(c))
      BY <2>2, <3>1, <3>3, TrackDomain, TendedFromDomains
    <3>4. CASE UNCHANGED <<locks, polled, timed>>
      BY <2>2, <3>1, <3>4 DEF Tended
    <3> QED
      BY <3>2, <3>3, <3>4
  <2> QED
    BY <2>3, <2>4
<1> QED
  BY <1>1, <1>2

\* Pollers, timers, the network and the world: no call changes under them.
LEMMA ReleasesKeepInv ==
    ASSUME ManagedAssumption, TendedInv, NEW r \in Requests,
           \/ Confirmed(r) \/ Expired(r) \/ PollingFails(r) \/ DeletionEnds(r)
           \/ TimePasses(r) \/ Settles(r) \/ NetworkDropped
    PROVE  TendedInv'
<1> USE DEF TendedInv
<1>1. UNCHANGED <<adapter, at, goal, strayed>>
  BY DEF Confirmed, Expired, Release, PollingFails, DeletionEnds, TimePasses,
         Settles, NetworkDropped, callVars
<1>2. CallsApart' /\ Exclusive' = Exclusive /\ Running' = Running
  BY <1>1 DEF CallsApart, Running, Exclusive, Under
<1>3. CASE Confirmed(r) \/ Expired(r)
  <2>1. Untrack({r}) /\ r \notin Exclusive
    BY <1>3 DEF Confirmed, Expired, Release, Tended
  <2>2. /\ DOMAIN locks' = DOMAIN locks \ {r}
        /\ polled' = polled \ {r} /\ timed' = timed \ {r}
    BY <2>1, UntrackDomain
  <2> QED
    BY <1>2, <2>1, <2>2 DEF Tended
<1>4. CASE PollingFails(r)
  BY <1>2, <1>4 DEF PollingFails, Tended
<1>5. CASE DeletionEnds(r) \/ TimePasses(r) \/ Settles(r)
  BY <1>2, <1>5 DEF DeletionEnds, TimePasses, Settles, tendVars, Tended
<1>6. CASE NetworkDropped
  <2>1. Untrack(DOMAIN locks) /\ Exclusive = {}
    BY <1>6 DEF NetworkDropped, Exclusive, Running, Under
  <2>2. DOMAIN locks' = {}
    BY <2>1 DEF Untrack, Restrict
  <2>3. polled' = {} /\ timed' = {}
    BY <2>1 DEF Untrack, Tended
  <2> QED
    BY <1>2, <2>1, <2>2, <2>3 DEF Tended
<1> QED
  BY <1>3, <1>4, <1>5, <1>6

\* Closing makes every running call stray; opening tends what it restores.
LEMMA OpeningsKeepInv ==
    ASSUME ManagedAssumption, TendedInv, ReadRecords \/ Restore \/ CloseAdapter
    PROVE  TendedInv'
<1> USE DEF TendedInv
<1>1. CASE ReadRecords
  <2>1. UNCHANGED <<at, goal, strayed, locks, polled, timed>>
    BY <1>1 DEF ReadRecords, callVars, tendVars
  <2> QED
    BY <1>1, <2>1 DEF ReadRecords, CallsApart, Running, Exclusive, Under, Tended
<1>2. CASE Restore
  <2>1. UNCHANGED <<at, goal, strayed>> /\ adapter = "restoring"
    BY <1>2 DEF Restore, callVars
  <2>2. CallsApart' /\ Exclusive' = {}
    BY <1>2, <2>1 DEF Restore, CallsApart, Running, Exclusive, Under
  <2>3. polled' = DOMAIN locks' /\ timed' = DOMAIN locks'
    BY <1>2 DEF Restore, Restrict
  <2> QED
    BY <2>2, <2>3 DEF Tended
<1>3. CASE CloseAdapter
  <2>1. UNCHANGED <<at, goal>> /\ strayed' = strayed \cup Running /\ adapter' = "closed"
    BY <1>3 DEF CloseAdapter
  <2>2. CallsApart' /\ Exclusive' = {}
    BY <2>1 DEF CallsApart, Running, Exclusive, Under
  <2>3. DOMAIN locks' = {} /\ polled' = {} /\ timed' = {}
    BY <1>3 DEF CloseAdapter, NoLocks
  <2> QED
    BY <2>2, <2>3 DEF Tended
<1> QED
  BY <1>1, <1>2, <1>3

\* One step, whoever takes it, keeps the calls apart and memory tended.
LEMMA TendedStep ==
  ASSUME ManagedAssumption, TendedInv, [ManagedNext]_managedVars
  PROVE  TendedInv'
<1>1. CASE ManagedNext
  <2>1. ASSUME NEW c \in Requests,
               \/ BalanceCovers(c) \/ WriteRow(c) \/ CallFails(c)
               \/ ChangeMemory(c) \/ MemoryGone(c)
        PROVE  TendedInv'
    BY <2>1, CallsKeepInv, ManagedAssumption
  <2>2. ASSUME NEW c \in Requests, NEW r \in Requests,
               BeginLock(c) \/ BeginChange(c, r) \/ BeginFree(c, r)
                   \/ ChangeRefused(c, r)
        PROVE  TendedInv'
    BY <2>2, BeginningsKeepInv, ManagedAssumption
  <2>3. ASSUME NEW r \in Requests,
               \/ Confirmed(r) \/ Expired(r) \/ PollingFails(r)
               \/ DeletionEnds(r) \/ TimePasses(r) \/ Settles(r)
        PROVE  TendedInv'
    BY <2>3, ReleasesKeepInv, ManagedAssumption
  <2>4. CASE NetworkDropped
    <3>1. CASE Requests = {}
      BY <2>4, <3>1 DEF NetworkDropped, TendedInv, CallsApart, Tended, Exclusive,
                        Running, Under, Untrack, Restrict, callVars
    <3>2. CASE Requests # {}
      BY <2>4, <3>2, ReleasesKeepInv, ManagedAssumption
    <3> QED
      BY <3>1, <3>2
  <2>5. CASE ReadRecords \/ Restore \/ CloseAdapter
    BY <2>5, OpeningsKeepInv, ManagedAssumption
  <2> QED
    BY <1>1, <2>1, <2>2, <2>3, <2>4, <2>5 DEF ManagedNext
<1>2. CASE UNCHANGED managedVars
  BY <1>2 DEF managedVars, tendVars, callVars, TendedInv, CallsApart, Tended,
              Running, Exclusive, Under
<1> QED
  BY <1>1, <1>2

\* TendedInv is an invariant of the manager.
THEOREM TendedInvariance == ManagedSpec => []TendedInv
<1>1. ManagedInit => TendedInv
  <2> SUFFICES ASSUME ManagedInit
               PROVE  TendedInv
    OBVIOUS
  <2>1. Running = {} /\ Exclusive = {}
    BY DEF ManagedInit, Running, Exclusive, Under, Parked
  <2>2. CallsApart
    BY <2>1 DEF ManagedInit, CallsApart
  <2>3. Tended
    BY <2>1 DEF ManagedInit, Tended, NoLocks
  <2> QED
    BY <2>2, <2>3 DEF TendedInv
<1>2. TendedInv /\ [ManagedNext]_managedVars => TendedInv'
  BY TendedStep, ManagedAssumption
<1> QED
  BY <1>1, <1>2, PTL DEF ManagedSpec

\* For any number of calls: a reservation in memory has its timer, and no
\* poller or timer runs on one that a call is changing.
THEOREM LocksAreTended == ManagedSpec => []Tended
<1>1. TendedInv => Tended
  BY DEF TendedInv
<1> QED
  BY <1>1, TendedInvariance, PTL

-----------------------------------------------------------------------------
(* Tables of reservations                                                  *)

\* A table whose reservations are for different deploys, and whose unpaid ones
\* the funds cover.
Fits(t, paid, funds) == OneEach(t) /\ Owed(t, DOMAIN t, paid) <= funds

\* The reservation that c builds for g beside the others of t: no other is for
\* its deploy, and the funds cover it with them.
Fresh(c, g, t) == \A r \in DOMAIN t \ {g} : t[r].deploy # ForDeploy[c]
Covered(c, g, t, paid, funds) ==
    Owed(t, DOMAIN t \ {g}, paid) + Pending[c] <= funds

\* The amounts of a table are naturals, and its sums those of SumTheorems.
LEMMA TableTypes ==
    ASSUME ManagedAssumption, NEW t, IsLocks(t), NEW R \in SUBSET DOMAIN t
    PROVE  /\ IsFiniteSet(R)
           /\ \A r \in R : t[r].amount \in Nat
           /\ Locked(t, R) \in Nat
<1>1. IsFiniteSet(R)
    BY FS_Subset DEF IsLocks, ManagedAssumption
<1>2. \A r \in R : t[r].amount \in Nat
    BY DEF IsLocks, Drafts, Draft, ManagedAssumption
<1>. DEFINE f == [r \in R |-> t[r].amount]
<1>3. \A r \in R : f[r] \in Nat
    BY <1>2
<1>. HIDE DEF f
<1>4. SumFunctionOnSet(f, R) \in Nat
    BY <1>1, <1>3, SumType
<1>. QED
    BY <1>1, <1>2, <1>4 DEF f, Locked

\* Fewer of the same reservations lock no more.
LEMMA LockedShrinks ==
    ASSUME ManagedAssumption, NEW t, IsLocks(t), NEW S \in SUBSET DOMAIN t,
           NEW u, NEW R \in SUBSET S, \A r \in R : u[r] = t[r]
    PROVE  Locked(u, R) <= Locked(t, S)
<1>. DEFINE f == [r \in R |-> u[r].amount]
            g == [r \in S |-> t[r].amount]
<1>1. /\ IsFiniteSet(S) /\ \A r \in S : g[r] \in Nat
      /\ IsFiniteSet(R) /\ \A r \in R : g[r] \in Nat /\ f[r] = g[r]
    BY TableTypes
<1>. HIDE DEF f, g
<1>2. SumFunctionOnSet(g, R) <= SumFunctionOnSet(g, S)
    BY <1>1, SumMonotone
<1>3. SumFunctionOnSet(g, R) = SumFunctionOnSet(f, R)
    BY <1>1, SumAgrees
<1>. QED
    BY <1>2, <1>3 DEF f, g, Locked

\* One reservation and the others lock what all lock.
LEMMA LockedSplits ==
    ASSUME ManagedAssumption, NEW t, IsLocks(t), NEW S \in SUBSET DOMAIN t,
           NEW r \in S
    PROVE  Locked(t, S) = t[r].amount + Locked(t, S \ {r})
<1>. DEFINE g == [x \in S |-> t[x].amount]
            h == [x \in S \ {r} |-> t[x].amount]
<1>1. /\ IsFiniteSet(S) /\ IsFiniteSet(S \ {r}) /\ g[r] = t[r].amount
      /\ \A x \in S : g[x] \in Nat
      /\ \A x \in S \ {r} : g[x] = h[x]
    BY TableTypes, FS_Subset
<1>. HIDE DEF g, h
<1>2. SumFunctionOnSet(g, S) = t[r].amount + SumFunctionOnSet(g, S \ {r})
    BY <1>1, SumSplit
<1>3. SumFunctionOnSet(g, S \ {r}) = SumFunctionOnSet(h, S \ {r})
    BY <1>1, SumAgrees
<1>. QED
    BY <1>2, <1>3 DEF g, h, Locked

\* What is owed shrinks with the table and with every deploy paid.
LEMMA OwedShrinks ==
    ASSUME ManagedAssumption, NEW t, IsLocks(t), NEW S \in SUBSET DOMAIN t,
           NEW u, NEW R \in SUBSET S, \A r \in R : u[r] = t[r],
           NEW P, NEW Q, P \subseteq Q
    PROVE  /\ Owed(t, S, P) \in Nat
           /\ Owed(u, R, Q) \in Nat
           /\ Owed(u, R, Q) <= Owed(t, S, P)
<1>. DEFINE V == {r \in S : t[r].deploy \notin P}
            W == {r \in R : u[r].deploy \notin Q}
<1>1. V \in SUBSET DOMAIN t /\ W \in SUBSET V /\ \A r \in W : u[r] = t[r]
    OBVIOUS
<1>2. Locked(u, W) <= Locked(t, V) /\ Locked(t, V) \in Nat
    BY <1>1, LockedShrinks, TableTypes
<1>3. Locked(u, W) = Locked(t, W)
    <2>1. [r \in W |-> u[r].amount] = [r \in W |-> t[r].amount]
        BY <1>1
    <2>. QED
        BY <2>1 DEF Locked
<1>4. Locked(t, W) \in Nat
    BY <1>1, TableTypes
<1>. QED
    BY <1>2, <1>3, <1>4 DEF Owed

\* A table that fits does so with fewer of its reservations, and once more
\* deploys are paid.
LEMMA FitsShrinks ==
    ASSUME ManagedAssumption, NEW t, IsLocks(t), NEW P, NEW n \in Int, Fits(t, P, n),
           NEW u, DOMAIN u \subseteq DOMAIN t, \A r \in DOMAIN u : u[r] = t[r],
           NEW Q, P \subseteq Q
    PROVE  Fits(u, Q, n)
<1>1. OneEach(u)
    BY DEF Fits, OneEach
<1>2. /\ Owed(t, DOMAIN t, P) \in Nat /\ Owed(u, DOMAIN u, Q) \in Nat
      /\ Owed(u, DOMAIN u, Q) <= Owed(t, DOMAIN t, P)
    BY OwedShrinks
<1>. QED
    BY <1>1, <1>2 DEF Fits

\* What is covered beside a table is so beside fewer of its reservations.
LEMMA CoveredShrinks ==
    ASSUME ManagedAssumption, NEW t, IsLocks(t), NEW P, NEW n \in Int,
           NEW c \in Requests, NEW g, Covered(c, g, t, P, n),
           NEW u, DOMAIN u \ {g} \subseteq DOMAIN t \ {g},
           \A r \in DOMAIN u \ {g} : u[r] = t[r],
           NEW Q, P \subseteq Q
    PROVE  Covered(c, g, u, Q, n)
<1>1. /\ Owed(t, DOMAIN t \ {g}, P) \in Nat /\ Owed(u, DOMAIN u \ {g}, Q) \in Nat
      /\ Owed(u, DOMAIN u \ {g}, Q) <= Owed(t, DOMAIN t \ {g}, P)
    BY OwedShrinks
<1>2. Pending[c] \in Nat
    BY DEF ManagedAssumption
<1>. QED
    BY <1>1, <1>2 DEF Covered

\* What is ready fits once it is put in its place.
LEMMA ReadyFits ==
    ASSUME ManagedAssumption, NEW t, IsLocks(t), NEW P, NEW n \in Int, Fits(t, P, n),
           NEW c \in Requests, NEW g \in Requests, Fresh(c, g, t),
           ForDeploy[c] \notin P => Covered(c, g, t, P, n)
    PROVE  Fits(Put(t, g, Draft(c)), P, n)
<1>. DEFINE u == Put(t, g, Draft(c))
            R == {r \in DOMAIN u : u[r].deploy \notin P}
            others == DOMAIN t \ {g}
<1>1. /\ IsLocks(u) /\ DOMAIN u = others \cup {g}
      /\ u[g] = Draft(c) /\ \A r \in others : u[r] = t[r]
    BY DEF IsLocks, Put, Drafts
<1>2. OneEach(u)
    BY <1>1 DEF Fits, OneEach, Fresh, Draft
<1>3. Owed(u, others, P) \in Nat /\ Owed(u, others, P) <= Owed(t, others, P)
      /\ Owed(t, others, P) <= Owed(t, DOMAIN t, P) /\ Owed(t, others, P) \in Nat
      /\ Owed(t, DOMAIN t, P) \in Nat
    BY <1>1, OwedShrinks
<1>. HIDE DEF u
<1>4. CASE ForDeploy[c] \in P
    <2>1. R = {r \in others : u[r].deploy \notin P}
        BY <1>1, <1>4 DEF Draft
    <2>2. Owed(u, DOMAIN u, P) = Owed(u, others, P)
        BY <2>1, Zenon DEF Owed
    <2>. QED
        BY <1>2, <1>3, <2>2 DEF Fits, u
<1>5. CASE ForDeploy[c] \notin P
    <2>1. g \in R /\ R \ {g} = {r \in others : u[r].deploy \notin P}
        BY <1>1, <1>5 DEF Draft
    <2>2. R \in SUBSET DOMAIN u
        OBVIOUS
    <2>3. Locked(u, R) = u[g].amount + Locked(u, R \ {g})
        BY <1>1, <2>1, <2>2, LockedSplits
    <2>4. Locked(u, R) = Owed(u, DOMAIN u, P)
        BY DEF Owed
    <2>5. Locked(u, R \ {g}) = Owed(u, others, P)
        BY <2>1, Zenon DEF Owed
    <2>6. u[g].amount = Pending[c] /\ Pending[c] \in Nat
        BY <1>1 DEF Draft, ManagedAssumption
    <2>7. Owed(u, DOMAIN u, P) <= n
        BY <1>3, <1>5, <2>3, <2>4, <2>5, <2>6 DEF Covered
    <2>. QED
        BY <1>2, <2>7 DEF Fits, u
<1>. QED
    BY <1>4, <1>5

\* What is paid for a reservation is what it locked.
LEMMA OwedPaid ==
    ASSUME ManagedAssumption, NEW t, IsLocks(t), NEW S \in SUBSET DOMAIN t,
           NEW P, NEW r \in S, t[r].deploy \notin P
    PROVE  /\ Owed(t, S, P \cup {t[r].deploy}) + t[r].amount <= Owed(t, S, P)
           /\ Owed(t, S, P \cup {t[r].deploy}) \in Nat
           /\ Owed(t, S, P) \in Nat
           /\ t[r].amount \in Nat
<1>. DEFINE V == {x \in S : t[x].deploy \notin P}
            W == {x \in S : t[x].deploy \notin P \cup {t[r].deploy}}
<1>1. V \in SUBSET DOMAIN t /\ W \in SUBSET (V \ {r}) /\ r \in V
    OBVIOUS
<1>2. Locked(t, V) = t[r].amount + Locked(t, V \ {r})
    BY <1>1, LockedSplits
<1>3. Locked(t, W) <= Locked(t, V \ {r})
    BY <1>1, LockedShrinks
<1>4. /\ Locked(t, V) \in Nat /\ Locked(t, W) \in Nat
      /\ Locked(t, V \ {r}) \in Nat /\ t[r].amount \in Nat
    BY <1>1, TableTypes
<1>5. Owed(t, S, P) = Locked(t, V) /\ Owed(t, S, P \cup {t[r].deploy}) = Locked(t, W)
    BY DEF Owed
<1>. QED
    BY <1>2, <1>3, <1>4, <1>5

\* A table fits after the funds paid for one of its deploys.
LEMMA FitsPaid ==
    ASSUME ManagedAssumption, NEW t, IsLocks(t), NEW P, NEW n \in Int, Fits(t, P, n),
           NEW r \in DOMAIN t, t[r].deploy \notin P
    PROVE  Fits(t, P \cup {t[r].deploy}, n - t[r].amount)
<1>1. /\ Owed(t, DOMAIN t, P \cup {t[r].deploy}) + t[r].amount <= Owed(t, DOMAIN t, P)
      /\ Owed(t, DOMAIN t, P \cup {t[r].deploy}) \in Nat
      /\ Owed(t, DOMAIN t, P) \in Nat /\ t[r].amount \in Nat
    BY OwedPaid
<1>. QED
    BY <1>1 DEF Fits

\* So does what is covered beside it, if another reservation was paid for.
LEMMA CoveredPaid ==
    ASSUME ManagedAssumption, NEW t, IsLocks(t), NEW P, NEW n \in Int,
           NEW c \in Requests, NEW g, Covered(c, g, t, P, n),
           NEW r \in DOMAIN t \ {g}, t[r].deploy \notin P
    PROVE  Covered(c, g, t, P \cup {t[r].deploy}, n - t[r].amount)
<1>. DEFINE S == DOMAIN t \ {g}
<1>1. /\ Owed(t, S, P \cup {t[r].deploy}) + t[r].amount <= Owed(t, S, P)
      /\ Owed(t, S, P \cup {t[r].deploy}) \in Nat
      /\ Owed(t, S, P) \in Nat /\ t[r].amount \in Nat
    BY OwedPaid
<1>2. Pending[c] \in Nat
    BY DEF ManagedAssumption
<1>. QED
    BY <1>1, <1>2 DEF Covered


-----------------------------------------------------------------------------
(* Memory and storage                                                      *)

BookTypes ==
    /\ ManagedTypeOK
    /\ counted \in [Requests -> Int]
    /\ remote \in Int

\* The records that stay if every deletion under way succeeds.
Book == Restrict(rows, DOMAIN rows \ deleting)

\* A reservation has the name of the call that added it, which has written it
\* and, once it is in memory or given up, is over.
NamesTell ==
    /\ \A r \in DOMAIN locks \cup DOMAIN fetchedRows \cup deleting :
          Job[r] = "lock" /\ at[r] = "over"
    /\ \A r \in DOMAIN rows : Job[r] = "lock" /\ at[r] \in {"written", "over"}

\* What c builds fits beside the others of t: while the balance is asked for,
\* under the sum it will be compared with, and then under the balance.
Ready(c, t) ==
    /\ Fresh(c, goal[c], t)
    /\ at[c] = "balance" => Covered(c, goal[c], t, settled, counted[c])
    /\ at[c] \in {"writing", "written"} /\ ForDeploy[c] \notin settled
           => Covered(c, goal[c], t, settled, remote)

\* How far a running call of the open adapter has changed the record.
RecordOf(c) ==
    IF at[c] # "written"
    THEN Job[c] # "lock" =>
            goal[c] \in DOMAIN rows /\ rows[goal[c]] = locks[goal[c]]
    ELSE IF Job[c] = "free" THEN goal[c] \notin DOMAIN rows
    ELSE goal[c] \in DOMAIN rows /\ rows[goal[c]] = Draft(c)

OpenAgrees ==
    /\ strayed = {}
    /\ deleting \cap DOMAIN locks = {}
    /\ Fits(locks, settled, remote)
    /\ DOMAIN rows \subseteq DOMAIN locks \cup deleting \cup {goal[c] : c \in Running}
    /\ \A r \in DOMAIN locks \ Exclusive : r \in DOMAIN rows /\ rows[r] = locks[r]
    /\ \A c \in Running : RecordOf(c) /\ (Job[c] # "free" => Ready(c, locks))

RestoringAgrees ==
    /\ fetchedRows = rows /\ Running = {} /\ deleting = {}
    /\ Fits(rows, settled, remote)

ClosedAgrees ==
    /\ Fits(Book, settled, remote)
    /\ \A c \in Running :
          /\ Job[c] # "lock" => goal[c] \notin deleting
          /\ Job[c] # "free" /\ at[c] # "written" => Ready(c, Book)

\* The inductive invariant behind LocksAgree: memory and storage tell the same
\* story up to the call that is running and the deletions under way.
Agreement ==
    ~missed =>
        /\ NamesTell
        /\ adapter = "open" => OpenAgrees
        /\ adapter = "restoring" => RestoringAgrees
        /\ adapter = "closed" => ClosedAgrees

BookInv ==
    /\ TendedInv
    /\ BookTypes
    /\ adapter # "open" => locks = NoLocks
    /\ Agreement

\* Tables stay tables under the changes the manager makes to them.
LEMMA TableChanges ==
    ASSUME NEW t, IsLocks(t)
    PROVE  /\ \A R : IsLocks(Restrict(t, DOMAIN t \ R))
           /\ \A R \in SUBSET DOMAIN t : IsLocks(Restrict(t, R))
           /\ \A c, g \in Requests : IsLocks(Put(t, g, Draft(c)))
           /\ IsLocks(NoLocks)
BY DEF IsLocks, Restrict, Put, Drafts, NoLocks

\* Tracking keeps memory a table, and deletes reservations only.
LEMMA TrackTypes ==
    ASSUME IsLocks(locks), deleting \subseteq Requests,
           NEW r \in Requests, NEW rec \in Drafts, Track(r, rec)
    PROVE  IsLocks(locks') /\ deleting' \subseteq Requests
<1>1. CASE rec.by \in overdue
    BY <1>1, TableChanges DEF Track, Untrack
<1>2. CASE rec.by \notin overdue
    <2>1. locks' = Put(locks, r, rec)
        BY <1>2 DEF Track
    <2>2. IsLocks(locks')
        BY <2>1 DEF IsLocks, Put
    <2>. QED
        BY <1>2, <2>2 DEF Track
<1>. QED
    BY <1>1, <1>2

\* Ending a call keeps its variables in their types.
LEMMA FinishTypes ==
    ASSUME BookTypes, NEW c \in Requests, Finish(c)
    PROVE  /\ at' \in [Requests -> {"idle", "over"} \cup Parked]
           /\ goal' \in [Requests -> Requests]
           /\ counted' \in [Requests -> Int]
           /\ strayed' \subseteq Requests
BY DEF BookTypes, ManagedTypeOK, Finish, Move

\* What memory locks is a natural.
LEMMA ReservedIsNat ==
    ASSUME ManagedAssumption, BookTypes
    PROVE  Reserved \in Nat
BY TableTypes DEF BookTypes, ManagedTypeOK, Reserved

\* Every step keeps every variable in its type.
LEMMA CallsKeepTypes ==
    ASSUME ManagedAssumption, BookTypes, TendedInv, NEW c \in Requests,
           NEW r \in Requests,
           \/ BeginLock(c) \/ BeginChange(c, r) \/ ChangeRefused(c, r)
           \/ BeginFree(c, r) \/ BalanceCovers(c) \/ WriteRow(c)
           \/ CallFails(c) \/ ChangeMemory(c) \/ MemoryGone(c)
    PROVE  BookTypes'
<1>. USE DEF BookTypes, ManagedTypeOK
<1>1. CASE BeginLock(c)
    <2>1. Reserved + Pending[c] \in Int
        BY ReservedIsNat DEF ManagedAssumption
    <2>. QED
        BY <1>1, <2>1 DEF BeginLock, Move, Parked, worldVars
<1>2. CASE BeginChange(c, r)
    <2>1. Reserved + Pending[c] - locks[r].amount \in Int
        <3>1. locks[r].amount \in Nat
            BY <1>2, TableTypes DEF BeginChange
        <3>. QED
            BY <3>1, ReservedIsNat DEF ManagedAssumption
    <2>. QED
        BY <1>2, <2>1 DEF BeginChange, Move, Parked, worldVars
<1>3. CASE ChangeRefused(c, r)
    <2>1. locks[r] \in Drafts
        BY <1>3 DEF ChangeRefused, IsLocks
    <2>2. IsLocks(locks') /\ deleting' \subseteq Requests
        BY <1>3, <2>1, TrackTypes DEF ChangeRefused
    <2>. QED
        BY <1>3, <2>2, FinishTypes DEF ChangeRefused, worldVars
<1>4. CASE BeginFree(c, r) \/ BalanceCovers(c)
    BY <1>4 DEF BeginFree, BalanceCovers, Move, Parked, worldVars
<1>5. CASE WriteRow(c)
    <2>1. IsLocks(rows')
        BY <1>5, TableChanges DEF WriteRow
    <2>. QED
        BY <1>5, <2>1 DEF WriteRow, Move, Parked, worldVars
<1>6. CASE CallFails(c)
    <2>1. IsLocks(locks') /\ deleting' \subseteq Requests
        <3>1. CASE Job[c] # "lock" /\ c \notin strayed
            <4>1. goal[c] \in DOMAIN locks
                BY <1>6, <3>1 DEF CallFails, TendedInv, Tended, Exclusive, Under, Parked
            <4>2. locks[goal[c]] \in Drafts
                BY <4>1 DEF IsLocks
            <4>. QED
                BY <1>6, <3>1, <4>2, TrackTypes DEF CallFails
        <3>2. CASE ~(Job[c] # "lock" /\ c \notin strayed)
            BY <1>6, <3>2 DEF CallFails
        <3>. QED
            BY <3>1, <3>2
    <2>. QED
        BY <1>6, <2>1, FinishTypes DEF CallFails, worldVars
<1>7. CASE ChangeMemory(c)
    <2>1. IsLocks(locks') /\ deleting' \subseteq Requests
        <3>1. CASE Job[c] = "free"
            BY <1>7, <3>1, TableChanges DEF ChangeMemory, Untrack
        <3>2. CASE Job[c] # "free"
            <4>1. Draft(c) \in Drafts
                BY DEF Drafts
            <4>. QED
                BY <1>7, <3>2, <4>1, TrackTypes DEF ChangeMemory
        <3>. QED
            BY <3>1, <3>2
    <2>. QED
        BY <1>7, <2>1, FinishTypes DEF ChangeMemory, worldVars
<1>8. CASE MemoryGone(c)
    BY <1>8, FinishTypes DEF MemoryGone, worldVars
<1>. QED
    BY <1>1, <1>2, <1>3, <1>4, <1>5, <1>6, <1>7, <1>8

\* So do pollers, timers, the world, openings and closings.
LEMMA OthersKeepTypes ==
    ASSUME ManagedAssumption, BookTypes, TendedInv,
           \/ \E r \in Requests :
                 \/ Confirmed(r) \/ Expired(r) \/ PollingFails(r) \/ DeletionEnds(r)
                 \/ TimePasses(r) \/ Settles(r)
           \/ NetworkDropped \/ ReadRecords \/ Restore \/ CloseAdapter
    PROVE  BookTypes'
<1>. USE DEF BookTypes, ManagedTypeOK
<1>1. ASSUME NEW r \in Requests, Confirmed(r) \/ Expired(r)
      PROVE  BookTypes'
    BY <1>1, TableChanges DEF Confirmed, Expired, Release, Untrack, callVars, worldVars
<1>2. ASSUME NEW r \in Requests, PollingFails(r) \/ TimePasses(r)
      PROVE  BookTypes'
    BY <1>2 DEF PollingFails, TimePasses, callVars, worldVars
<1>3. ASSUME NEW r \in Requests, DeletionEnds(r)
      PROVE  BookTypes'
    BY <1>3, TableChanges DEF DeletionEnds, callVars, worldVars
<1>4. ASSUME NEW r \in Requests, Settles(r)
      PROVE  BookTypes'
    BY <1>4 DEF Settles, callVars, ManagedAssumption
<1>5. CASE NetworkDropped
    BY <1>5, TableChanges DEF NetworkDropped, Untrack, callVars, worldVars
<1>6. CASE ReadRecords
    BY <1>6 DEF ReadRecords, callVars, worldVars
<1>7. CASE Restore
    BY <1>7, TableChanges DEF Restore, callVars, worldVars
<1>8. CASE CloseAdapter
    BY <1>8, TableChanges DEF CloseAdapter, Running, Under, worldVars
<1>. QED
    BY <1>1, <1>2, <1>3, <1>4, <1>5, <1>6, <1>7, <1>8


-----------------------------------------------------------------------------
(* Memory and storage: the steps                                           *)

\* A parked call is the only one, and what it is about is exclusive to it.
LEMMA RunsAlone ==
    ASSUME ManagedAssumption, CallsApart, NEW c \in Requests, at[c] \in Parked
    PROVE  /\ Running = {c}
           /\ Exclusive = IF Job[c] # "lock" /\ c \notin strayed THEN {goal[c]} ELSE {}
           /\ adapter = "open" \/ c \in strayed
<1>1. c \in Running
    BY DEF Running, Under, ManagedAssumption
<1>2. Running = {c}
    BY <1>1 DEF CallsApart
<1>3. \A d \in Requests : at[d] \in Parked => d = c
    BY <1>2 DEF Running, Under, ManagedAssumption
<1>4. Under({"change", "free"}) = IF Job[c] # "lock" THEN {c} ELSE {}
    BY <1>3 DEF Under, ManagedAssumption
<1>. QED
    BY <1>1, <1>2, <1>4 DEF Exclusive, CallsApart

\* A call that begins leaves memory and storage as they agree.
LEMMA BeginningAgrees ==
    ASSUME ManagedAssumption, BookInv, ~missed, NEW c \in Requests, NEW r \in Requests,
           NEW stage \in {"balance", "writing"},
           adapter = "open", adapter' = adapter, Running = {}, at[c] = "idle",
           UNCHANGED <<locks, fetchedRows, rows, deleting, strayed, settled, remote>>,
           at' = [at EXCEPT ![c] = stage], goal' = [goal EXCEPT ![c] = r],
           Job[c] = "lock" => r = c, Job[c] # "lock" => r \in DOMAIN locks,
           Job[c] # "free" => Ready(c, locks)'
    PROVE  Agreement'
<1>1. NamesTell /\ OpenAgrees
    BY DEF BookInv, Agreement
<1>2. at'[c] = stage /\ goal'[c] = r /\ \A d \in Requests \ {c} : at'[d] = at[d]
    BY DEF BookInv, BookTypes, ManagedTypeOK
<1>3. Running' = {c}
    <2>1. \A d \in Requests : at[d] \notin Parked
        BY DEF Running, Under, ManagedAssumption
    <2>2. \A d \in Requests : at'[d] \in Parked <=> d = c
        BY <1>2, <2>1 DEF Parked
    <2>. QED
        BY <2>2 DEF Running, Under, ManagedAssumption
<1>4. Exclusive = {} /\ strayed = {}
    BY <1>1 DEF Exclusive, Running, Under, OpenAgrees
<1>5. NamesTell'
    BY <1>1, <1>2 DEF NamesTell
<1>6. RecordOf(c)'
    BY <1>1, <1>2, <1>4 DEF RecordOf, OpenAgrees
<1>7. OpenAgrees'
    BY <1>1, <1>3, <1>4, <1>6 DEF OpenAgrees
<1>. QED
    BY <1>5, <1>7 DEF Agreement

\* What the balance will be compared with covers what c builds and the others.
LEMMA CountedCovers ==
    ASSUME ManagedAssumption, BookTypes, NEW c \in Requests,
           NEW g, NEW n \in Int,
           IF g \in DOMAIN locks THEN n = Reserved + Pending[c] - locks[g].amount
           ELSE n = Reserved + Pending[c]
    PROVE  Covered(c, g, locks, settled, n)
<1>. DEFINE S == DOMAIN locks \ {g}
            V == {r \in S : locks[r].deploy \notin settled}
<1>1. IsLocks(locks) /\ Pending[c] \in Nat
    BY DEF BookTypes, ManagedTypeOK, ManagedAssumption
<1>2. V \in SUBSET S /\ S \in SUBSET DOMAIN locks
    OBVIOUS
<1>3. Locked(locks, V) <= Locked(locks, S)
    BY <1>1, <1>2, LockedShrinks
<1>4. Locked(locks, V) \in Nat /\ Locked(locks, S) \in Nat /\ Reserved \in Nat
    BY <1>1, <1>2, TableTypes, ReservedIsNat
<1>5. Owed(locks, S, settled) = Locked(locks, V)
    BY DEF Owed
<1>6. CASE g \in DOMAIN locks
    <2>1. Reserved = locks[g].amount + Locked(locks, S)
        BY <1>1, <1>6, LockedSplits DEF Reserved
    <2>2. locks[g].amount \in Nat
        BY <1>1, <1>6, TableTypes
    <2>. QED
        BY <1>1, <1>3, <1>4, <1>5, <1>6, <2>1, <2>2 DEF Covered
<1>7. CASE g \notin DOMAIN locks
    <2>1. Locked(locks, S) <= Reserved
        BY <1>1, <1>2, LockedShrinks DEF Reserved
    <2>. QED
        BY <1>1, <1>3, <1>4, <1>5, <1>7, <2>1 DEF Covered
<1>. QED
    BY <1>6, <1>7

\* The calls that begin: what they count covers what they will build.
LEMMA BeginningsKeepBook ==
    ASSUME ManagedAssumption, BookInv, ~missed, NEW c \in Requests, NEW r \in Requests,
           BeginLock(c) \/ BeginChange(c, r) \/ BeginFree(c, r)
    PROVE  Agreement'
<1>. USE DEF Move, worldVars
<1>1. /\ at \in [Requests -> {"idle", "over"} \cup Parked]
      /\ counted \in [Requests -> Int] /\ goal \in [Requests -> Requests]
      /\ BookTypes
    BY DEF BookInv, BookTypes, ManagedTypeOK
<1>2. CASE BeginLock(c)
    <2>1. goal[c] = c /\ goal' = [goal EXCEPT ![c] = c]
        BY <1>1, <1>2 DEF BeginLock, BookInv, TendedInv, CallsApart
    <2>2. NamesTell /\ c \notin DOMAIN locks
        BY <1>2 DEF BeginLock, BookInv, Agreement, NamesTell
    <2>3. counted'[c] = Reserved + Pending[c] /\ counted'[c] \in Int /\ at'[c] = "balance"
        BY <1>1, <1>2, ReservedIsNat DEF BeginLock, ManagedAssumption
    <2>4. Covered(c, c, locks, settled, counted'[c])
        BY <1>1, <2>2, <2>3, CountedCovers
    <2>5. Fresh(c, c, locks)
        BY <1>2 DEF BeginLock, UniqueDeploy, Fresh
    <2>6. Ready(c, locks)'
        BY <1>2, <2>1, <2>3, <2>4, <2>5 DEF BeginLock, Ready
    <2>. QED
        BY <1>2, <2>1, <2>6, BeginningAgrees DEF BeginLock
<1>3. CASE BeginChange(c, r)
    <2>1. r \in DOMAIN locks /\ locks[r].amount \in Int /\ goal'[c] = r
        BY <1>1, <1>3, TableTypes DEF BeginChange, BookTypes, ManagedTypeOK
    <2>3. /\ counted'[c] = Reserved + Pending[c] - locks[r].amount
          /\ counted'[c] \in Int /\ at'[c] = "balance"
        BY <1>1, <1>3, <2>1, ReservedIsNat DEF BeginChange, ManagedAssumption
    <2>4. Covered(c, r, locks, settled, counted'[c])
        BY <1>1, <2>1, <2>3, CountedCovers
    <2>5. Fresh(c, r, locks)
        BY <1>3 DEF BeginChange, UniqueDeploy, Fresh
    <2>6. Ready(c, locks)'
        BY <1>3, <2>1, <2>3, <2>4, <2>5 DEF BeginChange, Ready
    <2>. QED
        BY <1>3, <2>1, <2>6, BeginningAgrees DEF BeginChange
<1>4. CASE BeginFree(c, r)
    BY <1>4, BeginningAgrees DEF BeginFree
<1>. QED
    BY <1>2, <1>3, <1>4

\* Tracking a reservation puts it into memory, or starts its deletion.
LEMMA TrackOutcome ==
    ASSUME NEW r, NEW rec, Track(r, rec)
    PROVE  \/ /\ DOMAIN locks' = DOMAIN locks \ {r}
              /\ \A x \in DOMAIN locks' : locks'[x] = locks[x]
              /\ deleting' = deleting \cup {r}
           \/ locks' = Put(locks, r, rec) /\ deleting' = deleting
BY DEF Track, Untrack, Restrict

\* A call of the open adapter that ends leaves memory and storage in agreement
\* if the reservation it was about is gone from both, or is in both as it was
\* built.
LEMMA EndingAgrees ==
    ASSUME ManagedAssumption, BookInv, BookTypes', ~missed, missed' = missed,
           NEW c \in Requests, NEW g \in Requests,
           adapter = "open", adapter' = adapter, Running \subseteq {c},
           Running' = {}, Exclusive' = {}, Exclusive \subseteq {g},
           \A d \in Running : goal[d] = g,
           at' = [at EXCEPT ![c] = "over"], strayed' = strayed \ {c},
           UNCHANGED <<fetchedRows, rows, settled, remote>>,
           g = c \/ g \in DOMAIN locks, g = c => Job[c] = "lock",
           \/ /\ DOMAIN locks' = DOMAIN locks \ {g}
              /\ \A x \in DOMAIN locks' : locks'[x] = locks[x]
              /\ \/ deleting' = deleting \cup {g}
                 \/ deleting' = deleting /\ g \notin DOMAIN rows
           \/ /\ g \in DOMAIN rows
              /\ locks' = Put(locks, g, rows[g]) /\ deleting' = deleting
              /\ Fits(locks', settled, remote) /\ g \notin deleting
    PROVE  Agreement'
<1>1. NamesTell /\ OpenAgrees /\ IsLocks(locks)
    BY DEF BookInv, Agreement, BookTypes, ManagedTypeOK
<1>2. at'[c] = "over" /\ \A d \in Requests \ {c} : at'[d] = at[d]
    BY DEF BookInv, BookTypes, ManagedTypeOK
<1>3. NamesTell'
    <2>1. DOMAIN locks' \cup deleting' \subseteq DOMAIN locks \cup deleting \cup {g}
        BY DEF Put
    <2>. QED
        BY <1>1, <1>2, <2>1 DEF NamesTell, BookTypes, ManagedTypeOK, IsLocks
<1>4. Fits(locks', settled, remote)
    <2>1. CASE /\ DOMAIN locks' = DOMAIN locks \ {g}
               /\ \A x \in DOMAIN locks' : locks'[x] = locks[x]
        <3>1. remote \in Int /\ Fits(locks, settled, remote)
            BY <1>1 DEF BookInv, BookTypes, OpenAgrees
        <3>. QED
            BY <1>1, <2>1, <3>1, FitsShrinks
    <2>. QED
        BY <2>1
<1>5. strayed' = {}
    BY <1>1 DEF OpenAgrees
<1>6. deleting' \cap DOMAIN locks' = {}
    BY <1>1 DEF OpenAgrees, Put
<1>7. DOMAIN rows \subseteq DOMAIN locks' \cup deleting'
    <2>1. DOMAIN rows \subseteq DOMAIN locks \cup deleting \cup {g}
        BY <1>1 DEF OpenAgrees
    <2>. QED
        BY <2>1 DEF Put
<1>8. \A r \in DOMAIN locks' : r \in DOMAIN rows /\ rows[r] = locks'[r]
    BY <1>1 DEF OpenAgrees, Put
<1>9. OpenAgrees'
    BY <1>4, <1>5, <1>6, <1>7, <1>8 DEF OpenAgrees
<1>. QED
    BY <1>3, <1>9 DEF Agreement

\* An update that is refused puts the reservation back as it was.
LEMMA RefusalKeepsBook ==
    ASSUME ManagedAssumption, BookInv, TendedInv', BookTypes', ~missed,
           NEW c \in Requests, NEW r \in Requests, ChangeRefused(c, r)
    PROVE  Agreement'
<1>. USE DEF ChangeRefused, Finish, Move, worldVars
<1>1. NamesTell /\ OpenAgrees /\ IsLocks(locks) /\ remote \in Int
    BY DEF BookInv, Agreement, BookTypes, ManagedTypeOK
<1>2. \A d \in Requests : at[d] \notin Parked
    BY DEF Running, Under, ManagedAssumption
<1>3. \A d \in Requests : at'[d] \notin Parked
    BY <1>2 DEF BookInv, BookTypes, ManagedTypeOK, Parked
<1>4. Running' = {} /\ Exclusive' = {} /\ Exclusive = {}
    BY <1>2, <1>3 DEF Running, Under, Exclusive
<1>5. r # c
    BY <1>1 DEF NamesTell
<1>6. r \in DOMAIN rows /\ rows[r] = locks[r] /\ r \notin deleting
    BY <1>1, <1>4 DEF OpenAgrees
<1>7. Fits(Put(locks, r, rows[r]), settled, remote)
    <2>1. /\ DOMAIN Put(locks, r, rows[r]) \subseteq DOMAIN locks
          /\ \A x \in DOMAIN Put(locks, r, rows[r]) : Put(locks, r, rows[r])[x] = locks[x]
        BY <1>6 DEF Put
    <2>2. Fits(locks, settled, remote)
        BY <1>1 DEF OpenAgrees
    <2>. HIDE DEF Put
    <2>. QED
        BY <1>1, <2>1, <2>2, FitsShrinks
<1>8. \/ /\ DOMAIN locks' = DOMAIN locks \ {r}
         /\ \A x \in DOMAIN locks' : locks'[x] = locks[x]
         /\ deleting' = deleting \cup {r}
      \/ locks' = Put(locks, r, rows[r]) /\ deleting' = deleting
    BY <1>6, TrackOutcome
<1>9. /\ UNCHANGED <<fetchedRows, rows, settled, remote, missed, adapter>>
      /\ at' = [at EXCEPT ![c] = "over"] /\ strayed' = strayed \ {c}
      /\ Running = {} /\ adapter = "open" /\ r \in DOMAIN locks
    OBVIOUS
<1>. QED
    BY <1>4, <1>5, <1>6, <1>7, <1>8, <1>9, EndingAgrees

\* The call of the open adapter that fails, or changes memory.
LEMMA EndingsKeepBook ==
    ASSUME ManagedAssumption, BookInv, TendedInv', BookTypes', ~missed,
           adapter = "open", NEW c \in Requests, CallFails(c) \/ ChangeMemory(c)
    PROVE  Agreement'
<1>. DEFINE g == goal[c]
<1>1. NamesTell /\ OpenAgrees /\ IsLocks(locks) /\ remote \in Int /\ g \in Requests
    BY DEF BookInv, Agreement, BookTypes, ManagedTypeOK
<1>2. at[c] \in Parked /\ Finish(c) /\ UNCHANGED <<adapter, fetchedRows, rows, worldVars, missed>>
    BY DEF CallFails, ChangeMemory, Parked
<1>3. CallsApart /\ Tended
    BY DEF BookInv, TendedInv
<1>4. Running = {c} /\ Exclusive = IF Job[c] # "lock" THEN {g} ELSE {}
    BY <1>1, <1>2, <1>3, RunsAlone DEF OpenAgrees
<1>5. Running' = {} /\ Exclusive' = {}
    BY <1>2, <1>3, <1>4, FinishLeavesNone
<1>6. /\ at' = [at EXCEPT ![c] = "over"] /\ strayed' = strayed \ {c}
      /\ UNCHANGED <<settled, remote>>
    BY <1>2 DEF Finish, Move, worldVars
<1>7. /\ Job[c] = "lock" => g = c
      /\ Job[c] # "lock" => g \in DOMAIN locks /\ g # c
    BY <1>1, <1>2, <1>3, <1>4 DEF Tended, CallsApart, NamesTell, Parked
<1>8. g \notin deleting
    BY <1>1, <1>2, <1>7 DEF OpenAgrees, NamesTell, Parked
<1>9. RecordOf(c) /\ (Job[c] # "free" => Ready(c, locks))
    BY <1>1, <1>4 DEF OpenAgrees
<1>10. CASE /\ DOMAIN locks' = DOMAIN locks \ {g}
            /\ \A x \in DOMAIN locks' : locks'[x] = locks[x]
            /\ deleting' = deleting \cup {g}
    BY <1>1, <1>2, <1>4, <1>5, <1>6, <1>7, <1>10, EndingAgrees
<1>11. CASE CallFails(c) /\ Job[c] # "lock"
    <2>1. g \in DOMAIN rows /\ rows[g] = locks[g]
        BY <1>9, <1>11 DEF RecordOf, CallFails
    <2>2. Track(g, rows[g])
        BY <1>1, <1>11, <2>1 DEF CallFails, OpenAgrees
    <2>3. Fits(Put(locks, g, rows[g]), settled, remote)
        <3>1. /\ DOMAIN Put(locks, g, rows[g]) \subseteq DOMAIN locks
              /\ \A x \in DOMAIN Put(locks, g, rows[g]) :
                    Put(locks, g, rows[g])[x] = locks[x]
            BY <1>7, <1>11, <2>1 DEF Put
        <3>2. Fits(locks, settled, remote)
            BY <1>1 DEF OpenAgrees
        <3>. QED
            BY <1>1, <3>1, <3>2, FitsShrinks
    <2>4. CASE locks' = Put(locks, g, rows[g]) /\ deleting' = deleting
        BY <1>1, <1>2, <1>4, <1>5, <1>6, <1>7, <1>8, <2>1, <2>3, <2>4, EndingAgrees
    <2>. QED
        BY <1>10, <2>2, <2>4, TrackOutcome
<1>12. CASE CallFails(c) /\ Job[c] = "lock"
    <2>1. UNCHANGED <<locks, deleting>> /\ at[c] # "written"
        BY <1>12 DEF CallFails
    <2>2. c \notin DOMAIN locks /\ c \notin DOMAIN rows
        BY <1>1, <1>2, <2>1 DEF NamesTell, Parked
    <2>3. /\ DOMAIN locks' = DOMAIN locks \ {g} /\ g \notin DOMAIN rows
          /\ \A x \in DOMAIN locks' : locks'[x] = locks[x]
        BY <1>7, <1>12, <2>1, <2>2
    <2>. QED
        BY <1>1, <1>2, <1>4, <1>5, <1>6, <1>7, <1>12, <2>1, <2>3, EndingAgrees
<1>13. CASE ChangeMemory(c) /\ Job[c] = "free"
    <2>1. /\ DOMAIN locks' = DOMAIN locks \ {g} /\ deleting' = deleting
          /\ \A x \in DOMAIN locks' : locks'[x] = locks[x]
        BY <1>13 DEF ChangeMemory, Untrack, Restrict
    <2>2. g \notin DOMAIN rows
        BY <1>9, <1>13 DEF RecordOf, ChangeMemory
    <2>. QED
        BY <1>1, <1>2, <1>4, <1>5, <1>6, <1>7, <1>13, <2>1, <2>2, EndingAgrees
<1>14. CASE ChangeMemory(c) /\ Job[c] # "free"
    <2>1. at[c] = "written" /\ Track(g, Draft(c))
        BY <1>14 DEF ChangeMemory
    <2>2. g \in DOMAIN rows /\ rows[g] = Draft(c)
        BY <1>9, <1>14, <2>1 DEF RecordOf
    <2>3. /\ Fresh(c, g, locks)
          /\ ForDeploy[c] \notin settled => Covered(c, g, locks, settled, remote)
        BY <1>9, <1>14, <2>1 DEF Ready
    <2>4. Fits(Put(locks, g, Draft(c)), settled, remote)
        BY <1>1, <2>3, ReadyFits DEF OpenAgrees
    <2>5. CASE locks' = Put(locks, g, Draft(c)) /\ deleting' = deleting
        BY <1>1, <1>2, <1>4, <1>5, <1>6, <1>7, <1>8, <2>2, <2>4, <2>5, EndingAgrees
    <2>. QED
        BY <1>10, <2>1, <2>5, TrackOutcome
<1>. QED
    BY <1>11, <1>12, <1>13, <1>14


\* The call of a closed adapter that ends changes neither memory nor storage.
LEMMA StrayedEndsKeepBook ==
    ASSUME ManagedAssumption, BookInv, TendedInv', BookTypes', ~missed,
           adapter = "closed", NEW c \in Requests,
           CallFails(c) \/ ChangeMemory(c) \/ MemoryGone(c)
    PROVE  Agreement'
<1>1. NamesTell /\ ClosedAgrees
    BY DEF BookInv, Agreement
<1>2. at[c] \in Parked /\ Finish(c)
      /\ UNCHANGED <<adapter, fetchedRows, rows, worldVars, missed>>
    BY DEF CallFails, ChangeMemory, MemoryGone, Parked
<1>3. CallsApart
    BY DEF BookInv, TendedInv
<1>4. Running = {c} /\ c \in strayed
    BY <1>2, <1>3, RunsAlone
<1>5. Running' = {}
    BY <1>2, <1>3, <1>4, FinishLeavesNone
<1>6. UNCHANGED <<locks, deleting>>
    BY <1>4 DEF CallFails, ChangeMemory, MemoryGone
<1>7. NamesTell'
    BY <1>1, <1>2, <1>6 DEF NamesTell, Finish, Move, BookInv, BookTypes, ManagedTypeOK
<1>8. ClosedAgrees'
    BY <1>1, <1>2, <1>5, <1>6 DEF ClosedAgrees, Book, worldVars
<1>. QED
    BY <1>2, <1>7, <1>8 DEF Agreement

\* The balance covers what it was asked for.
LEMMA BalanceKeepsBook ==
    ASSUME ManagedAssumption, BookInv, ~missed, NEW c \in Requests, BalanceCovers(c)
    PROVE  Agreement'
<1>. USE DEF BalanceCovers, Move, worldVars
<1>1. /\ at \in [Requests -> {"idle", "over"} \cup Parked]
      /\ counted[c] \in Int /\ remote \in Int /\ goal[c] \in Requests
      /\ IsLocks(locks) /\ IsLocks(rows) /\ CallsApart
      /\ adapter \in {"closed", "restoring", "open"}
    BY DEF BookInv, BookTypes, ManagedTypeOK, TendedInv
<1>2. Running = {c}
    BY <1>1, RunsAlone DEF Parked
<1>3. at[c] = "balance" /\ at'[c] = "writing" /\ \A d \in Requests \ {c} : at'[d] = at[d]
    BY <1>1
<1>4. Running' = Running /\ Exclusive' = Exclusive
    <2>1. \A d \in Requests : at'[d] \in Parked <=> at[d] \in Parked
        BY <1>3 DEF Parked
    <2>. QED
        BY <2>1 DEF Running, Exclusive, Under
<1>5. NamesTell /\ NamesTell'
    BY <1>1, <1>3 DEF NamesTell, BookInv, Agreement
<1>6. ASSUME NEW t, IsLocks(t), Covered(c, goal[c], t, settled, counted[c])
      PROVE  Covered(c, goal[c], t, settled, remote)
    <2>1. Owed(t, DOMAIN t \ {goal[c]}, settled) \in Nat /\ Pending[c] \in Nat
        BY <1>6, OwedShrinks DEF ManagedAssumption
    <2>. QED
        BY <1>1, <1>6, <2>1 DEF Covered
<1>7. ASSUME adapter = "open" PROVE OpenAgrees'
    <2>1. OpenAgrees
        BY <1>7 DEF BookInv, Agreement
    <2>2. RecordOf(c)'
        BY <1>2, <1>3, <2>1 DEF OpenAgrees, RecordOf
    <2>3. Job[c] # "free" => Ready(c, locks)'
        BY <1>1, <1>2, <1>3, <1>6, <2>1 DEF OpenAgrees, Ready
    <2>. QED
        BY <1>2, <1>4, <2>1, <2>2, <2>3 DEF OpenAgrees
<1>8. ASSUME adapter = "closed" PROVE ClosedAgrees'
    <2>1. ClosedAgrees
        BY <1>8 DEF BookInv, Agreement
    <2>2. IsLocks(Book) /\ Book' = Book
        BY <1>1, TableChanges DEF Book
    <2>3. Job[c] # "free" => Ready(c, Book)'
        BY <1>2, <1>3, <1>6, <2>1, <2>2 DEF ClosedAgrees, Ready
    <2>. QED
        BY <1>2, <1>4, <2>1, <2>2, <2>3 DEF ClosedAgrees
<1>9. adapter # "restoring"
    BY <1>2 DEF BookInv, Agreement, RestoringAgrees
<1>. QED
    BY <1>1, <1>5, <1>7, <1>8, <1>9 DEF Agreement

\* The record that is written is the one that was ready.
LEMMA WriteKeepsBook ==
    ASSUME ManagedAssumption, BookInv, BookTypes', ~missed, NEW c \in Requests,
           WriteRow(c)
    PROVE  Agreement'
<1>. USE DEF WriteRow, Move, worldVars
<1>. DEFINE g == goal[c]
<1>1. /\ at \in [Requests -> {"idle", "over"} \cup Parked]
      /\ remote \in Int /\ g \in Requests
      /\ IsLocks(locks) /\ IsLocks(rows) /\ CallsApart
      /\ adapter \in {"closed", "restoring", "open"}
    BY DEF BookInv, BookTypes, ManagedTypeOK, TendedInv
<1>2. Running = {c} /\ Exclusive = IF Job[c] # "lock" /\ c \notin strayed THEN {g} ELSE {}
    BY <1>1, RunsAlone DEF Parked
<1>3. at[c] = "writing" /\ at'[c] = "written" /\ \A d \in Requests \ {c} : at'[d] = at[d]
    BY <1>1
<1>4. Running' = Running /\ Exclusive' = Exclusive
    <2>1. \A d \in Requests : at'[d] \in Parked <=> at[d] \in Parked
        BY <1>3 DEF Parked
    <2>. QED
        BY <2>1 DEF Running, Exclusive, Under
<1>5. NamesTell
    BY DEF BookInv, Agreement
<1>6. /\ Job[c] = "lock" => g = c
      /\ DOMAIN rows' \ {g} = DOMAIN rows \ {g}
      /\ \A r \in DOMAIN rows' \ {g} : rows'[r] = rows[r]
      /\ IF Job[c] = "free" THEN g \notin DOMAIN rows'
         ELSE g \in DOMAIN rows' /\ rows'[g] = Draft(c)
    BY <1>1 DEF CallsApart, Restrict, Put
<1>7. NamesTell'
    <2>1. g \in DOMAIN rows' => Job[g] = "lock" /\ at'[g] \in {"written", "over"}
        BY <1>3, <1>5, <1>6 DEF NamesTell, ManagedAssumption
    <2>2. \A r \in DOMAIN rows' : Job[r] = "lock" /\ at'[r] \in {"written", "over"}
        BY <1>1, <1>3, <1>5, <1>6, <2>1 DEF NamesTell, IsLocks
    <2>3. \A r \in DOMAIN locks \cup DOMAIN fetchedRows \cup deleting :
              Job[r] = "lock" /\ at'[r] = "over"
        BY <1>1, <1>3, <1>5 DEF NamesTell, IsLocks
    <2>. QED
        BY <2>2, <2>3 DEF NamesTell
<1>8. ASSUME adapter = "open" PROVE OpenAgrees'
    <2>1. OpenAgrees
        BY <1>8 DEF BookInv, Agreement
    <2>2. RecordOf(c)'
        BY <1>3, <1>6 DEF RecordOf
    <2>3. Job[c] # "free" => Ready(c, locks)'
        BY <1>2, <1>3, <2>1 DEF OpenAgrees, Ready
    <2>4. g \in DOMAIN locks \ Exclusive => FALSE
        BY <1>2, <1>3, <1>5, <1>6, <2>1 DEF OpenAgrees, NamesTell
    <2>5. \A r \in DOMAIN locks \ Exclusive : r \in DOMAIN rows' /\ rows'[r] = locks[r]
        BY <1>6, <2>1, <2>4 DEF OpenAgrees
    <2>6. DOMAIN rows' \subseteq DOMAIN locks \cup deleting \cup {g}
        BY <1>2, <1>6, <2>1, SMTT(30) DEF OpenAgrees
    <2>. QED
        BY <1>2, <1>4, <2>1, <2>2, <2>3, <2>5, <2>6 DEF OpenAgrees
<1>9. ASSUME adapter = "closed" PROVE ClosedAgrees'
    <2>1. ClosedAgrees
        BY <1>9 DEF BookInv, Agreement
    <2>2. g \notin deleting
        BY <1>2, <1>3, <1>5, <1>6, <2>1 DEF ClosedAgrees, NamesTell
    <2>3. Fits(Book', settled, remote)
        <3>1. IsLocks(Book) /\ Fits(Book, settled, remote)
            BY <1>1, <2>1, TableChanges DEF Book, ClosedAgrees
        <3>2. CASE Job[c] = "free"
            <4>1. /\ DOMAIN Book' \subseteq DOMAIN Book
                  /\ \A r \in DOMAIN Book' : Book'[r] = Book[r]
                BY <1>6, <3>2 DEF Book, Restrict
            <4>. QED
                BY <1>1, <3>1, <4>1, FitsShrinks
        <3>3. CASE Job[c] # "free"
            <4>1. /\ Fresh(c, g, Book)
                  /\ ForDeploy[c] \notin settled => Covered(c, g, Book, settled, remote)
                BY <1>2, <1>3, <2>1, <3>3 DEF ClosedAgrees, Ready
            <4>2. Fits(Put(Book, g, Draft(c)), settled, remote)
                BY <1>1, <3>1, <4>1, ReadyFits
            <4>3. rows' = Put(rows, g, Draft(c))
                BY <3>3
            <4>4. Book' = Put(Book, g, Draft(c))
                BY <2>2, <4>3 DEF Book, Restrict, Put
            <4>. QED
                BY <4>2, <4>4, Zenon
        <3>. QED
            BY <3>2, <3>3
    <2>. QED
        BY <1>2, <1>3, <1>4, <2>1, <2>2, <2>3 DEF ClosedAgrees
<1>10. adapter # "restoring"
    BY <1>2 DEF BookInv, Agreement, RestoringAgrees
<1>. QED
    BY <1>1, <1>7, <1>8, <1>9, <1>10 DEF Agreement


\* What is ready stays ready beside fewer of the same reservations.
LEMMA ReadyShrinks ==
    ASSUME ManagedAssumption, BookTypes, NEW c \in Requests,
           NEW t, IsLocks(t), Ready(c, t),
           NEW u, DOMAIN u \subseteq DOMAIN t, \A r \in DOMAIN u : u[r] = t[r]
    PROVE  Ready(c, u)
<1>1. goal[c] \in Requests /\ counted[c] \in Int /\ remote \in Int
    BY DEF BookTypes, ManagedTypeOK
<1>2. DOMAIN u \ {goal[c]} \subseteq DOMAIN t \ {goal[c]}
    OBVIOUS
<1>3. Fresh(c, goal[c], u)
    BY DEF Ready, Fresh
<1>4. \A n \in Int : Covered(c, goal[c], t, settled, n)
                         => Covered(c, goal[c], u, settled, n)
    BY <1>2, CoveredShrinks
<1>. QED
    BY <1>1, <1>3, <1>4 DEF Ready

\* A release takes the reservation out of memory and starts its deletion.
LEMMA ReleaseKeepsBook ==
    ASSUME ManagedAssumption, BookInv, ~missed, NEW r \in Requests,
           Confirmed(r) \/ Expired(r)
    PROVE  Agreement'
<1>1. /\ UNCHANGED <<adapter, fetchedRows, rows, at, goal, counted, strayed,
                     settled, remote, missed>>
      /\ DOMAIN locks' = DOMAIN locks \ {r} /\ deleting' = deleting \cup {r}
      /\ \A x \in DOMAIN locks' : locks'[x] = locks[x]
    BY DEF Confirmed, Expired, Release, Untrack, Restrict, callVars, worldVars
<1>2. r \in DOMAIN locks \ Exclusive
    BY DEF Confirmed, Expired, BookInv, TendedInv, Tended
<1>3. adapter = "open"
    BY <1>2 DEF BookInv, NoLocks
<1>4. NamesTell /\ OpenAgrees /\ IsLocks(locks) /\ remote \in Int /\ CallsApart
    BY <1>3 DEF BookInv, Agreement, BookTypes, ManagedTypeOK, TendedInv
<1>5. Running' = Running /\ Exclusive' = Exclusive
    BY <1>1 DEF Running, Exclusive, Under
<1>6. NamesTell'
    BY <1>1, <1>2, <1>4 DEF NamesTell
<1>7. Fits(locks', settled, remote)
    BY <1>1, <1>4, FitsShrinks DEF OpenAgrees
<1>8. ASSUME NEW c \in Running
      PROVE  RecordOf(c)' /\ (Job[c] # "free" => Ready(c, locks)')
    <2>1. c \in Requests /\ at[c] \in Parked
        BY <1>8 DEF Running, Under
    <2>2. Job[c] # "lock" => goal[c] \in Exclusive
        BY <1>4, <2>1, RunsAlone DEF OpenAgrees
    <2>3. RecordOf(c)'
        BY <1>1, <1>2, <1>4, <1>8, <2>2 DEF OpenAgrees, RecordOf, BookInv, TendedInv, Tended
    <2>4. Job[c] # "free" => Ready(c, locks')
        BY <1>1, <1>4, <1>8, <2>1, ReadyShrinks DEF OpenAgrees, BookInv
    <2>. QED
        BY <1>1, <2>3, <2>4 DEF Ready
<1>9. OpenAgrees'
    BY <1>1, <1>2, <1>4, <1>5, <1>7, <1>8 DEF OpenAgrees
<1>. QED
    BY <1>1, <1>3, <1>6, <1>9 DEF Agreement

\* A deletion that succeeds takes a record that memory has no more.
LEMMA DeletionKeepsBook ==
    ASSUME ManagedAssumption, BookInv, ~missed', NEW r \in Requests, DeletionEnds(r)
    PROVE  Agreement'
<1>1. /\ UNCHANGED <<adapter, fetchedRows, locks, at, goal, counted, strayed,
                     settled, remote, missed>>
      /\ deleting' = deleting \ {r} /\ r \in deleting
      /\ rows' = Restrict(rows, DOMAIN rows \ {r})
    BY DEF DeletionEnds, callVars, worldVars
<1>2. DOMAIN rows' = DOMAIN rows \ {r} /\ \A x \in DOMAIN rows' : rows'[x] = rows[x]
    BY <1>1 DEF Restrict
<1>3. NamesTell /\ CallsApart /\ ~missed
    BY <1>1 DEF BookInv, Agreement, TendedInv
<1>4. Running' = Running /\ Exclusive' = Exclusive
    BY <1>1 DEF Running, Exclusive, Under
<1>5. NamesTell'
    BY <1>1, <1>2, <1>3 DEF NamesTell
<1>6. ASSUME adapter = "open" PROVE OpenAgrees'
    <2>1. OpenAgrees
        BY <1>3, <1>6 DEF BookInv, Agreement
    <2>2. ASSUME NEW c \in Running
          PROVE  RecordOf(c)' /\ (Job[c] # "free" => Ready(c, locks)')
        <3>1. c \in Requests /\ at[c] \in Parked
            BY <2>2 DEF Running, Under
        <3>2. goal[c] # r
            <4>1. CASE Job[c] = "lock"
                BY <1>1, <1>3, <3>1, <4>1 DEF NamesTell, CallsApart, Parked
            <4>2. CASE Job[c] # "lock"
                <5>1. goal[c] \in DOMAIN locks
                    BY <1>3, <2>1, <3>1, <4>2, RunsAlone
                    DEF OpenAgrees, BookInv, TendedInv, Tended
                <5>. QED
                    BY <1>1, <2>1, <5>1 DEF OpenAgrees
            <4>. QED
                BY <4>1, <4>2
        <3>. QED
            BY <1>1, <1>2, <2>1, <2>2, <3>2 DEF OpenAgrees, RecordOf, Ready
    <2>3. DOMAIN rows' \subseteq DOMAIN locks \cup deleting' \cup {goal[c] : c \in Running}
        BY <1>1, <1>2, <2>1 DEF OpenAgrees
    <2>. QED
        BY <1>1, <1>2, <1>4, <2>1, <2>2, <2>3 DEF OpenAgrees
<1>7. ASSUME adapter = "closed" PROVE ClosedAgrees'
    <2>1. ClosedAgrees
        BY <1>3, <1>7 DEF BookInv, Agreement
    <2>2. Book' = Book
        BY <1>1 DEF Book, Restrict
    <2>3. \A c \in Running : Ready(c, Book)' <=> Ready(c, Book)
        BY <1>1, <2>2 DEF Ready
    <2>. QED
        BY <1>1, <1>4, <2>1, <2>2, <2>3 DEF ClosedAgrees
<1>8. adapter # "restoring"
    BY <1>1, <1>3 DEF BookInv, Agreement, RestoringAgrees
<1>. QED
    BY <1>1, <1>5, <1>6, <1>7, <1>8 DEF Agreement, BookInv, BookTypes, ManagedTypeOK

\* A step that touches neither memory nor storage nor the world.
LEMMA StillKeepsBook ==
    ASSUME BookInv,
           UNCHANGED <<adapter, fetchedRows, locks, rows, deleting, at, goal, counted,
                       strayed, settled, remote, missed>>
    PROVE  Agreement'
<1>1. Running' = Running /\ Exclusive' = Exclusive /\ Book' = Book
    BY DEF Running, Exclusive, Under, Book
<1>2. /\ \A c \in Requests : RecordOf(c)' <=> RecordOf(c)
      /\ \A c \in Requests : Ready(c, locks)' <=> Ready(c, locks)
      /\ \A c \in Requests : Ready(c, Book)' <=> Ready(c, Book)
    BY <1>1 DEF RecordOf, Ready
<1>3. \A c \in Running : c \in Requests
    BY DEF Running, Under
<1>4. NamesTell' <=> NamesTell
    BY DEF NamesTell
<1>5. OpenAgrees => OpenAgrees'
    BY <1>1, <1>2, <1>3 DEF OpenAgrees
<1>6. RestoringAgrees => RestoringAgrees'
    BY <1>1 DEF RestoringAgrees
<1>7. ClosedAgrees => ClosedAgrees'
    BY <1>1, <1>2, <1>3 DEF ClosedAgrees
<1>. QED
    BY <1>4, <1>5, <1>6, <1>7 DEF BookInv, Agreement

\* The chain takes what was reserved for the deploy, and the reservation no
\* longer counts.
LEMMA SettlementKeepsBook ==
    ASSUME ManagedAssumption, BookInv, ~missed', NEW c \in Requests, Settles(c)
    PROVE  Agreement'
<1>1. PICK r \in DOMAIN locks :
          /\ locks[r] = Draft(c)
          /\ missed' = (missed \/ \E d \in Under({"change"}) :
                                    goal[d] = r /\ ForDeploy[d] # ForDeploy[c])
    BY DEF Settles
<1>2. /\ UNCHANGED <<adapter, fetchedRows, locks, rows, deleting, at, goal, counted,
                     strayed>>
      /\ ForDeploy[c] \notin settled
      /\ settled' = settled \cup {ForDeploy[c]} /\ remote' = remote - Pending[c]
    BY DEF Settles, callVars
<1>3. adapter = "open"
    BY <1>1 DEF BookInv, NoLocks
<1>4. ~missed /\ \A d \in Under({"change"}) : goal[d] = r => ForDeploy[d] = ForDeploy[c]
    BY <1>1
<1>5. NamesTell /\ OpenAgrees /\ IsLocks(locks) /\ remote \in Int /\ CallsApart
    BY <1>3, <1>4 DEF BookInv, Agreement, BookTypes, ManagedTypeOK, TendedInv
<1>6. locks[r].deploy = ForDeploy[c] /\ locks[r].amount = Pending[c]
    BY <1>1 DEF Draft
<1>7. Fits(locks, settled', remote')
    BY <1>2, <1>5, <1>6, FitsPaid, SMTT(30) DEF OpenAgrees
<1>8. Running' = Running /\ Exclusive' = Exclusive
    BY <1>2 DEF Running, Exclusive, Under
<1>9. ASSUME NEW d \in Running
      PROVE  RecordOf(d)' /\ (Job[d] # "free" => Ready(d, locks)')
    <2>. DEFINE g == goal[d]
    <2>1. d \in Requests /\ at[d] \in Parked /\ RecordOf(d)
          /\ g \in Requests /\ counted[d] \in Int
        BY <1>5, <1>9 DEF Running, Under, OpenAgrees, BookInv, BookTypes, ManagedTypeOK
    <2>2. RecordOf(d)'
        BY <1>2, <2>1 DEF RecordOf
    <2>3. ASSUME Job[d] # "free" PROVE Ready(d, locks)'
        <3>1. Ready(d, locks)
            BY <1>5, <1>9, <2>3 DEF OpenAgrees
        <3>2. ASSUME Covered(d, g, locks, settled, counted[d])
              PROVE  Covered(d, g, locks, settled', counted[d])
            BY <1>2, <1>5, <2>1, <3>2, CoveredShrinks
        <3>3. ASSUME ForDeploy[d] # ForDeploy[c], Covered(d, g, locks, settled, remote)
              PROVE  Covered(d, g, locks, settled', remote')
            <4>1. r # g
                <5>1. CASE Job[d] = "lock"
                    BY <1>1, <1>5, <2>1, <5>1 DEF CallsApart, NamesTell, Parked
                <5>2. CASE Job[d] = "change"
                    BY <1>4, <2>1, <3>3, <5>2 DEF Under
                <5>. QED
                    BY <2>1, <2>3, <5>1, <5>2 DEF ManagedAssumption
            <4>. QED
                BY <1>2, <1>5, <1>6, <2>1, <3>3, <4>1, CoveredPaid
        <3>. QED
            BY <1>2, <3>1, <3>2, <3>3 DEF Ready
    <2>. QED
        BY <2>2, <2>3
<1>10. OpenAgrees'
    BY <1>2, <1>5, <1>7, <1>8, <1>9 DEF OpenAgrees
<1>. QED
    BY <1>2, <1>3, <1>5, <1>10 DEF Agreement, NamesTell

\* Dropping a network leaves nothing in memory, and in storage only records
\* that are being deleted.
LEMMA NetworkKeepsBook ==
    ASSUME ManagedAssumption, BookInv, ~missed', NetworkDropped
    PROVE  Agreement'
<1>1. /\ UNCHANGED <<adapter, fetchedRows, deleting, at, goal, strayed, settled,
                     remote, missed>>
      /\ adapter = "open" /\ Running = {}
      /\ DOMAIN locks' = {}
      /\ rows' = Restrict(rows, DOMAIN rows \ DOMAIN locks)
    BY DEF NetworkDropped, Untrack, Restrict, callVars, worldVars
<1>2. NamesTell /\ OpenAgrees /\ IsLocks(locks) /\ remote \in Int
    BY <1>1 DEF BookInv, Agreement, BookTypes, ManagedTypeOK
<1>3. DOMAIN rows' \subseteq DOMAIN rows /\ DOMAIN rows' \subseteq deleting
    BY <1>1, <1>2 DEF Restrict, OpenAgrees
<1>4. Running' = {}
    BY <1>1 DEF Running, Under
<1>5. NamesTell'
    BY <1>1, <1>2, <1>3 DEF NamesTell
<1>6. Fits(locks', settled, remote)
    BY <1>1, <1>2, FitsShrinks DEF OpenAgrees
<1>7. OpenAgrees'
    BY <1>1, <1>2, <1>3, <1>4, <1>6 DEF OpenAgrees
<1>. QED
    BY <1>1, <1>5, <1>7 DEF Agreement

\* An opening that misses nothing reads what memory will be.
LEMMA OpeningKeepsBook ==
    ASSUME ManagedAssumption, BookInv, ~missed', ReadRecords \/ Restore
    PROVE  Agreement'
<1>1. UNCHANGED <<at, goal, strayed, deleting, settled, remote>> /\ ~missed
    <2>1. CASE ReadRecords
        BY <2>1 DEF ReadRecords, callVars, worldVars
    <2>2. CASE Restore
        BY <2>2 DEF Restore, callVars, worldVars
    <2>. QED
        BY <2>1, <2>2
<1>2. NamesTell /\ IsLocks(rows) /\ remote \in Int
    BY <1>1 DEF BookInv, Agreement, BookTypes, ManagedTypeOK
<1>3. Running' = Running /\ Exclusive' = Exclusive
    BY <1>1 DEF Running, Exclusive, Under
<1>4. CASE ReadRecords
    <2>1. /\ adapter = "closed" /\ adapter' = "restoring" /\ Running = {}
          /\ deleting = {} /\ fetchedRows' = rows /\ UNCHANGED <<rows, locks>>
        BY <1>4 DEF ReadRecords
    <2>2. NamesTell'
        <3>1. \A d \in Requests : at[d] \notin Parked
            BY <2>1 DEF Running, Under, ManagedAssumption
        <3>2. \A r \in DOMAIN rows : Job[r] = "lock" /\ at[r] = "over"
            BY <1>2, <3>1 DEF NamesTell, IsLocks, Parked
        <3>. QED
            BY <1>1, <1>2, <2>1, <3>2 DEF NamesTell
    <2>3. Fits(rows, settled, remote)
        <3>1. ClosedAgrees
            BY <1>1, <2>1 DEF BookInv, Agreement
        <3>2. /\ IsLocks(Book) /\ DOMAIN rows \subseteq DOMAIN Book
              /\ \A r \in DOMAIN rows : rows[r] = Book[r]
            BY <1>2, <2>1, TableChanges DEF Book, Restrict
        <3>. QED
            BY <1>2, <3>1, <3>2, FitsShrinks DEF ClosedAgrees
    <2>. QED
        BY <1>1, <1>3, <2>1, <2>2, <2>3 DEF Agreement, RestoringAgrees
<1>5. CASE Restore
    <2>1. PICK live \in SUBSET DOMAIN fetchedRows :
              /\ adapter = "restoring" /\ adapter' = "open"
              /\ locks' = Restrict(fetchedRows, live)
              /\ rows' = Restrict(rows, DOMAIN rows \ (DOMAIN fetchedRows \ live))
              /\ fetchedRows' = NoLocks
        BY <1>5 DEF Restore
    <2>2. RestoringAgrees
        BY <1>1, <2>1 DEF BookInv, Agreement
    <2>3. /\ DOMAIN locks' = live /\ DOMAIN rows' = live /\ live \subseteq DOMAIN rows
          /\ \A r \in live : locks'[r] = rows[r] /\ rows'[r] = rows[r]
        BY <2>1, <2>2 DEF Restrict, RestoringAgrees
    <2>4. NamesTell'
        BY <1>1, <1>2, <2>1, <2>2, <2>3 DEF NamesTell, RestoringAgrees, NoLocks
    <2>5. Fits(locks', settled, remote)
        BY <1>2, <2>2, <2>3, FitsShrinks DEF RestoringAgrees
    <2>6. strayed' = {}
        BY <1>1, <2>2 DEF RestoringAgrees, BookInv, TendedInv, CallsApart
    <2>7. OpenAgrees'
        BY <1>1, <1>3, <2>2, <2>3, <2>5, <2>6 DEF OpenAgrees, RestoringAgrees
    <2>. QED
        BY <2>1, <2>4, <2>7 DEF Agreement
<1>. QED
    BY <1>4, <1>5

\* Closing leaves the records, and what the running call may still write.
LEMMA ClosingKeepsBook ==
    ASSUME ManagedAssumption, BookInv, ~missed', CloseAdapter
    PROVE  Agreement'
<1>1. /\ UNCHANGED <<fetchedRows, rows, deleting, at, goal, counted, settled,
                     remote, missed>>
      /\ adapter = "open" /\ adapter' = "closed" /\ locks' = NoLocks
    BY DEF CloseAdapter, worldVars
<1>2. /\ NamesTell /\ OpenAgrees /\ IsLocks(locks) /\ IsLocks(rows) /\ remote \in Int
      /\ CallsApart /\ goal \in [Requests -> Requests]
    BY <1>1 DEF BookInv, Agreement, BookTypes, ManagedTypeOK, TendedInv
<1>3. Running' = Running
    BY <1>1 DEF Running, Under
<1>4. NamesTell'
    BY <1>1, <1>2 DEF NamesTell, NoLocks
<1>5. /\ DOMAIN Book = DOMAIN rows \ deleting
      /\ \A r \in DOMAIN Book : Book[r] = rows[r]
    BY DEF Book, Restrict
<1>6. CASE Running = {}
    <2>1. Exclusive = {}
        BY <1>6 DEF Running, Exclusive, Under
    <2>2. DOMAIN Book \subseteq DOMAIN locks /\ \A r \in DOMAIN Book : Book[r] = locks[r]
        BY <1>2, <1>5, <1>6, <2>1 DEF OpenAgrees
    <2>3. Fits(Book, settled, remote)
        BY <1>2, <2>2, FitsShrinks DEF OpenAgrees
    <2>. QED
        BY <1>1, <1>3, <1>4, <1>6, <2>3 DEF Agreement, ClosedAgrees, Book
<1>7. ASSUME NEW c \in Running PROVE ClosedAgrees'
    <2>. DEFINE g == goal[c]
    <2>1. /\ c \in Requests /\ at[c] \in Parked /\ g \in Requests
          /\ RecordOf(c) /\ (Job[c] # "free" => Ready(c, locks))
        BY <1>2, <1>7 DEF Running, Under, OpenAgrees
    <2>2. Running = {c} /\ Exclusive = IF Job[c] # "lock" THEN {g} ELSE {}
        BY <1>2, <2>1, RunsAlone DEF OpenAgrees
    <2>3. Job[c] # "lock" => g \in DOMAIN locks /\ g \notin deleting
        BY <1>2, <2>2 DEF OpenAgrees, BookInv, TendedInv, Tended
    <2>4. Job[c] = "lock" => g = c /\ g \notin DOMAIN locks /\ g \notin deleting
        BY <1>2, <2>1 DEF CallsApart, NamesTell, Parked
    <2>5. \A r \in DOMAIN Book \ {g} : r \in DOMAIN locks /\ Book[r] = locks[r]
        BY <1>2, <1>5, <2>2 DEF OpenAgrees
    <2>6. CASE at[c] # "written"
        <3>1. DOMAIN Book \subseteq DOMAIN locks /\ \A r \in DOMAIN Book : Book[r] = locks[r]
            <4>1. g \in DOMAIN Book => g \in DOMAIN locks /\ Book[g] = locks[g]
                BY <1>2, <1>5, <2>1, <2>3, <2>4, <2>6 DEF RecordOf, NamesTell, Parked
            <4>. QED
                BY <2>5, <4>1
        <3>2. Fits(Book, settled, remote)
            BY <1>2, <3>1, FitsShrinks DEF OpenAgrees
        <3>3. Job[c] # "free" => Ready(c, Book)
            BY <1>2, <2>1, <3>1, ReadyShrinks DEF BookInv
        <3>4. Book' = Book /\ (Ready(c, Book)' <=> Ready(c, Book))
            BY <1>1 DEF Book, Ready
        <3>. QED
            BY <1>1, <1>3, <2>2, <2>3, <3>2, <3>3, <3>4 DEF ClosedAgrees
    <2>7. CASE at[c] = "written"
        <3>1. Fits(Book, settled, remote)
            <4>1. CASE Job[c] = "free"
                <5>1. DOMAIN Book \subseteq DOMAIN locks
                      /\ \A r \in DOMAIN Book : Book[r] = locks[r]
                    BY <1>5, <2>1, <2>5, <2>7, <4>1 DEF RecordOf
                <5>. QED
                    BY <1>2, <5>1, FitsShrinks DEF OpenAgrees
            <4>2. CASE Job[c] # "free"
                <5>1. Book[g] = Draft(c)
                    BY <1>5, <2>1, <2>3, <2>4, <2>7, <4>2 DEF RecordOf
                <5>2. /\ Fresh(c, g, locks)
                      /\ ForDeploy[c] \notin settled => Covered(c, g, locks, settled, remote)
                    BY <2>1, <2>7, <4>2 DEF Ready
                <5>3. PICK u : u = Put(locks, g, Draft(c))
                    OBVIOUS
                <5>4. Fits(u, settled, remote)
                    BY <1>2, <2>1, <5>2, <5>3, ReadyFits DEF OpenAgrees
                <5>5. IsLocks(u)
                    BY <1>2, <2>1, <5>3, TableChanges
                <5>6. DOMAIN Book \subseteq DOMAIN u /\ \A r \in DOMAIN Book : Book[r] = u[r]
                    BY <2>5, <5>1, <5>3 DEF Put
                <5>. QED
                    BY <1>2, <5>4, <5>5, <5>6, FitsShrinks
            <4>. QED
                BY <4>1, <4>2
        <3>2. Book' = Book
            BY <1>1 DEF Book
        <3>. QED
            BY <1>1, <1>3, <2>2, <2>3, <2>7, <3>1, <3>2 DEF ClosedAgrees
    <2>. QED
        BY <2>1, <2>6, <2>7
<1>. QED
    BY <1>1, <1>4, <1>6, <1>7 DEF Agreement


\* Only the memory of an open adapter holds reservations.
LEMMA MemoryStep ==
    ASSUME ManagedAssumption, BookInv, [ManagedNext]_managedVars
    PROVE  adapter' # "open" => locks' = NoLocks
<1>1. CallsApart /\ Tended /\ (adapter # "open" => locks = NoLocks)
    BY DEF BookInv, TendedInv
<1>2. ASSUME NEW c \in Requests, CallFails(c) \/ ChangeMemory(c)
      PROVE  adapter' # "open" => locks' = NoLocks
    <2>1. at[c] \in Parked /\ adapter' = adapter
        BY <1>2 DEF CallFails, ChangeMemory, Parked
    <2>2. adapter = "open" \/ c \in strayed
        BY <1>1, <2>1, RunsAlone
    <2>3. c \in strayed => locks' = locks
        BY <1>2 DEF CallFails, ChangeMemory
    <2>. QED
        BY <1>1, <2>1, <2>2, <2>3
<1>3. ASSUME NEW c \in Requests, NEW r \in Requests,
             BeginLock(c) \/ BeginChange(c, r) \/ ChangeRefused(c, r) \/ BeginFree(c, r)
      PROVE  adapter' # "open" => locks' = NoLocks
    BY <1>3 DEF BeginLock, BeginChange, ChangeRefused, BeginFree
<1>4. ASSUME NEW c \in Requests,
             BalanceCovers(c) \/ WriteRow(c) \/ MemoryGone(c) \/ TimePasses(c) \/ Settles(c)
      PROVE  adapter' # "open" => locks' = NoLocks
    BY <1>1, <1>4 DEF BalanceCovers, WriteRow, MemoryGone, TimePasses, Settles
<1>5. ASSUME NEW r \in Requests, Confirmed(r) \/ Expired(r)
      PROVE  adapter' # "open" => locks' = NoLocks
    <2>1. r \in DOMAIN locks
        BY <1>1, <1>5 DEF Confirmed, Expired, Tended
    <2>2. adapter' = adapter
        BY <1>5 DEF Confirmed, Expired, Release
    <2>. QED
        BY <1>1, <2>1, <2>2 DEF NoLocks
<1>6. ASSUME NEW r \in Requests, PollingFails(r) \/ DeletionEnds(r)
      PROVE  adapter' # "open" => locks' = NoLocks
    BY <1>1, <1>6 DEF PollingFails, DeletionEnds
<1>7. CASE NetworkDropped \/ ReadRecords \/ Restore \/ CloseAdapter
    BY <1>1, <1>7 DEF NetworkDropped, ReadRecords, Restore, CloseAdapter
<1>8. CASE UNCHANGED managedVars
    BY <1>1, <1>8 DEF managedVars
<1>. QED
    BY <1>2, <1>3, <1>4, <1>5, <1>6, <1>7, <1>8 DEF ManagedNext

\* Every step keeps the types.
LEMMA TypesStep ==
    ASSUME ManagedAssumption, BookTypes, TendedInv, [ManagedNext]_managedVars
    PROVE  BookTypes'
<1>1. ASSUME NEW c \in Requests, NEW r \in Requests,
             \/ BeginLock(c) \/ BeginChange(c, r) \/ ChangeRefused(c, r)
             \/ BeginFree(c, r) \/ BalanceCovers(c) \/ WriteRow(c)
             \/ CallFails(c) \/ ChangeMemory(c) \/ MemoryGone(c)
      PROVE  BookTypes'
    BY <1>1, CallsKeepTypes
<1>2. CASE \/ \E r \in Requests :
                 \/ Confirmed(r) \/ Expired(r) \/ PollingFails(r) \/ DeletionEnds(r)
                 \/ TimePasses(r) \/ Settles(r)
           \/ NetworkDropped \/ ReadRecords \/ Restore \/ CloseAdapter
    BY <1>2, OthersKeepTypes
<1>3. CASE UNCHANGED managedVars
    BY <1>3 DEF managedVars, tendVars, callVars, worldVars, BookTypes, ManagedTypeOK
<1>. QED
    BY <1>1, <1>2, <1>3 DEF ManagedNext

\* A step under which memory and storage agree leaves them in agreement, or
\* storage has missed something.
LEMMA AgreementStep ==
    ASSUME ManagedAssumption, BookInv, TendedInv', BookTypes',
           [ManagedNext]_managedVars, ~missed'
    PROVE  Agreement'
<1>1. ASSUME NEW c \in Requests, NEW r \in Requests,
             BeginLock(c) \/ BeginChange(c, r) \/ BeginFree(c, r)
      PROVE  Agreement'
    <2>1. missed' = missed
        BY <1>1 DEF BeginLock, BeginChange, BeginFree
    <2>. QED
        BY <1>1, <2>1, BeginningsKeepBook
<1>2. ASSUME NEW c \in Requests, NEW r \in Requests, ChangeRefused(c, r)
      PROVE  Agreement'
    <2>1. missed' = missed
        BY <1>2 DEF ChangeRefused
    <2>. QED
        BY <1>2, <2>1, RefusalKeepsBook
<1>3. ASSUME NEW c \in Requests, BalanceCovers(c) \/ WriteRow(c)
      PROVE  Agreement'
    <2>1. missed' = missed
        BY <1>3 DEF BalanceCovers, WriteRow
    <2>. QED
        BY <1>3, <2>1, BalanceKeepsBook, WriteKeepsBook
<1>4. ASSUME NEW c \in Requests, CallFails(c) \/ ChangeMemory(c) \/ MemoryGone(c)
      PROVE  Agreement'
    <2>1. missed' = missed /\ at[c] \in Parked
        BY <1>4 DEF CallFails, ChangeMemory, MemoryGone, Parked
    <2>2. c \in Running
        BY <2>1 DEF Running, Under, ManagedAssumption
    <2>3. adapter \in {"closed", "open"}
        BY <2>1, <2>2 DEF BookInv, BookTypes, ManagedTypeOK, Agreement, RestoringAgrees
    <2>4. adapter = "open" => CallFails(c) \/ ChangeMemory(c)
        BY <1>4, <2>1 DEF BookInv, Agreement, OpenAgrees, MemoryGone
    <2>. QED
        BY <1>4, <2>1, <2>3, <2>4, EndingsKeepBook, StrayedEndsKeepBook
<1>5. ASSUME NEW r \in Requests, Confirmed(r) \/ Expired(r)
      PROVE  Agreement'
    <2>1. missed' = missed
        BY <1>5 DEF Confirmed, Expired, Release
    <2>. QED
        BY <1>5, <2>1, ReleaseKeepsBook
<1>6. ASSUME NEW r \in Requests, DeletionEnds(r) \/ Settles(r)
      PROVE  Agreement'
    BY <1>6, DeletionKeepsBook, SettlementKeepsBook
<1>7. ASSUME NEW r \in Requests, PollingFails(r) \/ TimePasses(r)
      PROVE  Agreement'
    BY <1>7, StillKeepsBook DEF PollingFails, TimePasses, callVars, worldVars
<1>8. CASE NetworkDropped \/ ReadRecords \/ Restore \/ CloseAdapter
    BY <1>8, NetworkKeepsBook, OpeningKeepsBook, ClosingKeepsBook
<1>9. CASE UNCHANGED managedVars
    BY <1>9, StillKeepsBook DEF managedVars, callVars, worldVars
<1>. QED
    BY <1>1, <1>2, <1>3, <1>4, <1>5, <1>6, <1>7, <1>8, <1>9 DEF ManagedNext

\* Nothing is stored and nothing is in memory at first.
LEMMA InitialBook ==
    ASSUME ManagedAssumption, ManagedInit, TendedInv
    PROVE  BookInv
<1>1. BookTypes
    BY DEF ManagedInit, BookTypes, ManagedTypeOK, IsLocks, NoLocks, Parked,
           ManagedAssumption
<1>2. Running = {}
    BY DEF ManagedInit, Running, Under, Parked
<1>3. DOMAIN Book = {}
    BY DEF ManagedInit, Book, Restrict, NoLocks
<1>4. IsLocks(Book) /\ DOMAIN Book \subseteq DOMAIN Book
    BY <1>3 DEF IsLocks
<1>5. Fits(Book, settled, remote)
    <2>1. {r \in DOMAIN Book : Book[r].deploy \notin settled} = {}
        BY <1>3
    <2>2. Owed(Book, DOMAIN Book, settled) = Locked(Book, {})
        BY <2>1, Zenon DEF Owed
    <2>3. Locked(Book, {}) = 0
        BY SumOfNone DEF Locked
    <2>. QED
        BY <1>3, <2>2, <2>3 DEF Fits, OneEach, ManagedInit, ManagedAssumption
<1>6. NamesTell
    BY DEF ManagedInit, NamesTell, NoLocks
<1>. QED
    BY <1>1, <1>2, <1>5, <1>6 DEF BookInv, Agreement, ClosedAgrees, ManagedInit

\* BookInv is an invariant of the manager.
THEOREM BookInvariance == ManagedSpec => []BookInv
<1>1. ManagedInit /\ TendedInv => BookInv
    BY InitialBook, ManagedAssumption
<1>2. BookInv /\ TendedInv' /\ [ManagedNext]_managedVars => BookInv'
    <2>. SUFFICES ASSUME BookInv, TendedInv', [ManagedNext]_managedVars
                  PROVE  BookInv'
        OBVIOUS
    <2>1. BookTypes'
        BY TypesStep, ManagedAssumption DEF BookInv
    <2>2. (adapter # "open" => locks = NoLocks)'
        BY MemoryStep, ManagedAssumption
    <2>3. Agreement'
        <3>1. CASE ~missed'
            BY <2>1, <3>1, AgreementStep, ManagedAssumption
        <3>2. CASE missed'
            BY <3>2 DEF Agreement
        <3>. QED
            BY <3>1, <3>2
    <2>. QED
        BY <2>1, <2>2, <2>3 DEF BookInv
<1>. QED
    BY <1>1, <1>2, TendedInvariance, PTL DEF ManagedSpec

\* The types of the manager, however calls, releases, closings and openings
\* interleave.
THEOREM ManagedTypeCorrect == ManagedSpec => []ManagedTypeOK
<1>1. BookInv => ManagedTypeOK
    BY DEF BookInv, BookTypes
<1>. QED
    BY <1>1, BookInvariance, PTL

\* For any number of calls, deploys and reservations: as long as nothing was
\* missed, what the open wallet locks is stored as it is in memory, no deploy
\* has two reservations, and the balance covers what is not executed yet.
THEOREM MemoryAgreesWithStorage == ManagedSpec => []LocksAgree
<1>1. BookInv => LocksAgree
    BY DEF BookInv, Agreement, OpenAgrees, Fits, LocksAgree
<1>. QED
    BY <1>1, BookInvariance, PTL
===============================================================================
