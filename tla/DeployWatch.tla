------------------------------ MODULE DeployWatch ------------------------------
(***************************************************************************)
(* How a reservation's deploy is watched and who is told: DeployStatusPoller *)
(* asks the node at an interval until the deploy is final, the deadline has *)
(* passed or a request fails; TransactionReservationsManager owns one watch  *)
(* per reservation, restarts it after an update and passes its events on to  *)
(* the subscribers.  An answer may come long after its watch was cancelled,  *)
(* and a subscriber may throw or close the wallet from inside its callback.  *)
(***************************************************************************)
EXTENDS Naturals, FiniteSets

CONSTANTS
    Listeners,  \* callback objects given to subscribe
    MaxWatches  \* bound: calls of DeployStatusPoller.watch

ASSUME WatchAssumption == MaxWatches \in Nat \ {0}

Watches == 1 .. MaxWatches

VARIABLES
    final,       \* the node reports the deploy as finalized
    handle,      \* handle[w]: the closure of one call of watch
    watcher,     \* the manager's entry in watchers, or 0
    watched,     \* the reservation is in the manager
    expiring,    \* its expiration timer runs
    exclusive,   \* it is inside runExclusive
    opened,      \* the manager is active
    subscribers, \* listeners in the reservation's set
    joined,      \* history: the listeners that have subscribed
    endings,     \* history: how many last words a listener has heard, up to 2
    thrown       \* history: a callback has thrown

pollVars == <<final, handle>>
managerVars == <<watcher, watched, expiring, exclusive, opened>>
listenerVars == <<subscribers, joined, endings, thrown>>
watchVars == <<pollVars, managerVars, listenerVars>>

-----------------------------------------------------------------------------
NewWatch == [stage |-> "running", checking |-> FALSE, asked |-> FALSE,
             overdue |-> FALSE, done |-> "pending"]
Unused == [NewWatch EXCEPT !.stage = "unused"]

WatchInit ==
    /\ final = FALSE
    /\ handle = [w \in Watches |-> IF w = 1 THEN NewWatch ELSE Unused]
    /\ watcher = 1
    /\ watched = TRUE
    /\ expiring = TRUE
    /\ exclusive = FALSE
    /\ opened = TRUE
    /\ subscribers = {}
    /\ joined = {}
    /\ endings = [l \in Listeners |-> 0]
    /\ thrown = FALSE

Stop(h) == [h EXCEPT !.stage = IF @ = "running" THEN "stopped" ELSE @]
\* tick's finally, once the answer is there.
Checked(w) == [handle EXCEPT ![w].checking = FALSE, ![w].asked = FALSE]
Cancelled == IF watcher = 0 THEN handle
             ELSE [handle EXCEPT ![watcher] = Stop(@)]
LastWords(told) ==
    [l \in Listeners |-> IF l \in told /\ endings[l] < 2 THEN endings[l] + 1
                         ELSE endings[l]]

-----------------------------------------------------------------------------
(* The poller.                                                             *)

\* An interval tick, the first one included; a tick during a request returns.
Tick(w) ==
    /\ handle[w].stage = "running"
    /\ ~handle[w].checking
    /\ handle' = [handle EXCEPT ![w].checking = TRUE, ![w].asked = TRUE]
    /\ UNCHANGED <<final, managerVars, listenerVars>>

DeployFinal ==
    /\ ~final
    /\ final' = TRUE
    /\ UNCHANGED <<handle, managerVars, listenerVars>>

DeadlinePasses(w) ==
    /\ handle[w].stage = "running"
    /\ ~handle[w].overdue
    /\ handle' = [handle EXCEPT ![w].overdue = TRUE]
    /\ UNCHANGED <<final, managerVars, listenerVars>>

\* Mutant: handleFailed leaves the subscribers where they are.
FinishKeepingSubscribers(w, word) ==
    /\ endings' = LastWords(subscribers)
    /\ handle' = [Checked(w) EXCEPT ![w].stage = "stopped", ![w].done = word]
    /\ watcher' = 0
    /\ watched' = (watched /\ word # "resolved")
    /\ expiring' = (expiring /\ word # "resolved")
    /\ UNCHANGED <<final, exclusive, opened, subscribers, joined, thrown>>

\* succeed and fail: the watch stops, the listeners are told one by one, then
\* the manager acts and done settles.  A listener that throws ends all of it;
\* fail and succeed called again by the catch find the watch finished.
Finish(w, word) ==
    \E told \in SUBSET subscribers, throws \in BOOLEAN :
        /\ throws => told # {}
        /\ ~throws => told = subscribers
        /\ endings' = LastWords(told)
        /\ thrown' = (thrown \/ throws)
        /\ handle' = [Checked(w) EXCEPT ![w].stage = "stopped",
                          ![w].done = IF throws THEN @ ELSE word]
        /\ IF throws
           THEN UNCHANGED <<managerVars, subscribers>>
           ELSE /\ watcher' = 0
                /\ subscribers' = {}
                /\ IF word = "resolved"
                   THEN watched' = FALSE /\ expiring' = FALSE
                   ELSE UNCHANGED <<watched, expiring>>
                /\ UNCHANGED <<exclusive, opened>>
        /\ UNCHANGED <<final, joined>>

Asked(w) == handle[w].stage = "running" /\ handle[w].asked

\* Mutant: checking is reset only by a final answer.
PendingStillChecking(w) ==
    /\ Asked(w)
    /\ ~handle[w].overdue
    /\ handle' = [handle EXCEPT ![w].asked = FALSE]
    /\ UNCHANGED <<final, managerVars, listenerVars>>

Pending(w) ==
    /\ Asked(w)
    /\ ~handle[w].overdue
    /\ handle' = Checked(w)
    /\ UNCHANGED <<final, managerVars, listenerVars>>

TimesOut(w) ==
    /\ Asked(w)
    /\ handle[w].overdue
    /\ Finish(w, "rejected")

Finalized(w) ==
    /\ Asked(w)
    /\ final
    /\ Finish(w, "resolved")

\* The request fails, or a listener throws in onStatus.
RequestFails(w) ==
    /\ Asked(w)
    /\ Finish(w, "rejected")

\* The watch ended while the node was being asked: finished is looked at again.
AnswerTooLate(w) ==
    /\ handle[w].stage = "stopped"
    /\ handle[w].asked
    /\ handle' = Checked(w)
    /\ UNCHANGED <<final, managerVars, listenerVars>>

-----------------------------------------------------------------------------
(* The manager.                                                            *)

Subscribe(l) ==
    /\ opened
    /\ l \notin joined
    /\ joined' = joined \cup {l}
    /\ subscribers' = subscribers \cup {l}
    /\ UNCHANGED <<pollVars, managerVars, endings, thrown>>

\* The manager is closed: the listener hears so at once.
FailSubscription(l) ==
    /\ ~opened
    /\ l \notin joined
    /\ joined' = joined \cup {l}
    /\ endings' = LastWords({l})
    /\ UNCHANGED <<pollVars, managerVars, subscribers, thrown>>

Unsubscribe(l) ==
    /\ l \in subscribers
    /\ subscribers' = subscribers \ {l}
    /\ UNCHANGED <<pollVars, managerVars, joined, endings, thrown>>

\* runExclusive: an update of the reservation.
BeginExclusive ==
    /\ opened /\ watched /\ ~exclusive
    /\ \E w \in Watches : handle[w].stage = "unused"
    /\ exclusive' = TRUE
    /\ handle' = Cancelled
    /\ watcher' = 0
    /\ expiring' = FALSE
    /\ UNCHANGED <<final, watched, opened, listenerVars>>

\* rearm: the subscribers stay and hear the new watch.
EndExclusive ==
    /\ exclusive
    /\ exclusive' = FALSE
    /\ IF opened /\ watched
       THEN /\ \E next \in Watches :
                   /\ handle[next].stage = "unused"
                   /\ \A w \in 1 .. next - 1 : handle[w].stage # "unused"
                   /\ handle' = [handle EXCEPT ![next] = NewWatch]
                   /\ watcher' = next
            /\ expiring' = TRUE
       ELSE UNCHANGED <<handle, watcher, expiring>>
    /\ UNCHANGED <<final, watched, opened, listenerVars>>

\* handleExpired and remove: stopWatch drops the subscribers without a word.
Untrack ==
    /\ handle' = Cancelled
    /\ watcher' = 0
    /\ watched' = FALSE
    /\ expiring' = FALSE
    /\ subscribers' = {}
    /\ UNCHANGED <<final, exclusive, opened, joined, endings, thrown>>

Expires == expiring /\ Untrack
Remove == opened /\ watched /\ ~exclusive /\ Untrack

Close ==
    /\ opened
    /\ opened' = FALSE
    /\ handle' = Cancelled
    /\ watcher' = 0
    /\ watched' = FALSE
    /\ expiring' = FALSE
    /\ subscribers' = {}
    /\ UNCHANGED <<final, exclusive, joined, endings, thrown>>

\* A listener closes the wallet from inside onStatus: whatever the answer was,
\* succeed and fail find the watch finished.
ClosedByListener(w) ==
    /\ Asked(w)
    /\ watcher = w
    /\ subscribers # {}
    /\ opened' = FALSE
    /\ handle' = [Checked(w) EXCEPT ![w].stage = "stopped"]
    /\ watcher' = 0
    /\ watched' = FALSE
    /\ expiring' = FALSE
    /\ subscribers' = {}
    /\ UNCHANGED <<final, exclusive, joined, endings, thrown>>

-----------------------------------------------------------------------------
Answered(w) == Pending(w) \/ TimesOut(w) \/ Finalized(w) \/ RequestFails(w)

WatchNext ==
    \/ \E w \in Watches :
           \/ Tick(w) \/ DeadlinePasses(w) \/ Answered(w)
           \/ AnswerTooLate(w) \/ ClosedByListener(w)
    \/ \E l \in Listeners :
           Subscribe(l) \/ FailSubscription(l) \/ Unsubscribe(l)
    \/ DeployFinal \/ BeginExclusive \/ EndExclusive
    \/ Expires \/ Remove \/ Close

\* setInterval keeps ticking, every request ends by an answer or its timeout,
\* and time passes.
WatchFairness ==
    \A w \in Watches :
        WF_watchVars(Tick(w)) /\ WF_watchVars(Answered(w))
            /\ WF_watchVars(DeadlinePasses(w))

WatchSpec == WatchInit /\ [][WatchNext]_watchVars /\ WatchFairness

-----------------------------------------------------------------------------
Handles == [stage : {"unused", "running", "stopped"}, checking : BOOLEAN,
            asked : BOOLEAN, overdue : BOOLEAN,
            done : {"pending", "resolved", "rejected"}]

WatchTypeOK ==
    /\ handle \in [Watches -> Handles]
    /\ watcher \in Watches \cup {0}
    /\ final \in BOOLEAN /\ thrown \in BOOLEAN /\ opened \in BOOLEAN
    /\ watched \in BOOLEAN /\ expiring \in BOOLEAN /\ exclusive \in BOOLEAN
    /\ subscribers \subseteq joined /\ joined \subseteq Listeners
    /\ endings \in [Listeners -> 0 .. 2]

(* What a reservation still has to do is always in somebody's hands, and    *)
(* nothing else runs: one watch at most, the one in watchers, unless the     *)
(* reservation is being changed or its watch has failed; an expiration       *)
(* timer for whatever is kept; and nothing at all once the wallet is closed. *)
OneWatch ==
    /\ \A w \in Watches : handle[w].stage = "running" =>
           watcher = w /\ watched /\ opened /\ ~exclusive
    /\ watched /\ ~exclusive => expiring

(* A listener hears one last word per subscription, an error or the          *)
(* confirmation and never both, however updates, cancelled watches and late  *)
(* answers interleave; a callback that throws gives this up, because the     *)
(* manager is then not told that the watch has ended.                        *)
OneEnding == thrown \/ \A l \in Listeners : endings[l] < 2

(* Every watch ends: by the node's answer, its failure, the deadline or a    *)
(* cancellation.                                                             *)
WatchEnds ==
    \A w \in Watches : handle[w].stage = "running" ~> handle[w].stage = "stopped"
=============================================================================
