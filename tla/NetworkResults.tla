---------------------------- MODULE NetworkResults ----------------------------
(***************************************************************************)
(* How the pages of the playground take answers of the network: an account  *)
(* card asks for total and available balance one after the other, the pages *)
(* for deploys and history ask once, and a watch asks over and over.  The   *)
(* selection changes under them: at once with the user's click, and one      *)
(* rendering late when the selected network is removed.  An answer counts    *)
(* only if no later request has begun and the network is still the one the   *)
(* request began on (useRelevantResultGuard).                               *)
(***************************************************************************)
EXTENDS Naturals, Sequences

CONSTANTS
    Nets,       \* networks
    Home,    \* the one that cannot be removed
    MaxAsked    \* bound: requests of each component

Components == {"card", "page", "watch"}

ASSUME ResultsAssumption ==
    Home \in Nets /\ MaxAsked \in [Components -> Nat]

NoAnswer == <<>>

VARIABLES
    nets,      \* the networks there are
    selected,  \* the client's selection, and the queued state of useSdk
    seenNet,   \* networkIdRef: the network of the last effects
    asked,     \* asked[c]: lastRequestIdRef of the component
    requests,  \* requests[c]: its requests under way
    shown,     \* shown[c]: the networks of the answer it shows, or NoAnswer
    fetching   \* the card's isFetching

resultVars == <<nets, selected, seenNet, asked, requests, shown, fetching>>

-----------------------------------------------------------------------------
\* A request: its number, the network of the effects when it began, and the
\* networks its calls have gone to so far.
Request(c, ref, net) == [id |-> asked[c] + 1, ref |-> ref, calls |-> <<net>>]

ResultsInit ==
    /\ nets = Nets
    /\ selected = Home
    /\ seenNet = Home
    /\ asked = [c \in Components |-> 0]
    /\ requests = [c \in Components |-> {}]
    /\ shown = [c \in Components |-> NoAnswer]
    /\ fetching = FALSE

\* startRequest, then the first call, in one turn.
Ask(c) ==
    /\ asked' = [asked EXCEPT ![c] = @ + 1]
    /\ requests' = [requests EXCEPT ![c] = @ \cup
                       {Request(c, seenNet, selected)}]

\* Mutant: an answer counts whenever the network is the one it was asked on.
RelevantAnyRequest(c, r) == r.ref = seenNet

Relevant(c, r) == r.id = asked[c] /\ r.ref = seenNet

-----------------------------------------------------------------------------
\* An interval tick, the Reload button, a change of the reservations; the
\* page's buttons and its reservation listener.
Reload(c) ==
    /\ c # "watch"
    /\ asked[c] < MaxAsked[c]
    /\ Ask(c)
    /\ fetching' = (fetching \/ c = "card")
    /\ UNCHANGED <<nets, selected, seenNet, shown>>

\* The effects of a render: the ref follows, the card asks again, and the
\* watch of another network is cancelled.
Effects(n) ==
    /\ seenNet' = n
    /\ asked' = [asked EXCEPT !["card"] = @ + 1]
    /\ requests' = [c \in Components |->
           CASE c = "card" -> requests[c] \cup {Request(c, n, n)}
             [] c = "watch" -> {r \in requests[c] : r.ref = n}
             [] OTHER -> requests[c]]
    /\ fetching' = TRUE

\* setNetwork from a click: React renders and runs the effects at its end.
SelectNetwork(n) ==
    /\ n \in nets \ {selected}
    /\ asked["card"] < MaxAsked["card"]
    /\ selected' = n
    /\ Effects(n)
    /\ UNCHANGED <<nets, shown>>

\* removeNetwork of the selected network ends in a microtask of its own; the
\* effects come with the next render.
SelectedRemoved ==
    /\ selected # Home
    /\ seenNet = selected
    /\ nets' = nets \ {selected}
    /\ selected' = Home
    /\ UNCHANGED <<seenNet, asked, requests, shown, fetching>>

LateEffects ==
    /\ seenNet # selected
    /\ asked["card"] < MaxAsked["card"]
    /\ Effects(selected)
    /\ UNCHANGED <<nets, selected, shown>>

\* handleWatch: an earlier watch is cancelled first; the poller is bound to the
\* network the client has selected, the page remembers the one it has rendered.
StartWatch ==
    /\ asked["watch"] < MaxAsked["watch"]
    /\ asked' = [asked EXCEPT !["watch"] = @ + 1]
    /\ requests' = [requests EXCEPT !["watch"] =
           {Request("watch", seenNet, selected)}]
    /\ UNCHANGED <<nets, selected, seenNet, shown, fetching>>

WatchReports(r) ==
    /\ r \in requests["watch"]
    /\ shown' = [shown EXCEPT !["watch"] = r.calls]
    /\ UNCHANGED <<nets, selected, seenNet, asked, requests, fetching>>

\* useWalletBalance: the total is there, the available balance is asked for.
TotalAnswered(r) ==
    /\ r \in requests["card"]
    /\ Len(r.calls) = 1
    /\ requests' = [requests EXCEPT !["card"] = (@ \ {r}) \cup
           {[r EXCEPT !.calls = Append(@, selected)]}]
    /\ UNCHANGED <<nets, selected, seenNet, asked, shown, fetching>>

\* The last answer, or an error in its place; isFetching ends with any request.
Answered(c, r) ==
    /\ c # "watch"
    /\ r \in requests[c]
    /\ c = "card" => Len(r.calls) = 2
    /\ requests' = [requests EXCEPT ![c] = @ \ {r}]
    /\ shown' = [shown EXCEPT ![c] = IF Relevant(c, r) THEN r.calls ELSE @]
    /\ fetching' = (fetching /\ c # "card")
    /\ UNCHANGED <<nets, selected, seenNet, asked>>

AskingFails(c, r) ==
    /\ c # "watch"
    /\ r \in requests[c]
    /\ requests' = [requests EXCEPT ![c] = @ \ {r}]
    /\ shown' = [shown EXCEPT ![c] = IF Relevant(c, r) THEN NoAnswer ELSE @]
    /\ fetching' = (fetching /\ c # "card")
    /\ UNCHANGED <<nets, selected, seenNet, asked>>

-----------------------------------------------------------------------------
ResultsNext ==
    \/ \E c \in Components :
           \/ Reload(c)
           \/ \E r \in requests[c] : Answered(c, r) \/ AskingFails(c, r)
    \/ \E n \in Nets : SelectNetwork(n)
    \/ SelectedRemoved \/ LateEffects \/ StartWatch
    \/ \E r \in requests["watch"] : WatchReports(r)
    \/ \E r \in requests["card"] : TotalAnswered(r)

ResultsSpec == ResultsInit /\ [][ResultsNext]_resultVars

-----------------------------------------------------------------------------
ResultsTypeOK ==
    /\ selected \in nets /\ nets \subseteq Nets
    /\ seenNet \in Nets
    /\ \A c \in Components : asked[c] \in 0 .. MaxAsked[c]
    /\ \A c \in Components : \A r \in requests[c] :
           r.id <= asked[c] /\ Len(r.calls) <= 2
    /\ fetching \in BOOLEAN

(* What a component takes over was asked, in all its parts, of the network    *)
(* the page is on: an answer of the network before, and a balance whose two   *)
(* halves come from different networks, are dropped, also when the user has   *)
(* gone back to the first network meanwhile.                                 *)
AnswersFit ==
    [][\A c \in Components :
           shown'[c] # shown[c] /\ shown'[c] # NoAnswer /\ seenNet = selected
               => \A i \in DOMAIN shown'[c] : shown'[c][i] = selected]_resultVars
=============================================================================
