---------------------------- MODULE ServicesProofs ----------------------------
(***************************************************************************)
(* The parts of MCServices, for any number of wallets, networks, requests,  *)
(* reservations and transactions: the list of locked wallets agrees with    *)
(* the sessions once no call of the app is under way, an answer that is     *)
(* shown is one of the network the page is on, the form for reservations    *)
(* accepts what the SDK accepts, and a page of the history is a page of one *)
(* list.  And the composition: its behaviours are behaviours of each part.   *)
(***************************************************************************)
EXTENDS MCServices, NetworksProofs, ManagedReservationsProofs, FunctionTheorems

-----------------------------------------------------------------------------
(* The list of locked wallets                                              *)

\* What an unlock, a signing call and a session belong to.
OnlyOfWallets ==
    /\ sessions \cup unlocking \subseteq Openings
    /\ \A w \in Openings : signing[w] = "unlocking" => InManager(w)
    /\ \A w \in Openings : place[w] = "closed" => w \notin started

\* A session that began during the opening runs, or its lock fell into it.
EarlyLocksKept ==
    \A w \in Openings : SettingUp(w) /\ w \in started
        => w \in sessions \cup lockedEarly

BadgeInv == BadgeTypeOK /\ OnlyOfWallets /\ EarlyLocksKept /\ LocksShown

\* The start: no wallet is on the page.
LEMMA BadgeInitInv ==
    ASSUME BadgeInit
    PROVE  BadgeInv
BY DEF BadgeInit, BadgeInv, BadgeTypeOK, OnlyOfWallets, EarlyLocksKept, LocksShown,
       SettingUp

\* Opening and creating a wallet: what the page forgets was not a lock.
LEMMA PlacesKeepInv ==
    ASSUME BadgeInv, NEW w \in Openings,
           CreateWallet(w) \/ BeginOpening(w) \/ OpenHolds(w) \/ OpenWallet(w)
    PROVE  BadgeInv'
<1> USE DEF BadgeInv, BadgeTypeOK, OnlyOfWallets, EarlyLocksKept, LocksShown,
            SettingUp, InManager, sessionVars
<1>1. CASE CreateWallet(w)
  BY <1>1 DEF CreateWallet
<1>2. CASE BeginOpening(w)
  BY <1>2 DEF BeginOpening
<1>3. CASE OpenHolds(w)
  BY <1>3 DEF OpenHolds, HoldSession, Overtake
<1>4. CASE OpenWallet(w)
  BY <1>4 DEF OpenWallet
<1> QED
  BY <1>1, <1>2, <1>3, <1>4

\* The end of a session: a lock is listed, a closed wallet needs no listing.
LEMMA EndingsKeepInv ==
    ASSUME BadgeInv, NEW w \in Openings,
           \/ OpenFails(w) \/ LockWallet(w) \/ AutoLock(w) \/ CloseFromPage(w)
           \/ CloseAllWallets
    PROVE  BadgeInv'
<1> USE DEF BadgeInv, BadgeTypeOK, OnlyOfWallets, EarlyLocksKept, LocksShown,
            SettingUp, InManager, ReleaseSessions, Overtake
<1>1. CASE OpenFails(w)
  BY <1>1 DEF OpenFails
<1>2. CASE LockWallet(w)
  BY <1>2 DEF LockWallet, LockedEvent
<1>3. CASE AutoLock(w)
  BY <1>3 DEF AutoLock, LockedEvent
<1>4. CASE CloseFromPage(w)
  BY <1>4 DEF CloseFromPage
<1>5. CASE CloseAllWallets
  BY <1>5 DEF CloseAllWallets
<1> QED
  BY <1>1, <1>2, <1>3, <1>4, <1>5

\* unlockWallet takes the wallet off the list with the session it starts.
LEMMA UnlocksKeepInv ==
    ASSUME BadgeInv, NEW w \in Openings,
           BeginUnlock(w) \/ UnlockWallet(w) \/ UnlockFails(w)
    PROVE  BadgeInv'
<1> USE DEF BadgeInv, BadgeTypeOK, OnlyOfWallets, EarlyLocksKept, LocksShown,
            SettingUp, InManager
<1>1. CASE BeginUnlock(w)
  BY <1>1 DEF BeginUnlock
<1>2. CASE UnlockWallet(w)
  BY <1>2 DEF UnlockWallet, HoldSession
<1>3. CASE UnlockFails(w)
  BY <1>3 DEF UnlockFails
<1> QED
  BY <1>1, <1>2, <1>3

\* A signing call that unlocks comes back to the list when it ends.
LEMMA SigningKeepsInv ==
    ASSUME BadgeInv, NEW w \in Openings,
           BeginSign(w) \/ SignHolds(w) \/ SignFails(w) \/ SignEnds(w)
    PROVE  BadgeInv'
<1> USE DEF BadgeInv, BadgeTypeOK, OnlyOfWallets, EarlyLocksKept, LocksShown,
            SettingUp, InManager
<1>1. CASE BeginSign(w)
  BY <1>1 DEF BeginSign
<1>2. CASE SignHolds(w)
  BY <1>2 DEF SignHolds, HoldSession
<1>3. CASE SignFails(w)
  BY <1>3 DEF SignFails
<1>4. CASE SignEnds(w)
  BY <1>4 DEF SignEnds
<1> QED
  BY <1>1, <1>2, <1>3, <1>4

\* BadgeInv is an invariant of the page.
THEOREM BadgeInvariance == BadgeSpec => []BadgeInv
<1>1. BadgeInit => BadgeInv
  BY BadgeInitInv
<1>2. BadgeInv /\ [BadgeNext]_badgeVars => BadgeInv'
  <2> SUFFICES ASSUME BadgeInv, [BadgeNext]_badgeVars
               PROVE  BadgeInv'
    OBVIOUS
  <2>1. CASE BadgeNext
    <3>1. ASSUME NEW w \in Openings,
                 CreateWallet(w) \/ BeginOpening(w) \/ OpenHolds(w) \/ OpenWallet(w)
          PROVE  BadgeInv'
      BY <3>1, PlacesKeepInv
    <3>2. ASSUME NEW w \in Openings,
                 OpenFails(w) \/ LockWallet(w) \/ AutoLock(w) \/ CloseFromPage(w)
          PROVE  BadgeInv'
      BY <3>2, EndingsKeepInv
    <3>3. ASSUME CloseAllWallets
          PROVE  BadgeInv'
      BY <3>3, EndingsKeepInv DEF CloseAllWallets
    <3>4. ASSUME NEW w \in Openings,
                 BeginUnlock(w) \/ UnlockWallet(w) \/ UnlockFails(w)
          PROVE  BadgeInv'
      BY <3>4, UnlocksKeepInv
    <3>5. ASSUME NEW w \in Openings,
                 BeginSign(w) \/ SignHolds(w) \/ SignFails(w) \/ SignEnds(w)
          PROVE  BadgeInv'
      BY <3>5, SigningKeepsInv
    <3> QED
      BY <2>1, <3>1, <3>2, <3>3, <3>4, <3>5 DEF BadgeNext
  <2>2. CASE UNCHANGED badgeVars
    BY <2>2 DEF BadgeInv, BadgeTypeOK, OnlyOfWallets, EarlyLocksKept, LocksShown,
               SettingUp, InManager, badgeVars, sessionVars
  <2> QED
    BY <2>1, <2>2
<1> QED
  BY <1>1, <1>2, PTL DEF BadgeSpec

\* For any number of wallets, what the page lists as locked is locked, but for
\* a signing call that is about to say so, and what is locked is listed, but
\* for a lock that came before openWallet was answered.
THEOREM BadgesAgree == BadgeSpec => []LocksShown
<1>1. BadgeInv => LocksShown
  BY DEF BadgeInv
<1> QED
  BY <1>1, BadgeInvariance, PTL

-----------------------------------------------------------------------------
(* Answers of the network                                                  *)

\* Networks come and go, but one that the page still has after its removal
\* does not come back.
NetsInv ==
    /\ selected \in nets /\ Home \in nets /\ nets \subseteq Nets /\ seenNet \in Nets
    /\ seenNet # selected => seenNet \notin nets
    /\ fetching \in BOOLEAN /\ DOMAIN shown = Components

\* Requests are numbered.
RequestsInv ==
    /\ \A c \in Components : asked[c] \in 0 .. MaxAsked[c]
    /\ DOMAIN asked = Components /\ DOMAIN requests = Components
    /\ \A c \in Components : \A r \in requests[c] :
           /\ r \in [id : Nat, ref : Nets, calls : Seq(Nets)]
           /\ r.id <= asked[c] /\ Len(r.calls) <= 2

\* Every call of the request has gone to the network it began on, if that is
\* still there.
OneNetwork(r) == r.ref \in nets => \A i \in 1 .. Len(r.calls) : r.calls[i] = r.ref

\* So it is of every request of a page and of a watch, which is never one of
\* another network, and of the last request of the card.
CallsFit ==
    /\ \A r \in requests["page"] : OneNetwork(r)
    /\ \A r \in requests["watch"] : OneNetwork(r) /\ r.ref = seenNet
    /\ \A r \in requests["card"] : r.id = asked["card"] => OneNetwork(r) /\ r.ref = seenNet

ResultsInv == NetsInv /\ RequestsInv /\ CallsFit

\* A new request, on the network that is selected.
LEMMA RequestFacts ==
    ASSUME NetsInv, RequestsInv, NEW c \in Components, NEW ref \in Nets, NEW n \in Nets
    PROVE  /\ Request(c, ref, n).id = asked[c] + 1
           /\ Request(c, ref, n).ref = ref
           /\ Request(c, ref, n).calls = <<n>>
           /\ Request(c, ref, n) \in [id : Nat, ref : Nets, calls : Seq(Nets)]
           /\ Len(Request(c, ref, n).calls) = 1
           /\ Request(c, ref, n).calls[1] = n
<1>1. asked[c] + 1 \in Nat
    BY ResultsAssumption DEF RequestsInv
<1>. QED
    BY <1>1 DEF Request

\* A component asks.
LEMMA AskKeepsInv ==
    ASSUME ResultsInv, NEW c \in Components, asked[c] < MaxAsked[c], Ask(c),
           UNCHANGED <<nets, selected, seenNet>>
    PROVE  RequestsInv' /\ CallsFit'
<1>. DEFINE new == Request(c, seenNet, selected)
<1>1. /\ new.id = asked[c] + 1 /\ new.ref = seenNet
      /\ new \in [id : Nat, ref : Nets, calls : Seq(Nets)]
      /\ Len(new.calls) = 1 /\ new.calls[1] = selected
    BY RequestFacts DEF ResultsInv, NetsInv
<1>2. /\ asked[c] \in Nat /\ MaxAsked[c] \in Nat
      /\ asked' = [asked EXCEPT ![c] = @ + 1]
      /\ requests' = [requests EXCEPT ![c] = @ \cup {new}]
    <2>1. asked[c] \in 0 .. MaxAsked[c] /\ MaxAsked[c] \in Nat
        BY ResultsAssumption DEF ResultsInv, RequestsInv
    <2>. QED
        BY <2>1 DEF Ask
<1>3. RequestsInv'
    <2>1. \A d \in Components : asked'[d] \in 0 .. MaxAsked[d]
        BY <1>2 DEF ResultsInv, RequestsInv
    <2>2. ASSUME NEW d \in Components, NEW r \in requests'[d]
          PROVE  /\ r \in [id : Nat, ref : Nets, calls : Seq(Nets)]
                 /\ r.id <= asked'[d] /\ Len(r.calls) <= 2
        <3>1. CASE r \in requests[d]
            BY <1>2, <3>1 DEF ResultsInv, RequestsInv
        <3>2. CASE r \notin requests[d]
            <4>1. d = c /\ r = new
                BY <1>2, <2>2, <3>2 DEF ResultsInv, RequestsInv
            <4>2. asked'[d] = asked[c] + 1
                BY <1>2, <4>1 DEF ResultsInv, RequestsInv
            <4>3. new.id \in Nat /\ new.id <= asked'[d] /\ Len(new.calls) <= 2
                BY <1>1, <1>2, <4>2
            <4>. QED
                BY <1>1, <4>1, <4>3, Zenon
        <3>. QED
            BY <3>1, <3>2
    <2>. QED
        BY <1>2, <2>1, <2>2 DEF ResultsInv, RequestsInv
<1>4. OneNetwork(new)
    BY <1>1 DEF OneNetwork, ResultsInv, NetsInv
<1>5. \A r : OneNetwork(r)' <=> OneNetwork(r)
    BY DEF OneNetwork
<1>6. CallsFit'
    <2>1. \A d \in Components \ {c} : requests'[d] = requests[d] /\ asked'[d] = asked[d]
        BY <1>2 DEF ResultsInv, RequestsInv
    <2>2. requests'[c] = requests[c] \cup {new} /\ asked'[c] = asked[c] + 1
        BY <1>2 DEF ResultsInv, RequestsInv
    <2>3. \A r \in requests[c] : r.id # asked'[c]
        BY <1>2, <2>2 DEF ResultsInv, RequestsInv
    <2>. QED
        BY <1>1, <1>4, <1>5, <2>1, <2>2, <2>3 DEF Components, CallsFit, ResultsInv
<1>. QED
    BY <1>3, <1>6

\* The effects of a render on network n, which is selected then.
LEMMA EffectsKeepInv ==
    ASSUME ResultsInv, NEW n \in nets, Effects(n), asked["card"] < MaxAsked["card"],
           selected' = n, UNCHANGED <<nets, shown>>
    PROVE  ResultsInv'
<1>. DEFINE new == Request("card", n, n)
<1>1. /\ new.id = asked["card"] + 1 /\ new.ref = n
      /\ new \in [id : Nat, ref : Nets, calls : Seq(Nets)]
      /\ Len(new.calls) = 1 /\ new.calls[1] = n
    BY RequestFacts DEF ResultsInv, NetsInv, Components
<1>2. NetsInv'
    BY DEF Effects, ResultsInv, NetsInv
<1>3. /\ asked["card"] \in Nat /\ MaxAsked["card"] \in Nat
      /\ asked' = [asked EXCEPT !["card"] = @ + 1]
      /\ DOMAIN requests' = Components /\ seenNet' = n
      /\ requests'["card"] = requests["card"] \cup {new}
      /\ requests'["watch"] = {r \in requests["watch"] : r.ref = n}
      /\ requests'["page"] = requests["page"]
    BY ResultsAssumption DEF Effects, ResultsInv, RequestsInv, Components
<1>4. /\ asked'["card"] = asked["card"] + 1
      /\ \A d \in Components \ {"card"} : asked'[d] = asked[d]
    BY <1>3 DEF ResultsInv, RequestsInv, Components
<1>5. RequestsInv'
    <2>1. \A d \in Components : asked'[d] \in 0 .. MaxAsked[d] /\ asked[d] <= asked'[d]
        BY <1>3, <1>4 DEF ResultsInv, RequestsInv
    <2>2. ASSUME NEW d \in Components, NEW r \in requests'[d]
          PROVE  /\ r \in [id : Nat, ref : Nets, calls : Seq(Nets)]
                 /\ r.id <= asked'[d] /\ Len(r.calls) <= 2
        <3>1. CASE r \in requests[d]
            <4>1. /\ r \in [id : Nat, ref : Nets, calls : Seq(Nets)]
                  /\ r.id <= asked[d] /\ asked[d] \in Nat /\ asked'[d] \in Nat
                  /\ Len(r.calls) <= 2
                BY <1>4, <3>1 DEF ResultsInv, RequestsInv
            <4>. QED
                BY <2>1, <4>1
        <3>2. CASE r \notin requests[d]
            <4>1. d = "card" /\ r = new
                BY <1>3, <2>2, <3>2 DEF Components
            <4>2. new.id \in Nat /\ new.id <= asked'[d] /\ Len(new.calls) <= 2
                BY <1>1, <1>3, <1>4, <4>1, SMTT(30)
            <4>. QED
                BY <1>1, <4>1, <4>2, Zenon
        <3>. QED
            BY <3>1, <3>2
    <2>. QED
        BY <1>3, <2>1, <2>2 DEF ResultsInv, RequestsInv
<1>6. CallsFit'
    <2>1. OneNetwork(new) /\ \A r : OneNetwork(r)' <=> OneNetwork(r)
        BY <1>1 DEF OneNetwork
    <2>2. \A r \in requests["card"] : r.id # asked'["card"]
        BY <1>3, <1>4 DEF ResultsInv, RequestsInv, Components
    <2>. QED
        BY <1>1, <1>3, <2>1, <2>2 DEF CallsFit, ResultsInv
<1>. QED
    BY <1>2, <1>5, <1>6 DEF ResultsInv

\* The selected network is removed: what asks it goes nowhere.
LEMMA RemovalKeepsInv ==
    ASSUME ResultsInv, SelectedRemoved
    PROVE  ResultsInv'
<1>1. NetsInv'
    BY DEF SelectedRemoved, ResultsInv, NetsInv
<1>2. RequestsInv'
    BY DEF SelectedRemoved, ResultsInv, RequestsInv
<1>3. \A r : OneNetwork(r) => OneNetwork(r)'
    BY DEF SelectedRemoved, OneNetwork
<1>4. CallsFit'
    BY <1>3 DEF SelectedRemoved, ResultsInv, CallsFit
<1>. QED
    BY <1>1, <1>2, <1>4 DEF ResultsInv

\* A watch is asked for, in place of another.
LEMMA WatchKeepsInv ==
    ASSUME ResultsInv, StartWatch
    PROVE  ResultsInv'
<1>. DEFINE new == Request("watch", seenNet, selected)
<1>1. /\ new.id = asked["watch"] + 1 /\ new.ref = seenNet
      /\ new \in [id : Nat, ref : Nets, calls : Seq(Nets)]
      /\ Len(new.calls) = 1 /\ new.calls[1] = selected
    BY RequestFacts DEF ResultsInv, NetsInv, Components
<1>2. /\ asked["watch"] \in Nat /\ MaxAsked["watch"] \in Nat
      /\ asked["watch"] < MaxAsked["watch"]
      /\ asked' = [asked EXCEPT !["watch"] = @ + 1]
      /\ requests' = [requests EXCEPT !["watch"] = {new}]
      /\ UNCHANGED <<nets, selected, seenNet, shown, fetching>>
    <2>. "watch" \in Components
        BY DEF Components
    <2>1. asked["watch"] \in Nat /\ MaxAsked["watch"] \in Nat
        BY ResultsAssumption DEF ResultsInv, RequestsInv
    <2>2. asked["watch"] < MaxAsked["watch"]
        BY DEF StartWatch
    <2>3. asked' = [asked EXCEPT !["watch"] = @ + 1]
        BY DEF StartWatch
    <2>4. requests' = [requests EXCEPT !["watch"] = {new}]
        BY DEF StartWatch
    <2>5. UNCHANGED <<nets, selected, seenNet, shown, fetching>>
        BY DEF StartWatch
    <2>. QED
        BY <2>1, <2>2, <2>3, <2>4, <2>5, Zenon
<1>3. /\ asked'["watch"] = asked["watch"] + 1 /\ requests'["watch"] = {new}
      /\ \A d \in Components \ {"watch"} : asked'[d] = asked[d] /\ requests'[d] = requests[d]
    BY <1>2 DEF ResultsInv, RequestsInv, Components
<1>4. NetsInv'
    BY <1>2 DEF ResultsInv, NetsInv
<1>. HIDE DEF new
<1>5. RequestsInv'
    <2>1. DOMAIN asked' = Components /\ DOMAIN requests' = Components
        BY <1>2 DEF ResultsInv, RequestsInv
    <2>2. \A d \in Components : asked'[d] \in 0 .. MaxAsked[d]
        BY <1>2, <1>3 DEF ResultsInv, RequestsInv
    <2>3. ASSUME NEW d \in Components, NEW r \in requests'[d]
          PROVE  /\ r \in [id : Nat, ref : Nets, calls : Seq(Nets)]
                 /\ r.id <= asked'[d] /\ Len(r.calls) <= 2
        <3>1. CASE d = "watch"
            <4>1. r = new
                BY <1>3, <2>3, <3>1
            <4>2. new.id <= asked'[d] /\ Len(new.calls) <= 2
                BY <1>1, <1>2, <1>3, <3>1
            <4>. QED
                BY <1>1, <4>1, <4>2, Zenon
        <3>2. CASE d # "watch"
            BY <1>3, <2>3, <3>2 DEF ResultsInv, RequestsInv
        <3>. QED
            BY <3>1, <3>2
    <2>. QED
        BY <2>1, <2>2, <2>3 DEF RequestsInv
<1>6. OneNetwork(new) /\ \A r : OneNetwork(r)' <=> OneNetwork(r)
    BY <1>1, <1>2 DEF OneNetwork, ResultsInv, NetsInv
<1>7. CallsFit'
    BY <1>1, <1>2, <1>3, <1>6 DEF CallsFit, ResultsInv, Components
<1>. QED
    BY <1>4, <1>5, <1>7 DEF ResultsInv

\* The total is there, the available balance is asked for: of the network the
\* page is on, if the request counts and that network is still there.
LEMMA TotalKeepsInv ==
    ASSUME ResultsInv, NEW r \in requests["card"], TotalAnswered(r)
    PROVE  ResultsInv'
<1>. DEFINE new == [r EXCEPT !.calls = Append(@, selected)]
<1>1. /\ UNCHANGED <<nets, selected, seenNet, asked, shown, fetching>>
      /\ requests' = [requests EXCEPT !["card"] = (@ \ {r}) \cup {new}]
      /\ Len(r.calls) = 1
    BY DEF TotalAnswered
<1>2. /\ r \in [id : Nat, ref : Nets, calls : Seq(Nets)]
      /\ r.id <= asked["card"] /\ selected \in Nets
    BY DEF ResultsInv, RequestsInv, NetsInv, Components
<1>3. requests'["card"] = (requests["card"] \ {r}) \cup {new}
    BY <1>1 DEF ResultsInv, RequestsInv, Components
<1>4. \A d \in Components \ {"card"} : requests'[d] = requests[d]
    BY <1>1 DEF ResultsInv, RequestsInv, Components
<1>5. new.id = r.id /\ new.ref = r.ref /\ new.calls = Append(r.calls, selected)
    BY <1>2
<1>6. /\ new \in [id : Nat, ref : Nets, calls : Seq(Nets)] /\ Len(new.calls) = 2
      /\ new.calls[1] = r.calls[1] /\ new.calls[2] = selected
    BY <1>1, <1>2, <1>5, AppendProperties, SMTT(30)
<1>7. NetsInv'
    BY <1>1 DEF ResultsInv, NetsInv
<1>8. RequestsInv'
    <2>1. ASSUME NEW d \in Components, NEW q \in requests'[d]
          PROVE  /\ q \in [id : Nat, ref : Nets, calls : Seq(Nets)]
                 /\ q.id <= asked[d] /\ Len(q.calls) <= 2
        <3>1. CASE q \in requests[d]
            BY <3>1 DEF ResultsInv, RequestsInv
        <3>2. CASE q \notin requests[d]
            <4>1. d = "card" /\ q = new
                BY <1>3, <1>4, <2>1, <3>2
            <4>. QED
                BY <1>2, <1>5, <1>6, <4>1
        <3>. QED
            BY <3>1, <3>2
    <2>. QED
        BY <1>1, <2>1 DEF ResultsInv, RequestsInv
<1>9. \A q : OneNetwork(q)' <=> OneNetwork(q)
    BY <1>1 DEF OneNetwork
<1>10. new.id = asked["card"] => OneNetwork(new) /\ new.ref = seenNet
    <2>1. HAVE new.id = asked["card"]
    <2>2. OneNetwork(r) /\ r.ref = seenNet
        BY <1>5, <2>1 DEF ResultsInv, CallsFit
    <2>3. r.ref \in nets => r.calls[1] = r.ref /\ selected = r.ref
        BY <1>1, <2>2 DEF ResultsInv, NetsInv, OneNetwork
    <2>. QED
        BY <1>5, <1>6, <2>2, <2>3 DEF OneNetwork
<1>11. CallsFit'
    BY <1>1, <1>3, <1>4, <1>9, <1>10 DEF CallsFit, ResultsInv, Components
<1>. QED
    BY <1>7, <1>8, <1>11 DEF ResultsInv

\* A request that is answered or fails is under way no more.
LEMMA EndKeepsInv ==
    ASSUME ResultsInv, NEW c \in Components, NEW r \in requests[c],
           Answered(c, r) \/ AskingFails(c, r)
    PROVE  ResultsInv'
<1>1. /\ UNCHANGED <<nets, selected, seenNet, asked>>
      /\ requests' = [requests EXCEPT ![c] = @ \ {r}]
      /\ fetching' \in BOOLEAN /\ DOMAIN shown' = Components
    BY DEF Answered, AskingFails, ResultsInv, NetsInv
<1>2. \A d \in Components : requests'[d] \subseteq requests[d]
    BY <1>1 DEF ResultsInv, RequestsInv
<1>3. NetsInv'
    BY <1>1 DEF ResultsInv, NetsInv
<1>4. RequestsInv'
    BY <1>1, <1>2 DEF ResultsInv, RequestsInv
<1>5. \A q : OneNetwork(q)' <=> OneNetwork(q)
    BY <1>1 DEF OneNetwork
<1>6. CallsFit'
    BY <1>1, <1>2, <1>5 DEF ResultsInv, CallsFit, Components
<1>. QED
    BY <1>3, <1>4, <1>6 DEF ResultsInv

\* Every other step of a component.
LEMMA ComponentKeepsInv ==
    ASSUME ResultsInv,
           \/ \E c \in Components : Reload(c)
           \/ \E n \in Nets : SelectNetwork(n)
           \/ LateEffects
           \/ \E r \in requests["watch"] : WatchReports(r)
    PROVE  ResultsInv'
<1>1. ASSUME NEW c \in Components, Reload(c) PROVE ResultsInv'
    <2>1. NetsInv'
        BY <1>1 DEF Reload, ResultsInv, NetsInv
    <2>2. RequestsInv' /\ CallsFit'
        BY <1>1, AskKeepsInv DEF Reload
    <2>. QED
        BY <2>1, <2>2 DEF ResultsInv
<1>2. ASSUME NEW n \in Nets, SelectNetwork(n) PROVE ResultsInv'
    BY <1>2, EffectsKeepInv DEF SelectNetwork
<1>3. ASSUME LateEffects PROVE ResultsInv'
    BY <1>3, EffectsKeepInv DEF LateEffects, ResultsInv, NetsInv
<1>4. ASSUME NEW r \in requests["watch"], WatchReports(r) PROVE ResultsInv'
    <2>1. NetsInv' /\ RequestsInv'
        BY <1>4 DEF WatchReports, ResultsInv, NetsInv, RequestsInv
    <2>2. CallsFit'
        <3>1. UNCHANGED <<nets, seenNet, asked, requests>>
            BY <1>4 DEF WatchReports
        <3>2. \A q : OneNetwork(q)' <=> OneNetwork(q)
            BY <3>1 DEF OneNetwork
        <3>. QED
            BY <3>1, <3>2, Zenon DEF ResultsInv, CallsFit
    <2>. QED
        BY <2>1, <2>2 DEF ResultsInv
<1>. QED
    BY <1>1, <1>2, <1>3, <1>4

\* Whatever the user selects, removes and asks for, the calls of a request that
\* will count have gone to the network the page is on.
THEOREM ResultsInvariance == ResultsSpec => []ResultsInv
<1>1. ASSUME ResultsInit PROVE ResultsInv
    <2>3. NetsInv
        BY <1>1, ResultsAssumption DEF ResultsInit, NetsInv
    <2>1. RequestsInv
        <3>1. \A c \in Components : MaxAsked[c] \in Nat
            BY ResultsAssumption
        <3>2. \A c \in Components : asked[c] = 0 /\ requests[c] = {}
            BY <1>1 DEF ResultsInit
        <3>3. DOMAIN asked = Components /\ DOMAIN requests = Components
            BY <1>1 DEF ResultsInit
        <3>. QED
            BY <3>1, <3>2, <3>3 DEF RequestsInv
    <2>2. CallsFit
        BY <1>1 DEF ResultsInit, CallsFit, Components
    <2>. QED
        BY <2>3, <2>1, <2>2 DEF ResultsInv
<1>2. ASSUME ResultsInv, [ResultsNext]_resultVars PROVE ResultsInv'
    <2>1. CASE UNCHANGED resultVars
        BY <1>2, <2>1 DEF resultVars, ResultsInv, NetsInv, RequestsInv, CallsFit,
                         OneNetwork
    <2>2. ASSUME ResultsNext PROVE ResultsInv'
        BY <1>2, <2>2, RemovalKeepsInv, WatchKeepsInv, TotalKeepsInv, EndKeepsInv,
           ComponentKeepsInv DEF ResultsNext
    <2>. QED
        BY <1>2, <2>1, <2>2
<1>. QED
    BY <1>1, <1>2, PTL DEF ResultsSpec

\* A step of a page under the invariant shows no answer of another network.
LEMMA StepsFit ==
    ASSUME ResultsInv, ResultsNext, NEW c \in Components,
           shown'[c] # shown[c], shown'[c] # NoAnswer, seenNet = selected
    PROVE  \A i \in DOMAIN shown'[c] : shown'[c][i] = selected
<1>1. /\ selected \in nets
      /\ \A d \in Components : \A r \in requests[d] :
             DOMAIN r.calls = 1 .. Len(r.calls)
    BY DEF ResultsInv, NetsInv, RequestsInv
<1>2. PICK d \in Components : \E r \in requests[d] :
          Answered(d, r) \/ AskingFails(d, r) \/ (d = "watch" /\ WatchReports(r))
    BY DEF ResultsNext, Components, Reload, SelectNetwork, SelectedRemoved,
           LateEffects, StartWatch, TotalAnswered
<1>r. PICK r \in requests[d] :
          Answered(d, r) \/ AskingFails(d, r) \/ (d = "watch" /\ WatchReports(r))
    BY <1>2
<1>3. CASE Answered(d, r)
    <2>1. d = c /\ shown'[c] = r.calls /\ Relevant(c, r) /\ c \in {"card", "page"}
        BY <1>3 DEF Answered, ResultsInv, NetsInv, Components
    <2>2. OneNetwork(r) /\ r.ref = seenNet
        BY <2>1 DEF Relevant, ResultsInv, CallsFit
    <2>. QED
        BY <1>1, <2>1, <2>2 DEF OneNetwork
<1>4. CASE AskingFails(d, r)
    BY <1>4 DEF AskingFails, ResultsInv, NetsInv
<1>5. CASE d = "watch" /\ WatchReports(r)
    <2>1. c = "watch" /\ shown'[c] = r.calls
        BY <1>5 DEF WatchReports, ResultsInv, NetsInv
    <2>2. OneNetwork(r) /\ r.ref = seenNet
        BY <1>5 DEF ResultsInv, CallsFit
    <2>. QED
        BY <1>1, <1>5, <2>1, <2>2 DEF OneNetwork
<1>. QED
    BY <1>r, <1>3, <1>4, <1>5

\* For any number of networks and requests, an answer that is shown was asked,
\* in all its parts, of the network the page is on.
THEOREM AnswersOfTheNetwork == ResultsSpec => AnswersFit
<1>1. ResultsInv /\ [ResultsNext]_resultVars
      => [\A c \in Components :
              shown'[c] # shown[c] /\ shown'[c] # NoAnswer /\ seenNet = selected
                  => \A i \in DOMAIN shown'[c] : shown'[c][i] = selected]_resultVars
    BY StepsFit
<1>. QED
    BY <1>1, ResultsInvariance, PTL DEF ResultsSpec, AnswersFit

-----------------------------------------------------------------------------
(* The form for reservations                                               *)

\* The equation that the total of rows solves.
RowBody(S, g) ==
    [T \in SUBSET S |->
        IF T = {} THEN 0 ELSE Pick(T).pending + g[T \ {Pick(T)}]]

\* The total is a solution of it, if it has one.
LEMMA TotalIsChosen ==
    ASSUME NEW S
    PROVE  Total(S) = (CHOOSE g : g = RowBody(S, g))[S]
BY DEF Total, MapThenSumSet, MapThenFoldSet, RowBody, Pick

\* It is the sum of what the rows have pending.
LEMMA TotalIsSum ==
    ASSUME NEW S, IsFiniteSet(S), NEW f, \A r \in S : f[r] \in Nat,
           \A r \in S : f[r] = r.pending
    PROVE  Total(S) = SumFunctionOnSet(f, S)
<1>. DEFINE g == [T \in SUBSET S |-> Cardinality(Units(f, T))]
            h == CHOOSE k : k = RowBody(S, k)
<1>1. g = Body(f, S, g)
    BY CountSolves, ZenonT(40)
<1>2. ASSUME NEW k PROVE Body(f, S, k) = RowBody(S, k)
    <2>1. \A T \in SUBSET S : T # {} => Pick(T) \in S
        BY DEF Pick
    <2>2. \A T \in SUBSET S : T # {} => f[Pick(T)] = Pick(T).pending
        BY <2>1
    <2>. QED
        BY <2>2 DEF Body, RowBody
<1>3. g = RowBody(S, g)
    BY <1>1, <1>2, Zenon
<1>4. h = RowBody(S, h)
    BY <1>3
<1>5. h = Body(f, S, h)
    BY <1>2, <1>4, Zenon
<1>6. Total(S) = h[S]
    BY TotalIsChosen, Zenon
<1>7. g[S] = SumFunctionOnSet(f, S)
    BY SumCounts
<1>. HIDE DEF g, h
<1>8. h[S] = g[S]
    BY <1>1, <1>5, SolutionsAgree
<1>. QED
    BY <1>6, <1>7, <1>8

\* So it is a natural.
LEMMA TotalType ==
    ASSUME NEW S, IsFiniteSet(S), \A r \in S : r.pending \in Nat
    PROVE  Total(S) \in Nat
<1>. DEFINE f == [r \in S |-> r.pending]
<1>1. /\ \A r \in S : f[r] = r.pending
      /\ \A r \in S : f[r] \in Nat
    OBVIOUS
<1>. HIDE DEF f
<1>2. Total(S) = SumFunctionOnSet(f, S)
    BY <1>1, TotalIsSum
<1>. QED
    BY <1>1, <1>2, SumType

\* The balance that is shown.
LEMMA MaxOfZero ==
    ASSUME NEW n \in Int
    PROVE  Max({0, n}) = IF n > 0 THEN n ELSE 0
<1>1. \E x \in {0, n} : \A y \in {0, n} : x >= y
    OBVIOUS
<1>. QED
    BY <1>1 DEF Max

\* Rows have ids of their own, accounts of the wallet and amounts.
RowsFit ==
    /\ IsFiniteSet(listed)
    /\ \A r \in listed :
           r \in [id : 1 .. MaxRows, account : Accounts, deployId : DeployIds, pending : Nat]

SubmissionFits ==
    submission # NoSubmission =>
        /\ submission.row \in 0 .. MaxRows /\ submission.account \in Accounts
        /\ submission.deployId \in DeployIds /\ submission.pending \in Nat

\* A balance that is up to date is what the account has left.
LimitFits ==
    exact =>
        /\ account # NoAccount
        /\ available = Max({0, funds - Total(OfAccount(listed, account))})

FormInv ==
    FormTypeOK /\ RowsFit /\ SubmissionFits /\ LimitFits /\ funds \in 0 .. Balance

\* What the totals of the form are.
LEMMA FormTotals ==
    ASSUME RowsFit, NEW S \in SUBSET listed
    PROVE  IsFiniteSet(S) /\ Total(S) \in Nat
<1>1. IsFiniteSet(S)
    BY FS_Subset DEF RowsFit
<1>2. \A r \in S : r.pending \in Nat
    BY DEF RowsFit
<1>. QED
    BY <1>1, <1>2, TotalType

\* A balance told is one an account can have.
LEMMA LimitRange ==
    ASSUME FormInv
    PROVE  Max({0, funds - Total(OfAccount(listed, account))}) \in 0 .. Balance
<1>1. OfAccount(listed, account) \in SUBSET listed
    BY DEF OfAccount
<1>2. Total(OfAccount(listed, account)) \in Nat
    BY <1>1, FormTotals DEF FormInv
<1>. DEFINE n == funds - Total(OfAccount(listed, account))
<1>3. n \in Int /\ n <= Balance
    BY <1>2, FormAssumption DEF FormInv
<1>. HIDE DEF n
<1>. QED
    BY <1>3, MaxOfZero, FormAssumption DEF n

\* Whatever the effect on account and total does, it keeps no balance of others.
LEMMA EffectFits ==
    ASSUME FormInv, NEW a \in Accounts \cup {NoAccount}, NEW after, LimitEffect(a, after)
    PROVE  /\ available' \in -1 .. Balance
           /\ loading' \in BOOLEAN /\ exact' \in BOOLEAN
           /\ loading' => a # NoAccount
           /\ exact' => a # NoAccount
                  /\ available' = Max({0, funds - Total(OfAccount(after, a))})
<1>1. /\ available' = IF a = NoAccount THEN Unknown ELSE available
      /\ loading' \in BOOLEAN /\ (loading' => a # NoAccount)
      /\ exact' \in BOOLEAN
      /\ exact' => /\ exact /\ a = account
                   /\ Total(OfAccount(after, a)) = Total(OfAccount(listed, a))
    BY DEF LimitEffect, FormInv, FormTypeOK
<1>2. available' \in -1 .. Balance
    BY <1>1, FormAssumption DEF FormInv, FormTypeOK, Unknown
<1>3. ASSUME exact'
      PROVE  a # NoAccount /\ available' = Max({0, funds - Total(OfAccount(after, a))})
    <2>1. /\ account # NoAccount
          /\ available = Max({0, funds - Total(OfAccount(listed, account))})
        BY <1>1, <1>3 DEF FormInv, LimitFits
    <2>. QED
        BY <1>1, <1>3, <2>1
<1>. QED
    BY <1>1, <1>2, <1>3

\* What a step that leaves the reservations alone has to see to.
LEMMA SameRows ==
    ASSUME FormInv, listed' = listed, funds' \in 0 .. Balance,
           submission' \in {submission, NoSubmission},
           account' \in Accounts \cup {NoAccount}, editedId' \in 0 .. MaxRows,
           available' \in -1 .. Balance, loading' \in BOOLEAN, exact' \in BOOLEAN,
           loading' => account' # NoAccount,
           exact' => /\ account' # NoAccount
                     /\ available' = Max({0, funds' - Total(OfAccount(listed, account'))})
    PROVE  FormInv'
<1>1. FormTypeOK'
    BY DEF FormInv, FormTypeOK
<1>2. RowsFit' /\ SubmissionFits'
    BY DEF FormInv, RowsFit, SubmissionFits
<1>3. LimitFits'
    BY DEF LimitFits
<1>. QED
    BY <1>1, <1>2, <1>3 DEF FormInv

\* The page's own steps.
LEMMA PageKeepsInv ==
    ASSUME FormInv,
           \/ LimitTold \/ LimitFails \/ SelectWallet \/ StopEditing
           \/ \E a \in Accounts \cup {NoAccount} : SelectAccount(a)
           \/ \E r \in listed : StartEditing(r)
           \/ SubmissionFails
           \/ \E n \in 0 .. Balance : FundsMove(n)
    PROVE  FormInv'
<1>1. /\ funds \in 0 .. Balance /\ account \in Accounts \cup {NoAccount}
      /\ editedId \in 0 .. MaxRows /\ NoRow \in 0 .. MaxRows
      /\ available \in -1 .. Balance /\ Unknown \in -1 .. Balance
      /\ loading \in BOOLEAN /\ exact \in BOOLEAN
      /\ loading => account # NoAccount
    BY FormAssumption DEF FormInv, FormTypeOK, NoRow, Unknown
<1>2. exact => /\ account # NoAccount
               /\ available = Max({0, funds - Total(OfAccount(listed, account))})
    BY DEF FormInv, LimitFits
<1>3. CASE LimitTold
    <2>1. /\ available' = Max({0, funds - Total(OfAccount(listed, account))})
          /\ loading /\ ~loading' /\ loading' = FALSE /\ exact' = TRUE
          /\ UNCHANGED <<account, editedId, listed, funds, submission>>
        BY <1>3 DEF LimitTold
    <2>2. available' \in 0 .. Balance
        BY <2>1, LimitRange
    <2>3. available' \in -1 .. Balance
        BY <2>2, FormAssumption
    <2>4. available' = Max({0, funds' - Total(OfAccount(listed, account'))})
        BY <2>1
    <2>. QED
        BY <1>1, <2>1, <2>3, <2>4, SameRows
<1>4. CASE LimitFails
    BY <1>1, <1>4, SameRows DEF LimitFails
<1>5. CASE SelectWallet
    <2>1. /\ account' = NoAccount /\ editedId' = NoRow
          /\ LimitEffect(NoAccount, listed) /\ UNCHANGED <<listed, funds, submission>>
        BY <1>5 DEF SelectWallet
    <2>. QED
        BY <1>1, <2>1, EffectFits, SameRows
<1>6. CASE StopEditing
    BY <1>1, <1>2, <1>6, SameRows DEF StopEditing
<1>7. ASSUME NEW a \in Accounts \cup {NoAccount}, SelectAccount(a) PROVE FormInv'
    <2>1. /\ account' = a /\ LimitEffect(a, listed)
          /\ UNCHANGED <<editedId, listed, funds, submission>>
        BY <1>7 DEF SelectAccount
    <2>. QED
        BY <1>1, <2>1, EffectFits, SameRows
<1>8. ASSUME NEW r \in listed, StartEditing(r) PROVE FormInv'
    <2>1. r.account \in Accounts /\ r.id \in 0 .. MaxRows
        BY FormAssumption DEF FormInv, RowsFit
    <2>2. /\ account' = r.account /\ editedId' = r.id /\ LimitEffect(r.account, listed)
          /\ UNCHANGED <<listed, funds, submission>>
        BY <1>8 DEF StartEditing
    <2>. QED
        BY <1>1, <2>1, <2>2, EffectFits, SameRows
<1>9. CASE SubmissionFails
    BY <1>1, <1>2, <1>9, SameRows DEF SubmissionFails, pageVars
<1>10. ASSUME NEW n \in 0 .. Balance, FundsMove(n) PROVE FormInv'
    BY <1>1, <1>10, SameRows DEF FundsMove, pageVars
<1>. QED
    BY <1>3, <1>4, <1>5, <1>6, <1>7, <1>8, <1>9, <1>10

\* A submission is for an account of the wallet.
LEMMA SubmitKeepsInv ==
    ASSUME FormInv, NEW f \in Forms, Submit(f)
    PROVE  FormInv'
<1>1. /\ f.deployId \in DeployIds /\ f.gas \in Nat /\ f.amount \in Nat
    BY FormAssumption DEF Forms
<1>2. ReservedAmount(f) \in Nat
    BY <1>1 DEF ReservedAmount
<1>3. account \in Accounts /\ editedId \in 0 .. MaxRows
    BY DEF Submit, FormReady, FormInv, FormTypeOK
<1>4. submission' = Payload(f) /\ UNCHANGED <<pageVars, listed, funds, exact>>
    BY DEF Submit
<1>5. SubmissionFits'
    BY <1>1, <1>2, <1>3, <1>4 DEF SubmissionFits, Payload
<1>6. FormTypeOK' /\ RowsFit' /\ LimitFits' /\ funds' \in 0 .. Balance
    BY <1>4 DEF pageVars, FormInv, FormTypeOK, RowsFit, LimitFits
<1>. QED
    BY <1>5, <1>6 DEF FormInv

\* The reservations change, and with them perhaps the balance that is asked for.
LEMMA ListedKeepsInv ==
    ASSUME FormInv, NEW after, Listed(after), UNCHANGED <<account, funds>>,
           editedId' \in 0 .. MaxRows,
           IsFiniteSet(after), \A r, s \in after : r.id = s.id => r = s,
           \A r \in after :
               r \in [id : 1 .. MaxRows, account : Accounts, deployId : DeployIds,
                      pending : Nat],
           submission' \in {submission, NoSubmission}
    PROVE  FormInv'
<1>1. listed' = after /\ LimitEffect(account, after)
    BY DEF Listed
<1>2. account \in Accounts \cup {NoAccount}
    BY DEF FormInv, FormTypeOK
<1>3. /\ available' \in -1 .. Balance
      /\ loading' \in BOOLEAN /\ exact' \in BOOLEAN
      /\ loading' => account # NoAccount
      /\ exact' => account # NoAccount
             /\ available' = Max({0, funds - Total(OfAccount(after, account))})
    BY <1>1, <1>2, EffectFits
<1>4. FormTypeOK'
    BY <1>1, <1>2, <1>3 DEF FormTypeOK
<1>5. RowsFit'
    BY <1>1 DEF RowsFit
<1>6. SubmissionFits'
    BY DEF FormInv, SubmissionFits
<1>7. LimitFits'
    BY <1>1, <1>3 DEF LimitFits
<1>. QED
    BY <1>4, <1>5, <1>6, <1>7 DEF FormInv

\* A call of the page or of another one ends, or the chain ends a reservation.
LEMMA RowsKeepInv ==
    ASSUME FormInv, NEW id \in 1 .. MaxRows,
           \/ SubmissionSucceeds(id)
           \/ \E r \in listed : RemoveListed(r) \/ RowSettled(r)
           \/ \E a \in Accounts, d \in DeployIds : RowAppears(id, a, d)
    PROVE  FormInv'
<1>1. /\ IsFiniteSet(listed) /\ \A r, s \in listed : r.id = s.id => r = s
      /\ \A r \in listed :
             r \in [id : 1 .. MaxRows, account : Accounts, deployId : DeployIds,
                    pending : Nat]
    BY DEF FormInv, FormTypeOK, RowsFit
<1>2. CASE SubmissionSucceeds(id)
    <2>. DEFINE rest == {r \in listed : r.id # id}
                after == rest \cup {Row(id, submission)}
    <2>1. /\ Row(id, submission) \in [id : 1 .. MaxRows, account : Accounts,
                                      deployId : DeployIds, pending : Nat]
          /\ Row(id, submission).id = id
        BY <1>2 DEF SubmissionSucceeds, Row, FormInv, SubmissionFits
    <2>2. IsFiniteSet(rest)
        BY <1>1, FS_Subset
    <2>3. IsFiniteSet(after)
        BY <2>2, FS_AddElement
    <2>4. Listed(after) /\ editedId' = NoRow /\ submission' = NoSubmission
          /\ UNCHANGED <<account, funds>>
        BY <1>2 DEF SubmissionSucceeds
    <2>5. \A r, s \in after : r.id = s.id => r = s
        BY <1>1, <2>1
    <2>6. \A r \in after : r \in [id : 1 .. MaxRows, account : Accounts,
                                 deployId : DeployIds, pending : Nat]
        BY <1>1, <2>1
    <2>7. editedId' \in 0 .. MaxRows
        BY <2>4, FormAssumption DEF NoRow
    <2>. HIDE DEF after
    <2>. QED
        BY <2>3, <2>4, <2>5, <2>6, <2>7, ListedKeepsInv
<1>3. ASSUME NEW r \in listed, RemoveListed(r) \/ RowSettled(r) PROVE FormInv'
    <2>1. /\ Listed(listed \ {r}) /\ UNCHANGED <<account, funds, submission>>
          /\ editedId' \in {editedId, NoRow}
        BY <1>3 DEF RemoveListed, RowSettled
    <2>2. editedId' \in 0 .. MaxRows
        BY <2>1, FormAssumption DEF NoRow, FormInv, FormTypeOK
    <2>3. IsFiniteSet(listed \ {r})
        BY <1>1, FS_RemoveElement
    <2>. QED
        BY <1>1, <2>1, <2>2, <2>3, ListedKeepsInv
<1>4. ASSUME NEW a \in Accounts, NEW d \in DeployIds, RowAppears(id, a, d)
      PROVE  FormInv'
    <2>. DEFINE new == [id |-> id, account |-> a, deployId |-> d, pending |-> GasMax]
                after == listed \cup {new}
    <2>1. /\ new \in [id : 1 .. MaxRows, account : Accounts,
                      deployId : DeployIds, pending : Nat]
          /\ new.id = id
        BY FormAssumption
    <2>2. /\ Listed(after) /\ UNCHANGED <<account, editedId, funds, submission>>
          /\ id \in FreeIds
        BY <1>4 DEF RowAppears
    <2>3. \A r \in listed : r.id # id
        BY <2>2 DEF FreeIds
    <2>4. IsFiniteSet(after)
        BY <1>1, FS_AddElement
    <2>5. \A r, s \in after : r.id = s.id => r = s
        BY <1>1, <2>1, <2>3
    <2>6. \A r \in after : r \in [id : 1 .. MaxRows, account : Accounts,
                                 deployId : DeployIds, pending : Nat]
        BY <1>1, <2>1
    <2>7. editedId' \in 0 .. MaxRows
        BY <2>2 DEF FormInv, FormTypeOK
    <2>. HIDE DEF after
    <2>. QED
        BY <2>2, <2>4, <2>5, <2>6, <2>7, ListedKeepsInv
<1>. QED
    BY <1>2, <1>3, <1>4

\* However the reservations and the user go on, an up-to-date balance is what
\* the selected account has left.
THEOREM FormInvariance == FormSpec => []FormInv
<1>1. ASSUME FormInit PROVE FormInv
    <2>1. FormTypeOK /\ funds \in 0 .. Balance
        <3>1. NoRow \in 0 .. MaxRows /\ Unknown \in -1 .. Balance /\ Balance \in 0 .. Balance
            BY FormAssumption DEF NoRow, Unknown
        <3>. QED
            BY <1>1, <3>1, Zenon DEF FormInit, FormTypeOK
    <2>2. RowsFit
        BY <1>1, FS_EmptySet DEF FormInit, RowsFit
    <2>3. SubmissionFits /\ LimitFits
        BY <1>1, Zenon DEF FormInit, SubmissionFits, LimitFits
    <2>. QED
        BY <2>1, <2>2, <2>3 DEF FormInv
<1>2. ASSUME FormInv, [FormNext]_formVars PROVE FormInv'
    <2>1. CASE UNCHANGED formVars
        BY <1>2, <2>1 DEF formVars, pageVars, FormInv, FormTypeOK, RowsFit,
                         SubmissionFits, LimitFits
    <2>2. ASSUME NEW r \in listed, RemoveListed(r) \/ RowSettled(r) PROVE FormInv'
        <3>1. r.id \in 1 .. MaxRows
            BY <1>2 DEF FormInv, RowsFit
        <3>. QED
            BY <1>2, <2>2, <3>1, RowsKeepInv
    <2>3. ASSUME FormNext PROVE FormInv'
        BY <1>2, <2>2, <2>3, PageKeepsInv, SubmitKeepsInv, RowsKeepInv DEF FormNext
    <2>. QED
        BY <1>2, <2>1, <2>3
<1>. QED
    BY <1>1, <1>2, PTL DEF FormSpec

\* For any number of accounts and rows, any amounts and limits of gas, and any
\* balance: the page accepts what the SDK accepts.
THEOREM FormAgreesWithSdk == FormSpec => []FormMirrorsSdk
<1>1. ASSUME FormInv PROVE FormMirrorsSdk
    <2>. DEFINE own == Total(OfAccount(listed, account))
                old == Total(Edited)
    <2>1. SUFFICES ASSUME exact, funds >= own, NEW f \in Forms,
                          f.kind = "transfer" => f.amount > 0, GasCostFits(f),
                          editedId # NoRow => \E r \in Edited : r.account = account
                   PROVE  FormReady(f) <=> Accepts(Payload(f))
        BY DEF FormMirrorsSdk
    <2>2. own \in Nat /\ old \in Nat /\ funds \in Nat
        <3>1. OfAccount(listed, account) \in SUBSET listed /\ Edited \in SUBSET listed
            BY DEF OfAccount, Edited
        <3>. QED
            BY <1>1, <3>1, FormTotals DEF FormInv
    <2>3. account # NoAccount /\ available = funds - own /\ available # Unknown
        <3>1. account # NoAccount /\ available = Max({0, funds - own})
            BY <1>1, <2>1 DEF FormInv, LimitFits
        <3>2. funds - own \in Int /\ funds - own >= 0
            BY <2>1, <2>2
        <3>3. Max({0, funds - own}) = funds - own
            BY <3>2, MaxOfZero
        <3>. QED
            BY <3>1, <3>2, <3>3 DEF Unknown
    <2>4. /\ f.gas \in Nat /\ f.amount \in Nat /\ f.kind \in {"transfer", "deploy"}
          /\ ReservedAmount(f) \in Nat
        <3>1. f.gas \in Nat /\ f.amount \in Nat /\ f.kind \in {"transfer", "deploy"}
            BY FormAssumption DEF Forms
        <3>. QED
            BY <3>1 DEF ReservedAmount
    <2>5. f.gas > 0
        BY <2>1, <2>4, FormAssumption DEF GasCostFits
    <2>6. PayloadFits(f) <=> RecipientFits(f)
        BY <2>1, <2>4, <2>5 DEF PayloadFits, RecipientFits, ReservedAmount
    <2>7. ReservedAmount(f) > 0
        BY <2>4, <2>5 DEF ReservedAmount
    <2>8. /\ Payload(f).row = editedId /\ Payload(f).account = account
          /\ Payload(f).deployId = f.deployId /\ Payload(f).pending = ReservedAmount(f)
          /\ Payload(f).fits = PayloadFits(f)
        BY DEF Payload
    <2>9. {r \in listed : r.id = Payload(f).row} = Edited
        BY <2>8 DEF Edited
    <2>10. Accepts(Payload(f))
              <=> /\ PayloadFits(f)
                  /\ \A r \in listed \ Edited : r.deployId # f.deployId
                  /\ funds - (own + (ReservedAmount(f) - old)) >= 0
        BY <2>1, <2>8, <2>9, Zenon DEF Accepts
    <2>11. Duplicate(f) <=> \E r \in listed \ Edited : r.deployId = f.deployId
        BY DEF Duplicate, Edited
    <2>12. Over(f) <=> ReservedAmount(f) - old > available
        BY <2>3 DEF Over
    <2>13. Over(f) <=> ~(funds - (own + (ReservedAmount(f) - old)) >= 0)
        BY <2>2, <2>3, <2>4, <2>12
    <2>14. FormReady(f) <=> RecipientFits(f) /\ ~Duplicate(f) /\ ~Over(f)
        BY <2>1, <2>3, <2>7 DEF FormReady
    <2>. QED
        BY <2>6, <2>10, <2>11, <2>13, <2>14, Zenon
<1>. QED
    BY <1>1, FormInvariance, PTL

-----------------------------------------------------------------------------
(* The pages of the history                                                *)

\* The rows of S from x upwards, and the place of x in S.
From(S, x) == {y \in S : y >= x}
Rank(S, x) == Cardinality(From(S, x))

\* The rows that Slice takes of the sorted S.
Among(S, o, l) ==
    {x \in S : o < Rank(S, x) /\ (l = NoLimit \/ Rank(S, x) <= o + l)}

Decreasing(s, n) == \A i, j \in 1 .. n : i < j => s[i] > s[j]

RowSet(S) == S \in SUBSET Nat /\ IsFiniteSet(S)

\* A newer row has a smaller rank.
LEMMA RankFacts ==
    ASSUME NEW S, RowSet(S)
    PROVE  /\ Cardinality(S) \in Nat
           /\ \A x \in Nat : Rank(S, x) \in Nat /\ Rank(S, x) <= Cardinality(S)
           /\ \A x \in S : Rank(S, x) >= 1
           /\ \A x, y \in S : x < y <=> Rank(S, y) < Rank(S, x)
<1>1. \A x : From(S, x) \in SUBSET S /\ IsFiniteSet(From(S, x))
    BY FS_Subset DEF From, RowSet
<1>2. Cardinality(S) \in Nat
    BY FS_CardinalityType DEF RowSet
<1>3. \A x : Rank(S, x) \in Nat /\ Rank(S, x) <= Cardinality(S)
    BY <1>1, FS_CardinalityType, FS_Subset DEF Rank, RowSet
<1>4. ASSUME NEW x \in S PROVE Rank(S, x) >= 1
    <2>1. x \in From(S, x)
        BY <1>4 DEF From, RowSet
    <2>2. Rank(S, x) # 0
        BY <1>1, <2>1, FS_EmptySet DEF Rank
    <2>. QED
        BY <1>3, <2>2
<1>5. ASSUME NEW x \in S, NEW y \in S, x < y PROVE Rank(S, y) < Rank(S, x)
    <2>1. From(S, y) \in SUBSET From(S, x)
        <3>. SUFFICES ASSUME NEW z \in S, z >= y PROVE z >= x
            BY DEF From
        <3>1. x \in Nat /\ y \in Nat /\ z \in Nat
            BY DEF RowSet
        <3>. QED
            BY <1>5, <3>1
    <2>2. x \in From(S, x) /\ x \notin From(S, y)
        BY <1>5 DEF From, RowSet
    <2>3. Rank(S, y) <= Rank(S, x) /\ Rank(S, y) # Rank(S, x)
        BY <1>1, <2>1, <2>2, FS_Subset DEF Rank
    <2>. QED
        BY <1>3, <2>3
<1>6. ASSUME NEW x \in S, NEW y \in S, Rank(S, y) < Rank(S, x) PROVE x < y
    <2>1. CASE y = x
        BY <1>3, <1>6, <2>1
    <2>2. CASE y < x
        BY <1>3, <1>5, <1>6, <2>2
    <2>. QED
        BY <1>6, <2>1, <2>2 DEF RowSet
<1>. QED
    BY <1>2, <1>3, <1>4, <1>5, <1>6

\* No two rows have one.
LEMMA RanksDiffer ==
    ASSUME NEW S, RowSet(S), NEW x \in S, NEW y \in S, Rank(S, x) = Rank(S, y)
    PROVE  x = y
<1>1. x \in Nat /\ y \in Nat
    BY DEF RowSet
<1>2. ~(x < y) /\ ~(y < x)
    BY <1>1, RankFacts
<1>. QED
    BY <1>1, <1>2

\* Every place is taken.
LEMMA RankOnto ==
    ASSUME NEW S, RowSet(S), NEW i \in 1 .. Cardinality(S)
    PROVE  \E x \in S : Rank(S, x) = i
<1>. DEFINE n == Cardinality(S)
            f == [x \in S |-> Rank(S, x)]
<1>1. n \in Nat
    BY RankFacts
<1>2. \A x \in S : x \in Nat /\ Rank(S, x) \in 1 .. n
    <2>. SUFFICES ASSUME NEW x \in S PROVE x \in Nat /\ Rank(S, x) \in 1 .. n
        OBVIOUS
    <2>1. x \in Nat
        BY DEF RowSet
    <2>2. Rank(S, x) \in Nat /\ Rank(S, x) <= n /\ Rank(S, x) >= 1
        BY <2>1, RankFacts
    <2>. QED
        BY <1>1, <2>1, <2>2
<1>3. \A x, y \in S : f[x] = f[y] => x = y
    <2>. SUFFICES ASSUME NEW x \in S, NEW y \in S, Rank(S, x) = Rank(S, y)
                  PROVE  x = y
        OBVIOUS
    <2>. QED
        BY RanksDiffer
<1>4. f \in Injection(S, 1 .. n)
    <2>1. f \in [S -> 1 .. n]
        BY <1>2
    <2>. QED
        BY <1>3, <2>1, Fun_IsInj
<1>5. IsFiniteSet(1 .. n) /\ Cardinality(1 .. n) = n
    BY <1>1, FS_Interval
<1>. HIDE DEF f
<1>6. f \in Surjection(S, 1 .. n)
    BY <1>4, <1>5, FS_Injection
<1>7. \A k \in 1 .. n : \E x \in S : f[x] = k
    BY <1>6 DEF Surjection
<1>. QED
    BY <1>7 DEF f

\* In a sorted sequence of all of S every row stands at its place.
LEMMA DecreasingRanks ==
    ASSUME NEW S, RowSet(S), NEW s \in [1 .. Cardinality(S) -> S],
           Decreasing(s, Cardinality(S)), NEW i \in 1 .. Cardinality(S)
    PROVE  Rank(S, s[i]) = i
<1>. DEFINE n == Cardinality(S)
<1>1. n \in Nat
    BY RankFacts
<1>. HIDE DEF n
<1>2. s \in [1 .. n -> S] /\ Decreasing(s, n) /\ i \in 1 .. n /\ i \in Nat
    BY <1>1 DEF n
<1>0. \A j \in 1 .. n : s[j] \in S /\ s[j] \in Nat
    BY <1>2 DEF RowSet
<1>3. \A j, k \in 1 .. n : s[j] = s[k] => j = k
    <2>. SUFFICES ASSUME NEW j \in 1 .. n, NEW k \in 1 .. n, s[j] = s[k], j < k
                  PROVE  FALSE
        BY <1>1
    <2>1. s[j] > s[k] /\ s[j] \in Nat
        BY <1>2 DEF Decreasing, RowSet
    <2>. QED
        BY <2>1
<1>4. s \in Injection(1 .. n, S)
    BY <1>2, <1>3, Fun_IsInj
<1>5. IsFiniteSet(1 .. n) /\ Cardinality(1 .. n) = n
    BY <1>1, FS_Interval
<1>6. s \in Surjection(1 .. n, S)
    <2>1. IsFiniteSet(S) /\ Cardinality(S) = n
        BY DEF n, RowSet
    <2>. QED
        BY <1>4, <1>5, <2>1, FS_Injection
<1>7. \A y \in S : \E j \in 1 .. n : s[j] = y
    BY <1>6 DEF Surjection
<1>. DEFINE g == [j \in 1 .. i |-> s[j]]
<1>8. g \in [1 .. i -> From(S, s[i])]
    <2>. SUFFICES ASSUME NEW j \in 1 .. i
                  PROVE  s[j] \in From(S, s[i])
        OBVIOUS
    <2>1. j \in 1 .. n /\ s[j] \in S /\ s[j] \in Nat /\ s[i] \in Nat
        <3>1. j \in 1 .. n
            BY <1>1, <1>2
        <3>. QED
            BY <1>0, <1>2, <3>1
    <2>2. j = i \/ s[j] > s[i]
        BY <1>1, <1>2, <2>1 DEF Decreasing
    <2>. QED
        BY <2>1, <2>2 DEF From
<1>9. \A y \in From(S, s[i]) : \E j \in 1 .. i : g[j] = y
    <2>. SUFFICES ASSUME NEW y \in From(S, s[i])
                  PROVE  \E j \in 1 .. i : s[j] = y
        OBVIOUS
    <2>1. y \in S /\ y >= s[i] /\ y \in Nat /\ s[i] \in Nat
        BY <1>2 DEF From, RowSet
    <2>2. PICK j \in 1 .. n : s[j] = y
        BY <1>7, <2>1
    <2>3. ~(i < j)
        BY <1>2, <2>1, <2>2 DEF Decreasing
    <2>. QED
        BY <1>1, <1>2, <2>2, <2>3
<1>10. \A j, k \in 1 .. i : g[j] = g[k] => j = k
    BY <1>1, <1>2, <1>3
<1>11. g \in Bijection(1 .. i, From(S, s[i]))
    BY <1>8, <1>9, <1>10, Fun_IsBij
<1>12. ExistsBijection(1 .. i, From(S, s[i]))
    BY <1>11 DEF ExistsBijection
<1>13. i \in Nat
    BY <1>1, <1>2
<1>. QED
    BY <1>12, <1>13, FS_CountingElements DEF Rank

\* Newest is the sorted sequence.
LEMMA NewestSorts ==
    ASSUME NEW S, RowSet(S)
    PROVE  /\ Newest(S) \in [1 .. Cardinality(S) -> S]
           /\ Decreasing(Newest(S), Cardinality(S))
<1>. DEFINE n == Cardinality(S)
            t == [i \in 1 .. n |-> CHOOSE x \in S : Rank(S, x) = i]
<1>1. n \in Nat
    BY RankFacts
<1>2. \A i \in 1 .. n : t[i] \in S /\ Rank(S, t[i]) = i
    BY RankOnto
<1>3. t \in [1 .. n -> S]
    BY <1>2
<1>4. \A i, j \in 1 .. n : i < j => t[i] > t[j]
    <2>. SUFFICES ASSUME NEW i \in 1 .. n, NEW j \in 1 .. n, i < j
                  PROVE  t[i] > t[j]
        OBVIOUS
    <2>. HIDE DEF t
    <2>1. t[j] < t[i]
        BY <1>2, RankFacts
    <2>. QED
        BY <1>2, <2>1 DEF RowSet
<1>. HIDE DEF t
<1>5. \E u \in [1 .. Cardinality(S) -> S] :
          \A i, j \in 1 .. Cardinality(S) : i < j => u[i] > u[j]
    BY <1>3, <1>4
<1>. QED
    BY <1>5 DEF Newest, Decreasing

\* The list of the newest rows has every row, at the place of its rank.
LEMMA NewestFacts ==
    ASSUME NEW S, RowSet(S)
    PROVE  /\ Newest(S) \in Seq(S) /\ Len(Newest(S)) = Cardinality(S)
           /\ \A i \in 1 .. Cardinality(S) :
                  Newest(S)[i] \in S /\ Rank(S, Newest(S)[i]) = i
           /\ \A x \in S : Rank(S, x) \in 1 .. Cardinality(S)
                           /\ Newest(S)[Rank(S, x)] = x
<1>. DEFINE s == Newest(S)
            n == Cardinality(S)
<1>1. n \in Nat
    BY RankFacts
<1>2. s \in [1 .. n -> S] /\ Decreasing(s, n)
    BY NewestSorts
<1>3. \A i \in 1 .. n : s[i] \in S /\ Rank(S, s[i]) = i
    BY <1>2, DecreasingRanks
<1>. HIDE DEF s
<1>4. s \in Seq(S) /\ Len(s) = n
    <2>1. s \in Seq(S)
        BY <1>1, <1>2, SeqDef
    <2>. QED
        BY <1>1, <1>2, <2>1, LenProperties
<1>5. ASSUME NEW x \in S
      PROVE  Rank(S, x) \in 1 .. n /\ s[Rank(S, x)] = x
    <2>0. x \in Nat
        BY DEF RowSet
    <2>1. Rank(S, x) \in 1 .. n
        BY <1>1, <2>0, RankFacts
    <2>2. s[Rank(S, x)] \in S /\ Rank(S, s[Rank(S, x)]) = Rank(S, x)
        BY <1>3, <2>1
    <2>. QED
        BY <1>5, <2>0, <2>1, <2>2, RanksDiffer
<1>. QED
    BY <1>3, <1>4, <1>5 DEF s

Places(D, S) == D = 1 .. Cardinality(S)

\* There is one sorted sequence only.
LEMMA OneIsSorted ==
    ASSUME NEW S, RowSet(S), NEW D, Places(D, S),
           NEW s \in [D -> S], NEW t \in [D -> S],
           Decreasing(s, Cardinality(S)), Decreasing(t, Cardinality(S))
    PROVE  s = t
<1>1. ASSUME NEW i \in D
      PROVE  s[i] = t[i]
    <2>1. Rank(S, s[i]) = i /\ s[i] \in S
        BY DecreasingRanks DEF Places
    <2>2. Rank(S, t[i]) = i /\ t[i] \in S
        BY DecreasingRanks DEF Places
    <2>. QED
        BY <2>1, <2>2, RanksDiffer
<1>. QED
    BY <1>1

\* There is one sequence of all rows in falling order.
LEMMA SortedIsNewest ==
    ASSUME NEW S, RowSet(S), NEW s \in [1 .. Cardinality(S) -> S],
           Decreasing(s, Cardinality(S))
    PROVE  s = Newest(S)
<1>1. /\ Newest(S) \in [1 .. Cardinality(S) -> S]
      /\ Decreasing(Newest(S), Cardinality(S))
    BY NewestSorts
<1>. QED
    BY <1>1, OneIsSorted DEF Places

\* The rows of a sorted list.
LEMMA NewestSet ==
    ASSUME NEW S, RowSet(S)
    PROVE  ToSet(Newest(S)) = S
<1>1. DOMAIN Newest(S) = 1 .. Cardinality(S)
    BY NewestSorts
<1>2. ToSet(Newest(S)) = {Newest(S)[i] : i \in 1 .. Cardinality(S)}
    BY <1>1 DEF ToSet
<1>3. ASSUME NEW x \in S
      PROVE  x \in {Newest(S)[i] : i \in 1 .. Cardinality(S)}
    BY NewestFacts
<1>4. ASSUME NEW i \in 1 .. Cardinality(S)
      PROVE  Newest(S)[i] \in S
    BY NewestFacts
<1>. QED
    BY <1>2, <1>3, <1>4

\* Slice cuts out the rows between two places, and leaves them sorted.
LEMMA SliceIsNewest ==
    ASSUME NEW S, RowSet(S), NEW o \in Nat, NEW l \in Nat
    PROVE  /\ RowSet(Among(S, o, l))
           /\ Slice(Newest(S), o, l) = Newest(Among(S, o, l))
<1>. DEFINE n == Cardinality(S)
            s == Newest(S)
            m == IF l = NoLimit \/ o + l > n THEN n ELSE o + l
            k == IF o + 1 <= m THEN m - o ELSE 0
            t == SubSeq(s, o + 1, m)
            W == Among(S, o, l)
<1>1. n \in Nat
    BY RankFacts
<1>2. m \in Nat /\ m <= n /\ k \in Nat /\ (k # 0 => o + k = m)
    BY <1>1 DEF NoLimit
<1>3. RowSet(W)
    BY FS_Subset DEF RowSet, Among
<1>4. Slice(s, o, l) = t
    <2>1. Len(s) = n
        BY NewestFacts
    <2>. HIDE DEF s, n
    <2>. QED
        BY <2>1 DEF Slice
<1>5. \A i \in 1 .. n : s[i] \in S /\ Rank(S, s[i]) = i
    BY NewestFacts
<1>6. \A x \in S : Rank(S, x) \in 1 .. n /\ s[Rank(S, x)] = x
    BY NewestFacts
<1>7. \A i, j \in 1 .. n : i < j => s[i] > s[j]
    BY NewestSorts DEF Decreasing
<1>8. \A i \in o + 1 .. m : i \in 1 .. n /\ s[i] \in W
    <2>. SUFFICES ASSUME NEW i \in o + 1 .. m PROVE i \in 1 .. n /\ s[i] \in W
        OBVIOUS
    <2>1. i \in 1 .. n /\ o < i /\ (l = NoLimit \/ i <= o + l)
        BY <1>1, <1>2 DEF NoLimit
    <2>. QED
        BY <1>5, <2>1 DEF Among
<1>9. \A x \in W : Rank(S, x) \in o + 1 .. m /\ s[Rank(S, x)] = x
    <2>. SUFFICES ASSUME NEW x \in W
                  PROVE  Rank(S, x) \in o + 1 .. m /\ s[Rank(S, x)] = x
        OBVIOUS
    <2>1. x \in S /\ o < Rank(S, x) /\ (l = NoLimit \/ Rank(S, x) <= o + l)
        BY DEF Among
    <2>. QED
        BY <1>1, <1>6, <2>1
<1>. HIDE DEF n, s, m, k, W
<1>10. /\ t \in Seq(W) /\ Len(t) = IF o + 1 <= m THEN m - (o + 1) + 1 ELSE 0
       /\ \A i \in 1 .. m - (o + 1) + 1 : t[i] = s[o + 1 + i - 1]
    BY <1>2, <1>8, SubSeqProperties
<1>. HIDE DEF t
<1>11. Len(t) = k
    BY <1>2, <1>10 DEF k
<1>12. t \in [1 .. k -> W]
    BY <1>10, <1>11, LenProperties
<1>13. \A i \in 1 .. k : t[i] = s[o + i] /\ o + i \in o + 1 .. m
    <2>. SUFFICES ASSUME NEW i \in 1 .. k
                  PROVE  t[i] = s[o + i] /\ o + i \in o + 1 .. m
        OBVIOUS
    <2>1. k # 0 /\ o + k = m /\ i \in Int
        BY <1>2
    <2>2. i \in 1 .. m - (o + 1) + 1 /\ o + 1 + i - 1 = o + i
        BY <1>2, <2>1
    <2>. QED
        BY <1>2, <1>10, <2>1, <2>2
<1>14. \A x \in W : \E i \in 1 .. k : t[i] = x
    <2>. SUFFICES ASSUME NEW x \in W PROVE \E i \in 1 .. k : t[i] = x
        OBVIOUS
    <2>1. Rank(S, x) \in o + 1 .. m /\ s[Rank(S, x)] = x
        BY <1>9
    <2>2. k # 0
        BY <1>2, <2>1 DEF k
    <2>3. Rank(S, x) - o \in 1 .. k /\ o + (Rank(S, x) - o) = Rank(S, x)
        BY <1>2, <2>1, <2>2
    <2>. QED
        BY <1>13, <2>1, <2>3
<1>15. \A i, j \in 1 .. k : i < j => t[i] > t[j]
    <2>. SUFFICES ASSUME NEW i \in 1 .. k, NEW j \in 1 .. k, i < j
                  PROVE  t[i] > t[j]
        OBVIOUS
    <2>1. o + i \in 1 .. n /\ o + j \in 1 .. n /\ o + i < o + j
        BY <1>8, <1>13, <1>2
    <2>. QED
        BY <1>7, <1>13, <2>1
<1>16. Cardinality(W) = k
    <2>1. \A i, j \in 1 .. k : t[i] = t[j] => i = j
        <3>. SUFFICES ASSUME NEW i \in 1 .. k, NEW j \in 1 .. k, i < j, t[i] = t[j]
                      PROVE  FALSE
            BY <1>2
        <3>1. t[i] > t[j] /\ t[i] \in Nat
            BY <1>3, <1>12, <1>15 DEF RowSet
        <3>. QED
            BY <3>1
    <2>2. t \in Bijection(1 .. k, W)
        BY <1>12, <1>14, <2>1, Fun_IsBij
    <2>. QED
        BY <1>2, <2>2, FS_CountingElements DEF ExistsBijection
<1>17. t = Newest(W)
    BY <1>3, <1>12, <1>15, <1>16, SortedIsNewest DEF Decreasing
<1>. QED
    BY <1>3, <1>4, <1>17 DEF s, W

\* Fewer rows, a smaller rank; the same one while the newer rows are all there.
LEMMA RankInside ==
    ASSUME NEW S, RowSet(S), NEW T \in SUBSET S
    PROVE  /\ RowSet(T)
           /\ \A x \in Nat : Rank(T, x) <= Rank(S, x)
           /\ \A x \in Nat : From(S, x) \in SUBSET T => Rank(T, x) = Rank(S, x)
<1>1. RowSet(T)
    BY FS_Subset DEF RowSet
<1>2. \A x : IsFiniteSet(From(S, x)) /\ From(T, x) \in SUBSET From(S, x)
    BY FS_Subset DEF From, RowSet
<1>3. \A x : Rank(T, x) <= Rank(S, x)
    BY <1>2, FS_Subset DEF Rank
<1>4. ASSUME NEW x, From(S, x) \in SUBSET T PROVE Rank(T, x) = Rank(S, x)
    <2>1. From(S, x) = From(T, x)
        BY <1>4 DEF From
    <2>. QED
        BY <2>1 DEF Rank
<1>. QED
    BY <1>1, <1>3, <1>4

\* A set that has the first m rows of another shows the same of them.
LEMMA TopAgrees ==
    ASSUME NEW S, RowSet(S), NEW T \in SUBSET S, NEW m \in Nat,
           \A x \in S : Rank(S, x) <= m => x \in T,
           NEW o \in Nat, NEW l \in Nat, l # NoLimit, o + l <= m
    PROVE  Among(T, o, l) = Among(S, o, l)
<1>1. \A x \in S : x \in Nat /\ Rank(S, x) \in Nat /\ Rank(T, x) \in Nat
    BY RankFacts, RankInside DEF RowSet
<1>2. ASSUME NEW x \in S, Rank(S, x) <= m
      PROVE  x \in T /\ Rank(T, x) = Rank(S, x)
    <2>1. ASSUME NEW y \in S, y >= x PROVE y \in T
        <3>1. CASE y = x
            BY <1>2, <3>1
        <3>2. CASE x < y
            <4>1. Rank(S, y) < Rank(S, x)
                BY <3>2, RankFacts
            <4>. QED
                BY <1>1, <1>2, <4>1
        <3>. QED
            BY <1>1, <2>1, <3>1, <3>2
    <2>2. From(S, x) \in SUBSET T
        BY <2>1 DEF From
    <2>. QED
        BY <1>1, <1>2, <2>2, RankInside
<1>3. ASSUME NEW x \in T, Rank(S, x) > m
      PROVE  Rank(T, x) > m
    <2>1. Rank(T, x) >= 1 /\ Rank(S, x) <= Cardinality(S) /\ Cardinality(S) \in Nat
        BY <1>1, RankFacts, RankInside
    <2>2. CASE m = 0
        BY <1>1, <2>1, <2>2
    <2>3. CASE m # 0
        <3>1. m \in 1 .. Cardinality(S)
            BY <1>1, <1>3, <2>1, <2>3
        <3>2. PICK y \in S : Rank(S, y) = m
            BY <3>1, RankOnto
        <3>3. y \in T /\ Rank(T, y) = m
            BY <1>2, <3>2
        <3>4. x < y
            BY <1>3, <3>2, RankFacts
        <3>5. Rank(T, y) < Rank(T, x)
            BY <3>3, <3>4, RankFacts, RankInside
        <3>. QED
            BY <3>3, <3>5
    <2>. QED
        BY <2>2, <2>3
<1>4. ASSUME NEW x
      PROVE  x \in Among(T, o, l) <=> x \in Among(S, o, l)
    <2>1. CASE x \in S /\ Rank(S, x) <= m
        BY <1>2, <2>1 DEF Among
    <2>2. CASE x \in S /\ ~(Rank(S, x) <= m)
        <3>1. Rank(S, x) > m
            BY <1>1, <2>2
        <3>2. x \notin Among(S, o, l)
            BY <1>1, <2>2, <3>1 DEF Among
        <3>3. x \in T => ~(Rank(T, x) <= o + l)
            BY <1>1, <1>3, <2>2, <3>1
        <3>. QED
            BY <3>2, <3>3 DEF Among
    <2>3. CASE x \notin S
        BY <2>3 DEF Among
    <2>. QED
        BY <2>1, <2>2, <2>3
<1>. QED
    BY <1>4

\* Rows that are newer than all the others push them down.
LEMMA DropTop ==
    ASSUME NEW S, RowSet(S), NEW T \in SUBSET S,
           \A x \in T, y \in S \ T : y > x,
           NEW o \in Nat, NEW l \in Nat, Cardinality(S \ T) <= o
    PROVE  /\ Cardinality(S \ T) \in Nat
           /\ Among(S, o, l) = Among(T, o - Cardinality(S \ T), l)
<1>. DEFINE H == S \ T
            h == Cardinality(H)
<1>1. \A x \in S : x \in Nat /\ Rank(S, x) \in Nat /\ Rank(T, x) \in Nat
    BY RankFacts, RankInside DEF RowSet
<1>2. IsFiniteSet(H) /\ h \in Nat
    BY FS_Subset, FS_CardinalityType DEF RowSet
<1>3. ASSUME NEW x \in T
      PROVE  Rank(S, x) = h + Rank(T, x)
    <2>1. From(S, x) = H \cup From(T, x)
        <3>1. \A y \in H : y >= x
            BY <1>1
        <3>. QED
            BY <3>1 DEF From
    <2>2. H \cap From(T, x) = {}
        BY DEF From
    <2>3. IsFiniteSet(From(T, x))
        BY FS_Subset DEF From, RowSet
    <2>. HIDE DEF H
    <2>4. Cardinality({}) = 0
        BY FS_EmptySet
    <2>5. Cardinality(H \cup From(T, x))
             = Cardinality(H) + Cardinality(From(T, x)) - Cardinality({})
        BY <1>2, <2>2, <2>3, FS_Union
    <2>. QED
        BY <1>1, <1>2, <2>1, <2>4, <2>5 DEF Rank
<1>4. ASSUME NEW y \in H
      PROVE  Rank(S, y) <= h
    <2>1. From(S, y) \in SUBSET H
        <3>. SUFFICES ASSUME NEW z \in T, z >= y PROVE FALSE
            BY DEF From
        <3>. QED
            BY <1>1
    <2>. QED
        BY <1>2, <2>1, FS_Subset DEF Rank
<1>5. ASSUME NEW x
      PROVE  x \in Among(S, o, l) <=> x \in Among(T, o - h, l)
    <2>. HIDE DEF h
    <2>1. CASE x \in T
        <3>1. /\ x \in S /\ Rank(S, x) = h + Rank(T, x) /\ Rank(T, x) \in Nat
              /\ h \in Nat
            BY <1>1, <1>2, <1>3, <2>1
        <3>2. o < h + Rank(T, x) <=> o - h < Rank(T, x)
            BY <3>1
        <3>3. h + Rank(T, x) <= o + l <=> Rank(T, x) <= (o - h) + l
            BY <3>1
        <3>. QED
            BY <2>1, <3>1, <3>2, <3>3 DEF Among
    <2>2. CASE x \in H
        <3>1. ~(o < Rank(S, x))
            BY <1>1, <1>2, <1>4, <2>2 DEF h
        <3>. QED
            BY <2>2, <3>1 DEF Among
    <2>3. CASE x \notin S
        BY <2>3 DEF Among
    <2>. QED
        BY <2>1, <2>2, <2>3
<1>. QED
    BY <1>2, <1>5

\* The newest rows of a list are the beginning of its sorted page.
LEMMA NewestPrefix ==
    ASSUME NEW E, RowSet(E), NEW W \in SUBSET E,
           \A w \in W, e \in E \ W : w > e
    PROVE  IsPrefix(Newest(W), Newest(E))
<1>. DEFINE n == Cardinality(W)
            s == Newest(W)
            t == Newest(E)
<1>1. RowSet(W)
    BY RankInside
<1>2. n \in Nat /\ Cardinality(E) \in Nat /\ n <= Cardinality(E)
    BY <1>1, RankFacts, FS_Subset DEF RowSet
<1>3. s \in Seq(W) /\ Len(s) = n /\ t \in Seq(E) /\ Len(t) = Cardinality(E)
    BY <1>1, NewestFacts
<1>4. ASSUME NEW i \in 1 .. n
      PROVE  s[i] = t[i] /\ s[i] \in E
    <2>1. s[i] \in W /\ Rank(W, s[i]) = i
        BY <1>1, NewestFacts
    <2>. DEFINE w == s[i]
    <2>. HIDE DEF s
    <2>2. w \in E /\ w \in Nat
        BY <2>1 DEF RowSet
    <2>3. From(E, w) \in SUBSET W
        <3>. SUFFICES ASSUME NEW e \in E \ W, e >= w PROVE FALSE
            BY DEF From
        <3>1. w > e /\ e \in Nat
            BY <2>1 DEF RowSet
        <3>. QED
            BY <2>2, <3>1
    <2>4. Rank(E, w) = i
        BY <2>1, <2>2, <2>3, RankInside
    <2>5. t[Rank(E, w)] = w
        BY <2>2, NewestFacts
    <2>. QED
        BY <2>2, <2>4, <2>5
<1>. HIDE DEF s, t, n
<1>5. \A i \in 1 .. n : s[i] \in E /\ t[i] \in E
    BY <1>4
<1>6. /\ SubSeq(s, 1, n) \in Seq(E) /\ Len(SubSeq(s, 1, n)) = n
      /\ \A i \in 1 .. n - 1 + 1 : SubSeq(s, 1, n)[i] = s[1 + i - 1]
    BY <1>2, <1>5, SubSeqProperties
<1>7. /\ SubSeq(t, 1, n) \in Seq(E) /\ Len(SubSeq(t, 1, n)) = n
      /\ \A i \in 1 .. n - 1 + 1 : SubSeq(t, 1, n)[i] = t[1 + i - 1]
    BY <1>2, <1>5, SubSeqProperties
<1>8. \A i \in 1 .. n : SubSeq(s, 1, n)[i] = SubSeq(t, 1, n)[i]
    <2>. SUFFICES ASSUME NEW i \in 1 .. n
                  PROVE  SubSeq(s, 1, n)[i] = SubSeq(t, 1, n)[i]
        OBVIOUS
    <2>1. i \in 1 .. n - 1 + 1 /\ 1 + i - 1 = i
        BY <1>2
    <2>2. SubSeq(s, 1, n)[i] = s[i] /\ SubSeq(t, 1, n)[i] = t[i]
        BY <1>6, <1>7, <2>1
    <2>. QED
        BY <1>4, <2>2
<1>9. SubSeq(s, 1, n) = SubSeq(t, 1, n)
    BY <1>6, <1>7, <1>8, SeqEqual
<1>10. IsPrefix(s, t)
    BY <1>2, <1>3, <1>9 DEF IsPrefix
<1>. QED
    BY <1>10 DEF s, t

\* A list begins with itself.
LEMMA PrefixOfItself ==
    ASSUME NEW E, RowSet(E)
    PROVE  IsPrefix(Newest(E), Newest(E))
<1>1. E \in SUBSET E /\ E \ E = {}
    OBVIOUS
<1>. QED
    BY <1>1, NewestPrefix

-----------------------------------------------------------------------------
\* What the indexer's two lists serve, of the executed rows I.
Window(I, o, l) == Among(I \ Deploys, o, l) \cup Among(I \ Incoming, o, l)

\* One of the two lists has all the rows of the other.
OneList(I) == I \ Deploys = I \/ I \ Incoming = I

\* What the indexer serves is a range of each of its two lists.
LEMMA ServedIsWindow ==
    ASSUME RowSet(indexed), NEW o \in Nat, NEW l \in Nat
    PROVE  Served(o, l) = Window(indexed, o, l)
<1>1. RowSet(indexed \ Deploys) /\ RowSet(indexed \ Incoming)
    BY RankInside
<1>2. ASSUME NEW S, RowSet(S)
      PROVE  ToSet(Slice(Newest(S), o, l)) = Among(S, o, l)
    <2>1. /\ RowSet(Among(S, o, l))
          /\ Slice(Newest(S), o, l) = Newest(Among(S, o, l))
        BY <1>2, SliceIsNewest
    <2>2. ToSet(Newest(Among(S, o, l))) = Among(S, o, l)
        BY <2>1, NewestSet
    <2>. QED
        BY <2>1, <2>2
<1>. QED
    BY <1>1, <1>2 DEF Served, Window

\* The ranges are rows of the list; beyond an offset if one of its two lists has all.
LEMMA WindowFacts ==
    ASSUME NEW I, RowSet(I), NEW o \in Nat, NEW l \in Nat
    PROVE  /\ Window(I, o, l) \in SUBSET I
           /\ o = 0 \/ OneList(I) =>
                /\ Among(I, o, l) \in SUBSET Window(I, o, l)
                /\ \A x \in Window(I, o, l) : Rank(I, x) > o
<1>. DEFINE A == I \ Deploys
            B == I \ Incoming
<1>1. A \in SUBSET I /\ B \in SUBSET I /\ A \cup B = I
    BY HistoryAssumption
<1>2. \A x \in I : /\ x \in Nat /\ Rank(I, x) \in Nat /\ Rank(I, x) >= 1
                   /\ Rank(A, x) \in Nat /\ Rank(A, x) <= Rank(I, x)
                   /\ Rank(B, x) \in Nat /\ Rank(B, x) <= Rank(I, x)
    <2>. HIDE DEF A, B
    <2>1. \A x \in I : x \in Nat /\ Rank(I, x) \in Nat /\ Rank(I, x) >= 1
        BY RankFacts DEF RowSet
    <2>2. \A x \in Nat : Rank(A, x) \in Nat /\ Rank(A, x) <= Rank(I, x)
        BY <1>1, RankInside, RankFacts
    <2>3. \A x \in Nat : Rank(B, x) \in Nat /\ Rank(B, x) <= Rank(I, x)
        BY <1>1, RankInside, RankFacts
    <2>. QED
        BY <2>1, <2>2, <2>3
<1>3. \A x \in A : Rank(A, x) >= 1
    BY <1>1, RankInside, RankFacts
<1>4. \A x \in B : Rank(B, x) >= 1
    BY <1>1, RankInside, RankFacts
<1>5. Window(I, o, l) = Among(A, o, l) \cup Among(B, o, l)
    BY DEF Window
<1>6. OneList(I) => A = I \/ B = I
    BY DEF OneList
<1>. HIDE DEF A, B
<1>7. Window(I, o, l) \in SUBSET I
    BY <1>1, <1>5 DEF Among
<1>8. ASSUME NEW x \in Window(I, o, l)
      PROVE  Rank(I, x) > o
    BY <1>1, <1>2, <1>5, <1>8 DEF Among
<1>9. ASSUME o = 0 \/ OneList(I), NEW x \in Among(I, o, l)
      PROVE  x \in Window(I, o, l)
    <2>1. CASE OneList(I)
        BY <1>5, <1>6, <2>1, <1>9
    <2>2. CASE o = 0
        <3>1. x \in I /\ (l = NoLimit \/ Rank(I, x) <= o + l)
            BY <1>9 DEF Among
        <3>2. CASE x \in A
            BY <1>2, <1>3, <1>5, <2>2, <3>1, <3>2 DEF Among
        <3>3. CASE x \in B
            BY <1>2, <1>4, <1>5, <2>2, <3>1, <3>3 DEF Among
        <3>. QED
            BY <1>1, <3>1, <3>2, <3>3
    <2>. QED
        BY <1>9, <2>1, <2>2
<1>. QED
    BY <1>7, <1>8, <1>9

\* Without pending rows the page starts with the reference page.
LEMMA WindowStarts ==
    ASSUME NEW I, RowSet(I), NEW o \in Nat, NEW l \in Nat, o = 0 \/ OneList(I)
    PROVE  IsPrefix(Newest(Among(I, o, l)), Newest(Window(I, o, l)))
<1>. DEFINE W == Among(I, o, l)
            E == Window(I, o, l)
<1>1. W \in SUBSET E /\ E \in SUBSET I /\ \A x \in E : Rank(I, x) > o
    BY WindowFacts
<1>2. ASSUME NEW w \in W, NEW e \in E \ W
      PROVE  w > e
    <2>1. w \in I /\ e \in I /\ w \in Nat /\ e \in Nat
        BY <1>1, <1>2 DEF RowSet
    <2>2. Rank(I, w) \in Nat /\ Rank(I, e) \in Nat
        BY <2>1, RankFacts
    <2>3. (l = NoLimit \/ Rank(I, w) <= o + l) /\ l # NoLimit
          /\ ~(Rank(I, e) <= o + l)
        BY <1>1, <1>2, <2>1 DEF Among
    <2>4. Rank(I, w) < Rank(I, e)
        BY <2>2, <2>3
    <2>. QED
        BY <2>1, <2>4, RankFacts
<1>3. RowSet(E)
    BY <1>1, RankInside
<1>. HIDE DEF W, E
<1>4. IsPrefix(Newest(W), Newest(E))
    BY <1>1, <1>2, <1>3, NewestPrefix
<1>. QED
    BY <1>4 DEF W, E

\* A page that starts among as many rows as are pending: every row of it is
\* pending, or among the first of the indexer.
LEMMA EarlyPage ==
    ASSUME NEW I, RowSet(I), NEW P, RowSet(P), NEW o \in Nat, NEW l \in Nat,
           P # {}, o <= Cardinality(P),
           NEW L \in Nat, L = WindowLimit(l, Cardinality(P))
    PROVE  Among(Window(I, 0, L) \cup P, o, l) = Among(P \cup I, o, l)
<1>. DEFINE c == Cardinality(P)
            E == Window(I, 0, L)
            S == P \cup I
<1>1. c \in Nat
    BY RankFacts
<1>2. RowSet(S)
    BY FS_Union DEF RowSet
<1>3. E \in SUBSET I /\ Among(I, 0, L) \in SUBSET E
    BY WindowFacts
<1>4. \A x \in I : /\ x \in Nat /\ Rank(I, x) \in Nat /\ Rank(I, x) >= 1
                   /\ Rank(S, x) \in Nat /\ Rank(I, x) <= Rank(S, x)
    BY <1>2, RankInside, RankFacts DEF RowSet
<1>5. L = IF l = NoLimit THEN NoLimit ELSE l + c
    BY DEF WindowLimit
<1>6. ASSUME NEW x \in S, l = NoLimit \/ Rank(S, x) <= o + l
      PROVE  x \in E \cup P
    <2>1. CASE x \in P
        BY <2>1
    <2>2. CASE x \in I
        <3>1. L = NoLimit \/ Rank(I, x) <= 0 + L
            BY <1>1, <1>4, <1>5, <1>6, <2>2
        <3>2. x \in Among(I, 0, L)
            BY <1>4, <2>2, <3>1 DEF Among
        <3>. QED
            BY <1>3, <3>2
    <2>. QED
        BY <2>1, <2>2
<1>7. E \cup P \in SUBSET S
    BY <1>3
<1>8. CASE l = NoLimit
    <2>1. E \cup P = S
        BY <1>6, <1>7, <1>8
    <2>. QED
        BY <2>1
<1>9. CASE l # NoLimit
    <2>1. o + l \in Nat /\ o + l <= o + l
        OBVIOUS
    <2>. HIDE DEF S, E
    <2>2. Among(E \cup P, o, l) = Among(S, o, l)
        BY <1>2, <1>6, <1>7, <1>9, <2>1, TopAgrees
    <2>. QED
        BY <2>2 DEF S, E
<1>. QED
    BY <1>8, <1>9

\* The rows of I at its first s places.
LEMMA FirstRows ==
    ASSUME NEW I, RowSet(I), NEW s \in Nat, s # 0, s <= Cardinality(I)
    PROVE  Cardinality({x \in I : Rank(I, x) <= s}) = s
<1>1. Cardinality(I) \in Nat
    BY RankFacts
<1>2. s \in 1 .. Cardinality(I)
    BY <1>1
<1>3. PICK z \in I : Rank(I, z) = s
    BY <1>2, RankOnto
<1>4. \A x \in I : x \in Nat /\ Rank(I, x) \in Nat
    BY RankFacts DEF RowSet
<1>5. ASSUME NEW x \in I
      PROVE  Rank(I, x) <= s <=> x >= z
    <2>1. z < x <=> Rank(I, x) < s
        BY <1>3, RankFacts
    <2>2. Rank(I, x) = s <=> x = z
        BY <1>3, RanksDiffer
    <2>. QED
        BY <1>3, <1>4, <2>1, <2>2
<1>6. {x \in I : Rank(I, x) <= s} = From(I, z)
    BY <1>5 DEF From
<1>. QED
    BY <1>3, <1>6 DEF Rank

\* A later page, of a list that no row is in twice: the rows ahead of the
\* window, pending or executed, are as many as the offset skips.
LEMMA LaterPage ==
    ASSUME NEW I, RowSet(I), NEW P, RowSet(P), P # {}, P \cap I = {},
           OneList(I), NEW o \in Nat, NEW l \in Nat, Cardinality(P) < o,
           NEW L \in Nat, L = WindowLimit(l, Cardinality(P)),
           NEW E, E = Window(I, o - Cardinality(P), L), E # {}
    PROVE  /\ Cardinality(Ahead(P, E)) <= Cardinality(P)
           /\ RowSet(E \cup (P \ Ahead(P, E)))
           /\ Among(E \cup (P \ Ahead(P, E)),
                    Cardinality(P) - Cardinality(Ahead(P, E)), l)
                = Among(P \cup I, o, l)
<1>. DEFINE c == Cardinality(P)
            s == o - c
            F == Ahead(P, E)
            D == {x \in I : Rank(I, x) <= s}
            T == E \cup (P \ F)
            S == P \cup I
            V == P \cup D \cup E
<1>1. c \in Nat /\ s \in Nat /\ s # 0
    BY RankFacts
<1>2. RowSet(S)
    BY FS_Union DEF RowSet
<1>3. E \in SUBSET I /\ Among(I, s, L) \in SUBSET E
    BY <1>1, WindowFacts
<1>4. \A x \in E : Rank(I, x) > s
    BY <1>1, WindowFacts
<1>5. L = IF l = NoLimit THEN NoLimit ELSE l + c
    BY DEF WindowLimit
<1>6. \A x \in I : x \in Nat /\ Rank(I, x) \in Nat
    BY RankFacts DEF RowSet
<1>7. \A x \in I : Rank(I, x) <= Rank(S, x) /\ Rank(S, x) \in Nat
    <2>1. I \in SUBSET S
        OBVIOUS
    <2>. HIDE DEF S
    <2>. QED
        BY <1>2, <1>6, <2>1, RankInside, RankFacts
<1>8. F \in SUBSET P
    BY DEF Ahead
<1>9. IsFiniteSet(F) /\ Cardinality(F) \in Nat /\ Cardinality(F) <= c
    BY <1>8, FS_Subset, FS_CardinalityType DEF RowSet
<1>10. V \in SUBSET S
    BY <1>3
<1>11. RowSet(V)
    BY <1>2, <1>10, RankInside
<1>12. ASSUME NEW x \in S, l = NoLimit \/ Rank(S, x) <= o + l
       PROVE  x \in V
    <2>1. CASE x \in P \/ x \in D
        BY <2>1
    <2>2. CASE x \in I /\ x \notin D
        <3>1. Rank(I, x) > s
            BY <1>1, <1>6, <2>2
        <3>2. L = NoLimit \/ Rank(I, x) <= s + L
            BY <1>1, <1>5, <1>6, <1>7, <1>12, <2>2
        <3>3. x \in Among(I, s, L)
            BY <1>1, <1>6, <2>2, <3>1, <3>2 DEF Among
        <3>. QED
            BY <1>3, <3>3
    <2>. QED
        BY <2>1, <2>2
<1>13. Among(V, o, l) = Among(S, o, l)
    <2>1. CASE l = NoLimit
        <3>1. V = S
            BY <1>10, <1>12, <2>1
        <3>. QED
            BY <3>1
    <2>2. CASE l # NoLimit
        <3>. HIDE DEF S, V
        <3>1. o + l \in Nat /\ o + l <= o + l
            OBVIOUS
        <3>. QED
            BY <1>2, <1>10, <1>12, <2>2, <3>1, TopAgrees
    <2>. QED
        BY <2>1, <2>2
<1>14. Cardinality(D) = s
    <2>1. PICK e \in E : Rank(I, e) > s
        BY <1>4
    <2>2. s <= Cardinality(I)
        <3>1. e \in I /\ e \in Nat
            BY <1>3, <1>6, <2>1
        <3>2. Rank(I, e) <= Cardinality(I) /\ Cardinality(I) \in Nat
              /\ Rank(I, e) \in Nat
            BY <3>1, RankFacts
        <3>. QED
            BY <1>1, <2>1, <3>2
    <2>. HIDE DEF s
    <2>. QED
        BY <1>1, <2>2, FirstRows
<1>15. D \cap E = {} /\ D \cap P = {}
    <2>1. \A x \in E : ~(Rank(I, x) <= s)
        BY <1>1, <1>3, <1>4, <1>6
    <2>. QED
        BY <2>1
<1>16. V \ T = D \cup F /\ T \in SUBSET V
    BY <1>3, <1>8, <1>15
<1>17. \A x \in T, y \in V \ T : y > x
    <2>1. \A x \in I, y \in I : Rank(I, y) < Rank(I, x) => x < y
        BY RankFacts
    <2>2. ASSUME NEW y \in D, NEW e \in E PROVE y > e
        <3>1. Rank(I, y) < Rank(I, e) /\ y \in I /\ e \in I
            BY <1>1, <1>3, <1>4, <1>6
        <3>. QED
            BY <1>6, <2>1, <3>1
    <2>3. ASSUME NEW y \in F, NEW e \in E PROVE y > e
        BY DEF Ahead
    <2>4. ASSUME NEW y \in D \cup F, NEW e \in E PROVE y > e
        BY <2>2, <2>3
    <2>5. ASSUME NEW y \in D \cup F, NEW x \in P \ F PROVE y > x
        <3>1. PICK e \in E : ~(x > e)
            BY DEF Ahead
        <3>2. y > e
            BY <2>4
        <3>3. x \in Nat /\ e \in Nat /\ y \in Nat
            BY <1>3, <1>8 DEF RowSet
        <3>. QED
            BY <3>1, <3>2, <3>3
    <2>. QED
        BY <1>16, <2>4, <2>5
<1>18. Cardinality(D \cup F) = s + Cardinality(F)
    <2>1. D \cap F = {}
        BY <1>8, <1>15
    <2>2. IsFiniteSet(D)
        BY FS_Subset DEF RowSet
    <2>. HIDE DEF D, F, s
    <2>3. Cardinality({}) = 0
        BY FS_EmptySet
    <2>4. Cardinality(D \cup F) = Cardinality(D) + Cardinality(F) - Cardinality({})
        BY <1>9, <2>1, <2>2, FS_Union
    <2>. QED
        BY <1>1, <1>9, <1>14, <2>3, <2>4
<1>19. /\ Cardinality(V \ T) <= o
       /\ o - Cardinality(V \ T) = c - Cardinality(F)
    BY <1>1, <1>9, <1>16, <1>18
<1>20. RowSet(T)
    BY <1>11, <1>16, RankInside
<1>21. Among(V, o, l) = Among(T, c - Cardinality(F), l)
    <2>. HIDE DEF V, T, F, c
    <2>. QED
        BY <1>11, <1>16, <1>17, <1>19, DropTop
<1>. QED
    BY <1>9, <1>13, <1>20, <1>21

\* A window with no row: the offset skips all rows.
LEMMA EmptyPage ==
    ASSUME NEW I, RowSet(I), NEW P, RowSet(P), P # {}, OneList(I),
           NEW o \in Nat, NEW l \in Nat, Cardinality(P) < o,
           NEW L \in Nat, L = WindowLimit(l, Cardinality(P)),
           Window(I, o - Cardinality(P), L) = {}
    PROVE  Among(P \cup I, o, l) = {}
<1>. DEFINE c == Cardinality(P)
            n == Cardinality(I)
            s == o - c
            S == P \cup I
<1>1. c \in Nat /\ s \in Nat /\ n \in Nat
    BY RankFacts
<1>2. c # 0
    BY FS_EmptySet DEF RowSet
<1>3. Among(I, s, L) = {}
    BY <1>1, WindowFacts
<1>4. L = NoLimit \/ L >= 1
    BY <1>1, <1>2 DEF WindowLimit
<1>5. n <= s
    <2>. SUFFICES ASSUME n > s PROVE FALSE
        BY <1>1
    <2>1. s + 1 \in 1 .. n
        BY <1>1
    <2>2. PICK x \in I : Rank(I, x) = s + 1
        BY <2>1, RankOnto
    <2>3. x \in Among(I, s, L)
        BY <1>1, <1>4, <2>2 DEF Among
    <2>. QED
        BY <1>3, <2>3
<1>6. Cardinality(S) <= c + n
    <2>1. /\ IsFiniteSet(P \cap I)
          /\ Cardinality(S) = c + n - Cardinality(P \cap I)
        BY FS_Union, FS_Subset DEF RowSet
    <2>2. Cardinality(P \cap I) \in Nat
        BY <2>1, FS_CardinalityType
    <2>. QED
        BY <1>1, <2>1, <2>2
<1>7. RowSet(S)
    BY FS_Union DEF RowSet
<1>8. \A x \in S : ~(o < Rank(S, x))
    <2>. SUFFICES ASSUME NEW x \in S PROVE ~(o < Rank(S, x))
        OBVIOUS
    <2>. HIDE DEF S
    <2>1. x \in Nat /\ Cardinality(S) \in Nat
        BY <1>7, RankFacts DEF RowSet
    <2>2. Rank(S, x) \in Nat /\ Rank(S, x) <= Cardinality(S)
        BY <1>7, <2>1, RankFacts
    <2>. QED
        BY <1>1, <1>5, <1>6, <2>1, <2>2
<1>. QED
    BY <1>8 DEF Among

-----------------------------------------------------------------------------
\* What mergeHistoryPage returns, as a sorted set of rows.
LEMMA MergedEarly ==
    ASSUME NEW P, RowSet(P), NEW E, RowSet(E), NEW o \in Nat, NEW l \in Nat,
           o <= Cardinality(P)
    PROVE  MergedPage(P, E, o, l) = Newest(Among(E \cup P, o, l))
<1>1. Cardinality(P) \in Nat
    BY RankFacts
<1>2. RowSet(E \cup P)
    BY FS_Union DEF RowSet
<1>3. ExecutedOffset(o, Cardinality(P)) = 0
    BY <1>1 DEF ExecutedOffset
<1>4. E \cup (P \ E) = E \cup P
    OBVIOUS
<1>5. MergedPage(P, E, o, l) = Slice(Newest(E \cup P), o, l)
    BY <1>3, <1>4 DEF MergedPage
<1>. QED
    BY <1>2, <1>5, SliceIsNewest

\* Beyond the pending rows, where nothing was executed, a page is empty.
LEMMA MergedNone ==
    ASSUME NEW P, RowSet(P), NEW o \in Nat, NEW l \in Nat, Cardinality(P) < o
    PROVE  MergedPage(P, {}, o, l) = <<>>
<1>1. Cardinality(P) \in Nat
    BY RankFacts
<1>2. ExecutedOffset(o, Cardinality(P)) # 0
    BY <1>1 DEF ExecutedOffset
<1>. QED
    BY <1>2 DEF MergedPage

\* Beyond the pending rows, a page is cut from what was served and the pending rows
\* that are not ahead of it.
LEMMA MergedLate ==
    ASSUME NEW P, RowSet(P), NEW E, RowSet(E), NEW o \in Nat, NEW l \in Nat,
           Cardinality(P) < o, E # {}, NEW F, F = Ahead(P \ E, E)
    PROVE  /\ Cardinality(P) - Cardinality(F) \in Nat
           /\ RowSet(E \cup ((P \ E) \ F))
           /\ MergedPage(P, E, o, l)
                = Newest(Among(E \cup ((P \ E) \ F),
                               Cardinality(P) - Cardinality(F), l))
<1>. DEFINE c == Cardinality(P)
            T == E \cup ((P \ E) \ F)
<1>1. c \in Nat
    BY RankFacts
<1>2. RowSet(E \cup P)
    BY FS_Union DEF RowSet
<1>3. ExecutedOffset(o, c) = o - c /\ o - c # 0
    BY <1>1 DEF ExecutedOffset
<1>4. F \in SUBSET P
    BY DEF Ahead
<1>5. Cardinality(F) \in Nat /\ Cardinality(F) <= c
    BY <1>4, FS_Subset, FS_CardinalityType DEF RowSet
<1>6. c - Cardinality(F) \in Nat
      /\ o - (o - c) - Cardinality(F) = c - Cardinality(F)
    BY <1>1, <1>5
<1>7. MergedPage(P, E, o, l) = Slice(Newest(T), o - (o - c) - Cardinality(F), l)
    BY <1>3 DEF MergedPage
<1>8. T \in SUBSET (E \cup P)
    OBVIOUS
<1>. HIDE DEF T, c
<1>9. RowSet(T)
    BY <1>2, <1>8, RankInside
<1>10. MergedPage(P, E, o, l) = Newest(Among(T, c - Cardinality(F), l))
    BY <1>6, <1>7, <1>9, SliceIsNewest
<1>. QED
    BY <1>6, <1>9, <1>10 DEF T, c

\* Of no rows there is an empty list.
LEMMA NewestOfNone == Newest({}) = <<>>
<1>1. RowSet({}) /\ Cardinality({}) = 0
    BY FS_EmptySet DEF RowSet
<1>2. Newest({}) \in Seq({}) /\ Len(Newest({})) = 0
    BY <1>1, NewestFacts
<1>. QED
    BY <1>2, EmptySeq

\* Whatever the window, a page is the sorted list of some rows.
LEMMA MergedIsSorted ==
    ASSUME NEW P, RowSet(P), NEW E, RowSet(E), NEW o \in Nat, NEW l \in Nat
    PROVE  \E W \in SUBSET (E \cup P) : MergedPage(P, E, o, l) = Newest(W)
<1>1. Cardinality(P) \in Nat
    BY RankFacts
<1>2. CASE o <= Cardinality(P)
    <2>1. MergedPage(P, E, o, l) = Newest(Among(E \cup P, o, l))
        BY <1>2, MergedEarly
    <2>2. Among(E \cup P, o, l) \in SUBSET (E \cup P)
        BY DEF Among
    <2>. QED
        BY <2>1, <2>2
<1>3. CASE Cardinality(P) < o /\ E = {}
    <2>1. MergedPage(P, E, o, l) = Newest({})
        BY <1>3, MergedNone, NewestOfNone
    <2>. QED
        BY <2>1
<1>4. CASE Cardinality(P) < o /\ E # {}
    <2>. DEFINE F == Ahead(P \ E, E)
    <2>1. F = Ahead(P \ E, E)
        OBVIOUS
    <2>. HIDE DEF F
    <2>2. MergedPage(P, E, o, l)
               = Newest(Among(E \cup ((P \ E) \ F),
                              Cardinality(P) - Cardinality(F), l))
        BY <1>4, <2>1, MergedLate
    <2>3. Among(E \cup ((P \ E) \ F), Cardinality(P) - Cardinality(F), l)
             \in SUBSET (E \cup P)
        BY DEF Among
    <2>. QED
        BY <2>2, <2>3
<1>. QED
    BY <1>1, <1>2, <1>3, <1>4

\* A list of rows is one of rows of the account, ...
LEMMA NewestTyped ==
    ASSUME NEW S, RowSet(S), S \in SUBSET Rows
    PROVE  Newest(S) \in Seq(Rows)
<1>1. Newest(S) \in Seq(S)
    BY NewestFacts
<1>. QED
    BY <1>1, SeqMonotonic

\* ... and so is a merged page.
LEMMA MergedTyped ==
    ASSUME NEW P, RowSet(P), P \in SUBSET Rows, NEW E, RowSet(E),
           E \in SUBSET Rows, NEW o \in Nat, NEW l \in Nat
    PROVE  MergedPage(P, E, o, l) \in Seq(Rows)
<1>1. PICK W \in SUBSET (E \cup P) : MergedPage(P, E, o, l) = Newest(W)
    BY MergedIsSorted
<1>2. RowSet(E \cup P)
    BY FS_Union DEF RowSet
<1>3. RowSet(W) /\ W \in SUBSET Rows
    BY <1>2, RankInside
<1>. QED
    BY <1>1, <1>3, NewestTyped

-----------------------------------------------------------------------------
HistoryInv ==
    /\ HistoryTypeOK
    /\ IsFiniteSet(reserved)
    /\ IsFiniteSet(indexed)
    /\ asking # NoRequest => IsFiniteSet(asking.pending)

\* What an awaited request holds, and what the indexer can answer.
LEMMA AskingFacts ==
    ASSUME HistoryInv
    PROVE  /\ RowSet(indexed) /\ RowSet(PendingRows) /\ PendingRows \in SUBSET Rows
           /\ asking # NoRequest =>
                /\ RowSet(asking.pending) /\ asking.pending \in SUBSET Rows
                /\ asking.offset \in Nat /\ asking.limit \in Nat
<1>1. RowSet(indexed)
    BY HistoryAssumption DEF HistoryInv, HistoryTypeOK, RowSet
<1>2. PendingRows \in SUBSET reserved
    BY DEF PendingRows, OutgoingRows, IncomingRows
<1>3. RowSet(PendingRows) /\ PendingRows \in SUBSET Rows
    BY <1>2, HistoryAssumption, FS_Subset DEF HistoryInv, HistoryTypeOK, RowSet
<1>4. ASSUME asking # NoRequest
      PROVE  /\ RowSet(asking.pending) /\ asking.pending \in SUBSET Rows
             /\ asking.offset \in Nat /\ asking.limit \in Nat
    <2>1. asking \in [sources : SUBSET {"pending", "executed"},
                      offset : Offsets, limit : Limits \cup {NoLimit},
                      pending : SUBSET Rows]
        BY <1>4 DEF HistoryInv, HistoryTypeOK
    <2>2. IsFiniteSet(asking.pending)
        BY <1>4 DEF HistoryInv
    <2>. QED
        <3>1. asking.pending \in SUBSET Rows /\ asking.offset \in Offsets
              /\ asking.limit \in Limits \cup {NoLimit}
            BY <2>1
        <3>2. Rows \in SUBSET Nat /\ Offsets \in SUBSET Nat
              /\ Limits \cup {NoLimit} \in SUBSET Nat
            BY HistoryAssumption DEF NoLimit
        <3>3. RowSet(asking.pending)
            BY <2>2, <3>1, <3>2 DEF RowSet
        <3>. QED
            BY <3>1, <3>2, <3>3
<1>. QED
    BY <1>1, <1>3, <1>4

\* The two requests of an answer.
LEMMA AwaitedFacts ==
    ASSUME HistoryInv, asking # NoRequest
    PROVE  LET c == Cardinality(asking.pending)
           IN /\ c \in Nat
              /\ ExecutedOffset(asking.offset, c) \in Nat
              /\ WindowLimit(asking.limit, c) \in Nat
<1>1. /\ RowSet(asking.pending)
      /\ asking.offset \in Nat /\ asking.limit \in Nat
    BY AskingFacts
<1>2. Cardinality(asking.pending) \in Nat
    BY <1>1, RankFacts
<1>. QED
    BY <1>1, <1>2 DEF ExecutedOffset, WindowLimit, NoLimit

\* The invariant holds before the first transaction, ...
LEMMA HistoryInvInit == HistoryInit => HistoryInv
<1>1. <<>> \in Seq(Rows) /\ IsFiniteSet({})
    BY EmptySeq, FS_EmptySet
<1>. QED
    BY <1>1 DEF HistoryInit, HistoryInv, HistoryTypeOK

\* ... and every step keeps it.
LEMMA HistoryInvStep == HistoryInv /\ [HistoryNext]_historyVars => HistoryInv'
<1>. SUFFICES ASSUME HistoryInv, [HistoryNext]_historyVars PROVE HistoryInv'
    OBVIOUS
<1>. USE DEF HistoryInv, HistoryTypeOK
<1>1. ASSUME NEW r \in Rows, Reserve(r) PROVE HistoryInv'
    <2>1. IsFiniteSet(reserved \cup {r})
        BY FS_AddElement
    <2>. QED
        BY <1>1, <2>1 DEF Reserve
<1>2. ASSUME NEW r \in Rows, ReleaseRow(r) PROVE HistoryInv'
    <2>1. IsFiniteSet(reserved \ {r})
        BY FS_RemoveElement
    <2>. QED
        BY <1>2, <2>1 DEF ReleaseRow
<1>3. ASSUME NEW r \in Rows, IndexRow(r) PROVE HistoryInv'
    <2>1. IsFiniteSet(indexed \cup {r})
        BY FS_AddElement
    <2>. QED
        BY <1>3, <2>1 DEF IndexRow
<1>4. ASSUME NEW o \in Offsets, NEW l \in Limits \cup {NoLimit},
             ListPending(o, l)
      PROVE  HistoryInv'
    <2>1. o \in Nat /\ l \in Nat
        BY HistoryAssumption DEF NoLimit
    <2>2. Slice(Newest(PendingRows), o, l) \in Seq(Rows)
        <3>1. RowSet(PendingRows) /\ PendingRows \in SUBSET Rows
            BY AskingFacts
        <3>2. /\ RowSet(Among(PendingRows, o, l))
              /\ Slice(Newest(PendingRows), o, l)
                   = Newest(Among(PendingRows, o, l))
            BY <2>1, <3>1, SliceIsNewest
        <3>3. Among(PendingRows, o, l) \in SUBSET Rows
            BY <3>1 DEF Among
        <3>. QED
            BY <3>2, <3>3, NewestTyped
    <2>. QED
        BY <1>4, <2>2 DEF ListPending
<1>5. ASSUME NEW o \in Offsets, NEW l \in Limits \cup {NoLimit},
             NEW s \in {{"executed"}, {"pending", "executed"}},
             AskHistory(s, o, l)
      PROVE  HistoryInv'
    <2>1. IsFiniteSet(PendingRows) /\ PendingRows \in SUBSET Rows /\ IsFiniteSet({})
        BY AskingFacts, FS_EmptySet DEF RowSet
    <2>. QED
        BY <1>5, <2>1 DEF AskHistory
<1>6. CASE AnswerHistory
    <2>. DEFINE c == Cardinality(asking.pending)
                E1 == Served(asking.offset, asking.limit)
                E2 == Served(ExecutedOffset(asking.offset, c),
                             WindowLimit(asking.limit, c))
    <2>1. asking # NoRequest
        BY <1>6 DEF AnswerHistory
    <2>2. /\ RowSet(indexed) /\ indexed \in SUBSET Rows
          /\ RowSet(asking.pending) /\ asking.pending \in SUBSET Rows
          /\ asking.offset \in Nat /\ asking.limit \in Nat
        BY <2>1, AskingFacts
    <2>3. ASSUME NEW o \in Nat, NEW l \in Nat
          PROVE  RowSet(Served(o, l)) /\ Served(o, l) \in SUBSET Rows
        <3>1. Served(o, l) \in SUBSET indexed
            BY <2>2, ServedIsWindow, WindowFacts
        <3>. QED
            BY <2>2, <3>1, RankInside
    <2>4. Newest(E1) \in Seq(Rows)
        BY <2>2, <2>3, NewestTyped
    <2>5. PageOf(E2) \in Seq(Rows)
        <3>1. RowSet(E2) /\ E2 \in SUBSET Rows
            BY <2>1, <2>3, AwaitedFacts
        <3>. HIDE DEF E2
        <3>. QED
            BY <2>2, <3>1, MergedTyped DEF PageOf
    <2>6. page' \in Seq(Rows)
        BY <1>6, <2>4, <2>5 DEF AnswerHistory
    <2>. QED
        BY <1>6, <2>6 DEF AnswerHistory
<1>7. CASE HistoryFails
    <2>1. asking # NoRequest
        BY <1>7 DEF HistoryFails
    <2>2. /\ RowSet(asking.pending) /\ asking.pending \in SUBSET Rows
          /\ asking.offset \in Nat /\ asking.limit \in Nat
        BY <2>1, AskingFacts
    <2>3. RowSet({}) /\ <<>> \in Seq(Rows)
        BY EmptySeq, FS_EmptySet DEF RowSet
    <2>4. PageOf({}) \in Seq(Rows)
        BY <2>2, <2>3, MergedTyped DEF PageOf
    <2>. QED
        BY <1>7, <2>3, <2>4 DEF HistoryFails
<1>8. CASE UNCHANGED historyVars
    BY <1>8 DEF historyVars
<1>. QED
    BY <1>1, <1>2, <1>3, <1>4, <1>5, <1>6, <1>7, <1>8 DEF HistoryNext

\* The rows an awaited answer is made of are finitely many and the account's
\* own (getTransactionsHistory), whatever is asked in between.
THEOREM HistoryInvariance == HistorySpec => []HistoryInv
BY HistoryInvInit, HistoryInvStep, PTL DEF HistorySpec

\* HistoryTypeOK: what was asked for and what is shown are rows of the account.
THEOREM HistoryTyped == HistorySpec => []HistoryTypeOK
<1>1. HistoryInv => HistoryTypeOK
    BY DEF HistoryInv
<1>. QED
    BY <1>1, HistoryInvariance, PTL

-----------------------------------------------------------------------------
\* The page of an answer (mergeHistoryPage) is the page of the one list.
LEMMA AnswerAgrees ==
    ASSUME HistoryInv, AnswerHistory,
           \/ asking.offset <= Cardinality(asking.pending)
           \/ /\ asking.pending \cap indexed = {}
              /\ indexed \cap Deploys = {} \/ indexed \cap Incoming = {}
    PROVE  /\ IsPrefix(ReferencePage, page')
           /\ asking.pending # {} => page' = ReferencePage
<1>. DEFINE P == asking.pending
            o == asking.offset
            l == asking.limit
            I == indexed
            c == Cardinality(P)
            L == WindowLimit(l, c)
<1>1. asking # NoRequest
    BY DEF AnswerHistory
<1>2. RowSet(I) /\ RowSet(P) /\ o \in Nat /\ l \in Nat
    BY <1>1, AskingFacts
<1>3. c \in Nat /\ ExecutedOffset(o, c) \in Nat /\ L \in Nat
    BY <1>1, AwaitedFacts
<1>4. RowSet(P \cup I)
    BY <1>2, FS_Union DEF RowSet
<1>5. /\ RowSet(Among(P \cup I, o, l))
      /\ ReferencePage = Newest(Among(P \cup I, o, l))
    BY <1>2, <1>4, SliceIsNewest DEF ReferencePage
<1>6. I \cap Deploys = {} \/ I \cap Incoming = {} => OneList(I)
    BY DEF OneList
<1>7. page' = IF P = {} THEN Newest(Served(o, l))
              ELSE MergedPage(P, Served(ExecutedOffset(o, c), L), o, l)
    BY DEF AnswerHistory, PageOf
<1>8. o <= c \/ (P \cap I = {} /\ OneList(I))
    BY <1>6
<1>9. CASE P = {}
    <2>1. c = 0
        BY <1>9, FS_EmptySet
    <2>2. o = 0 \/ OneList(I)
        BY <1>2, <1>8, <2>1
    <2>3. page' = Newest(Window(I, o, l))
        BY <1>2, <1>7, <1>9, ServedIsWindow
    <2>4. P \cup I = I
        BY <1>9
    <2>5. ReferencePage = Newest(Among(I, o, l))
        BY <1>5, <2>4
    <2>. HIDE DEF P, o, l, I
    <2>6. IsPrefix(Newest(Among(I, o, l)), Newest(Window(I, o, l)))
        BY <1>2, <2>2, WindowStarts
    <2>7. IsPrefix(ReferencePage, page') /\ P = {}
        BY <1>9, <2>3, <2>5, <2>6
    <2>. QED
        BY <2>7 DEF P
<1>10. CASE P # {} /\ o <= c
    <2>1. ExecutedOffset(o, c) = 0
        BY <1>2, <1>3, <1>10 DEF ExecutedOffset
    <2>2. Served(0, L) = Window(I, 0, L) /\ Window(I, 0, L) \in SUBSET I
        BY <1>2, <1>3, ServedIsWindow, WindowFacts
    <2>. DEFINE E == Window(I, 0, L)
    <2>3. RowSet(E)
        BY <1>2, <2>2, RankInside
    <2>4. page' = MergedPage(P, E, o, l)
        BY <1>7, <1>10, <2>1, <2>2
    <2>5. L = WindowLimit(l, Cardinality(P))
        OBVIOUS
    <2>6. Among(E \cup P, o, l) = Among(P \cup I, o, l)
        <3>. HIDE DEF P, o, l, I, L
        <3>. QED
            BY <1>2, <1>3, <1>10, <2>5, EarlyPage DEF c
    <2>7. MergedPage(P, E, o, l) = Newest(Among(E \cup P, o, l))
        <3>. HIDE DEF E, P, o, l, I, L
        <3>. QED
            BY <1>2, <1>10, <2>3, MergedEarly DEF c
    <2>8. page' = ReferencePage
        BY <1>5, <2>4, <2>6, <2>7
    <2>. QED
        BY <1>5, <2>8, PrefixOfItself
<1>11. CASE P # {} /\ c < o
    <2>1. ExecutedOffset(o, c) = o - c /\ o - c \in Nat
        BY <1>2, <1>3, <1>11 DEF ExecutedOffset
    <2>2. P \cap I = {} /\ OneList(I)
        BY <1>2, <1>3, <1>8, <1>11
    <2>. DEFINE E == Window(I, o - c, L)
    <2>3. Served(o - c, L) = E /\ E \in SUBSET I
        BY <1>2, <1>3, <2>1, ServedIsWindow, WindowFacts
    <2>4. RowSet(E)
        BY <1>2, <2>3, RankInside
    <2>5. page' = MergedPage(P, E, o, l)
        BY <1>7, <1>11, <2>1, <2>3
    <2>6. L = WindowLimit(l, Cardinality(P))
        OBVIOUS
    <2>7. P \ E = P
        BY <2>2, <2>3
    <2>8. MergedPage(P, E, o, l) = Newest(Among(P \cup I, o, l))
        <3>. HIDE DEF P, o, l, I, L
        <3>1. CASE E = {}
            <4>1. Among(P \cup I, o, l) = {}
                BY <1>2, <1>3, <1>11, <2>2, <2>6, <3>1, EmptyPage DEF c
            <4>. HIDE DEF E
            <4>2. MergedPage(P, E, o, l) = <<>>
                BY <1>2, <1>11, <3>1, MergedNone DEF c
            <4>. QED
                BY <4>1, <4>2, NewestOfNone
        <3>2. CASE E # {}
            <4>1. Among(E \cup (P \ Ahead(P, E)), c - Cardinality(Ahead(P, E)), l)
                    = Among(P \cup I, o, l)
                BY <1>2, <1>3, <1>11, <2>2, <2>6, <3>2, LaterPage DEF c
            <4>. HIDE DEF E
            <4>. DEFINE F == Ahead(P \ E, E)
            <4>2. F = Ahead(P, E) /\ F = Ahead(P \ E, E)
                BY <2>7
            <4>. HIDE DEF F
            <4>3. MergedPage(P, E, o, l)
                    = Newest(Among(E \cup ((P \ E) \ F), c - Cardinality(F), l))
                BY <1>2, <1>11, <2>4, <3>2, <4>2, MergedLate DEF c
            <4>. QED
                BY <2>7, <4>1, <4>2, <4>3
        <3>. QED
            BY <3>1, <3>2
    <2>9. page' = ReferencePage
        BY <1>5, <2>5, <2>8
    <2>. QED
        BY <1>5, <2>9, PrefixOfItself
<1>. QED
    BY <1>2, <1>3, <1>9, <1>10, <1>11

\* PagesAgree: the answered page is the page of the one list the caller has in
\* mind, wherever the window of the widened request covers it.
THEOREM PagesAreOfOneList == HistorySpec => PagesAgree
<1>1. HistoryInv /\ [HistoryNext]_historyVars =>
        [ AnswerHistory =>
          LET early  == asking.offset <= Cardinality(asking.pending)
              nested == /\ asking.pending \cap indexed = {}
                        /\ \/ indexed \cap Deploys = {}
                           \/ indexed \cap Incoming = {}
          IN early \/ nested =>
               /\ IsPrefix(ReferencePage, page')
               /\ asking.pending # {} => page' = ReferencePage ]_historyVars
    BY AnswerAgrees
<1>. QED
    BY <1>1, HistoryInvariance, PTL DEF HistorySpec, PagesAgree

-----------------------------------------------------------------------------
(* The composition                                                         *)

\* One part moves at a time, so that what MCServices runs is, of each of its
\* parts, a behaviour of that part; and what holds of the part holds of it.
THEOREM ServicesComposed ==
    MCSpec => /\ NetworksSpec /\ ManagedSpec /\ BadgeSpec
              /\ ResultsSpec /\ HistorySpec /\ FormSpec
<1>1. MCInit => /\ NetworksInit /\ ManagedInit /\ BadgeInit
                /\ ResultsInit /\ HistoryInit /\ FormInit
    BY DEF MCInit
<1>. DEFINE mcVars == <<focus, networkVars, managedVars, badgeVars, resultVars,
                        historyVars, formVars>>
<1>2. [MCNext]_mcVars => [NetworksNext]_networkVars
    BY DEF MCNext
<1>3. [MCNext]_mcVars => [ManagedNext]_managedVars
    BY DEF MCNext
<1>4. [MCNext]_mcVars => [BadgeNext]_badgeVars
    BY DEF MCNext
<1>5. [MCNext]_mcVars => [ResultsNext]_resultVars
    BY DEF MCNext
<1>6. [MCNext]_mcVars => [HistoryNext]_historyVars
    BY DEF MCNext
<1>7. [MCNext]_mcVars => [FormNext]_formVars
    BY DEF MCNext
<1>. QED
    BY <1>1, <1>2, <1>3, <1>4, <1>5, <1>6, <1>7, PTL
       DEF MCSpec, NetworksSpec, ManagedSpec, BadgeSpec, ResultsSpec, HistorySpec,
           FormSpec

\* ServicesTypeOK: the state of every part has its type in every state of the
\* composition.
THEOREM ServicesTyped == MCSpec => []ServicesTypeOK
<1>1. BadgeInv => BadgeTypeOK
    BY DEF BadgeInv
<1>2. ResultsInv => ResultsTypeOK
    BY DEF ResultsInv, NetsInv, RequestsInv, ResultsTypeOK
<1>3. FormInv => FormTypeOK
    BY DEF FormInv
<1>4. (/\ NetworksTypeOK /\ ManagedTypeOK /\ BadgeTypeOK
       /\ ResultsTypeOK /\ HistoryTypeOK /\ FormTypeOK) => ServicesTypeOK
    BY DEF ServicesTypeOK
<1>. QED
    BY <1>1, <1>2, <1>3, <1>4, ServicesComposed, NetworksTypeCorrect,
       ManagedTypeCorrect, BadgeInvariance, ResultsInvariance, HistoryTyped,
       FormInvariance, PTL

\* ImplementsNetworkTable: the table of networks is implemented whatever the
\* other parts do.
THEOREM ServicesRefineTable == MCSpec => ImplementsNetworkTable
BY ServicesComposed, NetworksRefineTable, PTL
=============================================================================
