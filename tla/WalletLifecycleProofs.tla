------------------------ MODULE WalletLifecycleProofs ------------------------
(***************************************************************************)
(* For any number of wallets, submissions, logouts and wipes: openings of   *)
(* one signer exclude each other, and, without keyfile imports, nothing     *)
(* from before a logout stays in the client and nothing that was wiped or   *)
(* removed comes back.                                                      *)
(***************************************************************************)
EXTENDS WalletLifecycle, TLAPS

\* What holds of every publication and of the wallet under removal.
Founded ==
    /\ \A w \in Wallets : stage[w] \in Creating \cup {"preparing"} => kind[w] # "open"
    /\ \A w \in Wallets : stage[w] # "idle" => signerOf[w] \in Wallets
    /\ teardown \in Removing => victim \in Wallets /\ stage[victim] = "published"
    /\ teardown \notin Removing => victim = None

\* The openings that hold the OPEN key of their signer, or are in memory.
Opening(w) == kind[w] = "open" /\ (stage[w] = "loading" \/ w \in wallets)

OpeningsApart ==
    \A v, w \in Wallets :
        v # w /\ Opening(v) /\ Opening(w) => signerOf[v] # signerOf[w]

OpeningInv == TypeOK /\ Founded /\ OpeningsApart

\* Every step keeps what is said of publications and of the wallet under removal.
LEMMA FoundedStep ==
    ASSUME LifecycleAssumption, TypeOK, Founded, Next
    PROVE  Founded'
<1> USE DEF TypeOK, Founded, Creating, Removing, Wiping
<1>1. ASSUME NEW w \in Wallets, NEW k, NEW s \in Wallets, Begin(w, k, s)
      PROVE  Founded'
  BY <1>1 DEF Begin, Goto, teardownVars
<1>2. ASSUME NEW w \in Wallets, Create(w) \/ Open(w)
      PROVE  Founded'
  BY <1>1, <1>2 DEF Create, Open
<1>3. ASSUME NEW w \in Wallets, PublicationStep(w)
      PROVE  Founded'
  BY <1>3 DEF PublicationStep, Prepared, SaveSigner, SaveAccounts, LookUp, Load, SetUp,
     PublicationFails, SetUpFails, Discard, Goto, teardownVars, Loading, Local
<1>4. ASSUME NEW w \in Wallets, CloseWallet(w) \/ RemoveWallet(w)
      PROVE  Founded'
  BY <1>4, LifecycleAssumption DEF CloseWallet, RemoveWallet, teardownVars, publicationVars,
     Suspended
<1>5. ASSUME NEW c \in Submissions, BeginCall(c) \/ CallStep(c)
      PROVE  Founded'
  BY <1>5 DEF BeginCall, CallStep, FindAdapter, Answered, Write, Submit, Rejected, RollBack,
     CallEnds, publicationVars, teardownVars
<1>6. CASE CloseAllWallets \/ ClearPersistence \/ Close
  BY <1>6 DEF CloseAllWallets, ClearPersistence, Close, publicationVars, teardownVars, Suspended
<1>7. CASE TeardownStep
  BY <1>7 DEF TeardownStep, WipeSigners, WipeAccounts, WipeRecords, DeleteAccounts,
     DeleteRecords, DeleteSigner, TeardownFails, publicationVars
<1> QED
  BY <1>2, <1>3, <1>4, <1>5, <1>6, <1>7 DEF Next

\* Types, with what Founded says of the wallet under removal.
LEMMA TypeStep ==
    ASSUME LifecycleAssumption, TypeOK, Founded, Next
    PROVE  TypeOK'
<1>1. ASSUME NEW w \in Wallets, NEW k \in {"create", "import", "open"}, NEW s \in Wallets,
             Begin(w, k, s)
      PROVE  TypeOK'
  <2> USE DEF TypeOK, Founded, Removing, Wiping, Creating, Loading, Local, Tracked, Stages,
              CallLocal, CallStages
  <2> DEFINE there == CASE k = "create" -> "building"
                        [] k = "import" -> "preparing"
                        [] k = "open" -> "looking"
  <2>1. there \in {"building", "preparing", "looking"} /\ k \in Kinds
    BY <1>1 DEF Begin
  <2>2. stage[w] = "idle" /\ stage' = [stage EXCEPT ![w] = there]
    BY <1>1 DEF Begin, Goto
  <2> HIDE DEF there
  <2>3. /\ stage' \in [Wallets -> Stages]
        /\ wallets \subseteq {v \in Wallets : stage'[v] \in {"setup", "published"}}
        /\ adapters \subseteq {v \in Wallets : stage'[v] = "published"}
    BY <2>1, <2>2
  <2>4. /\ kind' \in [Wallets -> Kinds \cup {None}]
        /\ signerOf' \in [Wallets -> Wallets \cup {None}]
        /\ called' \in [Wallets -> Nat] /\ born' \in [Wallets -> Nat]
    BY <1>1, <2>1 DEF Begin
  <2>5. UNCHANGED <<memoryVars, callVars, storageVars, generation, active, teardownVars>>
    BY <1>1 DEF Begin
  <2> QED
    BY <2>3, <2>4, <2>5 DEF teardownVars, memoryVars, callVars, storageVars
<1>2. ASSUME NEW w \in Wallets, Create(w) \/ Open(w)
      PROVE  TypeOK'
  <2>1. PICK k \in {"create", "import", "open"}, s \in Wallets : Begin(w, k, s)
    BY <1>2 DEF Create, Open, TypeOK
  <2> QED
    BY <1>1, <2>1
<1>3. ASSUME NEW w \in Wallets,
             Prepared(w) \/ SaveSigner(w) \/ SaveAccounts(w) \/ LookUp(w) \/ Load(w)
                \/ PublicationFails(w)
      PROVE  TypeOK'
  <2> USE DEF TypeOK, Founded, Removing, Wiping, Creating, Loading, Local, Tracked, Stages,
              CallLocal, CallStages
  <2>1. /\ stage' \in [Wallets -> Stages] /\ born' \in [Wallets -> Nat]
        /\ \A v \in Wallets \ {w} : stage'[v] = stage[v]
        /\ stage[w] \notin {"setup", "published"}
    BY <1>3 DEF Prepared, SaveSigner, SaveAccounts, LookUp, Load, PublicationFails, Goto
  <2>2. /\ signers' \subseteq Wallets /\ accounts' \subseteq Wallets
        /\ \/ wallets' = wallets
           \/ wallets' = wallets \cup {w} /\ stage'[w] = "setup"
    <3>1. CASE SaveAccounts(w)
      BY <3>1 DEF SaveAccounts, Goto
    <3>4. CASE Load(w)
      BY <3>4 DEF Load, Goto, storageVars
    <3>2. CASE SaveSigner(w)
      BY <3>2 DEF SaveSigner, memoryVars
    <3>3. CASE Prepared(w) \/ LookUp(w) \/ PublicationFails(w)
      BY <3>3 DEF Prepared, LookUp, PublicationFails, memoryVars, storageVars
    <3> QED
      BY <1>3, <3>1, <3>2, <3>3, <3>4
  <2>3. UNCHANGED <<kind, signerOf, called, adapters, callVars, records, generation, active,
                    teardownVars>>
    BY <1>3 DEF Prepared, SaveSigner, SaveAccounts, LookUp, Load, PublicationFails,
       memoryVars, storageVars
  <2>4. w # victim
    BY <2>1, LifecycleAssumption DEF LifecycleAssumption
  <2>5. /\ wallets' \subseteq {v \in Wallets : stage'[v] \in {"setup", "published"}}
        /\ adapters' \subseteq {v \in Wallets : stage'[v] = "published"}
        /\ victim' \in (Wallets \cup {None}) \ (wallets' \cup adapters')
    BY <2>1, <2>2, <2>3, <2>4 DEF teardownVars
  <2> QED
    BY <2>1, <2>2, <2>3, <2>5 DEF teardownVars, callVars
<1>4. ASSUME NEW w \in Wallets, SetUp(w) \/ SetUpFails(w)
      PROVE  TypeOK'
  <2> USE DEF TypeOK, Founded, Removing, Wiping, Creating, Loading, Local, Tracked, Stages,
              CallLocal, CallStages
  <2> QED
    BY <1>4, LifecycleAssumption DEF LifecycleAssumption, SetUp, SetUpFails, Discard, Goto,
       teardownVars, callVars, storageVars
<1>5. ASSUME NEW w \in Wallets, CloseWallet(w) \/ RemoveWallet(w)
      PROVE  TypeOK'
  <2> USE DEF TypeOK, Founded, Removing, Wiping, Creating, Loading, Local, Tracked, Stages,
              CallLocal, CallStages
  <2> QED
    BY <1>5 DEF CloseWallet, RemoveWallet, teardownVars, publicationVars, callVars, storageVars
<1>6. ASSUME NEW c \in Submissions, BeginCall(c) \/ CallStep(c)
      PROVE  TypeOK'
  <2> USE DEF TypeOK, Founded, Removing, Wiping, Creating, Loading, Local, Tracked, Stages,
              CallLocal, CallStages
  <2>1. /\ UNCHANGED <<publicationVars, memoryVars, teardownVars>>
        /\ UNCHANGED <<signers, accounts, generation, active>>
    BY <1>6 DEF BeginCall, CallStep, FindAdapter, Answered, Write, Submit, Rejected, RollBack,
       CallEnds, storageVars
  <2>2. records' \in SUBSET Submissions
    BY <1>6 DEF BeginCall, CallStep, FindAdapter, Answered, Write, Submit, Rejected, RollBack,
       CallEnds, storageVars
  <2>3. callStage' \in [Submissions -> CallStages]
    BY <1>6 DEF BeginCall, CallStep, FindAdapter, Answered, Write, Submit, Rejected, RollBack,
       CallEnds, CallGoto
  <2>4. callOn' \in [Submissions -> Wallets \cup {None}]
    BY <1>6 DEF BeginCall, CallStep, FindAdapter, Answered, Write, Submit, Rejected, RollBack,
       CallEnds
  <2> QED
    BY <2>1, <2>2, <2>3, <2>4 DEF publicationVars, memoryVars, teardownVars
<1>7. CASE CloseAllWallets \/ ClearPersistence \/ Close
  <2> USE DEF TypeOK, Founded, Removing, Wiping, Creating, Loading, Local, Tracked, Stages,
              CallLocal, CallStages
  <2>1. /\ UNCHANGED <<publicationVars, callVars, storageVars, victim, condemned>>
        /\ wallets' = {} /\ adapters' = {} /\ generation' \in Nat
        /\ teardown' \in {teardown, "wipeDrain"}
    BY <1>7 DEF CloseAllWallets, ClearPersistence, Close, Reset, teardownVars
  <2>2. active' \in BOOLEAN
    BY <1>7 DEF CloseAllWallets, ClearPersistence, Close
  <2> QED
    BY <2>1, <2>2 DEF publicationVars, callVars, storageVars
<1>8. CASE TeardownStep
  <2> USE DEF TypeOK, Founded, Removing, Wiping, Creating, Loading, Local, Tracked, Stages,
              CallLocal, CallStages
  <2>1. UNCHANGED <<publicationVars, memoryVars, callVars, generation, active>>
    BY <1>8 DEF TeardownStep, WipeSigners, WipeAccounts, WipeRecords, DeleteAccounts,
       DeleteRecords, DeleteSigner, TeardownFails
  <2>2. /\ signers' \subseteq Wallets /\ accounts' \subseteq Wallets
        /\ records' \subseteq Submissions
    BY <1>8 DEF TeardownStep, WipeSigners, WipeAccounts, WipeRecords, DeleteAccounts,
       DeleteRecords, DeleteSigner, TeardownFails, storageVars
  <2>3. teardown' \in {"none"} \cup Wiping \cup Removing
    BY <1>8 DEF TeardownStep, WipeSigners, WipeAccounts, WipeRecords, DeleteAccounts,
       DeleteRecords, DeleteSigner, TeardownFails
  <2>4. victim' \in {victim, None} /\ None \notin wallets \cup adapters
    BY <1>8, LifecycleAssumption DEF LifecycleAssumption, TeardownStep, WipeSigners,
       WipeAccounts, WipeRecords, DeleteAccounts, DeleteRecords, DeleteSigner, TeardownFails
  <2>5. condemned' \subseteq Wallets \cup Submissions
    BY <1>8 DEF TeardownStep, WipeSigners, WipeAccounts, WipeRecords, DeleteAccounts,
       DeleteRecords, DeleteSigner, TeardownFails
  <2> QED
    BY <2>1, <2>2, <2>3, <2>4, <2>5 DEF publicationVars, memoryVars, callVars
<1> QED
  BY <1>2, <1>3, <1>4, <1>5, <1>6, <1>7, <1>8 DEF Next, PublicationStep

\* An opening takes the key of its signer in the turn in which it finds that
\* nobody has the signer, and keeps it until it is in memory.
LEMMA OpeningsStep ==
    ASSUME LifecycleAssumption, OpeningInv, Next
    PROVE  OpeningsApart'
<1> USE DEF OpeningInv, OpeningsApart, Opening, TypeOK, Founded
<1>1. ASSUME NEW w \in Wallets, NEW k, NEW s \in Wallets, Begin(w, k, s)
      PROVE  OpeningsApart'
  BY <1>1 DEF Begin, Goto, memoryVars
<1>2. ASSUME NEW w \in Wallets, Create(w) \/ Open(w)
      PROVE  OpeningsApart'
  BY <1>1, <1>2 DEF Create, Open
<1>3. ASSUME NEW w \in Wallets,
             Prepared(w) \/ SaveSigner(w) \/ PublicationFails(w) \/ SetUp(w) \/ SetUpFails(w)
      PROVE  OpeningsApart'
  BY <1>3 DEF Prepared, SaveSigner, PublicationFails, SetUp, SetUpFails, Discard, Goto,
     memoryVars
<1>4. ASSUME NEW w \in Wallets, SaveAccounts(w) \/ Load(w)
      PROVE  OpeningsApart'
  BY <1>4 DEF SaveAccounts, Load, Goto, Creating
<1>5. ASSUME NEW w \in Wallets, LookUp(w)
      PROVE  OpeningsApart'
  BY <1>5 DEF LookUp, OpenKeyHeld, Goto, memoryVars
<1>6. ASSUME publicationVars' = publicationVars, wallets' \subseteq wallets
      PROVE  OpeningsApart'
  BY <1>6 DEF publicationVars
<1>7. ASSUME NEW w \in Wallets, CloseWallet(w) \/ RemoveWallet(w)
      PROVE  OpeningsApart'
  BY <1>6, <1>7 DEF CloseWallet, RemoveWallet
<1>8. ASSUME NEW c \in Submissions, BeginCall(c) \/ CallStep(c)
      PROVE  OpeningsApart'
  BY <1>6, <1>8 DEF BeginCall, CallStep, FindAdapter, Answered, Write, Submit, Rejected,
     RollBack, CallEnds, memoryVars
<1>9. CASE CloseAllWallets \/ ClearPersistence \/ Close \/ TeardownStep
  BY <1>6, <1>9 DEF CloseAllWallets, ClearPersistence, Close, Reset, TeardownStep,
     WipeSigners, WipeAccounts, WipeRecords, DeleteAccounts, DeleteRecords, DeleteSigner,
     TeardownFails, memoryVars
<1> QED
  BY <1>2, <1>3, <1>4, <1>5, <1>7, <1>8, <1>9 DEF Next, PublicationStep

\* Every step keeps the invariant of the openings, ...
LEMMA OpeningStep ==
    ASSUME LifecycleAssumption, OpeningInv, [Next]_vars
    PROVE  OpeningInv'
<1>1. CASE Next
  BY <1>1, FoundedStep, TypeStep, OpeningsStep DEF OpeningInv
<1>2. CASE UNCHANGED vars
  BY <1>2 DEF vars, publicationVars, memoryVars, callVars, storageVars, teardownVars,
     OpeningInv, TypeOK, Founded, OpeningsApart, Opening
<1> QED
  BY <1>1, <1>2

\* ... which holds before the first.
LEMMA OpeningInit ==
    ASSUME LifecycleAssumption, Init
    PROVE  OpeningInv
BY DEF LifecycleAssumption, Init, OpeningInv, TypeOK, Founded, OpeningsApart, Opening, Stages,
   CallStages, Creating, Removing

-----------------------------------------------------------------------------
(* Without keyfile imports *)

\* A call sees the generation it was made in, and what is published is of the
\* current one.
Punctual ==
    /\ \A w \in Wallets : stage[w] # "preparing" /\ called[w] = born[w] /\ born[w] <= generation
    /\ \A w \in wallets \cup adapters : stage[w] = "published" => born[w] = generation

\* Instances that have no adapter and get none any more.
Gone(w) ==
    /\ w \notin adapters
    /\ \/ stage[w] \in {"published", "ended"}
       \/ stage[w] = "setup" /\ born[w] < generation

\* Signers are named after calls that have begun, submissions belong to
\* instances that have been in memory, and a record is written in its turn.
Rooted ==
    /\ \A w \in Wallets : stage[w] # "idle" => stage[signerOf[w]] # "idle"
    /\ \A s \in signers \cup accounts : stage[s] # "idle"
    /\ \A c \in Submissions :
           /\ callStage[c] = "idle" => callOn[c] = None
           /\ callStage[c] # "idle" =>
                  /\ callOn[c] \in Wallets
                  /\ stage[callOn[c]] \in {"setup", "published", "ended"}
           /\ callStage[c] \in {"idle", "unlocking", "asking", "writing"} => c \notin records

\* How far an exclusive action has come: after its drain nothing is being
\* created, and what it has deleted is not there.
Cleared ==
    /\ teardown \in Wiping =>
           adapters = {} /\ \A w \in Wallets : stage[w] \in Tracked => born[w] < generation
    /\ teardown \in (Wiping \cup Removing) \ {"wipeDrain", "removeDrain"} =>
           \A w \in Wallets : stage[w] \notin Creating
    /\ teardown \in {"wipeAccounts", "wipeRecords"} => signers = {}
    /\ teardown = "wipeRecords" => accounts = {}
    /\ teardown \in {"removeRecords", "removeSigner"} => signerOf[victim] \notin accounts
    /\ teardown = "removeSigner" =>
           \A c \in Submissions :
               callOn[c] = victim /\ callStage[c] \in {"sent", "done"} => c \notin records

\* What was to be destroyed is not there, and cannot be written again: its
\* creation is over, its submissions find no adapter.
Destroyed ==
    /\ \A w \in Wallets \cap condemned :
           stage[w] \notin {"idle"} \cup Creating /\ w \notin signers \cup accounts
    /\ \A c \in Submissions \cap condemned :
           /\ callStage[c] # "idle" /\ Gone(callOn[c])
           /\ callStage[c] \in {"sent", "done"} => c \notin records

NoImports == "import" \notin Kinds

LifecycleInv == OpeningInv /\ Punctual /\ Rooted /\ Cleared /\ Destroyed

\* While the client is suspended no call begins but an import.
LEMMA BeginsAwake ==
    ASSUME LifecycleAssumption, NoImports, NEW w, NEW k, NEW s, Begin(w, k, s)
    PROVE  /\ ~Suspended /\ stage[w] = "idle" /\ k \in {"create", "open"}
           /\ \E there \in {"building", "looking"} : stage' = [stage EXCEPT ![w] = there]
<1>1. k \in {"create", "open"}
  BY DEF Begin, NoImports, LifecycleAssumption
<1> QED
  BY <1>1 DEF Begin, Goto

\* A step lets no call outlive its time.
LEMMA PunctualStep ==
    ASSUME LifecycleAssumption, NoImports, OpeningInv, Punctual, Next
    PROVE  Punctual'
<1> USE DEF Punctual, OpeningInv, TypeOK
<1>1. ASSUME NEW w \in Wallets, NEW k, NEW s, Begin(w, k, s)
      PROVE  Punctual'
  <2>1. PICK there \in {"building", "looking"} : stage' = [stage EXCEPT ![w] = there]
    BY <1>1, BeginsAwake
  <2>2. /\ called' = [called EXCEPT ![w] = generation] /\ born' = [born EXCEPT ![w] = generation]
        /\ wallets' = wallets /\ adapters' = adapters /\ generation' = generation
        /\ stage[w] = "idle"
    BY <1>1 DEF Begin, memoryVars
  <2> QED
    BY <2>1, <2>2
<1>2. ASSUME NEW w \in Wallets, Create(w) \/ Open(w)
      PROVE  Punctual'
  <2>1. PICK k, s : Begin(w, k, s)
    BY <1>2 DEF Create, Open
  <2> QED
    BY <1>1, <2>1
<1>3. ASSUME NEW w \in Wallets, PublicationStep(w)
      PROVE  Punctual'
  <2>1. ~Prepared(w)
    BY DEF Prepared
  <2>2. CASE SaveSigner(w) \/ SaveAccounts(w) \/ LookUp(w) \/ Load(w) \/ PublicationFails(w)
    BY <2>2 DEF SaveSigner, SaveAccounts, LookUp, Load, PublicationFails, Goto, memoryVars
  <2>3. CASE SetUp(w) \/ SetUpFails(w)
    BY <2>3 DEF SetUp, SetUpFails, Discard, Goto
  <2> QED
    BY <1>3, <2>1, <2>2, <2>3 DEF PublicationStep
<1>4. ASSUME publicationVars' = publicationVars, generation' = generation,
             wallets' \subseteq wallets, adapters' \subseteq adapters
      PROVE  Punctual'
  BY <1>4 DEF publicationVars
<1>5. ASSUME NEW w \in Wallets, CloseWallet(w) \/ RemoveWallet(w)
      PROVE  Punctual'
  BY <1>4, <1>5 DEF CloseWallet, RemoveWallet
<1>6. ASSUME NEW c \in Submissions, BeginCall(c) \/ CallStep(c)
      PROVE  Punctual'
  BY <1>4, <1>6 DEF BeginCall, CallStep, FindAdapter, Answered, Write, Submit, Rejected,
     RollBack, CallEnds, memoryVars
<1>7. CASE TeardownStep
  BY <1>4, <1>7 DEF TeardownStep, WipeSigners, WipeAccounts, WipeRecords, DeleteAccounts,
     DeleteRecords, DeleteSigner, TeardownFails, memoryVars
<1>8. CASE CloseAllWallets \/ ClearPersistence \/ Close
  <2>1. publicationVars' = publicationVars /\ generation' = generation + 1
        /\ wallets' = {} /\ adapters' = {}
    BY <1>8 DEF CloseAllWallets, ClearPersistence, Close, Reset
  <2> QED
    BY <2>1 DEF publicationVars
<1> QED
  BY <1>2, <1>3, <1>5, <1>6, <1>7, <1>8 DEF Next

\* Every step keeps wallets rooted in the session that opened them.
LEMMA RootedStep ==
    ASSUME LifecycleAssumption, NoImports, OpeningInv, Rooted, Next
    PROVE  Rooted'
<1> USE DEF Rooted, OpeningInv, TypeOK, Founded
<1>1. ASSUME NEW w \in Wallets, NEW k, NEW s \in signers \cup {w}, Begin(w, k, s)
      PROVE  Rooted'
  <2>1. PICK there \in {"building", "looking"} : stage' = [stage EXCEPT ![w] = there]
    BY <1>1, BeginsAwake
  <2>2. /\ signerOf' = [signerOf EXCEPT ![w] = s] /\ stage[w] = "idle"
        /\ UNCHANGED <<callVars, storageVars>>
    BY <1>1 DEF Begin
  <2> QED
    BY <2>1, <2>2 DEF callVars, storageVars
<1>2. ASSUME NEW w \in Wallets, Create(w) \/ Open(w)
      PROVE  Rooted'
  <2>1. CASE Create(w)
    BY <1>1, <2>1 DEF Create
  <2>2. CASE Open(w)
    BY <1>1, <2>2 DEF Open
  <2> QED
    BY <1>2, <2>1, <2>2
<1>3. ASSUME NEW w \in Wallets, PublicationStep(w)
      PROVE  Rooted'
  <2>1. /\ \A v \in Wallets \ {w} : stage'[v] = stage[v]
        /\ stage[w] # "idle" /\ stage'[w] # "idle"
        /\ stage[w] = "setup" => stage'[w] \in {"published", "ended"}
        /\ stage[w] \notin {"published", "ended"}
    BY <1>3 DEF PublicationStep, Prepared, SaveSigner, SaveAccounts, LookUp, Load, SetUp,
       PublicationFails, SetUpFails, Discard, Goto, Local, Creating, Loading
  <2>2. /\ UNCHANGED <<signerOf, callVars, records>>
        /\ signers' \subseteq signers \cup {w} /\ accounts' \subseteq accounts \cup {w}
    BY <1>3 DEF PublicationStep, Prepared, SaveSigner, SaveAccounts, LookUp, Load, SetUp,
       PublicationFails, SetUpFails, storageVars
  <2> QED
    BY <2>1, <2>2 DEF callVars
<1>4. ASSUME publicationVars' = publicationVars, callVars' = callVars,
             signers' \subseteq signers, accounts' \subseteq accounts, records' \subseteq records
      PROVE  Rooted'
  BY <1>4 DEF publicationVars, callVars
<1>5. ASSUME NEW w \in Wallets, CloseWallet(w) \/ RemoveWallet(w)
      PROVE  Rooted'
  BY <1>4, <1>5 DEF CloseWallet, RemoveWallet, storageVars
<1>6. ASSUME NEW c \in Submissions, BeginCall(c) \/ CallStep(c)
      PROVE  Rooted'
  <2>1. UNCHANGED <<stage, signerOf, signers, accounts>>
    BY <1>6 DEF BeginCall, CallStep, FindAdapter, Answered, Write, Submit, Rejected,
       RollBack, CallEnds, publicationVars, storageVars
  <2>2. /\ callStage[c] # "idle" => callOn' = callOn
        /\ callStage[c] = "idle" =>
               \E w \in wallets : callOn' = [callOn EXCEPT ![c] = w]
        /\ callStage'[c] # "idle"
        /\ \A d \in Submissions \ {c} : callStage'[d] = callStage[d]
    BY <1>6 DEF BeginCall, CallStep, FindAdapter, Answered, Write, Submit, Rejected,
       RollBack, CallEnds, CallGoto
  <2>3. /\ records' \subseteq records \cup {c}
        /\ callStage'[c] \in {"unlocking", "asking", "writing"} => c \notin records'
    BY <1>6 DEF BeginCall, CallStep, FindAdapter, Answered, Write, Submit, Rejected,
       RollBack, CallEnds, CallGoto, storageVars
  <2> QED
    BY <2>1, <2>2, <2>3
<1>7. CASE CloseAllWallets \/ ClearPersistence \/ Close
  BY <1>4, <1>7 DEF CloseAllWallets, ClearPersistence, Close, storageVars
<1>8. CASE TeardownStep
  BY <1>4, <1>8 DEF TeardownStep, WipeSigners, WipeAccounts, WipeRecords, DeleteAccounts,
     DeleteRecords, DeleteSigner, TeardownFails, storageVars
<1> QED
  BY <1>2, <1>3, <1>5, <1>6, <1>7, <1>8 DEF Next

\* What a logout has cleared, no step brings back.
LEMMA ClearedStep ==
    ASSUME LifecycleAssumption, NoImports, OpeningInv, Punctual, Rooted, Cleared, Next
    PROVE  Cleared'
<1> USE DEF Cleared, OpeningInv, TypeOK, Founded, Wiping, Removing
\* While an exclusive action runs nothing begins.
<1>1. ASSUME NEW w \in Wallets, Create(w) \/ Open(w)
      PROVE  Cleared'
  <2>1. teardown = "none" /\ teardown' = teardown
    <3>1. PICK k, s : Begin(w, k, s)
      BY <1>1 DEF Create, Open
    <3>2. ~Suspended
      BY <3>1, BeginsAwake
    <3> QED
      BY <3>1, <3>2 DEF Suspended, Begin, teardownVars
  <2> QED
    BY <2>1
<1>2. ASSUME NEW w \in Wallets, PublicationStep(w)
      PROVE  Cleared'
  <2>1. UNCHANGED <<signerOf, callVars, records, generation, teardownVars>>
    BY <1>2 DEF PublicationStep, Prepared, SaveSigner, SaveAccounts, LookUp, Load, SetUp,
       PublicationFails, SetUpFails, storageVars
  <2>2. ~Prepared(w) /\ born' = born
    BY <1>2 DEF PublicationStep, Prepared, SaveSigner, SaveAccounts, LookUp, Load, SetUp,
       PublicationFails, SetUpFails, Punctual
  <2>3. /\ \A v \in Wallets \ {w} : stage'[v] = stage[v]
        /\ stage'[w] \in Tracked => stage[w] \in Tracked
        /\ stage'[w] \in Creating => stage[w] \in Creating
    BY <1>2, <2>2 DEF PublicationStep, SaveSigner, SaveAccounts, LookUp, Load, SetUp,
       PublicationFails, SetUpFails, Discard, Goto, Tracked, Local, Creating, Loading
  <2>4. /\ adapters' = adapters \/ adapters' = adapters \ {w}
           \/ (stage[w] = "setup" /\ born[w] = generation)
    BY <1>2 DEF PublicationStep, Prepared, SaveSigner, SaveAccounts, LookUp, Load, SetUp,
       PublicationFails, SetUpFails, Discard, memoryVars
  <2>5. stage[w] \notin Creating => signers' = signers /\ accounts' = accounts
    BY <1>2 DEF PublicationStep, Prepared, SaveSigner, SaveAccounts, LookUp, Load, SetUp,
       PublicationFails, SetUpFails, Creating, storageVars
  <2>6. teardown \in Wiping => adapters' = {}
    BY <2>4 DEF Tracked
  <2> QED
    BY <2>1, <2>2, <2>3, <2>5, <2>6 DEF callVars, teardownVars
<1>3. ASSUME NEW w \in Wallets, CloseWallet(w)
      PROVE  Cleared'
  BY <1>3 DEF CloseWallet, publicationVars, callVars, storageVars, teardownVars
<1>4. ASSUME NEW w \in Wallets, RemoveWallet(w)
      PROVE  Cleared'
  BY <1>4 DEF RemoveWallet, Suspended
<1>5. ASSUME NEW c \in Submissions, BeginCall(c)
      PROVE  Cleared'
  BY <1>5 DEF BeginCall, Suspended, teardownVars
<1>6. ASSUME NEW c \in Submissions, CallStep(c)
      PROVE  Cleared'
  <2>1. UNCHANGED <<publicationVars, memoryVars, callOn, signers, accounts, generation,
                    teardownVars>>
    BY <1>6 DEF CallStep, FindAdapter, Answered, Write, Submit, Rejected, RollBack, CallEnds,
       storageVars
  <2>2. /\ \A d \in Submissions \ {c} :
               callStage'[d] = callStage[d] /\ (d \in records' => d \in records)
        /\ teardown = "removeSigner" /\ callOn[c] = victim
              /\ callStage'[c] \in {"sent", "done"} => c \notin records'
    <3>1. callOn[c] = victim /\ teardown = "removeSigner" => callOn[c] \notin adapters
      OBVIOUS
    <3> QED
      BY <1>6, <3>1 DEF CallStep, FindAdapter, Answered, Write, Submit, Rejected, RollBack,
         CallEnds, CallGoto, storageVars, Rooted
  <2> QED
    BY <2>1, <2>2 DEF publicationVars, memoryVars, teardownVars
<1>7. CASE CloseAllWallets \/ Close
  <2>1. /\ UNCHANGED <<publicationVars, callVars, storageVars, teardownVars>>
        /\ generation' = generation + 1 /\ adapters' = {}
    BY <1>7 DEF CloseAllWallets, Close, Reset
  <2> QED
    BY <2>1 DEF publicationVars, callVars, storageVars, teardownVars
<1>8. CASE ClearPersistence
  <2>1. /\ UNCHANGED <<publicationVars, callVars, storageVars>>
        /\ generation' = generation + 1 /\ adapters' = {} /\ teardown' = "wipeDrain"
    BY <1>8 DEF ClearPersistence, Reset
  <2> QED
    BY <2>1 DEF publicationVars, Punctual
<1>9. CASE TeardownStep
  <2>1. UNCHANGED <<publicationVars, memoryVars, callVars, generation>>
    BY <1>9 DEF TeardownStep, WipeSigners, WipeAccounts, WipeRecords, DeleteAccounts,
       DeleteRecords, DeleteSigner, TeardownFails
  <2>2. CASE WipeSigners \/ WipeAccounts
    BY <2>1, <2>2 DEF WipeSigners, WipeAccounts, Drained, Local, publicationVars, memoryVars
  <2>3. CASE WipeRecords \/ DeleteSigner \/ TeardownFails
    BY <2>3 DEF WipeRecords, DeleteSigner, TeardownFails
  <2>4. CASE DeleteAccounts
    BY <2>1, <2>4 DEF DeleteAccounts, Drained, Local, publicationVars
  <2>5. CASE DeleteRecords
    BY <2>1, <2>5 DEF DeleteRecords, publicationVars, callVars
  <2> QED
    BY <1>9, <2>2, <2>3, <2>4, <2>5 DEF TeardownStep
<1> QED
  BY <1>1, <1>2, <1>3, <1>4, <1>5, <1>6, <1>7, <1>8, <1>9 DEF Next

\* An instance gets its adapter at the end of its own set-up, and only if the
\* generation is still that of its beginning.
LEMMA GoneStays ==
    ASSUME LifecycleAssumption, NoImports, OpeningInv, Punctual, Next,
           NEW g \in Wallets, Gone(g)
    PROVE  Gone(g)'
<1> USE DEF Gone, OpeningInv, TypeOK
<1>1. ASSUME NEW w \in Wallets, Create(w) \/ Open(w)
      PROVE  Gone(g)'
  <2>1. PICK k, s : Begin(w, k, s)
    BY <1>1 DEF Create, Open
  <2>2. g # w /\ adapters' = adapters /\ generation' = generation
        /\ stage'[g] = stage[g] /\ born'[g] = born[g]
    BY <2>1 DEF Begin, Goto, memoryVars
  <2> QED
    BY <2>2
<1>2. ASSUME NEW w \in Wallets, PublicationStep(w)
      PROVE  Gone(g)'
  <2>1. CASE SetUp(w) \/ SetUpFails(w)
    BY <2>1 DEF SetUp, SetUpFails, Discard, Goto
  <2>2. CASE SaveSigner(w) \/ SaveAccounts(w) \/ LookUp(w) \/ Load(w) \/ PublicationFails(w)
    BY <2>2 DEF SaveSigner, SaveAccounts, LookUp, Load, PublicationFails, Goto, memoryVars,
       Local, Creating, Loading
  <2>3. ~Prepared(w)
    BY DEF Prepared, Punctual
  <2> QED
    BY <1>2, <2>1, <2>2, <2>3 DEF PublicationStep
<1>3. ASSUME publicationVars' = publicationVars, adapters' \subseteq adapters,
             generation' \in {generation, generation + 1}
      PROVE  Gone(g)'
  BY <1>3 DEF publicationVars
<1>4. ASSUME NEW w \in Wallets, CloseWallet(w) \/ RemoveWallet(w)
      PROVE  Gone(g)'
  BY <1>3, <1>4 DEF CloseWallet, RemoveWallet
<1>5. ASSUME NEW c \in Submissions, BeginCall(c) \/ CallStep(c)
      PROVE  Gone(g)'
  BY <1>3, <1>5 DEF BeginCall, CallStep, FindAdapter, Answered, Write, Submit, Rejected,
     RollBack, CallEnds, memoryVars
<1>6. CASE CloseAllWallets \/ ClearPersistence \/ Close
  BY <1>3, <1>6 DEF CloseAllWallets, ClearPersistence, Close, Reset
<1>7. CASE TeardownStep
  BY <1>3, <1>7 DEF TeardownStep, WipeSigners, WipeAccounts, WipeRecords, DeleteAccounts,
     DeleteRecords, DeleteSigner, TeardownFails, memoryVars
<1> QED
  BY <1>1, <1>2, <1>4, <1>5, <1>6, <1>7 DEF Next

\* What is destroyed, no step touches again.
LEMMA DestroyedStep ==
    ASSUME LifecycleAssumption, NoImports, OpeningInv, Punctual, Rooted, Cleared, Destroyed,
           Next
    PROVE  Destroyed'
<1> USE DEF Destroyed, OpeningInv, TypeOK
\* A step that condemns nothing keeps Destroyed if it keeps the two halves.
<1> DEFINE Creator(w) ==
             stage[w] \notin {"idle"} \cup Creating /\ w \notin signers \cup accounts
           Late(c) == callStage[c] # "idle"
                      /\ (callStage[c] \in {"sent", "done"} => c \notin records)
<1>1. ASSUME condemned' = condemned, callOn' = callOn,
             \A w \in Wallets \cap condemned : Creator(w)',
             \A c \in Submissions \cap condemned : Late(c)'
      PROVE  Destroyed'
  <2>1. ASSUME NEW c \in Submissions \cap condemned
        PROVE  Gone(callOn[c])'
    <3>1. callOn[c] \in Wallets /\ Gone(callOn[c])
      BY DEF Rooted
    <3>2. PICK g \in Wallets : g = callOn[c] /\ Gone(g)
      BY <3>1
    <3>3. Gone(g)'
      BY <3>2, GoneStays DEF OpeningInv, TypeOK
    <3> QED
      BY <1>1, <3>2, <3>3 DEF Gone
  <2> QED
    BY <1>1, <2>1
<1>2. ASSUME NEW w \in Wallets, Create(w) \/ Open(w)
      PROVE  Destroyed'
  <2>1. PICK k, s : Begin(w, k, s)
    BY <1>2 DEF Create, Open
  <2>2. stage[w] = "idle" /\ \A v \in Wallets \ {w} : stage'[v] = stage[v]
    BY <2>1 DEF Begin, Goto
  <2>3. UNCHANGED <<callVars, storageVars, teardownVars>>
    BY <2>1 DEF Begin
  <2> QED
    BY <1>1, <2>2, <2>3 DEF callVars, storageVars, teardownVars
<1>3. ASSUME NEW w \in Wallets, PublicationStep(w)
      PROVE  Destroyed'
  <2>1. ~Prepared(w)
    BY DEF Prepared, Punctual
  <2>2. /\ \A v \in Wallets \ {w} : stage'[v] = stage[v]
        /\ stage[w] \notin Creating => stage'[w] \notin {"idle"} \cup Creating
    BY <1>3, <2>1 DEF PublicationStep, SaveSigner, SaveAccounts, LookUp, Load, SetUp,
       PublicationFails, SetUpFails, Discard, Goto, Creating
  <2>3. /\ signers' \subseteq signers \cup {w} /\ accounts' \subseteq accounts \cup {w}
        /\ stage[w] \notin Creating => signers' = signers /\ accounts' = accounts
    BY <1>3 DEF PublicationStep, Prepared, SaveSigner, SaveAccounts, LookUp, Load, SetUp,
       PublicationFails, SetUpFails, Creating, storageVars
  <2>4. UNCHANGED <<callVars, records, teardownVars>>
    BY <1>3 DEF PublicationStep, Prepared, SaveSigner, SaveAccounts, LookUp, Load, SetUp,
       PublicationFails, SetUpFails, storageVars
  <2> QED
    BY <1>1, <2>2, <2>3, <2>4 DEF callVars, teardownVars
<1>4. ASSUME NEW w \in Wallets, CloseWallet(w) \/ RemoveWallet(w)
      PROVE  Destroyed'
  BY <1>1, <1>4 DEF CloseWallet, RemoveWallet, publicationVars, callVars, storageVars,
     teardownVars
<1>5. ASSUME NEW c \in Submissions, BeginCall(c)
      PROVE  Destroyed'
  <2>1. c \notin condemned
    BY <1>5 DEF BeginCall
  <2>2. /\ callStage[c] = "idle" /\ \A d \in Submissions \ {c} : callStage'[d] = callStage[d]
        /\ \A d \in Submissions \ {c} : callOn'[d] = callOn[d]
        /\ UNCHANGED <<publicationVars, memoryVars, storageVars, generation, teardownVars>>
    BY <1>5 DEF BeginCall, CallGoto
  <2> QED
    BY <2>1, <2>2 DEF Gone, publicationVars, memoryVars, storageVars, teardownVars
<1>6. ASSUME NEW c \in Submissions, CallStep(c)
      PROVE  Destroyed'
  <2>1. UNCHANGED <<publicationVars, callOn, signers, accounts, teardownVars>>
    BY <1>6 DEF CallStep, FindAdapter, Answered, Write, Submit, Rejected, RollBack, CallEnds,
       storageVars
  <2>2. \A d \in Submissions \ {c} :
            callStage'[d] = callStage[d] /\ (d \in records' => d \in records)
    BY <1>6 DEF CallStep, FindAdapter, Answered, Write, Submit, Rejected, RollBack, CallEnds,
       CallGoto, storageVars
  <2>3. c \in condemned => Late(c)'
    BY <1>6 DEF CallStep, FindAdapter, Answered, Write, Submit, Rejected, RollBack, CallEnds,
       CallGoto, storageVars, Rooted, Gone
  <2> QED
    BY <1>1, <2>1, <2>2, <2>3 DEF publicationVars, teardownVars
<1>7. CASE CloseAllWallets \/ ClearPersistence \/ Close
  BY <1>1, <1>7 DEF CloseAllWallets, ClearPersistence, Close, publicationVars, callVars,
     storageVars, teardownVars
<1>8. CASE WipeSigners \/ WipeAccounts \/ DeleteAccounts \/ DeleteRecords \/ TeardownFails
  BY <1>1, <1>8 DEF WipeSigners, WipeAccounts, DeleteAccounts, DeleteRecords, TeardownFails,
     publicationVars, callVars, storageVars
<1>9. CASE WipeRecords
  <2>1. /\ UNCHANGED <<publicationVars, memoryVars, callVars, signers, accounts, generation>>
        /\ records' = {} /\ signers = {} /\ accounts = {} /\ adapters = {}
        /\ \A w \in Wallets : stage[w] \notin Creating
        /\ \A w \in Wallets : stage[w] = "setup" => born[w] < generation
    BY <1>9 DEF WipeRecords, Cleared, Wiping, Removing, Tracked
  <2>2. ASSUME NEW c \in Submissions, callStage[c] # "idle"
        PROVE  Gone(callOn[c])
    BY <2>1, <2>2 DEF Gone, Rooted
  <2>3. /\ \A w \in Wallets \cap condemned' : stage[w] # "idle"
        /\ \A c \in Submissions \cap condemned' : callStage[c] # "idle"
    BY <1>9, LifecycleAssumption DEF LifecycleAssumption, WipeRecords
  <2>4. \A w \in Wallets \cap condemned' : Creator(w)'
    BY <2>1, <2>3 DEF publicationVars
  <2>5. \A c \in Submissions \cap condemned' :
            callStage'[c] # "idle" /\ Gone(callOn[c])' /\ c \notin records'
    BY <2>1, <2>2, <2>3 DEF publicationVars, memoryVars, callVars, Gone
  <2> QED
    BY <2>4, <2>5
<1>10. CASE DeleteSigner
  <2> DEFINE s == signerOf[victim]
  <2>1. /\ UNCHANGED <<publicationVars, memoryVars, callVars, accounts, records, generation>>
        /\ signers' = signers \ {s} /\ s \notin accounts
        /\ \A w \in Wallets : stage[w] \notin Creating
    BY <1>10 DEF DeleteSigner, Cleared, Wiping, Removing
  <2>2. victim \in Wallets /\ stage[victim] = "published" /\ s \in Wallets
        /\ stage[s] # "idle" /\ Gone(victim)
    BY <1>10 DEF DeleteSigner, Founded, Removing, Rooted, Gone
  <2>3. ASSUME NEW c \in Submissions, callOn[c] = victim
        PROVE  /\ callStage[c] # "idle"
               /\ callStage[c] \in {"sent", "done"} => c \notin records
    BY <1>10, <2>2, <2>3, LifecycleAssumption
       DEF DeleteSigner, Cleared, Rooted, LifecycleAssumption
  <2>4. /\ \A w \in Wallets \cap condemned' : w \in condemned \/ w = s
        /\ \A c \in Submissions \cap condemned' : c \in condemned \/ callOn[c] = victim
    BY <1>10, <2>2, LifecycleAssumption DEF LifecycleAssumption, DeleteSigner
  <2> HIDE DEF s
  <2>5. \A w \in Wallets \cap condemned' : Creator(w)'
    BY <2>1, <2>2, <2>4 DEF publicationVars
  <2>6. \A c \in Submissions \cap condemned' : Late(c)' /\ Gone(callOn[c])'
    BY <2>1, <2>2, <2>3, <2>4 DEF publicationVars, memoryVars, callVars, Gone
  <2> QED
    BY <2>5, <2>6
<1> QED
  BY <1>2, <1>3, <1>4, <1>5, <1>6, <1>7, <1>8, <1>9, <1>10 DEF Next, TeardownStep

\* Every step keeps the invariant, ...
LEMMA LifecycleStep ==
    ASSUME LifecycleAssumption, NoImports, LifecycleInv, [Next]_vars
    PROVE  LifecycleInv'
<1>1. CASE Next
  BY <1>1, OpeningStep, PunctualStep, RootedStep, ClearedStep, DestroyedStep DEF LifecycleInv
<1>2. CASE UNCHANGED vars
  <2>1. OpeningInv'
    BY <1>2, OpeningStep DEF LifecycleInv
  <2>2. (Punctual /\ Rooted /\ Cleared /\ Destroyed)'
    BY <1>2 DEF vars, publicationVars, memoryVars, callVars, storageVars, teardownVars,
       LifecycleInv, Punctual, Rooted, Cleared, Destroyed, Gone
  <2> QED
    BY <2>1, <2>2 DEF LifecycleInv
<1> QED
  BY <1>1, <1>2

\* ... which holds before the first.
LEMMA LifecycleInit ==
    ASSUME LifecycleAssumption, Init
    PROVE  LifecycleInv
<1>1. OpeningInv
  BY OpeningInit
<1>2. Punctual /\ Rooted /\ Cleared /\ Destroyed
  BY DEF Init, Punctual, Rooted, Cleared, Destroyed, Wiping, Removing
<1> QED
  BY <1>1, <1>2 DEF LifecycleInv

-----------------------------------------------------------------------------
(* Results                                                                 *)

\* Types, the publications an exclusive action refers to, and the OPEN keys
\* hold in every run of the client: runWalletPublication, walletManager.open
\* and the exclusive actions together.
THEOREM OpeningInvariance == Spec => []OpeningInv
<1>1. Init => OpeningInv
  BY OpeningInit, LifecycleAssumption
<1>2. OpeningInv /\ [Next]_vars => OpeningInv'
  BY OpeningStep, LifecycleAssumption
<1> QED
  BY <1>1, <1>2, PTL DEF Spec

\* However many calls open one signer, and whatever is closed or wiped
\* meanwhile, two of them are never in memory together (WalletManager.open).
THEOREM OpeningsAreExclusive == Spec => []OpeningsExclude
<1>1. OpeningInv => OpeningsExclude
  BY DEF OpeningInv, OpeningsApart, Opening, OpeningsExclude, TypeOK
<1> QED
  BY <1>1, OpeningInvariance, PTL

\* The state of the client is well typed; an adapter belongs to a published
\* wallet, the wallet under removal is out of memory.
THEOREM LifecycleTypes == Spec => []TypeOK
<1>1. OpeningInv => TypeOK
  BY DEF OpeningInv
<1> QED
  BY <1>1, OpeningInvariance, PTL

\* Without keyfile imports the lifecycle invariant holds in every run.
THEOREM LifecycleInvariance == NoImports => (Spec => []LifecycleInv)
<1> SUFFICES ASSUME NoImports
             PROVE  Spec => []LifecycleInv
  OBVIOUS
<1>1. Init => LifecycleInv
  BY LifecycleInit, LifecycleAssumption
<1>2. LifecycleInv /\ [Next]_vars => LifecycleInv'
  BY LifecycleStep, LifecycleAssumption
<1> QED
  BY <1>1, <1>2, PTL DEF Spec

\* A publication called before a logout, a wipe or the closing of the client is
\* never left in it, unless it is an import: these enter the lifecycle guard
\* after they decrypted the keyfile.
THEOREM NothingOutlivesLogout == NoImports => (Spec => []NoWalletFromBeforeLogout)
<1> SUFFICES ASSUME NoImports
             PROVE  Spec => []NoWalletFromBeforeLogout
  OBVIOUS
<1>1. LifecycleInv => NoWalletFromBeforeLogout
  BY DEF LifecycleInv, OpeningInv, TypeOK, Punctual, NoWalletFromBeforeLogout
<1> QED
  BY <1>1, LifecycleInvariance, PTL

\* What a finished clearPersistence or removeWallet was to destroy is not in
\* storage once its writer has ended, and is not written again, for any number
\* of calls in flight and if the drain gives up on those that wait for the node.
THEOREM DestructionIsFinal == NoImports => (Spec => []TeardownIsFinal)
<1> SUFFICES ASSUME NoImports
             PROVE  Spec => []TeardownIsFinal
  OBVIOUS
<1>1. LifecycleInv => TeardownIsFinal
  BY DEF LifecycleInv, Destroyed, TeardownIsFinal
<1> QED
  BY <1>1, LifecycleInvariance, PTL
===============================================================================
