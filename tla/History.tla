------------------------------- MODULE History --------------------------------
(***************************************************************************)
(* Client.getTransactionsHistory: one page cut out of two lists that know   *)
(* nothing of each other.  The pending rows are the live reservations, read *)
(* at once; the executed rows come from the indexer, which answers later    *)
(* and pages its transfers and its deploys separately.  A transaction may   *)
(* be in both lists or in neither while the indexer and the node disagree.  *)
(*                                                                         *)
(* A row is named by its time: a greater number is a newer row.  The two    *)
(* lists give a row the same time.                                          *)
(***************************************************************************)
EXTENDS Naturals, Sequences, FiniteSets, SequencesExt

CONSTANTS
    Rows,      \* the transactions of one account, by their time
    Deploys,   \* those of the account that move no funds
    Incoming,  \* those another account pays it
    Elsewhere, \* those reserved on a network that is not selected
    Offsets,   \* offsets a caller asks for
    Limits     \* limits a caller asks for; NoLimit is always possible

NoLimit == 0  \* the limit left out

ASSUME HistoryAssumption ==
    /\ Rows \subseteq Nat
    /\ Elsewhere \subseteq Rows
    /\ Deploys \subseteq Rows /\ Incoming \subseteq Rows \ Deploys
    /\ Offsets \subseteq Nat /\ Limits \subseteq Nat \ {0}

VARIABLES
    reserved, \* rows with a live reservation
    indexed,  \* rows the indexer serves
    asking,   \* the request that awaits the indexer
    page      \* the last page returned

historyVars == <<reserved, indexed, asking, page>>

NoRequest == [sources |-> {}]

-----------------------------------------------------------------------------
\* sortByDate and mergeSorted: the newest row first.
Newest(S) ==
    CHOOSE s \in [1 .. Cardinality(S) -> S] :
        \A i, j \in 1 .. Cardinality(S) : i < j => s[i] > s[j]

Slice(s, offset, limit) ==
    SubSeq(s, offset + 1,
           IF limit = NoLimit \/ offset + limit > Len(s) THEN Len(s)
                                                         ELSE offset + limit)

\* getOutgoingPendingTransactions, and getIncomingReservations over every open
\* wallet: each adapter answers for the selected network.
OutgoingRows == (reserved \ Incoming) \ Elsewhere
IncomingRows == (reserved \cap Incoming) \ Elsewhere

PendingRows == OutgoingRows \cup IncomingRows

ExecutedOffset(offset, count) ==
    IF offset > count THEN offset - count ELSE 0

\* Mutant: the request is not widened by the pending rows.
NarrowLimit(limit, count) == limit

WindowLimit(limit, count) ==
    IF limit = NoLimit THEN NoLimit ELSE limit + count

\* The indexer pages the transfers of the account and the deploys it signed,
\* its own transfers among them, each list by itself; a row of both is one row.
Served(offset, limit) ==
    ToSet(Slice(Newest(indexed \ Deploys), offset, limit)) \cup
    ToSet(Slice(Newest(indexed \ Incoming), offset, limit))

Ahead(pending, executed) ==
    {r \in pending : \A e \in executed : r > e}

\* mergeHistoryPage, for pending rows P.
MergedPage(P, executed, offset, limit) ==
    LET count  == Cardinality(P)
        start  == ExecutedOffset(offset, count)
        others == P \ executed
        ahead  == Ahead(others, executed)
    IN IF start = 0 THEN Slice(Newest(executed \cup others), offset, limit)
       ELSE IF executed = {} THEN <<>>
       ELSE Slice(Newest(executed \cup (others \ ahead)),
                  offset - start - Cardinality(ahead), limit)

-----------------------------------------------------------------------------
HistoryInit ==
    /\ reserved = {}
    /\ indexed = {}
    /\ asking = NoRequest
    /\ page = <<>>

\* A reservation of this account, or of another open account paying it.
Reserve(r) ==
    /\ r \notin reserved \cup indexed
    /\ reserved' = reserved \cup {r}
    /\ UNCHANGED <<indexed, asking, page>>

\* Confirmed on the node, expired, failed or removed.
ReleaseRow(r) ==
    /\ reserved' = reserved \ {r}
    /\ UNCHANGED <<indexed, asking, page>>

\* The indexer ingests the block, before or after the client sees it.
IndexRow(r) ==
    /\ r \notin Elsewhere
    /\ indexed' = indexed \cup {r}
    /\ UNCHANGED <<reserved, asking, page>>

\* sources ["pending"]: answered from memory.
ListPending(offset, limit) ==
    /\ page' = Slice(Newest(PendingRows), offset, limit)
    /\ UNCHANGED <<reserved, indexed, asking>>

\* The pending rows are read, the indexer is asked.
AskHistory(sources, offset, limit) ==
    /\ asking = NoRequest
    /\ "executed" \in sources
    /\ asking' = [sources |-> sources,
                  offset |-> offset, limit |-> limit,
                  pending |-> IF "pending" \in sources THEN PendingRows ELSE {}]
    /\ UNCHANGED <<reserved, indexed, page>>

\* The page made of what the indexer returned for the widened request.
PageOf(executed) ==
    MergedPage(asking.pending, executed, asking.offset, asking.limit)

\* The answer, of the indexer as it is now.  Without pending rows the caller's
\* pagination was passed on, and what came is the page.
AnswerHistory ==
    /\ asking # NoRequest
    /\ LET count == Cardinality(asking.pending)
       IN page' = IF asking.pending = {}
                  THEN Newest(Served(asking.offset, asking.limit))
                  ELSE PageOf(Served(ExecutedOffset(asking.offset, count),
                                     WindowLimit(asking.limit, count)))
    /\ asking' = NoRequest
    /\ UNCHANGED <<reserved, indexed>>

\* Whatever the error, a request that fails is an empty history.
HistoryFails ==
    /\ asking # NoRequest
    /\ page' = IF asking.pending = {} THEN <<>> ELSE PageOf({})
    /\ asking' = NoRequest
    /\ UNCHANGED <<reserved, indexed>>

HistoryNext ==
    \/ \E r \in Rows : Reserve(r) \/ ReleaseRow(r) \/ IndexRow(r)
    \/ \E o \in Offsets, l \in Limits \cup {NoLimit} :
         \/ ListPending(o, l)
         \/ \E s \in {{"executed"}, {"pending", "executed"}} :
              AskHistory(s, o, l)
    \/ AnswerHistory
    \/ HistoryFails

HistorySpec == HistoryInit /\ [][HistoryNext]_historyVars

-----------------------------------------------------------------------------
\* The type of the state.
HistoryTypeOK ==
    /\ reserved \subseteq Rows /\ indexed \subseteq Rows
    /\ page \in Seq(Rows)
    /\ asking = NoRequest \/
       asking \in [sources : SUBSET {"pending", "executed"},
                   offset : Offsets, limit : Limits \cup {NoLimit},
                   pending : SUBSET Rows]

\* The page of the one list the caller has in mind: every row that was
\* pending when it asked or is executed when the answer comes, once each.
ReferencePage ==
    Slice(Newest(asking.pending \cup indexed), asking.offset, asking.limit)

\* A page that starts among as many rows as are pending is the page of the
\* one list, whatever the two backends disagree about.  So is a later one, while
\* no row is in both backends and one of the indexer's two lists has all the
\* rows of the other.  Without pending rows a page starts with it, and can be
\* longer: two limits were applied.
PagesAgree ==
    [][ AnswerHistory =>
          LET early  == asking.offset <= Cardinality(asking.pending)
              nested == /\ asking.pending \cap indexed = {}
                        /\ \/ indexed \cap Deploys = {}
                           \/ indexed \cap Incoming = {}
          IN early \/ nested =>
               /\ IsPrefix(ReferencePage, page')
               /\ asking.pending # {} => page' = ReferencePage
      ]_historyVars

=============================================================================
