------------------------------ MODULE History ------------------------------
(***************************************************************************)
(* GET /transfers: the walk of one client through a customer's unified     *)
(* history, page by page, while transfers, deposits and withdrawals go on  *)
(* committing.                                                             *)
(*                                                                         *)
(* A step is one query; every query has its own snapshot.  created_at is   *)
(* the time a row's transaction began, so rows may commit in another order *)
(* than they sort in, and ids are random.  The first page reads the        *)
(* primary and the others a standby; standbys replay the commits in order, *)
(* some of them behind others.                                             *)
(***************************************************************************)
EXTENDS Integers, Sequences, FiniteSets, SequencesExt

CONSTANTS
    Me, Other,   \* the customer's account, and another
    Times,       \* values of created_at
    RowIds,      \* ids a row can get
    Earlier,     \* rows committed before the behaviour starts
    Limit,       \* page size
    MaxRows,     \* bound: rows
    MaxErrors,   \* bound: failed requests
    NoCursor

\* The accounts a row of a source names, one of them the customer's.  A transfer
\* to oneself is refused when it is created.
Parties(source) == IF source = "transfer" THEN {<<Me, Other>>, <<Other, Me>>} ELSE {<<Me, Me>>}

Rows ==
    {r \in [source : {"transfer", "deposit", "withdrawal"}, created : Int, id : Int,
            from : {Me, Other}, to : {Me, Other}] : <<r.from, r.to>> \in Parties(r.source)}

ASSUME HistoryAssumption ==
    /\ Limit \in Nat \ {0}
    /\ Me # Other
    /\ Times \subseteq Int /\ RowIds \subseteq Int
    /\ Earlier \in Seq(Rows)
    /\ \A i, j \in DOMAIN Earlier : Earlier[i].id = Earlier[j].id => i = j
    /\ NoCursor \notin Rows

VARIABLES
    commits,     \* committed rows, in commit order
    applied,     \* how many of them the slowest standby has replayed
    at,          \* the walk: the query it is at
    cursor,      \* the cursor of the page it reads, NoCursor for the first page
    fetched,     \* the rows its sources returned for the page
    more,        \* whether one of them had more
    out,         \* what the pages have shown so far
    errors,      \* bound
    start        \* history: commits and applied when the walk began

database == <<commits, applied>>
walk == <<at, cursor, fetched, more, out, errors, start>>
historyVars == <<database, walk>>

HistoryInit ==
    /\ commits = Earlier
    /\ applied \in 0 .. Len(Earlier)
    /\ at = "closed"
    /\ cursor = NoCursor
    /\ fetched = {}
    /\ more = FALSE
    /\ out = <<>>
    /\ errors = 0
    /\ start = [all |-> 0, applied |-> 0]

-----------------------------------------------------------------------------
(***************************************************************************)
(* The tables.                                                             *)
(***************************************************************************)

\* A row as the customer's pages first show it: a transfer they received is
\* filtered by status = 'completed', so its commit is the UPDATE that
\* completes it; every other row's is its INSERT.
CommitRow(source) ==
    /\ Len(commits) < MaxRows
    /\ \E id \in RowIds \ {commits[i].id : i \in DOMAIN commits}, t \in Times, p \in Parties(source) :
         commits' = Append(commits, [source |-> source, created |-> t, id |-> id,
                                     from |-> p[1], to |-> p[2]])
    /\ UNCHANGED <<applied, walk>>

Replay ==
    /\ applied < Len(commits)
    /\ applied' = applied + 1
    /\ UNCHANGED <<commits, walk>>

-----------------------------------------------------------------------------
(***************************************************************************)
(* Pages.                                                                  *)
(***************************************************************************)
Newer(r, s) == \/ r.created > s.created
               \/ r.created = s.created /\ r.id > s.id

\* ORDER BY created_at DESC, id DESC LIMIT n
Newest(rows, n) == {r \in rows : Cardinality({s \in rows : Newer(s, r)}) < n}

\* WHERE (created_at, id) < cursor
Older(rows) == {r \in rows : cursor = NoCursor \/ Newer(cursor, r)}

\* Every source reads one row more than the page holds.  Transfers are a UNION
\* ALL of the newest sent and the newest received, cut again.
getTransferHistoryPage(rows) ==
    LET sent == Older({r \in rows : r.from = Me})
        incoming == Older({r \in rows : r.to = Me})
    IN Newest(Newest(sent, Limit + 1) \cup Newest(incoming, Limit + 1), Limit + 1)

getDepositHistoryPage(rows) == Newest(Older({r \in rows : r.to = Me}), Limit + 1)

getWithdrawalHistoryPage(rows) == Newest(Older({r \in rows : r.from = Me}), Limit + 1)

Prefix(n) == {commits[i] : i \in 1 .. n}

\* What a query sees: the primary, or a standby at least as far as the slowest.
Snapshots == IF cursor = NoCursor THEN {Len(commits)} ELSE applied .. Len(commits)

OpenHistory ==
    /\ at = "closed"
    /\ at' = "transfer"
    /\ start' = [all |-> Len(commits), applied |-> applied]
    /\ UNCHANGED <<database, cursor, fetched, more, out, errors>>

\* The rows of one source that its query sees.
Visible(source) ==
    {{r \in Prefix(n) : r.source = source} : n \in Snapshots}

Take(page, next) ==
    /\ fetched' = fetched \cup Newest(page, Limit)
    /\ more' = (more \/ Cardinality(page) > Limit)
    /\ at' = next
    /\ UNCHANGED <<database, cursor, out, errors, start>>

QueryTransfers ==
    /\ at = "transfer"
    /\ \E rows \in Visible("transfer") : Take(getTransferHistoryPage(rows), "deposit")

QueryDeposits ==
    /\ at = "deposit"
    /\ \E rows \in Visible("deposit") : Take(getDepositHistoryPage(rows), "withdrawal")

QueryWithdrawals ==
    /\ at = "withdrawal"
    /\ \E rows \in Visible("withdrawal") : Take(getWithdrawalHistoryPage(rows), "merge")

\* Faulty: more only if the merge itself overflows.
hasMoreMerged == Cardinality(fetched) > Limit

hasMore == Cardinality(fetched) > Limit \/ more

\* The last row of the page, through encodeCursor and decodeCursor.
nextCursor(page) == Last(page)

\* The rows in the order of the page.
NewestFirst(rows) ==
    CHOOSE s \in [1 .. Cardinality(rows) -> rows] :
        \A i, j \in DOMAIN s : i < j => Newer(s[i], s[j])

\* The three pages merged, sorted again and cut.
getOperationHistoryPage ==
    /\ at = "merge"
    /\ LET page == NewestFirst(Newest(fetched, Limit))
           next == hasMore /\ page # <<>>
       IN /\ out' = out \o page
          /\ at' = IF next THEN "transfer" ELSE "end"
          /\ cursor' = IF next THEN nextCursor(page) ELSE cursor
    /\ fetched' = {}
    /\ more' = FALSE
    /\ UNCHANGED <<database, errors, start>>

\* A query or the lookup of the counterparties' IBANs fails; the client asks
\* for the same page again.
PageFails ==
    /\ at \notin {"closed", "end"}
    /\ errors < MaxErrors
    /\ errors' = errors + 1
    /\ at' = "transfer"
    /\ fetched' = {}
    /\ more' = FALSE
    /\ UNCHANGED <<database, cursor, out, start>>

-----------------------------------------------------------------------------
HistoryNext ==
    \/ \E source \in {"transfer", "deposit", "withdrawal"} : CommitRow(source)
    \/ Replay
    \/ OpenHistory
    \/ QueryTransfers \/ QueryDeposits \/ QueryWithdrawals
    \/ getOperationHistoryPage
    \/ PageFails

HistorySpec == HistoryInit /\ [][HistoryNext]_historyVars

-----------------------------------------------------------------------------
(***************************************************************************)
(* Properties.                                                             *)
(***************************************************************************)

\* Whatever commits between two queries or two pages, the walk shows no row
\* twice, and newest first across page boundaries.
NoRowTwice == \A i, j \in DOMAIN out : i < j => Newer(out[i], out[j])

\* Once no cursor is left, the walk has shown every row that all standbys had
\* when it began: none falls between two pages or two sources, and no page
\* claims to be the last too early.
NothingSkipped == at = "end" => Prefix(start.applied) \subseteq ToSet(out)

\* The pages of a walk, put together, are the history as it was.
EveryRowOnce == NoRowTwice /\ NothingSkipped

\* Replica lag is invisible to whoever pages back: the walk shows every row
\* that was committed when it began.
LagIsInvisible == at = "end" => Prefix(start.all) \subseteq ToSet(out)
=============================================================================
