----------------------------- MODULE BrokerBooks -----------------------------
(***************************************************************************)
(* What the backend keeps of the account's day: BrokerTradeEventService    *)
(* stages the broker's fills, each under a fingerprint, and BrokerService  *)
(* captures snapshots of the P&L that get_daily_pnl sums up.  The broker   *)
(* reports the fills of the day so far, and what a fill realised comes     *)
(* with its commission report, after the fill.                             *)
(***************************************************************************)
EXTENDS Integers, Sequences, FiniteSetsExt

CONSTANTS
    Ingestions,     \* bound: the calls of normalize_and_stage_trade_events
    OrderRefs,
    Prices,
    Gains,          \* what a fill may realise
    MaxFills,       \* bound: the fills of the day
    MaxSnapshots    \* bound: the snapshots captured in it

ASSUME BooksAssumption ==
    /\ Gains \subseteq Int
    /\ MaxFills \in Nat
    /\ MaxSnapshots \in Nat

VARIABLES
    fills,      \* the fills at the broker, oldest first
    ingestion,  \* where each ingestion is
    staged,     \* rows of broker_trade_events: fingerprint and realised P&L
    snapshots   \* rows of pnl_snapshots of today, oldest first

booksVars == <<fills, ingestion, staged, snapshots>>

(* reported: the commission report is in. *)
Fills == [order : OrderRefs, price : Prices, gain : Gains, reported : BOOLEAN]

(* The P&L that is NULL. *)
NoPnl == [known |-> FALSE, value |-> 0]
DayPnls == [known : BOOLEAN, value : Int]

BooksInit ==
    /\ fills = <<>>
    /\ ingestion = [b \in Ingestions |->
                       [stage |-> "idle", fetched |-> <<>>, pending |-> <<>>]]
    /\ staged = {}
    /\ snapshots = <<>>

-----------------------------------------------------------------------------

Realised(fill) == IF fill.reported THEN [known |-> TRUE, value |-> fill.gain] ELSE NoPnl

(* Only by the order that was filled. *)
FingerprintOfOrder(fill) == <<fill.order>>

(* Order, price, and a symbol, side, quantity and time that the order and  *)
(* the price stand for here; not what the fill realised.                   *)
Fingerprint(fill) == <<fill.order, fill.price>>

RowOf(fill) == [fingerprint |-> Fingerprint(fill), pnl |-> Realised(fill)]

(* The fingerprints in rows, which a query sees. *)
Fingerprints(rows) == {row.fingerprint : row \in rows}

FetchFills(b) ==
    /\ ingestion[b].stage = "idle"
    /\ ingestion' = [ingestion EXCEPT ![b].stage = "fetched", ![b].fetched = fills]
    /\ UNCHANGED <<fills, staged, snapshots>>

(* ingest_trade_events.  The look-ups see committed rows only: the session *)
(* does not flush before a query.                                          *)
AddRows(b) ==
    /\ ingestion[b].stage = "fetched"
    /\ LET fetched == ingestion[b].fetched
           new == {k \in 1..Len(fetched) : Fingerprint(fetched[k]) \notin Fingerprints(staged)}
       IN  ingestion' = [ingestion EXCEPT ![b].stage = "added",
                            ![b].pending = [k \in new |-> RowOf(fetched[k])]]
    /\ UNCHANGED <<fills, staged, snapshots>>

(* uq_broker_trade_event_fingerprint. *)
Insertable(rows) ==
    /\ \A k, n \in DOMAIN rows : rows[k].fingerprint = rows[n].fingerprint => k = n
    /\ \A k \in DOMAIN rows : rows[k].fingerprint \notin Fingerprints(staged)

CommitRows(b) ==
    /\ ingestion[b].stage = "added" /\ Insertable(ingestion[b].pending)
    /\ LET pending == ingestion[b].pending
       IN  staged' = staged \union {pending[k] : k \in DOMAIN pending}
    /\ ingestion' = [ingestion EXCEPT ![b].stage = "acknowledged"]
    /\ UNCHANGED <<fills, snapshots>>

(* The constraint, the broker or the database: nothing is kept. *)
FailIngestion(b) ==
    /\ ingestion[b].stage \in {"fetched", "added"}
    /\ ingestion' = [ingestion EXCEPT ![b].stage = "failed"]
    /\ UNCHANGED <<fills, staged, snapshots>>

-----------------------------------------------------------------------------

Values(pnls) == {k \in 1..Len(pnls) : pnls[k].known}

(* NULL when none is known, their sum otherwise. *)
SumOfKnown(pnls) ==
    IF Values(pnls) = {} THEN NoPnl
    ELSE [known |-> TRUE, value |-> MapThenSumSet(LAMBDA k : pnls[k].value, Values(pnls))]

(* sum_today_realized_pnl_from_raw_events: the day so far. *)
ClosedSoFar == SumOfKnown([k \in 1..Len(fills) |-> Realised(fills[k])])

(* capture_daily_pnl_snapshot.  A broker without trades, or whose trades   *)
(* cannot be fetched, leaves closed_pnl NULL.                              *)
CaptureSnapshot ==
    /\ Len(snapshots) < MaxSnapshots
    /\ \E closed \in {ClosedSoFar, NoPnl} : snapshots' = Append(snapshots, closed)
    /\ UNCHANGED <<fills, ingestion, staged>>

(* get_daily_pnl: closed_pnl, the sum over the rows of the day. *)
DailyClosedPnl == SumOfKnown(snapshots)

(* External: an order is filled, in part or in whole; a report comes in. *)
Fill ==
    /\ Len(fills) < MaxFills
    /\ \E fill \in Fills : ~ fill.reported /\ fills' = Append(fills, fill)
    /\ UNCHANGED <<ingestion, staged, snapshots>>

ReportCommission(k) ==
    /\ ~ fills[k].reported
    /\ fills' = [fills EXCEPT ![k].reported = TRUE]
    /\ UNCHANGED <<ingestion, staged, snapshots>>

BooksNext ==
    \/ \E b \in Ingestions : FetchFills(b) \/ AddRows(b) \/ CommitRows(b) \/ FailIngestion(b)
    \/ CaptureSnapshot
    \/ Fill
    \/ \E k \in 1..Len(fills) : ReportCommission(k)

BooksSpec == BooksInit /\ [][BooksNext]_booksVars

-----------------------------------------------------------------------------

BooksTypeOK ==
    /\ fills \in Seq(Fills) /\ Len(fills) <= MaxFills
    /\ \A b \in Ingestions :
          /\ ingestion[b].stage \in {"idle", "fetched", "added", "acknowledged", "failed"}
          /\ ingestion[b].fetched \in Seq(Fills)
    /\ \A row \in staged : row.pnl \in DayPnls
    /\ snapshots \in Seq(DayPnls) /\ Len(snapshots) <= MaxSnapshots

(* An ingestion that was acknowledged has every fill it fetched on record, *)
(* the partial fills of one order at different prices as rows of their     *)
(* own, whichever ingestions ran beside it.  Fills alike in everything the *)
(* fingerprint is made of are one fill to it.                              *)
AcknowledgedIsStaged ==
    \A b \in Ingestions : ingestion[b].stage = "acknowledged" =>
        \A k \in 1..Len(ingestion[b].fetched) :
            LET fill == ingestion[b].fetched[k]
            IN  <<fill.order, fill.price>> \in Fingerprints(staged)

(* The comment in get_daily_pnl: "closed_pnl: sum of all realised fills    *)
(* today", as they were when the last snapshot was captured.               *)
ClosedPnlIsRealised ==
    LET last == snapshots[Len(snapshots)]
    IN  snapshots # <<>> /\ last.known => DailyClosedPnl = last

=============================================================================
