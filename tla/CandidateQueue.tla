--------------------------- MODULE CandidateQueue ---------------------------
(***************************************************************************)
(* The queue of paper candidates: signals of status "candidate".           *)
(* PaperCandidateRefreshService adds one for a symbol that has none,       *)
(* PaperCandidateHygieneService expires stale, duplicate and disallowed    *)
(* ones, OpportunityRankerService reads the queue for the auto paper       *)
(* trader.  The routes and the worker commit sessions of their own.        *)
(***************************************************************************)
EXTENDS Integers, Sequences, FiniteSets

CONSTANTS
    Symbols,
    Allowlist,      \* auto_paper_symbol_allowlist, as configured
    MaxRows         \* bound: the signals there ever are

ASSUME QueueAssumption ==
    /\ Allowlist \in Seq(Symbols)
    /\ MaxRows \in Nat

VARIABLES
    queue,      \* the signals, by scan_ts; those beyond the recency are stale
    stale,      \* how many of them, the oldest, are stale
    refresh,    \* the refresh in progress: symbols to come, candidates flushed
    hygiene,    \* the hygiene in progress
    picked      \* the signals the trader's run has ranked and not yet traded

queueVars == <<queue, stale, refresh, hygiene, picked>>

Statuses == {"candidate", "paper_submitted", "expired"}

(* provider: this refresh, another of the paper-test providers, or a       *)
(* scanner.  eligible: the score is at least the queue's minimum.          *)
CandidateRows == [symbol : Symbols, provider : {"refresh", "seed", "scanner"},
                  eligible : BOOLEAN, status : Statuses]

NoRefresh == [on |-> FALSE, next |-> 1, added |-> <<>>]
NoHygiene == [stage |-> "idle", targets |-> {}, cutoff |-> 0]

QueueInit ==
    /\ queue = <<>>
    /\ stale = 0
    /\ refresh = NoRefresh
    /\ hygiene = NoHygiene
    /\ picked = {}

-----------------------------------------------------------------------------

Allowed == {Allowlist[k] : k \in 1..Len(Allowlist)}

(* rank() and _has_recent_eligible_candidate look for the same rows.       *)
Recent(rows) ==
    {n \in (stale + 1)..Len(rows) : rows[n].status = "candidate" /\ rows[n].eligible}

RefreshedFor(symbol) ==
    [symbol |-> symbol, provider |-> "refresh", eligible |-> TRUE, status |-> "candidate"]

(* What the check sees: what is committed and what the request itself has  *)
(* flushed.                                                                *)
Seen(rows, added) == rows \o added

BeginRefresh ==
    /\ ~ refresh.on
    /\ refresh' = [NoRefresh EXCEPT !.on = TRUE]
    /\ UNCHANGED <<queue, stale, hygiene, picked>>

(* The next symbol of the allowlist, which may be there twice.  Without an *)
(* asset it is skipped.                                                    *)
RefreshSymbol ==
    /\ refresh.on /\ refresh.next <= Len(Allowlist)
    /\ LET symbol == Allowlist[refresh.next]
           seen == Seen(queue, refresh.added)
           has == \E n \in Recent(seen) : seen[n].symbol = symbol
       IN  refresh' \in
              {[refresh EXCEPT !.next = @ + 1, !.added = added] :
                  added \in {refresh.added} \union
                      IF has \/ Len(queue) + Len(refresh.added) >= MaxRows THEN {}
                      ELSE {Append(refresh.added, RefreshedFor(symbol))}}
    /\ UNCHANGED <<queue, stale, hygiene, picked>>

(* Commits, or, a dry run and a failure, does not. *)
EndRefresh ==
    /\ refresh.on
    /\ queue' \in {queue} \union
          IF refresh.next > Len(Allowlist) THEN {queue \o refresh.added} ELSE {}
    /\ refresh' = NoRefresh
    /\ UNCHANGED <<stale, hygiene, picked>>

-----------------------------------------------------------------------------

TestCandidates == {n \in DOMAIN queue : queue[n].provider # "scanner" /\ queue[n].status = "candidate"}

KeptOldest(rows, keep) == {n \in rows : Cardinality({k \in rows : k < n}) < keep}

(* The newest ones of a symbol. *)
Kept(rows, keep) == {n \in rows : Cardinality({k \in rows : k > n}) < keep}

AllowedTests == {n \in TestCandidates : Allowed = {} \/ queue[n].symbol \in Allowed}
TestsOf(symbol) == {n \in AllowedTests : queue[n].symbol = symbol}

(* Stale by the age the request gives, duplicate, or not allowed.          *)
Noise(cutoff, keep) ==
    {n \in AllowedTests : n <= cutoff}
      \union (UNION {TestsOf(symbol) \ Kept(TestsOf(symbol), keep) : symbol \in Symbols})
      \union (TestCandidates \ AllowedTests)

LoadHygiene ==
    /\ hygiene.stage = "idle"
    /\ \E cutoff \in 0..Len(queue), keep \in 1..2 :
          hygiene' = [stage |-> "loaded", targets |-> Noise(cutoff, keep), cutoff |-> cutoff]
    /\ UNCHANGED <<queue, stale, refresh, picked>>

(* Reads the targets again: those no longer candidates are left alone. *)
SelectNoise ==
    /\ hygiene.stage = "loaded"
    /\ hygiene' = [hygiene EXCEPT !.stage = "selected", !.targets = @ \intersect TestCandidates]
    /\ UNCHANGED <<queue, stale, refresh, picked>>

(* The update itself names the rows and looks at no status. *)
CommitHygiene ==
    /\ hygiene.stage = "selected"
    /\ queue' = [n \in DOMAIN queue |->
                    IF n \in hygiene.targets THEN [queue[n] EXCEPT !.status = "expired"]
                                             ELSE queue[n]]
    /\ hygiene' = NoHygiene
    /\ UNCHANGED <<stale, refresh, picked>>

(* A dry run, or a failure. *)
DropHygiene ==
    /\ hygiene.stage # "idle"
    /\ hygiene' = NoHygiene
    /\ UNCHANGED <<queue, stale, refresh, picked>>

-----------------------------------------------------------------------------

(* AutoPaperTraderWorker: one ranking for the run, then its submissions,   *)
(* each of which sets the status without looking at it again.              *)
RankQueue ==
    /\ picked = {}
    /\ picked' \in SUBSET Recent(queue)
    /\ UNCHANGED <<queue, stale, refresh, hygiene>>

SubmitPicked(n) ==
    /\ n \in picked
    /\ queue' \in {queue, [queue EXCEPT ![n].status = "paper_submitted"]}
    /\ picked' = picked \ {n}
    /\ UNCHANGED <<stale, refresh, hygiene>>

(* A signal of another provider, or a manual seed. *)
AddSignal ==
    /\ Len(queue) + Len(refresh.added) < MaxRows
    /\ \E symbol \in Symbols, provider \in {"seed", "scanner"}, eligible \in BOOLEAN :
          queue' = Append(queue, [symbol |-> symbol, provider |-> provider,
                                  eligible |-> eligible, status |-> "candidate"])
    /\ UNCHANGED <<stale, refresh, hygiene, picked>>

(* Time goes by. *)
GrowStale ==
    /\ stale < Len(queue)
    /\ stale' = stale + 1
    /\ UNCHANGED <<queue, refresh, hygiene, picked>>

QueueNext ==
    \/ BeginRefresh \/ RefreshSymbol \/ EndRefresh
    \/ LoadHygiene \/ SelectNoise \/ CommitHygiene \/ DropHygiene
    \/ RankQueue \/ (\E n \in picked : SubmitPicked(n))
    \/ AddSignal \/ GrowStale

QueueSpec == QueueInit /\ [][QueueNext]_queueVars

-----------------------------------------------------------------------------

QueueTypeOK ==
    /\ queue \in Seq(CandidateRows) /\ Len(queue) <= MaxRows
    /\ stale \in 0..Len(queue)
    /\ refresh.on \in BOOLEAN /\ refresh.added \in Seq(CandidateRows)
    /\ hygiene.stage \in {"idle", "loaded", "selected"}
    /\ hygiene.targets \subseteq DOMAIN queue
    /\ picked \subseteq DOMAIN queue

(* Hygiene never empties the queue of an allowed symbol: a candidate       *)
(* younger than the age asked for is expired only when a younger one of    *)
(* its symbol is still queued or has been traded meanwhile.                *)
HygieneKeepsNewest ==
    [][\A n \in DOMAIN queue :
          /\ queue[n].status = "candidate" /\ queue'[n].status = "expired"
          /\ n > hygiene.cutoff /\ queue[n].symbol \in Allowed
          => \E k \in (n + 1)..Len(queue) :
                /\ queue[k].symbol = queue[n].symbol
                /\ queue'[k].status # "expired"]_queueVars

=============================================================================
