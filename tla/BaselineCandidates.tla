--------------------------- MODULE BaselineCandidates ---------------------------
(***************************************************************************)
(* Candidates for a baseline (baseline_candidate_service): a create looks  *)
(* for an active candidate of the run and config and inserts one later; an *)
(* update loads a row and writes it later.                                 *)
(***************************************************************************)
EXTENDS Integers, Sequences, FiniteSets

CONSTANTS
    Pairs,         \* of a backtest run and a strategy config
    Results,       \* those that have a StrategyResult
    Creators,
    Updaters,
    MaxCandidates

VARIABLES
    candidate,  \* BaselineCandidate rows, in order; seen: how many its create saw
    creating,
    updating

candVars == <<candidate, creating, updating>>

ActiveStatuses == {"watchlist_candidate", "baseline_candidate", "needs_more_testing"}
CandidateStatuses == ActiveStatuses \union {"rejected"}
NoStatus == "none"

NotCreating == [stage |-> "idle", pair |-> CHOOSE p \in Pairs : TRUE, seen |-> 0]
NotUpdating == [stage |-> "idle", row |-> 0, loaded |-> NoStatus]

CandInit ==
    /\ candidate = <<>>
    /\ creating = [c \in Creators |-> NotCreating]
    /\ updating = [u \in Updaters |-> NotUpdating]

ActiveOf(pair) ==
    {n \in DOMAIN candidate : candidate[n].pair = pair /\ candidate[n].status \in ActiveStatuses}

(* Mutant: only a baseline stands in the way of another candidate. *)
CheckBaselines(c, pair) ==
    /\ creating[c].stage = "idle"
    /\ \A n \in ActiveOf(pair) : candidate[n].status # "baseline_candidate"
    /\ pair \in Results
    /\ creating' = [creating EXCEPT ![c] =
                       [stage |-> "checked", pair |-> pair, seen |-> Len(candidate)]]
    /\ UNCHANGED <<candidate, updating>>

(* _ensure_no_duplicate_active_candidate, _load_result_and_config *)
CheckDuplicate(c, pair) ==
    /\ creating[c].stage = "idle"
    /\ ActiveOf(pair) = {} /\ pair \in Results
    /\ creating' = [creating EXCEPT ![c] =
                       [stage |-> "checked", pair |-> pair, seen |-> Len(candidate)]]
    /\ UNCHANGED <<candidate, updating>>

CreateCandidate(c) ==
    /\ creating[c].stage = "checked" /\ Len(candidate) < MaxCandidates
    /\ \E status \in CandidateStatuses :
          candidate' = Append(candidate, [pair |-> creating[c].pair, status |-> status,
                                          reviewed |-> FALSE, seen |-> creating[c].seen])
    /\ creating' = [creating EXCEPT ![c] = NotCreating]
    /\ UNCHANGED updating

LoadCandidate(u, n) ==
    /\ updating[u].stage = "idle" /\ n \in DOMAIN candidate
    /\ updating' = [updating EXCEPT ![u] = [stage |-> "loaded", row |-> n,
                                            loaded |-> candidate[n].status]]
    /\ UNCHANGED <<candidate, creating>>

(* update_candidate and reject_candidate, which is one of them: a status   *)
(* that was loaded is not written again; reviewed_at is set by a status or *)
(* by the name of the reviewer.                                            *)
UpdateCandidate(u) ==
    /\ updating[u].stage = "loaded"
    /\ \E status \in CandidateStatuses \union {NoStatus}, named \in BOOLEAN :
          candidate' = [candidate EXCEPT
              ![updating[u].row].status = IF status \in {NoStatus, updating[u].loaded} THEN @ ELSE status,
              ![updating[u].row].reviewed = @ \/ status # NoStatus \/ named]
    /\ updating' = [updating EXCEPT ![u] = NotUpdating]
    /\ UNCHANGED creating

CandNext ==
    \/ \E c \in Creators : CreateCandidate(c) \/ \E pair \in Pairs : CheckDuplicate(c, pair)
    \/ \E u \in Updaters : UpdateCandidate(u) \/ \E n \in 1..MaxCandidates : LoadCandidate(u, n)

CandSpec == CandInit /\ [][CandNext]_candVars

-----------------------------------------------------------------------------

CandTypeOK ==
    \A n \in DOMAIN candidate :
        candidate[n].pair \in Results /\ candidate[n].status \in CandidateStatuses
            /\ candidate[n].reviewed \in BOOLEAN /\ candidate[n].seen \in 0..(n - 1)

(* A run and config has one active candidate, but for creates that looked  *)
(* before the other inserted and rows that an update brought back.         *)
OneActiveUnlessRaced ==
    \A pair \in Pairs : \A m, n \in ActiveOf(pair) :
        m < n => \/ candidate[n].seen < m
                 \/ candidate[m].reviewed \/ candidate[n].reviewed

=============================================================================
