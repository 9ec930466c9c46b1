---------------------------- MODULE Recommendations ----------------------------
(***************************************************************************)
(* Recommended paper orders (paper_recommendation_service), the check of   *)
(* their route and the preview that runs the broker's dry run for them.    *)
(* Reviews load a draft and write it later; a preview reads the            *)
(* recommendation, then the halt, then the halt again with the limits, and *)
(* nothing holds the three together.  A process keeps its broker mode.     *)
(***************************************************************************)
EXTENDS Integers, Sequences, FiniteSets, SequencesExt

CONSTANTS
    Recs,
    RecReviewers,
    Previewers,
    NoRec

VARIABLES
    rec,        \* PaperRecommendation rows: their order and their status
    judging,    \* where the handler of each review is
    preview,    \* where the handler of each preview is, and its answer
    decisions,  \* BrokerSubmitDecision rows of source dry_run
    brokerMode, \* paper, live, or settings that do not agree
    recHalted,  \* the global halt
    recLimited  \* a max_order_notional is configured, which large orders exceed

recVars == <<rec, judging, preview, decisions, brokerMode, recHalted, recLimited>>

BrokerModes == {"paper", "live", "mixed"}

(* What the schema of a request lets through: limit_price is optional for  *)
(* every type, and a quantity above zero may be rounded to none.           *)
RecOrders ==
    [type : {"MARKET", "LIMIT", "STOP", "STOP_LIMIT"}, priced : BOOLEAN,
     quantity : {"some", "tiny"}, large : BOOLEAN]

ASSUME RecommendationsAssumption ==
    NoRec \notin [status : {"draft", "approved", "rejected"}, order : RecOrders]

IdleReview == [stage |-> "idle", rec |-> NoRec]
IdlePreview == [stage |-> "idle", rec |-> NoRec, guarded |-> FALSE, limited |-> FALSE, allowed |-> FALSE]

RecInit ==
    /\ rec = [r \in Recs |-> NoRec]
    /\ judging = [v \in RecReviewers |-> IdleReview]
    /\ preview = [p \in Previewers |-> IdlePreview]
    /\ decisions = {}
    /\ brokerMode \in BrokerModes
    /\ recHalted = FALSE /\ recLimited = FALSE

-----------------------------------------------------------------------------
(* Drafts and reviews *)

DraftRecommendation(r) ==
    /\ rec[r] = NoRec
    /\ \E order \in RecOrders :
          /\ order.type = "LIMIT" => order.priced
          /\ rec' = [rec EXCEPT ![r] = [status |-> "draft", order |-> order]]
    /\ UNCHANGED <<judging, preview, decisions, brokerMode, recHalted, recLimited>>

(* A recommendation that was decided is answered as it is. *)
LoadDraft(v, r) ==
    /\ judging[v].stage = "idle" /\ rec[r] # NoRec
    /\ rec[r].status = "draft"
    /\ judging' = [judging EXCEPT ![v] = [stage |-> "loaded", rec |-> r]]
    /\ UNCHANGED <<rec, preview, decisions, brokerMode, recHalted, recLimited>>

ReviewRecommendation(v) ==
    /\ judging[v].stage = "loaded"
    /\ \E status \in {"approved", "rejected"} :
          rec' = [rec EXCEPT ![judging[v].rec].status = status]
    /\ judging' = [judging EXCEPT ![v].stage = "done"]
    /\ UNCHANGED <<preview, decisions, brokerMode, recHalted, recLimited>>

-----------------------------------------------------------------------------
(* The route check *)

CanRouteToBrokerPaper == brokerMode = "paper"

(* Mutant: no approval is asked for. *)
MissingOrderData(row) ==
    {m \in {"quantity", "limit_price", "stop_price"} :
        \/ m = "quantity" /\ row.order.quantity = "tiny"
        \/ m = "limit_price" /\ row.order.type \in {"LIMIT", "STOP_LIMIT"} /\ ~ row.order.priced
        \/ m = "stop_price" /\ row.order.type \in {"STOP", "STOP_LIMIT"}}

MissingData(row) ==
    {m \in {"quantity", "limit_price", "stop_price", "approval"} :
        \/ m = "quantity" /\ row.order.quantity = "tiny"
        \/ m = "limit_price" /\ row.order.type \in {"LIMIT", "STOP_LIMIT"} /\ ~ row.order.priced
        \/ m = "stop_price" /\ row.order.type \in {"STOP", "STOP_LIMIT"}
        \/ m = "approval" /\ row.status # "approved"}

RouteCheck(row) ==
    IF row.status \in {"rejected", "executed"} THEN "blocked"
    ELSE IF ~ CanRouteToBrokerPaper THEN "blocked"
    ELSE IF MissingData(row) # {} THEN "missing_context"
    ELSE "eligible"

-----------------------------------------------------------------------------
(* The preview *)

CheckRoute(p, r) ==
    /\ preview[p].stage = "idle" /\ rec[r] # NoRec
    /\ preview' = [preview EXCEPT ![p] =
                      [IdlePreview EXCEPT
                          !.stage = IF RouteCheck(rec[r]) = "eligible" THEN "checked" ELSE "refused",
                          !.rec = r]]
    /\ UNCHANGED <<rec, judging, decisions, brokerMode, recHalted, recLimited>>

(* assert_manual_trading_allowed: the modes agree and nothing is halted. *)
GuardDryRun(p) ==
    /\ preview[p].stage = "checked"
    /\ preview' = [preview EXCEPT ![p].stage = "guarded",
                                  ![p].guarded = brokerMode # "mixed" /\ ~ recHalted]
    /\ UNCHANGED <<rec, judging, decisions, brokerMode, recHalted, recLimited>>

(* Mutant: an exceeded limit is a warning. *)
PreflightStatusAdvised(guarded, order) ==
    IF ~ guarded \/ recHalted THEN "blocked" ELSE "advisory"

(* The halt and the limits, which are only compared with a notional: that  *)
(* of an order with a price.  The warnings are never none.                 *)
PreflightStatus(guarded, order) ==
    IF ~ guarded \/ recHalted THEN "blocked"
    ELSE IF recLimited /\ order.priced /\ order.large THEN "would_block"
    ELSE "advisory"

(* The answer, and the row of it, which may not get stored. *)
PreflightDryRun(p) ==
    LET r == preview[p].rec
        allowed == /\ preview[p].guarded
                   /\ PreflightStatus(preview[p].guarded, rec[r].order) \in {"allowed", "advisory"}
    IN  /\ preview[p].stage = "guarded"
        /\ preview' = [preview EXCEPT ![p].stage = "answered", ![p].allowed = allowed,
                                      ![p].limited = recLimited]
        /\ \/ decisions' = decisions \union {[rec |-> r, by |-> p, allowed |-> allowed]}
           \/ UNCHANGED decisions
        /\ UNCHANGED <<rec, judging, brokerMode, recHalted, recLimited>>

-----------------------------------------------------------------------------
(* What the operator does elsewhere *)

HaltOrResume ==
    /\ recHalted' = ~ recHalted
    /\ UNCHANGED <<rec, judging, preview, decisions, brokerMode, recLimited>>

SetLimit ==
    /\ recLimited' = ~ recLimited
    /\ UNCHANGED <<rec, judging, preview, decisions, brokerMode, recHalted>>

(* A restart with other settings; the requests in progress are gone. *)
RestartBroker ==
    /\ brokerMode' \in BrokerModes \ {brokerMode}
    /\ judging' = [v \in RecReviewers |->
                      IF judging[v].stage = "loaded" THEN IdleReview ELSE judging[v]]
    /\ preview' = [p \in Previewers |->
                      IF preview[p].stage \in {"checked", "guarded"} THEN IdlePreview ELSE preview[p]]
    /\ UNCHANGED <<rec, decisions, recHalted, recLimited>>

RecNext ==
    \/ \E r \in Recs : DraftRecommendation(r)
    \/ \E v \in RecReviewers : ReviewRecommendation(v) \/ \E r \in Recs : LoadDraft(v, r)
    \/ \E p \in Previewers : \/ GuardDryRun(p) \/ PreflightDryRun(p)
                             \/ \E r \in Recs : CheckRoute(p, r)
    \/ HaltOrResume \/ SetLimit \/ RestartBroker

RecSpec == RecInit /\ [][RecNext]_recVars

-----------------------------------------------------------------------------

RecTypeOK ==
    /\ \A r \in Recs : rec[r] # NoRec =>
          rec[r].status \in {"draft", "approved", "rejected"} /\ rec[r].order \in RecOrders
    /\ \A d \in decisions : d.rec \in Recs /\ d.by \in Previewers /\ d.allowed \in BOOLEAN

Running(p) == preview[p].stage \in {"checked", "guarded", "answered"}

(* A dry run is of an order that was approved and lacks nothing, and it is *)
(* still approved, unless two reviews had loaded the draft and one of them *)
(* rejected it after the check: the one way that an approval goes.         *)
DryRunsOfApproved ==
    \A p \in Previewers : Running(p) =>
        LET r == preview[p].rec
        IN  /\ MissingData(rec[r]) \subseteq {"approval"}
            /\ rec[r].status = "approved"
                  \/ \E v, w \in RecReviewers :
                        /\ v # w /\ judging[v].rec = r /\ judging[w].rec = r
                        /\ judging[v].stage = "done" /\ judging[w].stage = "done"

(* In progress it is in paper mode, whatever the process was restarted     *)
(* with; what it allows is within the limit it was compared with, or has   *)
(* no price; and its row says the same.                                    *)
DryRunsGuarded ==
    \A p \in Previewers :
        LET order == rec[preview[p].rec].order
            rows == {d \in decisions : d.by = p}
        IN  /\ preview[p].stage \in {"checked", "guarded"} => brokerMode = "paper"
            /\ preview[p].stage = "answered" =>
                  /\ preview[p].allowed /\ preview[p].limited /\ order.large =>
                        order.type = "MARKET" /\ ~ order.priced
                  /\ \A d \in rows : d.rec = preview[p].rec /\ d.allowed = preview[p].allowed
            /\ preview[p].stage # "answered" => rows = {}

=============================================================================
