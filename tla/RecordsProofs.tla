----------------------------- MODULE RecordsProofs -----------------------------
(***************************************************************************)
(* What is kept on record: the recommended orders and the candidates,      *)
(* whose reviews and checks work on what they loaded, the schedule of the  *)
(* jobs, the bars with their quality, the prompts of the signals, and the  *)
(* judgements of the strategy lab.                                         *)
(***************************************************************************)
EXTENDS MCRecords, SumTheorems, SequenceTheorems

(* The recommended orders.  A recommendation that was decided had a review *)
(* that is done (ReviewsBehind), so one that a preview found approved and  *)
(* that is not any more had two.                                           *)

RecRows == [status : {"draft", "approved", "rejected"}, order : RecOrders]
Judgings == [stage : {"idle", "loaded", "done"}, rec : Recs \union {NoRec}]
Previews ==
    [stage : {"idle", "checked", "refused", "guarded", "answered"}, rec : Recs \union {NoRec},
     guarded : BOOLEAN, limited : BOOLEAN, allowed : BOOLEAN]
Decisions == [rec : Recs, by : Previewers, allowed : BOOLEAN]

RecShapes ==
    /\ rec \in [Recs -> RecRows \union {NoRec}]
    /\ judging \in [RecReviewers -> Judgings]
    /\ preview \in [Previewers -> Previews]
    /\ decisions \subseteq Decisions
    /\ brokerMode \in BrokerModes
    /\ recHalted \in BOOLEAN /\ recLimited \in BOOLEAN
    /\ \A v \in RecReviewers : judging[v].stage # "idle" =>
          judging[v].rec \in Recs /\ rec[judging[v].rec] \in RecRows
    /\ \A p \in Previewers : Running(p) =>
          preview[p].rec \in Recs /\ rec[preview[p].rec] \in RecRows

ReviewsBehind ==
    \A r \in Recs : rec[r] \in RecRows /\ rec[r].status # "draft" =>
        \E v \in RecReviewers : judging[v].rec = r /\ judging[v].stage = "done"

RecInv == RecShapes /\ ReviewsBehind /\ DryRunsOfApproved /\ DryRunsGuarded

LEMMA NoRecIsNoRow == NoRec \notin RecRows
BY RecommendationsAssumption DEF RecRows

LEMMA RecStart == RecInit => RecInv
<1> SUFFICES ASSUME RecInit PROVE RecInv
  OBVIOUS
<1>1. RecShapes
  BY DEF RecInit, RecShapes, IdleReview, IdlePreview, Judgings, Previews, Running, BrokerModes
<1>2. ReviewsBehind
  BY NoRecIsNoRow DEF RecInit, ReviewsBehind
<1>3. DryRunsOfApproved /\ DryRunsGuarded
  BY DEF RecInit, DryRunsOfApproved, DryRunsGuarded, IdlePreview, Running
<1> QED
  BY <1>1, <1>2, <1>3 DEF RecInv

(* What an order lacks does not depend on a decision on it.                *)
LEMMA OrderKept ==
  ASSUME NEW x, NEW y, x.order = y.order, MissingData(x) \subseteq {"approval"}
  PROVE  MissingData(y) \subseteq {"approval"}
BY DEF MissingData

LEMMA ApprovalsKeep ==
  ASSUME RecShapes, DryRunsOfApproved,
         \A v \in RecReviewers : judging[v].stage = "done" => judging'[v] = judging[v],
         \A r \in Recs : rec[r] \in RecRows => rec'[r] = rec[r],
         \A p \in Previewers : Running(p)' => Running(p) /\ preview'[p].rec = preview[p].rec
  PROVE  DryRunsOfApproved'
<1> SUFFICES ASSUME NEW p \in Previewers, Running(p)'
             PROVE  LET r == preview'[p].rec
                    IN  /\ MissingData(rec'[r]) \subseteq {"approval"}
                        /\ rec'[r].status = "approved"
                              \/ \E v, w \in RecReviewers :
                                    /\ v # w /\ judging'[v].rec = r /\ judging'[w].rec = r
                                    /\ judging'[v].stage = "done" /\ judging'[w].stage = "done"
  BY DEF DryRunsOfApproved, MissingData
<1>1. Running(p) /\ preview'[p].rec = preview[p].rec
  OBVIOUS
<1>2. preview[p].rec \in Recs /\ rec[preview[p].rec] \in RecRows
  BY <1>1 DEF RecShapes
<1>3. rec'[preview[p].rec] = rec[preview[p].rec]
  BY <1>2
<1> QED
  BY <1>1, <1>3 DEF DryRunsOfApproved

LEMMA DraftKeeps ==
  ASSUME RecInv, NEW r \in Recs, DraftRecommendation(r)
  PROVE  RecInv'
<1>1. PICK order \in RecOrders : rec' = [rec EXCEPT ![r] = [status |-> "draft", order |-> order]]
  BY DEF DraftRecommendation
<1>2. rec[r] = NoRec /\ UNCHANGED <<judging, preview, decisions, brokerMode, recHalted, recLimited>>
  BY DEF DraftRecommendation
<1>3. \A q \in Recs : rec[q] \in RecRows => rec'[q] = rec[q]
  BY <1>1, <1>2, NoRecIsNoRow DEF RecInv, RecShapes
<1>4. RecShapes'
  BY <1>1, <1>2, <1>3 DEF RecInv, RecShapes, RecRows, Running
<1>5. ReviewsBehind'
  BY <1>1, <1>2, <1>3 DEF RecInv, RecShapes, ReviewsBehind
<1>6. DryRunsOfApproved'
  BY <1>2, <1>3, ApprovalsKeep DEF RecInv, Running
<1>7. DryRunsGuarded'
  BY <1>1, <1>2, <1>3 DEF RecInv, RecShapes, DryRunsGuarded, Running
<1> QED
  BY <1>4, <1>5, <1>6, <1>7 DEF RecInv

LEMMA LoadKeeps ==
  ASSUME RecInv, NEW v \in RecReviewers, NEW r \in Recs, LoadDraft(v, r)
  PROVE  RecInv'
<1>1. /\ judging' = [judging EXCEPT ![v] = [stage |-> "loaded", rec |-> r]]
      /\ judging[v].stage = "idle" /\ rec[r] # NoRec
      /\ UNCHANGED <<rec, preview, decisions, brokerMode, recHalted, recLimited>>
  BY DEF LoadDraft
<1>2. rec[r] \in RecRows
  BY <1>1 DEF RecInv, RecShapes
<1>3. \A w \in RecReviewers : judging[w].stage = "done" => judging'[w] = judging[w]
  BY <1>1 DEF RecInv, RecShapes
<1>4. RecShapes'
  BY <1>1, <1>2 DEF RecInv, RecShapes, Judgings, Running
<1>5. ReviewsBehind'
  BY <1>1, <1>3 DEF RecInv, ReviewsBehind
<1>6. DryRunsOfApproved'
  BY <1>1, <1>3, ApprovalsKeep DEF RecInv, Running
<1>7. DryRunsGuarded'
  BY <1>1 DEF RecInv, DryRunsGuarded
<1> QED
  BY <1>4, <1>5, <1>6, <1>7 DEF RecInv

(* The review that is done beside the one that decides a recommendation    *)
(* which was decided already.                                              *)
LEMMA ReviewKeeps ==
  ASSUME RecInv, NEW v \in RecReviewers, ReviewRecommendation(v)
  PROVE  RecInv'
<1> DEFINE r == judging[v].rec
<1>1. PICK status \in {"approved", "rejected"} : rec' = [rec EXCEPT ![r].status = status]
  BY DEF ReviewRecommendation
<1>2. /\ judging[v].stage = "loaded" /\ judging' = [judging EXCEPT ![v].stage = "done"]
      /\ UNCHANGED <<preview, decisions, brokerMode, recHalted, recLimited>>
  BY DEF ReviewRecommendation
<1>3. r \in Recs /\ rec[r] \in RecRows
  BY <1>2 DEF RecInv, RecShapes
<1>4. /\ rec'[r] \in RecRows /\ rec'[r].order = rec[r].order /\ rec'[r].status = status
      /\ \A q \in Recs \ {r} : rec'[q] = rec[q]
  <2>1. rec[r].order \in RecOrders /\ rec[r].status \in {"draft", "approved", "rejected"}
        /\ rec[r] = [status |-> rec[r].status, order |-> rec[r].order]
    BY <1>3 DEF RecRows
  <2>2. rec'[r] = [status |-> status, order |-> rec[r].order]
    BY <1>1, <1>3, <2>1 DEF RecInv, RecShapes
  <2> QED
    BY <1>1, <1>3, <2>1, <2>2 DEF RecInv, RecShapes, RecRows
<1>5. /\ judging'[v].rec = r /\ judging'[v].stage = "done" /\ judging'[v] \in Judgings
      /\ \A w \in RecReviewers \ {v} : judging'[w] = judging[w]
  <2>1. judging[v] \in Judgings /\ judging[v] = [stage |-> "loaded", rec |-> r]
    BY <1>2 DEF RecInv, RecShapes, Judgings
  <2>2. judging'[v] = [stage |-> "done", rec |-> r]
    BY <1>2, <2>1 DEF RecInv, RecShapes
  <2> QED
    BY <1>2, <1>3, <2>2 DEF RecInv, RecShapes, Judgings
<1> HIDE DEF r
<1>6. \A q \in Recs : rec[q] \in RecRows => rec'[q] \in RecRows /\ rec'[q].order = rec[q].order
  BY <1>4
<1>7. RecShapes'
  <2>1. rec' \in [Recs -> RecRows \union {NoRec}]
    BY <1>1, <1>4 DEF RecInv, RecShapes
  <2>2. judging' \in [RecReviewers -> Judgings]
    BY <1>2, <1>5 DEF RecInv, RecShapes
  <2>3. \A w \in RecReviewers : judging'[w].stage # "idle" =>
            judging'[w].rec \in Recs /\ rec'[judging'[w].rec] \in RecRows
    BY <1>3, <1>5, <1>6 DEF RecInv, RecShapes
  <2>4. \A p \in Previewers : Running(p) =>
            preview[p].rec \in Recs /\ rec'[preview[p].rec] \in RecRows
    BY <1>6 DEF RecInv, RecShapes
  <2> QED
    BY <1>2, <2>1, <2>2, <2>3, <2>4 DEF RecInv, RecShapes, Running
<1>8. ReviewsBehind'
  <2> SUFFICES ASSUME NEW q \in Recs, rec'[q] \in RecRows, rec'[q].status # "draft"
               PROVE  \E w \in RecReviewers : judging'[w].rec = q /\ judging'[w].stage = "done"
    BY DEF ReviewsBehind
  <2>1. CASE q = r
    BY <1>5, <2>1
  <2>2. CASE q # r
    <3>1. PICK w \in RecReviewers : judging[w].rec = q /\ judging[w].stage = "done"
      BY <1>4, <2>2 DEF RecInv, ReviewsBehind
    <3> QED
      BY <1>2, <1>5, <3>1
  <2> QED
    BY <2>1, <2>2
<1>9. DryRunsOfApproved'
  <2> SUFFICES ASSUME NEW p \in Previewers, Running(p)
               PROVE  LET q == preview[p].rec
                      IN  /\ MissingData(rec'[q]) \subseteq {"approval"}
                          /\ rec'[q].status = "approved"
                                \/ \E u, w \in RecReviewers :
                                      /\ u # w /\ judging'[u].rec = q /\ judging'[w].rec = q
                                      /\ judging'[u].stage = "done" /\ judging'[w].stage = "done"
    BY <1>2 DEF DryRunsOfApproved, MissingData, Running
  <2> DEFINE q == preview[p].rec
  <2>1. q \in Recs /\ rec[q] \in RecRows /\ MissingData(rec[q]) \subseteq {"approval"}
    BY DEF RecInv, RecShapes, DryRunsOfApproved
  <2>2. rec[q].status = "approved"
           \/ \E u, w \in RecReviewers :
                 /\ u # w /\ judging[u].rec = q /\ judging[w].rec = q
                 /\ judging[u].stage = "done" /\ judging[w].stage = "done"
    BY DEF RecInv, DryRunsOfApproved
  <2> HIDE DEF q
  <2>3. MissingData(rec'[q]) \subseteq {"approval"}
    BY <1>6, <2>1, OrderKept
  <2>4. \A w \in RecReviewers : judging[w].stage = "done" => judging'[w] = judging[w] /\ w # v
    BY <1>2, <1>5
  <2>5. rec'[q].status = "approved"
           \/ \E u, w \in RecReviewers :
                 /\ u # w /\ judging'[u].rec = q /\ judging'[w].rec = q
                 /\ judging'[u].stage = "done" /\ judging'[w].stage = "done"
    <3>1. CASE rec[q].status = "approved" /\ q = r
      <4>1. PICK w \in RecReviewers : judging[w].rec = q /\ judging[w].stage = "done"
        BY <2>1, <3>1 DEF RecInv, ReviewsBehind
      <4> QED
        BY <1>5, <2>4, <3>1, <4>1
    <3>2. CASE rec[q].status = "approved" /\ q # r
      BY <1>4, <2>1, <3>2
    <3>3. CASE rec[q].status # "approved"
      BY <2>2, <2>4, <3>3
    <3> QED
      BY <3>1, <3>2, <3>3
  <2> QED
    BY <2>3, <2>5 DEF q
<1>10. DryRunsGuarded'
  <2>1. \A p \in Previewers : preview[p].stage = "answered" =>
            rec'[preview[p].rec].order = rec[preview[p].rec].order
    BY <1>6 DEF RecInv, RecShapes, Running
  <2> QED
    BY <1>2, <2>1 DEF RecInv, DryRunsGuarded
<1> QED
  BY <1>7, <1>8, <1>9, <1>10 DEF RecInv

LEMMA CheckKeeps ==
  ASSUME RecInv, NEW p \in Previewers, NEW r \in Recs, CheckRoute(p, r)
  PROVE  RecInv'
<1> DEFINE stage == IF RouteCheck(rec[r]) = "eligible" THEN "checked" ELSE "refused"
<1>1. /\ preview' = [preview EXCEPT ![p] = [IdlePreview EXCEPT !.stage = stage, !.rec = r]]
      /\ preview[p].stage = "idle" /\ rec[r] # NoRec
      /\ UNCHANGED <<rec, judging, decisions, brokerMode, recHalted, recLimited>>
  BY DEF CheckRoute
<1>2. rec[r] \in RecRows
  BY <1>1 DEF RecInv, RecShapes
<1>3. /\ preview'[p] = [stage |-> stage, rec |-> r, guarded |-> FALSE, limited |-> FALSE,
                        allowed |-> FALSE]
      /\ preview'[p] \in Previews /\ \A q \in Previewers \ {p} : preview'[q] = preview[q]
  BY <1>1 DEF RecInv, RecShapes, IdlePreview, Previews
<1>4. stage = "checked" =>
         brokerMode = "paper" /\ rec[r].status = "approved" /\ MissingData(rec[r]) = {}
  <2> SUFFICES ASSUME stage = "checked"
               PROVE  brokerMode = "paper" /\ rec[r].status = "approved" /\ MissingData(rec[r]) = {}
    OBVIOUS
  <2>1. CanRouteToBrokerPaper /\ MissingData(rec[r]) = {}
    BY DEF RouteCheck
  <2> QED
    BY <2>1 DEF CanRouteToBrokerPaper, MissingData
<1> HIDE DEF stage
<1>5. stage \in {"checked", "refused"}
  BY DEF stage
<1>6. RecShapes'
  BY <1>1, <1>2, <1>3, <1>5 DEF RecInv, RecShapes, Running
<1>7. ReviewsBehind'
  BY <1>1 DEF RecInv, ReviewsBehind
<1>8. DryRunsOfApproved'
  <2>1. \A q \in Previewers \ {p} : Running(q)' = Running(q)
    BY <1>3 DEF Running
  <2>2. Running(p)' => stage = "checked"
    BY <1>3, <1>5 DEF Running
  <2> QED
    BY <1>1, <1>3, <1>4, <2>1, <2>2 DEF RecInv, DryRunsOfApproved, MissingData
<1>9. DryRunsGuarded'
  BY <1>1, <1>3, <1>4, <1>5 DEF RecInv, DryRunsGuarded
<1> QED
  BY <1>6, <1>7, <1>8, <1>9 DEF RecInv

LEMMA GuardKeeps ==
  ASSUME RecInv, NEW p \in Previewers, GuardDryRun(p)
  PROVE  RecInv'
<1> DEFINE guarded == brokerMode # "mixed" /\ ~ recHalted
<1>1. /\ preview' = [preview EXCEPT ![p].stage = "guarded", ![p].guarded = guarded]
      /\ preview[p].stage = "checked"
      /\ UNCHANGED <<rec, judging, decisions, brokerMode, recHalted, recLimited>>
  BY DEF GuardDryRun
<1>2. guarded \in BOOLEAN
  OBVIOUS
<1> HIDE DEF guarded
<1>3. /\ preview'[p].stage = "guarded" /\ preview'[p].rec = preview[p].rec
      /\ preview'[p] \in Previews /\ \A q \in Previewers \ {p} : preview'[q] = preview[q]
  BY <1>1, <1>2 DEF RecInv, RecShapes, Previews
<1>4. \A q \in Previewers : Running(q)' => Running(q) /\ preview'[q].rec = preview[q].rec
  BY <1>1, <1>3 DEF Running
<1>5. RecShapes'
  BY <1>1, <1>3, <1>4 DEF RecInv, RecShapes
<1>6. ReviewsBehind'
  BY <1>1 DEF RecInv, ReviewsBehind
<1>7. DryRunsOfApproved'
  BY <1>1, <1>4, ApprovalsKeep DEF RecInv
<1>8. DryRunsGuarded'
  <2>1. brokerMode = "paper" /\ {d \in decisions : d.by = p} = {}
    BY <1>1 DEF RecInv, DryRunsGuarded
  <2>2. \A q \in Previewers : q = p \/ preview'[q] = preview[q]
    BY <1>3
  <2> SUFFICES ASSUME NEW q \in Previewers
               PROVE  LET order == rec[preview'[q].rec].order
                          mine == {d \in decisions : d.by = q}
                      IN  /\ preview'[q].stage \in {"checked", "guarded"} => brokerMode = "paper"
                          /\ preview'[q].stage = "answered" =>
                                /\ preview'[q].allowed /\ preview'[q].limited /\ order.large =>
                                      order.type = "MARKET" /\ ~ order.priced
                                /\ \A d \in mine :
                                      d.rec = preview'[q].rec /\ d.allowed = preview'[q].allowed
                          /\ preview'[q].stage # "answered" => mine = {}
    BY <1>1 DEF DryRunsGuarded
  <2>3. CASE q = p
    BY <1>3, <2>1, <2>3
  <2>4. CASE preview'[q] = preview[q]
    BY <2>4 DEF RecInv, DryRunsGuarded
  <2> QED
    BY <2>2, <2>3, <2>4
<1> QED
  BY <1>5, <1>6, <1>7, <1>8 DEF RecInv

(* What a preview allows was compared with a limit, or lacks the price to  *)
(* compare: then it is a market order, for the others need one.            *)
LEMMA AllowedIsWithin ==
  ASSUME NEW row \in RecRows, MissingData(row) \subseteq {"approval"}, NEW guarded,
         PreflightStatus(guarded, row.order) \in {"allowed", "advisory"},
         recLimited, row.order.large
  PROVE  row.order.type = "MARKET" /\ ~ row.order.priced
<1>1. ~ row.order.priced
  BY DEF PreflightStatus
<1>2. "limit_price" \notin MissingData(row) /\ "stop_price" \notin MissingData(row)
  OBVIOUS
<1>3. row.order.type \notin {"LIMIT", "STOP_LIMIT"} /\ row.order.type \notin {"STOP", "STOP_LIMIT"}
  BY <1>1, <1>2 DEF MissingData
<1> QED
  BY <1>1, <1>3 DEF RecRows, RecOrders

LEMMA AnswerKeeps ==
  ASSUME RecInv, NEW p \in Previewers, PreflightDryRun(p)
  PROVE  RecInv'
<1> DEFINE r == preview[p].rec
           status == PreflightStatus(preview[p].guarded, rec[r].order)
           allowed == preview[p].guarded /\ status \in {"allowed", "advisory"}
           row == [rec |-> r, by |-> p, allowed |-> allowed]
<1>1. /\ preview' = [preview EXCEPT ![p].stage = "answered", ![p].allowed = allowed,
                                    ![p].limited = recLimited]
      /\ preview[p].stage = "guarded"
      /\ UNCHANGED <<rec, judging, brokerMode, recHalted, recLimited>>
  BY DEF PreflightDryRun
<1>2. decisions' = decisions \union {row} \/ decisions' = decisions
  BY DEF PreflightDryRun
<1>3. r \in Recs /\ rec[r] \in RecRows /\ MissingData(rec[r]) \subseteq {"approval"}
  BY <1>1 DEF RecInv, RecShapes, DryRunsOfApproved, Running
<1>4. allowed \in BOOLEAN /\ recLimited \in BOOLEAN
  BY <1>1 DEF RecInv, RecShapes, Previews
<1>5. allowed /\ recLimited /\ rec[r].order.large =>
         rec[r].order.type = "MARKET" /\ ~ rec[r].order.priced
  <2> SUFFICES ASSUME allowed, recLimited, rec[r].order.large
               PROVE  rec[r].order.type = "MARKET" /\ ~ rec[r].order.priced
    OBVIOUS
  <2>1. PreflightStatus(preview[p].guarded, rec[r].order) \in {"allowed", "advisory"}
    OBVIOUS
  <2> HIDE DEF r, status, allowed
  <2> QED
    BY <1>3, <2>1, AllowedIsWithin
<1> HIDE DEF r, allowed
<1>6. /\ preview'[p].stage = "answered" /\ preview'[p].rec = r /\ preview'[p].allowed = allowed
      /\ preview'[p].limited = recLimited /\ preview'[p] \in Previews
      /\ \A q \in Previewers \ {p} : preview'[q] = preview[q]
  BY <1>1, <1>4 DEF RecInv, RecShapes, Previews, r
<1>7. \A q \in Previewers : Running(q)' => Running(q) /\ preview'[q].rec = preview[q].rec
  BY <1>1, <1>6 DEF Running, r
<1>8. RecShapes'
  <2>1. decisions' \subseteq Decisions
    BY <1>2, <1>3, <1>4 DEF RecInv, RecShapes, Decisions
  <2> QED
    BY <1>1, <1>6, <1>7, <2>1 DEF RecInv, RecShapes
<1>9. ReviewsBehind'
  BY <1>1 DEF RecInv, ReviewsBehind
<1>10. DryRunsOfApproved'
  BY <1>1, <1>7, ApprovalsKeep DEF RecInv
<1>11. DryRunsGuarded'
  <2> SUFFICES ASSUME NEW q \in Previewers
               PROVE  LET order == rec[preview'[q].rec].order
                          mine == {d \in decisions' : d.by = q}
                      IN  /\ preview'[q].stage \in {"checked", "guarded"} => brokerMode = "paper"
                          /\ preview'[q].stage = "answered" =>
                                /\ preview'[q].allowed /\ preview'[q].limited /\ order.large =>
                                      order.type = "MARKET" /\ ~ order.priced
                                /\ \A d \in mine :
                                      d.rec = preview'[q].rec /\ d.allowed = preview'[q].allowed
                          /\ preview'[q].stage # "answered" => mine = {}
    BY <1>1 DEF DryRunsGuarded
  <2>1. CASE q = p
    <3>1. {d \in decisions : d.by = p} = {}
      BY <1>1 DEF RecInv, DryRunsGuarded
    <3>2. \A d \in decisions' : d.by = p => d = row
      BY <1>2, <3>1
    <3> QED
      BY <1>5, <1>6, <2>1, <3>2
  <2>2. CASE q # p
    <3>1. {d \in decisions' : d.by = q} = {d \in decisions : d.by = q}
      BY <1>2, <2>2
    <3>2. preview'[q] = preview[q]
      BY <1>6, <2>2
    <3> QED
      BY <3>1, <3>2 DEF RecInv, DryRunsGuarded
  <2> QED
    BY <2>1, <2>2
<1> QED
  BY <1>8, <1>9, <1>10, <1>11 DEF RecInv

LEMMA RestartKeeps ==
  ASSUME RecInv, RestartBroker
  PROVE  RecInv'
<1>1. /\ UNCHANGED <<rec, decisions, recHalted, recLimited>>
      /\ brokerMode' \in BrokerModes
      /\ judging' = [v \in RecReviewers |->
                        IF judging[v].stage = "loaded" THEN IdleReview ELSE judging[v]]
      /\ preview' = [p \in Previewers |->
                        IF preview[p].stage \in {"checked", "guarded"} THEN IdlePreview ELSE preview[p]]
  BY DEF RestartBroker
<1>2. \A v \in RecReviewers : judging[v].stage = "done" => judging'[v] = judging[v]
  BY <1>1
<1>3. IdleReview \in Judgings /\ IdleReview.stage = "idle"
      /\ IdlePreview \in Previews /\ IdlePreview.stage = "idle"
  BY DEF IdleReview, IdlePreview, Judgings, Previews
<1>4. \A p \in Previewers : Running(p)' => Running(p) /\ preview'[p] = preview[p]
                                             /\ preview[p].stage = "answered"
  BY <1>1, <1>3 DEF Running
<1>5. RecShapes'
  <2>1. judging' \in [RecReviewers -> Judgings] /\ preview' \in [Previewers -> Previews]
    BY <1>1, <1>3 DEF RecInv, RecShapes
  <2>2. \A v \in RecReviewers : judging'[v].stage # "idle" =>
            judging'[v].rec \in Recs /\ rec[judging'[v].rec] \in RecRows
    BY <1>1, <1>3 DEF RecInv, RecShapes
  <2>3. \A p \in Previewers : Running(p)' =>
            preview'[p].rec \in Recs /\ rec[preview'[p].rec] \in RecRows
    BY <1>4 DEF RecInv, RecShapes
  <2> QED
    BY <1>1, <2>1, <2>2, <2>3 DEF RecInv, RecShapes
<1>6. ReviewsBehind'
  BY <1>1, <1>2 DEF RecInv, ReviewsBehind
<1>7. DryRunsOfApproved'
  BY <1>1, <1>2, <1>4, ApprovalsKeep DEF RecInv
<1>8. DryRunsGuarded'
  <2>1. \A p \in Previewers :
            \/ preview'[p] = preview[p] /\ preview[p].stage \notin {"checked", "guarded"}
            \/ preview'[p].stage = "idle" /\ preview[p].stage # "answered"
    BY <1>1, <1>3
  <2> QED
    BY <1>1, <2>1 DEF RecInv, DryRunsGuarded
<1> QED
  BY <1>5, <1>6, <1>7, <1>8 DEF RecInv

LEMMA RecInductive == RecInv /\ [RecNext]_recVars => RecInv'
<1> SUFFICES ASSUME RecInv, [RecNext]_recVars PROVE RecInv'
  OBVIOUS
<1>1. ASSUME UNCHANGED <<rec, judging, preview, decisions, brokerMode>>,
             recHalted' \in BOOLEAN, recLimited' \in BOOLEAN
      PROVE  RecInv'
  <2>1. RecShapes'
    BY <1>1 DEF RecInv, RecShapes, Running
  <2>2. ReviewsBehind'
    BY <1>1 DEF RecInv, ReviewsBehind
  <2>3. DryRunsOfApproved'
    BY <1>1, ApprovalsKeep DEF RecInv, Running
  <2>4. DryRunsGuarded'
    BY <1>1 DEF RecInv, DryRunsGuarded
  <2> QED
    BY <2>1, <2>2, <2>3, <2>4 DEF RecInv
<1>2. CASE HaltOrResume \/ SetLimit \/ UNCHANGED recVars
  <2>1. recHalted \in BOOLEAN /\ recLimited \in BOOLEAN
    BY DEF RecInv, RecShapes
  <2>2. UNCHANGED <<rec, judging, preview, decisions, brokerMode>>
    BY <1>2 DEF HaltOrResume, SetLimit, recVars
  <2>3. recHalted' \in BOOLEAN /\ recLimited' \in BOOLEAN
    BY <1>2, <2>1 DEF HaltOrResume, SetLimit, recVars
  <2> QED
    BY <1>1, <2>2, <2>3
<1> QED
  BY <1>2, DraftKeeps, LoadKeeps, ReviewKeeps, CheckKeeps, GuardKeeps, AnswerKeeps,
     RestartKeeps DEF RecNext

-----------------------------------------------------------------------------

(* The candidates for a baseline.  A row that a create did not see came    *)
(* later, or an update made it active again and left its mark (LookedAt).  *)

CandRows ==
    [pair : Pairs, status : CandidateStatuses, reviewed : BOOLEAN, seen : Nat]

CandShapes ==
    /\ candidate \in Seq(CandRows)
    /\ \A c \in Creators : creating[c].stage = "checked" =>
          creating[c].pair \in Pairs /\ creating[c].seen \in 0..Len(candidate)
    /\ \A u \in Updaters : updating[u].stage = "loaded" => updating[u].row \in 1..Len(candidate)
    /\ creating \in [Creators -> [stage : {"idle", "checked"}, pair : Pairs \union {NotCreating.pair},
                                  seen : Nat]]
    /\ updating \in [Updaters -> [stage : {"idle", "loaded"}, row : Nat,
                                  loaded : CandidateStatuses \union {NoStatus}]]

LookedAt ==
    \A c \in Creators, pair \in Pairs :
        creating[c].stage = "checked" /\ creating[c].pair = pair =>
            \A n \in 1..creating[c].seen : n \in ActiveOf(pair) => candidate[n].reviewed

CandInv == CandShapes /\ LookedAt /\ OneActiveUnlessRaced

LEMMA CandStart == CandInit => CandInv
<1> SUFFICES ASSUME CandInit PROVE CandInv
  OBVIOUS
<1>1. CandShapes
  BY DEF CandInit, CandShapes, NotCreating, NotUpdating
<1>2. LookedAt /\ OneActiveUnlessRaced
  BY DEF CandInit, LookedAt, OneActiveUnlessRaced, ActiveOf, NotCreating
<1> QED
  BY <1>1, <1>2 DEF CandInv

LEMMA DuplicateCheckKeeps ==
  ASSUME CandInv, NEW c \in Creators, NEW pair \in Pairs, CheckDuplicate(c, pair)
  PROVE  CandInv'
<1>1. /\ ActiveOf(pair) = {} /\ UNCHANGED <<candidate, updating>>
      /\ creating' = [creating EXCEPT ![c] =
                         [stage |-> "checked", pair |-> pair, seen |-> Len(candidate)]]
  BY DEF CheckDuplicate
<1>2. Len(candidate) \in Nat
  BY DEF CandInv, CandShapes
<1>3. /\ creating'[c] = [stage |-> "checked", pair |-> pair, seen |-> Len(candidate)]
      /\ \A d \in Creators \ {c} : creating'[d] = creating[d]
  BY <1>1 DEF CandInv, CandShapes
<1>4. CandShapes'
  BY <1>1, <1>2, <1>3 DEF CandInv, CandShapes
<1>5. LookedAt'
  BY <1>1, <1>3 DEF CandInv, LookedAt, ActiveOf
<1>6. OneActiveUnlessRaced'
  BY <1>1 DEF CandInv, OneActiveUnlessRaced, ActiveOf
<1> QED
  BY <1>4, <1>5, <1>6 DEF CandInv

LEMMA CreateKeeps ==
  ASSUME CandInv, NEW c \in Creators, CreateCandidate(c)
  PROVE  CandInv'
<1> DEFINE len == Len(candidate)
<1>1. PICK status \in CandidateStatuses :
         candidate' = Append(candidate, [pair |-> creating[c].pair, status |-> status,
                                         reviewed |-> FALSE, seen |-> creating[c].seen])
  BY DEF CreateCandidate
<1>2. /\ creating[c].stage = "checked" /\ UNCHANGED updating
      /\ creating' = [creating EXCEPT ![c] = NotCreating]
  BY DEF CreateCandidate
<1>3. creating[c].pair \in Pairs /\ creating[c].seen \in 0..len /\ len \in Nat
  BY <1>2 DEF CandInv, CandShapes
<1> DEFINE row == [pair |-> creating[c].pair, status |-> status, reviewed |-> FALSE,
                   seen |-> creating[c].seen]
<1>4. row \in CandRows
  BY <1>3 DEF CandRows
<1>5. /\ candidate' \in Seq(CandRows) /\ Len(candidate') = len + 1
      /\ candidate'[len + 1] = row
      /\ \A n \in 1..len : candidate'[n] = candidate[n]
  <2>1. candidate \in Seq(CandRows)
    BY DEF CandInv, CandShapes
  <2> HIDE DEF row
  <2> QED
    BY <1>1, <1>4, <2>1 DEF row
<1>6. /\ creating'[c].stage = "idle" /\ \A d \in Creators \ {c} : creating'[d] = creating[d]
      /\ creating'[c] = NotCreating
  BY <1>2 DEF CandInv, CandShapes, NotCreating
<1>7. CandShapes'
  <2>1. \A d \in Creators : creating'[d].stage = "checked" =>
            creating'[d].pair \in Pairs /\ creating'[d].seen \in 0..Len(candidate')
    <3> SUFFICES ASSUME NEW d \in Creators, creating'[d].stage = "checked"
                 PROVE  creating'[d].pair \in Pairs /\ creating'[d].seen \in 0..Len(candidate')
      OBVIOUS
    <3>1. creating'[d] = creating[d]
      BY <1>6
    <3>2. creating[d].pair \in Pairs /\ creating[d].seen \in 0..len
      BY <3>1 DEF CandInv, CandShapes
    <3> HIDE DEF len
    <3> QED
      BY <1>3, <1>5, <3>1, <3>2
  <2>2. \A u \in Updaters : updating[u].stage = "loaded" => updating[u].row \in 1..Len(candidate')
    BY <1>3, <1>5 DEF CandInv, CandShapes
  <2>3. creating' \in [Creators -> [stage : {"idle", "checked"},
                                    pair : Pairs \union {NotCreating.pair}, seen : Nat]]
    BY <1>2 DEF CandInv, CandShapes, NotCreating
  <2> QED
    BY <1>2, <1>5, <2>1, <2>2, <2>3 DEF CandInv, CandShapes
<1>8. \A pair \in Pairs : /\ ActiveOf(pair)' \subseteq ActiveOf(pair) \union {len + 1}
                          /\ len + 1 \in ActiveOf(pair)' => pair = creating[c].pair
                          /\ ActiveOf(pair) \subseteq 1..len
  <2>1. DOMAIN candidate = 1..len /\ DOMAIN candidate' = 1..(len + 1)
    BY <1>5 DEF CandInv, CandShapes
  <2>2. \A n \in 1..(len + 1) : n \in 1..len \/ n = len + 1
    BY <1>3
  <2> HIDE DEF len
  <2> QED
    BY <1>5, <2>1, <2>2 DEF ActiveOf
<1>9. LookedAt'
  <2> SUFFICES ASSUME NEW d \in Creators, NEW pair \in Pairs,
                      creating'[d].stage = "checked", creating'[d].pair = pair,
                      NEW n \in 1..creating'[d].seen, n \in ActiveOf(pair)'
               PROVE  candidate'[n].reviewed
    BY DEF LookedAt
  <2>1. creating'[d] = creating[d] /\ creating[d].seen \in 0..len
    BY <1>6 DEF CandInv, CandShapes
  <2>2. n \in 1..len /\ n # len + 1
    BY <1>3, <2>1
  <2>3. n \in ActiveOf(pair)
    BY <1>8, <2>2
  <2> QED
    BY <1>5, <2>1, <2>2, <2>3 DEF CandInv, LookedAt
<1>10. OneActiveUnlessRaced'
  <2> SUFFICES ASSUME NEW pair \in Pairs, NEW m \in ActiveOf(pair)', NEW n \in ActiveOf(pair)', m < n
               PROVE  \/ candidate'[n].seen < m
                      \/ candidate'[m].reviewed \/ candidate'[n].reviewed
    BY DEF OneActiveUnlessRaced
  <2>1. /\ m \in ActiveOf(pair) \union {len + 1} /\ n \in ActiveOf(pair) \union {len + 1}
        /\ ActiveOf(pair) \subseteq 1..len
    BY <1>8
  <2>2. m \in ActiveOf(pair) /\ m \in 1..len
    BY <1>3, <2>1
  <2>3. CASE n = len + 1
    <3>1. pair = creating[c].pair /\ candidate'[n].seen = creating[c].seen
      BY <1>5, <1>8, <2>3
    <3>2. CASE m \in 1..creating[c].seen
      BY <1>2, <1>5, <2>2, <3>1, <3>2 DEF CandInv, LookedAt
    <3>3. CASE m \notin 1..creating[c].seen
      BY <1>3, <2>2, <3>1, <3>3
    <3> QED
      BY <3>2, <3>3
  <2>4. CASE n # len + 1
    BY <1>5, <2>1, <2>2, <2>4 DEF CandInv, OneActiveUnlessRaced
  <2> QED
    BY <2>3, <2>4
<1> QED
  BY <1>7, <1>9, <1>10 DEF CandInv

LEMMA LoadRowKeeps ==
  ASSUME CandInv, NEW u \in Updaters, NEW n \in 1..MaxCandidates, LoadCandidate(u, n)
  PROVE  CandInv'
<1>1. /\ n \in DOMAIN candidate /\ UNCHANGED <<candidate, creating>>
      /\ updating' = [updating EXCEPT ![u] = [stage |-> "loaded", row |-> n,
                                              loaded |-> candidate[n].status]]
  BY DEF LoadCandidate
<1>2. n \in 1..Len(candidate) /\ n \in Nat /\ candidate[n].status \in CandidateStatuses
  <2>1. candidate \in Seq(CandRows)
    BY DEF CandInv, CandShapes
  <2>2. n \in 1..Len(candidate)
    BY <1>1, <2>1
  <2>3. candidate[n] \in CandRows
    BY <2>1, <2>2
  <2> QED
    BY <2>2, <2>3 DEF CandRows
<1>3. CandShapes'
  BY <1>1, <1>2 DEF CandInv, CandShapes
<1>4. LookedAt'
  BY <1>1 DEF CandInv, LookedAt, ActiveOf
<1>5. OneActiveUnlessRaced'
  BY <1>1 DEF CandInv, OneActiveUnlessRaced, ActiveOf
<1> QED
  BY <1>3, <1>4, <1>5 DEF CandInv

LEMMA RowWritten ==
  ASSUME NEW row \in CandRows, NEW status, NEW mark
  PROVE  [row EXCEPT !.status = status, !.reviewed = mark]
            = [pair |-> row.pair, status |-> status, reviewed |-> mark, seen |-> row.seen]
<1> DEFINE written == [row EXCEPT !.status = status]
<1>1. written =
         [pair |-> row.pair, status |-> status, reviewed |-> row.reviewed, seen |-> row.seen]
  BY DEF CandRows
<1>2. \A a, b, c, d :
         [[pair |-> a, status |-> b, reviewed |-> c, seen |-> d] EXCEPT !.reviewed = mark]
            = [pair |-> a, status |-> b, reviewed |-> mark, seen |-> d]
  OBVIOUS
<1>3. [row EXCEPT !.status = status, !.reviewed = mark] = [written EXCEPT !.reviewed = mark]
  OBVIOUS
<1> HIDE DEF written
<1>4. [written EXCEPT !.reviewed = mark]
         = [pair |-> row.pair, status |-> status, reviewed |-> mark, seen |-> row.seen]
  BY <1>1, <1>2
<1> QED
  BY <1>3, <1>4

LEMMA UpdateKeeps ==
  ASSUME CandInv, NEW u \in Updaters, UpdateCandidate(u)
  PROVE  CandInv'
<1> DEFINE k == updating[u].row
<1>1. PICK status \in CandidateStatuses \union {NoStatus}, named \in BOOLEAN :
         candidate' = [candidate EXCEPT
            ![k].status = IF status \in {NoStatus, updating[u].loaded} THEN @ ELSE status,
            ![k].reviewed = @ \/ status # NoStatus \/ named]
  BY DEF UpdateCandidate
<1>2. /\ updating[u].stage = "loaded" /\ updating' = [updating EXCEPT ![u] = NotUpdating]
      /\ UNCHANGED creating
  BY DEF UpdateCandidate
<1>3. k \in 1..Len(candidate) /\ candidate \in Seq(CandRows)
  BY <1>2 DEF CandInv, CandShapes
<1> DEFINE row == candidate[k]
           new == IF status \in {NoStatus, updating[u].loaded} THEN row.status ELSE status
           mark == row.reviewed \/ status # NoStatus \/ named
<1>4. row \in CandRows
  BY <1>3, ElementOfSeq
<1>5. new \in CandidateStatuses /\ mark \in BOOLEAN /\ (new = row.status \/ mark = TRUE)
      /\ (row.reviewed => mark)
  BY <1>4 DEF CandRows
<1> HIDE DEF k, new, mark
<1>6. /\ DOMAIN candidate' = DOMAIN candidate
      /\ candidate'[k] = [pair |-> row.pair, status |-> new, reviewed |-> mark, seen |-> row.seen]
      /\ \A n \in 1..Len(candidate) : n # k => candidate'[n] = candidate[n]
  <2> HIDE DEF row
  <2>1. candidate' = [candidate EXCEPT ![k] = [row EXCEPT !.status = new, !.reviewed = mark]]
    BY <1>1, <1>3 DEF row, new, mark, k
  <2>2. [row EXCEPT !.status = new, !.reviewed = mark]
            = [pair |-> row.pair, status |-> new, reviewed |-> mark, seen |-> row.seen]
    BY <1>4, RowWritten
  <2> QED
    BY <1>3, <2>1, <2>2
<1>7. candidate' \in Seq(CandRows) /\ Len(candidate') = Len(candidate)
  <2>1. candidate'[k] \in CandRows
    BY <1>4, <1>5, <1>6 DEF CandRows
  <2>2. \A n \in 1..Len(candidate) : candidate'[n] \in CandRows
    BY <1>3, <1>6, <2>1, ElementOfSeq
  <2>3. candidate' = [candidate EXCEPT ![k] = candidate'[k]]
    BY <1>1, <1>3, <1>6 DEF k
  <2> QED
    BY <1>3, <2>1, <2>3
<1>8. \A n \in 1..Len(candidate) :
         /\ candidate'[n].pair = candidate[n].pair /\ candidate'[n].seen = candidate[n].seen
         /\ candidate'[n].status = candidate[n].status \/ candidate'[n].reviewed
         /\ candidate[n].reviewed => candidate'[n].reviewed
  BY <1>5, <1>6
<1>9. \A pair : \A n \in ActiveOf(pair)' : n \in ActiveOf(pair) \/ candidate'[n].reviewed
  BY <1>3, <1>6, <1>8 DEF ActiveOf
<1>10. \A pair : ActiveOf(pair)' \subseteq 1..Len(candidate)
  BY <1>3, <1>6 DEF ActiveOf
<1>11. CandShapes'
  <2>1. updating' \in [Updaters -> [stage : {"idle", "loaded"}, row : Nat,
                                    loaded : CandidateStatuses \union {NoStatus}]]
    BY <1>2 DEF CandInv, CandShapes, NotUpdating
  <2>2. \A v \in Updaters : updating'[v].stage = "loaded" => updating'[v] = updating[v]
    BY <1>2 DEF CandInv, CandShapes, NotUpdating
  <2> QED
    BY <1>2, <1>7, <2>1, <2>2 DEF CandInv, CandShapes
<1>12. LookedAt'
  BY <1>2, <1>8, <1>9, <1>10 DEF CandInv, LookedAt
<1>13. OneActiveUnlessRaced'
  BY <1>8, <1>9, <1>10 DEF CandInv, OneActiveUnlessRaced
<1> QED
  BY <1>11, <1>12, <1>13 DEF CandInv

LEMMA CandInductive == CandInv /\ [CandNext]_candVars => CandInv'
<1> SUFFICES ASSUME CandInv, [CandNext]_candVars PROVE CandInv'
  OBVIOUS
<1>1. CASE UNCHANGED candVars
  <2>1. CandShapes'
    BY <1>1 DEF candVars, CandInv, CandShapes
  <2>2. LookedAt' /\ OneActiveUnlessRaced'
    BY <1>1 DEF candVars, CandInv, LookedAt, OneActiveUnlessRaced, ActiveOf
  <2> QED
    BY <2>1, <2>2 DEF CandInv
<1> QED
  BY <1>1, DuplicateCheckKeeps, CreateKeeps, LoadRowKeeps, UpdateKeeps DEF CandNext

-----------------------------------------------------------------------------

LEMMA RecommendedStart == MCInit => RecInv /\ CandInv
BY RecStart, CandStart DEF MCInit

LEMMA RecommendedInductive ==
  RecInv /\ CandInv /\ [MCNext]_recordsVars => RecInv' /\ CandInv'
<1> SUFFICES ASSUME RecInv, CandInv, [MCNext]_recordsVars PROVE RecInv' /\ CandInv'
  OBVIOUS
<1>1. [RecNext]_recVars /\ [CandNext]_candVars
  BY DEF MCNext, recordsVars
<1> QED
  BY <1>1, RecInductive, CandInductive

(* Whatever reviews, previews, halts and restarts overlap, a dry run is of *)
(* an order that was approved and keeps to the limit it was compared with; *)
(* whatever creates and updates overlap, a run and config has one active   *)
(* candidate, but for those that raced.                                    *)
THEOREM RecommendationsAreGuarded == MCSpec => []RecommendationsGuarded
<1>1. RecInv /\ CandInv => RecommendationsGuarded
  BY DEF RecInv, CandInv, RecommendationsGuarded
<1> QED
  BY <1>1, RecommendedStart, RecommendedInductive, PTL DEF MCSpec

--------------------------------------------------------------------------------

(* What every reachable state has: the jobs in progress are registered by  *)
(* the settings of the process, and the last run begun waited its time.    *)
ScheduleInv ==
    /\ ScheduleTypeOK
    /\ process = Down => begun = Down
    /\ process # Down => busy \subseteq Registered(process)
    /\ SchedulesKept

(* Whatever the settings name, an interval is at least the shortest.       *)
LEMMA EveryIsLong ==
  ASSUME NEW s \in Settings, NEW j \in DOMAIN Shortest
  PROVE  Every(s, j) >= Shortest[j] /\ Shortest[j] >= 1
<1>1. s.pace \in Int
  BY ScheduleAssumption DEF Settings
<1>2. j \in {"signal_sweep", "auto_paper_trader", "historical_import",
             "learning_trainer", "broker_tickle", "pnl_snapshot_capture"}
  BY DEF Shortest
<1>3. Shortest[j] \in {30, 1, 60, 55, 15}
  BY <1>2 DEF Shortest
<1>4. Shortest[j] \in Int /\ Shortest[j] >= 1
  BY <1>3
<1> QED
  BY <1>1, <1>4 DEF Every

LEMMA IntervalsHaveShortest ==
  ASSUME NEW s \in Settings
  PROVE  /\ OnInterval(s) \subseteq DOMAIN Shortest
         /\ OnInterval(s) \subseteq Registered(s) /\ Registered(s) \subseteq Jobs
         /\ "auto_paper_trader" \in OnInterval(s) => s.mode = "paper" /\ ~s.live
         /\ Registered(s) \ OnInterval(s) \subseteq
               Listed \ {"signal_sweep", "historical_import", "learning_trainer"}
  BY DEF Settings, OnInterval, Registered, InBackground, Jobs, Listed, Shortest

LEMMA ScheduleStart == ScheduleInit => ScheduleInv
  BY DEF ScheduleInit, ScheduleInv, ScheduleTypeOK, SchedulesKept

LEMMA ScheduleStepKeeps == ScheduleInv /\ [ScheduleNext]_scheduleVars => ScheduleInv'
<1> SUFFICES ASSUME ScheduleInv, [ScheduleNext]_scheduleVars PROVE ScheduleInv'
  OBVIOUS
<1> USE ScheduleAssumption DEF ScheduleInv, ScheduleTypeOK, SchedulesKept
<1>1. CASE \E s \in Settings : Boot(s)
  BY <1>1 DEF Boot, Registered
<1>2. CASE Shutdown
  BY <1>2 DEF Shutdown
<1>3. ASSUME NEW j \in Jobs, Wait(j) PROVE ScheduleInv'
  BY <1>3 DEF Wait
<1>4. ASSUME NEW j \in Jobs, Fire(j) PROVE ScheduleInv'
  <2>1. process \in Settings /\ j \in OnInterval(process) /\ process' = process
    BY <1>4 DEF Fire
  <2>2. /\ since[j] \in Nat /\ since[j] >= Shortest[j] /\ since[j] # 0
        /\ j \in DOMAIN Shortest /\ j \in Registered(process)
    BY <1>4, <2>1, EveryIsLong, IntervalsHaveShortest DEF Fire, Shortest
  <2>3. busy' \subseteq Registered(process)
    BY <1>4, <2>1, <2>2 DEF Fire
  <2>4. CASE j \in busy
    BY <1>4, <2>1, <2>3, <2>4 DEF Fire, Registered
  <2>5. CASE j \notin busy
    <3>1. begun' = [job |-> j, after |-> since[j]] /\ begun' # Down
      BY <1>4, <2>2, <2>5 DEF Fire
    <3>2. j = "auto_paper_trader" => process.mode = "paper" /\ ~process.live
      BY <2>1, IntervalsHaveShortest
    <3> QED
      BY <1>4, <2>1, <2>2, <2>3, <3>1, <3>2 DEF Fire, Registered
  <2> QED
    BY <2>4, <2>5
<1>5. ASSUME NEW j \in Jobs, FireAtHour(j) PROVE ScheduleInv'
  <2>1. process \in Settings /\ process' = process /\ j \in Registered(process)
    BY <1>5 DEF FireAtHour
  <2>2. j \in Listed \ {"signal_sweep", "historical_import", "learning_trainer"}
    BY <1>5, <2>1, IntervalsHaveShortest DEF FireAtHour
  <2>3. busy' \subseteq Registered(process)
    BY <1>5, <2>1 DEF FireAtHour
  <2> QED
    BY <1>5, <2>1, <2>2, <2>3 DEF FireAtHour, Registered
<1>6. ASSUME NEW j \in Jobs, Finish(j) PROVE ScheduleInv'
  BY <1>6 DEF Finish
<1>7. CASE UNCHANGED scheduleVars
  BY <1>7 DEF scheduleVars
<1> QED
  BY <1>1, <1>2, <1>3, <1>4, <1>5, <1>6, <1>7 DEF ScheduleNext

(* For every interval that the settings may name, the background jobs keep *)
(* to their switches and least intervals, and a process that is not on     *)
(* paper runs no trader in background.                                     *)
THEOREM JobsKeepTheirSchedule == ScheduleSpec => []SchedulesKept
<1>1. ScheduleInv => SchedulesKept
  BY DEF ScheduleInv
<1> QED
  BY <1>1, ScheduleStart, ScheduleStepKeeps, PTL DEF ScheduleSpec

-----------------------------------------------------------------------------
(* The bars and their quality.  What GapsAreHoles says is a fact about     *)
(* finite sets of times; the rest is inductive (QualityInv).               *)

(* Every second number of an interval.                                     *)
LEMMA EverySecond ==
  ASSUME NEW a \in Int, NEW n \in Nat
  PROVE  LET T == {x \in a..(a + 2 * n) : (x - a) % 2 = 0}
         IN  IsFiniteSet(T) /\ Cardinality(T) = n + 1
<1> DEFINE T == {x \in a..(a + 2 * n) : (x - a) % 2 = 0}
           f == [k \in 0..n |-> a + 2 * k]
<1>1. \A k \in 0..n : f[k] \in T
  OBVIOUS
<1>2. \A x \in T : \E k \in 0..n : f[k] = x
  <2> SUFFICES ASSUME NEW x \in T PROVE \E k \in 0..n : f[k] = x
    OBVIOUS
  <2>1. (x - a) \div 2 \in 0..n /\ a + 2 * ((x - a) \div 2) = x
    OBVIOUS
  <2> QED
    BY <2>1
<1>3. f \in [0..n -> T] /\ \A j, k \in 0..n : f[j] = f[k] => j = k
  BY <1>1
<1>4. f \in Bijection(0..n, T)
  BY <1>2, <1>3 DEF Bijection, Injection, Surjection, IsInjective
<1>5. IsFiniteSet(0..n) /\ Cardinality(0..n) = n + 1
  BY FS_Interval
<1> HIDE DEF T, f
<1>6. ExistsBijection(0..n, T)
  BY <1>4 DEF ExistsBijection
<1>7. IsFiniteSet(T) /\ Cardinality(T) = n + 1
  BY <1>5, <1>6, FS_Bijection
<1> QED
  BY <1>7 DEF T

(* The gaps of the bars.                                                   *)

FiniteTimes(S) == S \in SUBSET Nat /\ IsFiniteSet(S)

AfterHole(S) == {t \in S : Before(S, t) # {} /\ (t - LastBefore(S, t)) \div Step > 1}
GapAt(S, t) == [from |-> LastBefore(S, t) + Step, to |-> t - Step,
                missing |-> (t - LastBefore(S, t)) \div Step - 1]

LEMMA LastBeforeIs ==
  ASSUME NEW S, FiniteTimes(S), NEW t \in S, Before(S, t) # {}
  PROVE  /\ LastBefore(S, t) \in S /\ LastBefore(S, t) < t
         /\ \A u \in S : u < t => u <= LastBefore(S, t)
<1>1. Before(S, t) \in SUBSET Nat /\ IsFiniteSet(Before(S, t))
  BY FS_Subset DEF FiniteTimes, Before
<1>2. Max(Before(S, t)) \in Before(S, t) /\ \A u \in Before(S, t) : u <= Max(Before(S, t))
  BY <1>1, GreatestOf
<1>3. LastBefore(S, t) \in Before(S, t) /\ \A u \in Before(S, t) : u <= LastBefore(S, t)
  BY <1>2 DEF LastBefore
<1> QED
  BY <1>3 DEF Before

LEMMA GapsAfterHoles == \A S : GapsOf(S) = {GapAt(S, t) : t \in AfterHole(S)}
BY DEF GapsOf, GapAt, AfterHole

(* The gap g is what is between the bars l and t.                          *)
Hole(S, l, t, g) ==
    /\ l \in S /\ t \in S /\ t - l >= 4
    /\ \A u \in S : u <= l \/ t <= u
    /\ g = [from |-> l + 2, to |-> t - 2, missing |-> (t - l) \div 2 - 1]

LEMMA GapIsHole ==
  ASSUME NEW S, FiniteTimes(S), NEW g \in GapsOf(S)
  PROVE  \E l, t \in Nat : Hole(S, l, t, g)
<1>0. PICK t \in AfterHole(S) : g = GapAt(S, t)
  BY GapsAfterHoles
<1> DEFINE l == LastBefore(S, t)
<1>1. t \in S /\ Before(S, t) # {} /\ (t - l) \div 2 > 1
  BY DEF AfterHole, Step
<1>2. l \in S /\ l < t /\ \A u \in S : u < t => u <= l
  BY <1>1, LastBeforeIs
<1>3. GapAt(S, t) = [from |-> l + 2, to |-> t - 2, missing |-> (t - l) \div 2 - 1]
  BY DEF GapAt, Step
<1> HIDE DEF l
<1>4. l \in Nat /\ t \in Nat /\ S \subseteq Nat
  BY <1>1, <1>2 DEF FiniteTimes
<1>5. t - l >= 4
  BY <1>1, <1>4
<1>6. \A u \in S : u <= l \/ t <= u
  BY <1>2, <1>4
<1> QED
  BY <1>0, <1>1, <1>2, <1>3, <1>4, <1>5, <1>6 DEF Hole

LEMMA GapsAreRows ==
  ASSUME NEW S, FiniteTimes(S)
  PROVE  IsFiniteSet(GapsOf(S)) /\ GapsOf(S) \in SUBSET GapRows
<1> DEFINE f == [t \in AfterHole(S) |-> GapAt(S, t)]
<1>1. IsFiniteSet(AfterHole(S))
  BY FS_Subset DEF FiniteTimes, AfterHole
<1>2. \A t \in AfterHole(S) : GapAt(S, t) \in GapsOf(S)
  BY GapsAfterHoles
<1>3. \A g \in GapsOf(S) : \E t \in AfterHole(S) : g = GapAt(S, t)
  BY GapsAfterHoles
<1>4. f \in Surjection(AfterHole(S), GapsOf(S))
  BY <1>2, <1>3 DEF Surjection
<1>5. IsFiniteSet(GapsOf(S))
  BY <1>1, <1>4, FS_Surjection
<1>6. ASSUME NEW g \in GapsOf(S) PROVE g \in GapRows
  <2>1. PICK l \in Nat, t \in Nat : Hole(S, l, t, g)
    BY GapIsHole
  <2> QED
    BY <2>1 DEF GapRows, Hole
<1> QED
  BY <1>5, <1>6

(* Gaps hold no bar and do not meet.                                       *)
LEMMA GapsHoldNone ==
  ASSUME NEW S, FiniteTimes(S)
  PROVE  /\ \A g \in GapsOf(S) : g.from..g.to \cap S = {}
         /\ \A g, h \in GapsOf(S) : g # h => g.to < h.from \/ h.to < g.from
<1>1. \A g \in GapsOf(S) : \E l, t \in Nat : Hole(S, l, t, g)
  BY GapIsHole
<1>2. ASSUME NEW g \in GapsOf(S) PROVE g.from..g.to \cap S = {}
  <2>1. PICK l \in Nat, t \in Nat : Hole(S, l, t, g)
    BY <1>1
  <2>2. g.from = l + 2 /\ g.to = t - 2
    BY <2>1 DEF Hole
  <2>3. \A u \in S : u \in Nat /\ (u <= l \/ t <= u)
    BY <2>1 DEF FiniteTimes, Hole
  <2> QED
    BY <2>2, <2>3
<1>3. ASSUME NEW g \in GapsOf(S), NEW h \in GapsOf(S), g # h
      PROVE  g.to < h.from \/ h.to < g.from
  <2>1. PICK l \in Nat, t \in Nat : Hole(S, l, t, g)
    BY <1>1
  <2>2. PICK k \in Nat, u \in Nat : Hole(S, k, u, h)
    BY <1>1
  <2>3. g.from = l + 2 /\ g.to = t - 2 /\ h.from = k + 2 /\ h.to = u - 2
    BY <2>1, <2>2 DEF Hole
  <2>4. /\ l < t /\ k < u
        /\ u <= l \/ t <= u
        /\ t <= k \/ u <= t
        /\ k <= l \/ t <= k
        /\ l <= k \/ u <= l
    BY <2>1, <2>2 DEF Hole
  <2>5. ~ (l = k /\ t = u)
    BY <1>3, <2>1, <2>2 DEF Hole
  <2> QED
    BY <2>3, <2>4, <2>5
<1> QED
  BY <1>2, <1>3

(* Where the bars are whole intervals apart, those between are in the gaps. *)
LEMMA GapsAndBars ==
  ASSUME NEW S, FiniteTimes(S), S # {}, \A s, t \in S : (s - t) % 2 = 0
  PROVE  Cardinality(S) + SumFunctionOnSet([g \in GapsOf(S) |-> g.missing], GapsOf(S))
            = (Max(S) - Min(S)) \div 2 + 1
<1> DEFINE G == GapsOf(S)
           size == [g \in G |-> g.missing]
           part == [g \in G |-> {x \in g.from..g.to : (x - g.from) % 2 = 0}]
           holes == UNION {part[g] : g \in G}
           low == Min(S)
           high == Max(S)
           all == {x \in low..high : (x - low) % 2 = 0}
<1>1. low \in S /\ high \in S /\ (\A u \in S : u \in Nat /\ low <= u /\ u <= high)
  BY LeastOf, GreatestOf DEF FiniteTimes
<1> HIDE DEF low, high
<1>2. \A g \in GapsOf(S) : \E l, t \in Nat : Hole(S, l, t, g)
  BY GapIsHole
<1>3. \A g \in G : IsFiniteSet(part[g]) /\ size[g] = Cardinality(part[g])
  <2> SUFFICES ASSUME NEW g \in G
               PROVE  IsFiniteSet(part[g]) /\ size[g] = Cardinality(part[g])
    OBVIOUS
  <2>1. PICK l \in Nat, t \in Nat : Hole(S, l, t, g)
    BY <1>2
  <2>2. (t - l) % 2 = 0
    BY <2>1 DEF Hole
  <2> DEFINE n == (t - l) \div 2 - 2
  <2>3. n \in Nat /\ l + 2 \in Int /\ (l + 2) + 2 * n = t - 2 /\ n + 1 = (t - l) \div 2 - 1
    BY <2>1, <2>2 DEF Hole
  <2>4. g.from = l + 2 /\ g.to = (l + 2) + 2 * n /\ g.missing = n + 1
    BY <2>1, <2>3 DEF Hole
  <2> HIDE DEF n
  <2>5. part[g] = {x \in (l + 2)..((l + 2) + 2 * n) : (x - (l + 2)) % 2 = 0}
    BY <2>4
  <2> QED
    BY <2>3, <2>4, <2>5, EverySecond
<1>4. \A g, h \in G : g # h => part[g] \cap part[h] = {}
  <2>1. \A g \in G : g.from \in Int /\ g.to \in Int
    BY GapsAreRows DEF GapRows
  <2>2. \A g, h \in G : g # h => g.to < h.from \/ h.to < g.from
    BY GapsHoldNone
  <2> QED
    BY <2>1, <2>2
<1>5. IsFiniteSet(holes) /\ SumFunctionOnSet(size, G) = Cardinality(holes)
  <2>1. IsFiniteSet(G)
    BY GapsAreRows
  <2> HIDE DEF G, size, part
  <2>2. MadeOfParts(G, part, size, holes)
    BY <1>3, <1>4, <2>1 DEF MadeOfParts
  <2> HIDE DEF holes
  <2> QED
    BY <2>2, CardinalityOfParts
<1>6. holes \cap S = {}
  BY GapsHoldNone
<1>7. holes \union S = all
  <2>1. ASSUME NEW x \in holes PROVE x \in all
    <3>1. PICK g \in G : x \in part[g]
      OBVIOUS
    <3>2. PICK l \in Nat, t \in Nat : Hole(S, l, t, g)
      BY <1>2
    <3>3. x \in (l + 2)..(t - 2) /\ (x - (l + 2)) % 2 = 0
      BY <3>1, <3>2 DEF Hole
    <3>4. (l - low) % 2 = 0 /\ low <= l /\ t <= high
      BY <1>1, <3>2 DEF Hole
    <3> QED
      BY <1>1, <3>2, <3>3, <3>4
  <2>2. ASSUME NEW x \in S PROVE x \in all
    BY <1>1
  <2>3. ASSUME NEW x \in all, x \notin S PROVE x \in holes
    <3> DEFINE above == {u \in S : x < u}
               t == Min(above)
    <3>1. x \in Int /\ low <= x /\ x <= high /\ (x - low) % 2 = 0
      BY <1>1
    <3>2. above \in SUBSET Nat /\ above # {}
      BY <1>1, <2>3, <3>1
    <3>3. t \in S /\ x < t /\ \A u \in S : x < u => t <= u
      BY <3>2, LeastOf
    <3>4. t \in Nat /\ x > low
      BY <1>1, <2>3, <3>1, <3>3
    <3> HIDE DEF t
    <3>5. Before(S, t) # {}
      BY <1>1, <3>1, <3>3, <3>4 DEF Before
    <3> DEFINE l == LastBefore(S, t)
    <3>6. l \in S /\ l < t /\ \A u \in S : u < t => u <= l
      BY <3>3, <3>5, LastBeforeIs
    <3> HIDE DEF l
    <3>7. l \in Nat /\ l < x /\ (x - l) % 2 = 0 /\ (t - x) % 2 = 0
      <4>1. l \in Nat /\ (l - low) % 2 = 0 /\ (t - low) % 2 = 0
        BY <1>1, <3>3, <3>6
      <4>2. l < x
        BY <2>3, <3>1, <3>3, <3>4, <3>6, <4>1
      <4> QED
        BY <1>1, <3>1, <3>4, <4>1, <4>2
    <3>8. (t - l) \div 2 > 1 /\ x \in (l + 2)..(t - 2) /\ (x - (l + 2)) % 2 = 0
      BY <3>1, <3>3, <3>4, <3>7
    <3>9. t \in AfterHole(S)
      BY <3>3, <3>5, <3>8 DEF AfterHole, Step, l
    <3>10. GapAt(S, t) \in G /\ GapAt(S, t).from = l + 2 /\ GapAt(S, t).to = t - 2
      BY <3>9, GapsAfterHoles DEF GapAt, Step, l
    <3>11. x \in part[GapAt(S, t)]
      BY <3>8, <3>10
    <3> QED
      BY <3>10, <3>11
  <2> QED
    BY <2>1, <2>2, <2>3
<1>8. Cardinality(all) = (high - low) \div 2 + 1
  <2> DEFINE n == (high - low) \div 2
  <2>1. low \in Int /\ high \in Int /\ low <= high /\ (high - low) % 2 = 0
    BY <1>1
  <2>2. n \in Nat /\ low + 2 * n = high
    BY <2>1
  <2> HIDE DEF n
  <2>3. all = {x \in low..(low + 2 * n) : (x - low) % 2 = 0}
    BY <2>2
  <2> HIDE DEF all
  <2>4. Cardinality(all) = n + 1
    BY <2>1, <2>2, <2>3, EverySecond
  <2> QED
    BY <2>4 DEF n
<1> HIDE DEF holes, all, size, G
<1>9. /\ IsFiniteSet(S) /\ Cardinality(S) \in Nat /\ Cardinality(holes) \in Nat
      /\ Cardinality(holes \union S) = Cardinality(holes) + Cardinality(S) - 0
  BY <1>5, <1>6, FS_Union, FS_EmptySet, FS_CardinalityType DEF FiniteTimes
<1>10. Cardinality(S) + SumFunctionOnSet(size, G) = (high - low) \div 2 + 1
  <2>1. Cardinality(all) = Cardinality(holes) + Cardinality(S) - 0
    BY <1>7, <1>9, Zenon
  <2>2. PICK c \in Nat, d \in Nat : c = Cardinality(holes) /\ d = Cardinality(S)
    BY <1>9
  <2>3. SumFunctionOnSet(size, G) = c /\ Cardinality(all) = c + d /\ Cardinality(S) = d
    BY <1>5, <2>1, <2>2
  <2> QED
    BY <1>8, <2>2, <2>3
<1> QED
  BY <1>10 DEF size, G, low, high

(* The daily gaps are the runs of days that A, what is absent, is made of.  *)
Absent(S) == ExpectedDates(Min(S), Max(S)) \ S
Runs(A) == {p \in A \X A : /\ p[1] <= p[2] /\ p[1]..p[2] \subseteq A
                            /\ p[1] - 1 \notin A /\ p[2] + 1 \notin A}
RunGap(p) == [from |-> p[1], to |-> p[2], missing |-> p[2] - p[1] + 1]
RunGaps(A) == {RunGap(p) : p \in Runs(A)}

LEMMA DailyGapsAreRuns == \A S : DailyGaps(S) = RunGaps(Absent(S))
BY DEF DailyGaps, RunGaps, RunGap, Runs, Absent

LEMMA RunGapIs ==
  ASSUME NEW A \in SUBSET Nat, NEW g \in RunGaps(A)
  PROVE  /\ g.from \in Nat /\ g.to \in Nat /\ g.from <= g.to /\ g.from..g.to \subseteq A
         /\ g.from - 1 \notin A /\ g.to + 1 \notin A
         /\ g = [from |-> g.from, to |-> g.to, missing |-> g.to - g.from + 1]
<1>1. PICK p \in Runs(A) : g = RunGap(p)
  BY DEF RunGaps
<1>2. g.from = p[1] /\ g.to = p[2] /\ p \in A \X A /\ g.missing = p[2] - p[1] + 1
  BY <1>1 DEF RunGap, Runs
<1>3. g = [from |-> g.from, to |-> g.to, missing |-> g.to - g.from + 1]
  BY <1>1 DEF RunGap
<1> QED
  BY <1>2, <1>3 DEF Runs

LEMMA RunsApart ==
  ASSUME NEW A \in SUBSET Nat, NEW g \in RunGaps(A), NEW h \in RunGaps(A), g # h
  PROVE  g.to < h.from \/ h.to < g.from
<1> SUFFICES ASSUME h.from <= g.to, g.from <= h.to PROVE FALSE
  BY RunGapIs
<1>1. /\ g.from \in Nat /\ g.to \in Nat /\ g.from <= g.to /\ g.from..g.to \subseteq A
      /\ g.from - 1 \notin A /\ g.to + 1 \notin A
      /\ g = [from |-> g.from, to |-> g.to, missing |-> g.to - g.from + 1]
  BY RunGapIs
<1>2. /\ h.from \in Nat /\ h.to \in Nat /\ h.from <= h.to /\ h.from..h.to \subseteq A
      /\ h.from - 1 \notin A /\ h.to + 1 \notin A
      /\ h = [from |-> h.from, to |-> h.to, missing |-> h.to - h.from + 1]
  BY RunGapIs
<1>3. g.from = h.from
  <2>1. CASE g.from < h.from
    <3>1. h.from - 1 \in g.from..g.to
      BY <1>1, <1>2, <2>1
    <3> QED
      BY <1>1, <1>2, <3>1
  <2>2. CASE h.from < g.from
    <3>1. g.from - 1 \in h.from..h.to
      BY <1>1, <1>2, <2>2
    <3> QED
      BY <1>1, <1>2, <3>1
  <2> QED
    BY <1>1, <1>2, <2>1, <2>2
<1>4. g.to = h.to
  <2>1. CASE g.to < h.to
    <3>1. g.to + 1 \in h.from..h.to
      BY <1>1, <1>2, <2>1
    <3> QED
      BY <1>1, <1>2, <3>1
  <2>2. CASE h.to < g.to
    <3>1. h.to + 1 \in g.from..g.to
      BY <1>1, <1>2, <2>2
    <3> QED
      BY <1>1, <1>2, <3>1
  <2> QED
    BY <1>1, <1>2, <2>1, <2>2
<1> QED
  BY <1>1, <1>2, <1>3, <1>4

LEMMA EveryDayIsInARun ==
  ASSUME NEW A \in SUBSET Nat, IsFiniteSet(A), NEW x \in A
  PROVE  \E g \in RunGaps(A) : x \in g.from..g.to
<1>1. PICK N \in Nat : \A n \in A : n <= N
  BY GreatestOf
<1> DEFINE starts == {a \in 0..x : a..x \subseteq A}
           ends == {b \in 0..N : x <= b /\ x..b \subseteq A}
<1>2. x \in Nat /\ x <= N /\ x \in starts /\ x \in ends
  BY <1>1
<1>3. PICK a \in starts : \A c \in starts : a <= c
  <2>1. starts \subseteq Nat /\ starts # {}
    BY <1>2
  <2> HIDE DEF starts
  <2> QED
    BY <2>1, LeastNatural
<1>4. PICK b \in ends : \A c \in ends : c <= b
  <2>1. ends \subseteq 0..N /\ ends # {}
    BY <1>2
  <2> HIDE DEF ends
  <2> QED
    BY <2>1, GreatestUpTo
<1>5. a \in Nat /\ b \in Nat /\ a <= x /\ x <= b /\ b <= N /\ a..b \subseteq A
  BY <1>2
<1>6. a - 1 \notin A
  <2> SUFFICES ASSUME a - 1 \in A PROVE FALSE
    OBVIOUS
  <2>1. a - 1 \in 0..x /\ (a - 1)..x \subseteq A
    BY <1>2, <1>5
  <2>2. a - 1 \in starts
    BY <2>1
  <2> QED
    BY <1>3, <1>5, <2>2
<1>7. b + 1 \notin A
  <2> SUFFICES ASSUME b + 1 \in A PROVE FALSE
    OBVIOUS
  <2>1. b + 1 \in 0..N /\ x <= b + 1 /\ x..(b + 1) \subseteq A
    BY <1>1, <1>2, <1>5
  <2>2. b + 1 \in ends
    BY <2>1
  <2> QED
    BY <1>4, <1>5, <2>2
<1> DEFINE p == <<a, b>>
<1>8. p \in Runs(A)
  <2>1. a \in A /\ b \in A /\ a <= b
    BY <1>5
  <2> QED
    BY <1>5, <1>6, <1>7, <2>1 DEF Runs
<1>9. RunGap(p) \in RunGaps(A) /\ RunGap(p).from = a /\ RunGap(p).to = b
  BY <1>8 DEF RunGaps, RunGap
<1> QED
  BY <1>2, <1>5, <1>9

LEMMA RunsAreRows ==
  ASSUME NEW A \in SUBSET Nat, IsFiniteSet(A)
  PROVE  IsFiniteSet(RunGaps(A)) /\ RunGaps(A) \in SUBSET GapRows
<1> DEFINE f == [p \in Runs(A) |-> RunGap(p)]
<1>1. IsFiniteSet(Runs(A))
  <2>1. IsFiniteSet(A \X A) /\ Runs(A) \in SUBSET (A \X A)
    BY FS_Product DEF Runs
  <2> QED
    BY <2>1, FS_Subset
<1>2. f \in Surjection(Runs(A), RunGaps(A))
  BY DEF Surjection, RunGaps
<1>3. IsFiniteSet(RunGaps(A))
  BY <1>1, <1>2, FS_Surjection
<1>4. \A g \in RunGaps(A) : g \in GapRows
  BY RunGapIs DEF GapRows
<1> QED
  BY <1>3, <1>4

(* The runs add up to what they are made of.                               *)
LEMMA RunsAddUp ==
  ASSUME NEW A \in SUBSET Nat, IsFiniteSet(A)
  PROVE  SumFunctionOnSet([g \in RunGaps(A) |-> g.missing], RunGaps(A)) = Cardinality(A)
<1> DEFINE G == RunGaps(A)
           size == [g \in G |-> g.missing]
           part == [g \in G |-> g.from..g.to]
<1>1. \A g \in G : IsFiniteSet(part[g]) /\ size[g] = Cardinality(part[g])
  <2> SUFFICES ASSUME NEW g \in G
               PROVE  IsFiniteSet(part[g]) /\ size[g] = Cardinality(part[g])
    OBVIOUS
  <2>1. g.from \in Int /\ g.to \in Int /\ g.from <= g.to /\ g.missing = g.to - g.from + 1
    BY RunGapIs
  <2>2. IsFiniteSet(g.from..g.to) /\ Cardinality(g.from..g.to) = g.to - g.from + 1
    BY <2>1, FS_Interval
  <2> QED
    BY <2>1, <2>2
<1>2. \A g, h \in G : g # h => part[g] \cap part[h] = {}
  <2>1. \A g \in G : g.from \in Int /\ g.to \in Int
    BY RunGapIs
  <2>2. \A g, h \in G : g # h => g.to < h.from \/ h.to < g.from
    BY RunsApart
  <2> QED
    BY <2>1, <2>2
<1>3. \A g \in G : part[g] \subseteq A
  BY RunGapIs
<1>6. \A x \in A : \E g \in G : x \in part[g]
  BY EveryDayIsInARun
<1>4. IsFiniteSet(G)
  BY RunsAreRows
<1> HIDE DEF G, size, part
<1>5. IsFiniteSet(A) /\ SumFunctionOnSet(size, G) = Cardinality(A)
  <2>1. MadeOfParts(G, part, size, A)
    BY <1>1, <1>2, <1>3, <1>4, <1>6 DEF MadeOfParts
  <2> QED
    BY <2>1, CardinalityOfParts
<1> QED
  BY <1>5 DEF G, size

LEMMA MissingIsSum ==
  ASSUME NEW G, IsFiniteSet(G), G \subseteq GapRows
  PROVE  MissingIn(G) = SumFunctionOnSet([g \in G |-> g.missing], G) /\ MissingIn(G) \in Int
<1> DEFINE size == [g \in G |-> g.missing]
           W(f) == f = [s \in SUBSET G |->
                          IF s = {} THEN 0 ELSE Picked(s).missing + f[s \ {Picked(s)}]]
           h == CHOOSE f : W(f)
<1>1. \A g \in G : size[g] \in Int /\ size[g] = g.missing
  BY DEF GapRows
<1>2. \A s \in SUBSET G : s # {} => size[Picked(s)] = Picked(s).missing
  BY <1>1, PickedIsIn
<1>3. PICK f : Adds(size, f, G)
  BY <1>1, AddsExists
<1> HIDE DEF size
<1>4. W(f)
  BY <1>2, <1>3 DEF Adds
<1>5. W(h)
  BY <1>4
<1>6. MissingIn(G) = h[G]
  BY DEF MissingIn, MapThenSumSet, MapThenFoldSet, Picked
<1> HIDE DEF h
<1>7. Adds(size, h, G)
  BY <1>2, <1>5 DEF Adds
<1>8. MissingIn(G) = SumFunctionOnSet(size, G) /\ SumFunctionOnSet(size, G) \in Int
  BY <1>1, <1>6, <1>7, SumOfSubset, SumIsInt
<1> QED
  BY <1>8 DEF size

LEMMA AbsentIs ==
  ASSUME NEW S, FiniteTimes(S), S # {}
  PROVE  Absent(S) \in SUBSET Nat /\ IsFiniteSet(Absent(S)) /\ Absent(S) \cap S = {}
<1>1. Min(S) \in Nat /\ Max(S) \in Nat
  BY LeastOf, GreatestOf DEF FiniteTimes
<1>2. IsFiniteSet(Min(S)..Max(S)) /\ Absent(S) \in SUBSET (Min(S)..Max(S))
  BY <1>1, FS_Interval DEF Absent, ExpectedDates
<1>3. Min(S)..Max(S) \subseteq Nat
  BY <1>1
<1>4. IsFiniteSet(Absent(S))
  BY <1>2, FS_Subset
<1> QED
  BY <1>2, <1>3, <1>4 DEF Absent

LEMMA BarsAreTimes == \A kept, key : FiniteTimes(LoadBars(kept, key))
<1> SUFFICES ASSUME NEW kept, NEW key PROVE FiniteTimes(LoadBars(kept, key))
  OBVIOUS
<1>1. LoadBars(kept, key) \in SUBSET Times
  BY DEF LoadBars
<1> QED
  BY <1>1, FS_Subset, QualityAssumption DEF FiniteTimes

LEMMA GapsAreAlwaysHoles == GapsAreHoles
<1> SUFFICES ASSUME NEW k \in Keys, NEW S, S = LoadBars(bars, k), S # {}
             PROVE  /\ \A g, h \in GapsOf(S) : g # h => g.to < h.from \/ h.to < g.from
                    /\ \A g \in GapsOf(S) : g.from..g.to \cap S = {}
                    /\ (\A s, t \in S : (s - t) % Step = 0) =>
                          Cardinality(S) + MissingIn(GapsOf(S)) = Metrics(bars, k).expected
                    /\ \A g, h \in DailyGaps(S) : g # h => g.to < h.from \/ h.to < g.from
                    /\ \A g \in DailyGaps(S) : g.from..g.to \cap S = {}
                    /\ MissingIn(DailyGaps(S)) = Cardinality(ExpectedDates(Min(S), Max(S)) \ S)
  BY DEF GapsAreHoles
<1>1. FiniteTimes(S)
  BY BarsAreTimes
<1>2. /\ \A g, h \in GapsOf(S) : g # h => g.to < h.from \/ h.to < g.from
      /\ \A g \in GapsOf(S) : g.from..g.to \cap S = {}
  BY <1>1, GapsHoldNone
<1>3. ASSUME \A s, t \in S : (s - t) % Step = 0
      PROVE  Cardinality(S) + MissingIn(GapsOf(S)) = Metrics(bars, k).expected
  <2>1. Metrics(bars, k).expected = (Max(S) - Min(S)) \div 2 + 1
    BY DEF Metrics, Step
  <2>2. MissingIn(GapsOf(S)) = SumFunctionOnSet([g \in GapsOf(S) |-> g.missing], GapsOf(S))
    BY <1>1, GapsAreRows, MissingIsSum
  <2>3. \A s, t \in S : (s - t) % 2 = 0
    BY <1>3 DEF Step
  <2> QED
    BY <1>1, <2>1, <2>2, <2>3, GapsAndBars
<1> DEFINE A == Absent(S)
<1>4. A \in SUBSET Nat /\ IsFiniteSet(A) /\ A \cap S = {} /\ DailyGaps(S) = RunGaps(A)
  BY <1>1, AbsentIs, DailyGapsAreRuns
<1>5. A = ExpectedDates(Min(S), Max(S)) \ S
  BY DEF Absent
<1> HIDE DEF A
<1>6. \A g, h \in DailyGaps(S) : g # h => g.to < h.from \/ h.to < g.from
  BY <1>4, RunsApart
<1>7. \A g \in DailyGaps(S) : g.from..g.to \cap S = {}
  BY <1>4, RunGapIs
<1>8. MissingIn(DailyGaps(S)) = Cardinality(A)
  <2>1. MissingIn(RunGaps(A)) = SumFunctionOnSet([g \in RunGaps(A) |-> g.missing], RunGaps(A))
    BY <1>4, RunsAreRows, MissingIsSum
  <2> QED
    BY <1>4, <2>1, RunsAddUp
<1> QED
  BY <1>2, <1>3, <1>5, <1>6, <1>7, <1>8

(* The report of a key has the figures that its tables agree on.           *)
LEMMA MetricsAreRows ==
  ASSUME NEW kept, NEW key
  PROVE  /\ Metrics(kept, key) \in MetricsRows /\ Metrics(kept, key) # None
         /\ Metrics(kept, key).missing = MissingIn(Metrics(kept, key).gaps)
         /\ Metrics(kept, key).total = Cardinality(LoadBars(kept, key))
<1> DEFINE S == LoadBars(kept, key)
           gaps == GapsOf(S)
           expected == IF S = {} THEN 0 ELSE (Max(S) - Min(S)) \div Step + 1
           spikes == SuspiciousSpikes(kept, S)
           ok == S # {} /\ ScoreApproves(MissingIn(gaps), expected, BadPrices(kept, S), spikes)
<1>1. FiniteTimes(S)
  BY BarsAreTimes
<1>2. gaps \in SUBSET GapRows /\ MissingIn(gaps) \in Int
  BY <1>1, GapsAreRows, MissingIsSum
<1>3. Cardinality(S) \in Nat
  BY <1>1, FS_CardinalityType DEF FiniteTimes
<1>4. expected \in Int
  <2>1. S # {} => Max(S) \in Int /\ Min(S) \in Int
    BY <1>1, LeastOf, GreatestOf DEF FiniteTimes
  <2> QED
    BY <2>1 DEF Step
<1>5. spikes \in Nat
  <2> DEFINE Earlier(t) == {s \in Before(S, t) :
                              Cardinality({u \in Before(S, t) : u >= s}) <= Lookback}
             Wide(T) == Cardinality({s \in T : kept[s].kind = "wide"})
             T == {t \in S : /\ kept[t].kind = "wide" /\ Earlier(t) # {}
                            /\ 2 * Wide(Earlier(t)) < Cardinality(Earlier(t))}
  <2>1. spikes = Cardinality(T)
    BY DEF SuspiciousSpikes
  <2>2. T \in SUBSET S
    OBVIOUS
  <2> HIDE DEF T
  <2>3. IsFiniteSet(T)
    BY <1>1, <2>2, FS_Subset DEF FiniteTimes
  <2> QED
    BY <2>1, <2>3, FS_CardinalityType
<1>6. ok \in BOOLEAN
  BY DEF ScoreApproves
<1>7. Metrics(kept, key) = [total |-> Cardinality(S), expected |-> expected,
                            missing |-> MissingIn(gaps), gaps |-> gaps,
                            spikes |-> spikes, approved |-> ok]
  BY DEF Metrics
<1> HIDE DEF S, gaps, expected, spikes, ok
<1>8. Metrics(kept, key) \in MetricsRows
  BY <1>2, <1>3, <1>4, <1>5, <1>6, <1>7 DEF MetricsRows
<1> QED
  BY <1>7, <1>8, QualityAssumption DEF S

(* A report is of the bars that have its source.                           *)
LEMMA MetricsOfFewer ==
  ASSUME NEW kept, NEW left, NEW key, LoadBars(left, key) \subseteq LoadBars(kept, key),
         \A t \in LoadBars(left, key) : left[t] = kept[t]
  PROVE  \/ Metrics(left, key) = Metrics(kept, key)
         \/ Metrics(left, key).total < Metrics(kept, key).total
<1> DEFINE S == LoadBars(left, key)
<1>1. CASE S = LoadBars(kept, key)
  <2>1. \A t \in S : Before(S, t) \subseteq S
    BY DEF Before
  <2>2. SuspiciousSpikes(left, S) = SuspiciousSpikes(kept, S)
    <3> DEFINE Earlier(t) == {s \in Before(S, t) :
                                Cardinality({u \in Before(S, t) : u >= s}) <= Lookback}
               Wide(rs, T) == {s \in T : rs[s].kind = "wide"}
               Spiking(rs) == {t \in S : /\ rs[t].kind = "wide" /\ Earlier(t) # {}
                                /\ 2 * Cardinality(Wide(rs, Earlier(t))) < Cardinality(Earlier(t))}
    <3>1. \A t \in S : Wide(left, Earlier(t)) = Wide(kept, Earlier(t))
      BY <2>1
    <3> HIDE DEF Earlier, Wide
    <3>2. Spiking(left) = Spiking(kept)
      BY <3>1
    <3> USE DEF Earlier, Wide
    <3>3. /\ SuspiciousSpikes(left, S) = Cardinality(Spiking(left))
          /\ SuspiciousSpikes(kept, S) = Cardinality(Spiking(kept))
      BY DEF SuspiciousSpikes
    <3> HIDE DEF Spiking
    <3> QED
      BY <3>2, <3>3
  <2>3. BadPrices(left, S) = BadPrices(kept, S)
    <3>1. {t \in S : left[t].kind = "bad"} = {t \in S : kept[t].kind = "bad"}
      OBVIOUS
    <3> QED
      BY <3>1 DEF BadPrices
  <2> HIDE DEF S
  <2>4. Metrics(left, key) = Metrics(kept, key)
    BY <1>1, <2>2, <2>3 DEF Metrics, S
  <2> QED
    BY <2>4
<1>2. CASE S # LoadBars(kept, key)
  <2>1. IsFiniteSet(LoadBars(kept, key))
    BY BarsAreTimes DEF FiniteTimes
  <2>2. /\ Cardinality(S) \in Nat /\ Cardinality(LoadBars(kept, key)) \in Nat
        /\ Cardinality(S) <= Cardinality(LoadBars(kept, key))
        /\ Cardinality(S) # Cardinality(LoadBars(kept, key))
    BY <1>2, <2>1, FS_Subset, FS_CardinalityType
  <2> QED
    BY <2>2, MetricsAreRows
<1> QED
  BY <1>1, <1>2

(* The rows of the data centre have their shapes, what a report, its gaps  *)
(* and its coverage say agrees, and what an import answers is what it has  *)
(* recorded under its number, the highest.                                 *)

RunStatuses == {"dry_run", "skipped", "failed", "completed"}
RunRows == [batch : Nat, status : RunStatuses]
TrailRows == [key : Keys, old : Statuses, new : Statuses]
ReviewStages == [stage : {"idle", "loaded", "done"}, key : Keys, loaded : Statuses]

BatchShape ==
    /\ batch = [number |-> batch.number, left |-> batch.left, dry |-> batch.dry,
                fetched |-> batch.fetched, answers |-> batch.answers]
    /\ batch.number \in Nat /\ batch.answers \in Seq(RunStatuses)
    /\ runs \in Seq(RunRows)

RowShapes ==
    /\ report \in [Keys -> MetricsRows \union {None}]
    /\ openGaps \in [Keys -> SUBSET GapRows]
    /\ coverage \in [Providers -> CoverageRows \union {None}]

ReviewShapes ==
    /\ review \in [Keys -> Statuses] /\ reviewing \in [Reviewers -> ReviewStages]
    /\ trail \in Seq(TrailRows)

StatusesOf(number) == {runs[n].status : n \in {m \in DOMAIN runs : runs[m].batch = number}}

AnswersRecorded ==
    /\ StatusesOf(batch.number) = ToSet(batch.answers)
    /\ \A n \in DOMAIN runs : runs[n].batch <= batch.number

StatusesNamed ==
    \A k \in Keys : review[k] # "unreviewed" =>
        \E n \in DOMAIN trail : trail[n].key = k /\ trail[n].new = review[k]

QualityInv ==
    /\ BatchShape /\ RowShapes /\ ReviewShapes
    /\ QualityRowsAgree /\ StaleOnlyWhenTakenOver /\ StatusesNamed /\ AnswersRecorded

LEMMA QualityStart == QualityInit => QualityInv
<1> SUFFICES ASSUME QualityInit PROVE QualityInv
  OBVIOUS
<1>1. RowShapes /\ ReviewShapes /\ BatchShape
  BY DEF QualityInit, RowShapes, ReviewShapes, BatchShape, Keys, Statuses, ReviewStages
<1>2. QualityRowsAgree /\ StaleOnlyWhenTakenOver /\ StatusesNamed
  BY DEF QualityInit, QualityRowsAgree, StaleOnlyWhenTakenOver, StatusesNamed, Keys
<1>3. AnswersRecorded
  BY DEF QualityInit, AnswersRecorded, StatusesOf, ToSet
<1> QED
  BY <1>1, <1>2, <1>3 DEF QualityInv

LEMMA RecordKeeps ==
  ASSUME BatchShape, AnswersRecorded, NEW status \in RunStatuses, Record(status)
  PROVE  BatchShape' /\ AnswersRecorded'
<1> DEFINE row == [batch |-> batch.number, status |-> status]
<1>1. row \in RunRows /\ runs' = Append(runs, row)
  BY DEF BatchShape, RunRows, Record
<1>2. /\ runs' \in Seq(RunRows) /\ DOMAIN runs' = DOMAIN runs \union {Len(runs) + 1}
      /\ runs'[Len(runs) + 1] = row /\ \A n \in DOMAIN runs : runs'[n] = runs[n]
  BY <1>1, AppendProperties, LenProperties DEF BatchShape
<1>3. /\ batch' = [number |-> batch.number, left |-> Tail(batch.left), dry |-> batch.dry,
                   fetched |-> NotFetched, answers |-> Append(batch.answers, status)]
  BY DEF BatchShape, Record
<1>4. /\ batch'.answers \in Seq(RunStatuses)
      /\ DOMAIN batch'.answers = DOMAIN batch.answers \union {Len(batch.answers) + 1}
      /\ batch'.answers[Len(batch.answers) + 1] = status
      /\ \A n \in DOMAIN batch.answers : batch'.answers[n] = batch.answers[n]
  BY <1>3, AppendProperties, LenProperties DEF BatchShape
<1>5. BatchShape'
  BY <1>2, <1>3, <1>4 DEF BatchShape
<1>6. ToSet(batch'.answers) = ToSet(batch.answers) \union {status}
  BY <1>4 DEF ToSet
<1>7. {runs'[n].status : n \in {m \in DOMAIN runs' : runs'[m].batch = batch.number}}
        = StatusesOf(batch.number) \union {status}
  BY <1>2 DEF StatusesOf
<1>8. \A n \in DOMAIN runs' : runs'[n].batch <= batch.number
  BY <1>2 DEF AnswersRecorded, BatchShape
<1>9. AnswersRecorded'
  BY <1>3, <1>6, <1>7, <1>8 DEF AnswersRecorded, StatusesOf
<1> QED
  BY <1>5, <1>9

(* The tables of a report that is persisted agree; no other changes.       *)
LEMMA PersistKeeps ==
  ASSUME RowShapes, QualityRowsAgree, NEW kept, NEW key, Persist(kept, key)
  PROVE  /\ RowShapes' /\ QualityRowsAgree'
         /\ \A k \in Keys : report'[k] = IF k = key THEN Metrics(kept, k) ELSE report[k]
<1> DEFINE m == Metrics(kept, key)
           row == [count |-> m.total, approved |-> m.approved]
<1>1. m \in MetricsRows /\ m # None /\ m.missing = MissingIn(m.gaps)
  BY MetricsAreRows
<1>2. /\ report' = [report EXCEPT ![key] = m] /\ openGaps' = [openGaps EXCEPT ![key] = m.gaps]
      /\ coverage' = IF key = All THEN coverage ELSE [coverage EXCEPT ![key] = row]
  BY DEF Persist
<1> HIDE DEF m
<1>3. m.gaps \in SUBSET GapRows /\ row \in CoverageRows /\ row # None
  BY <1>1, QualityAssumption DEF MetricsRows, CoverageRows
<1>4. row.count = m.total /\ row.approved = m.approved
  OBVIOUS
<1> HIDE DEF row
<1>5. RowShapes'
  BY <1>1, <1>2, <1>3 DEF RowShapes
<1>6. /\ \A k \in Keys : report'[k] = IF k = key THEN m ELSE report[k]
      /\ \A k \in Keys : openGaps'[k] = IF k = key THEN m.gaps ELSE openGaps[k]
      /\ \A p \in Providers : coverage'[p] = IF p = key THEN row ELSE coverage[p]
      /\ \A p \in Providers : p \in Keys
  BY <1>2, QualityAssumption DEF RowShapes, Keys
<1>7. ASSUME NEW k \in Keys
      PROVE  IF report'[k] = None THEN openGaps'[k] = {}
             ELSE /\ openGaps'[k] = report'[k].gaps
                  /\ MissingIn(openGaps'[k]) = report'[k].missing
  BY <1>1, <1>6 DEF QualityRowsAgree
<1>8. ASSUME NEW p \in Providers
      PROVE  /\ (coverage'[p] # None /\ coverage'[p].approved)
                    = (report'[p] # None /\ report'[p].approved)
             /\ report'[p] # None => coverage'[p].count \in {0, report'[p].total}
  BY <1>1, <1>3, <1>4, <1>6 DEF QualityRowsAgree
<1>9. QualityRowsAgree'
  BY <1>7, <1>8 DEF QualityRowsAgree
<1>10. \A k \in Keys : report'[k] = IF k = key THEN Metrics(kept, k) ELSE report[k]
  BY <1>6 DEF m
<1> QED
  BY <1>5, <1>9, <1>10

LEMMA CoveredKeeps ==
  ASSUME RowShapes, QualityRowsAgree, NEW p, coverage' = Covered(p, 0),
         UNCHANGED <<report, openGaps>>
  PROVE  RowShapes' /\ QualityRowsAgree'
<1> DEFINE kept == coverage[p] # None /\ coverage[p].approved
           row == [count |-> 0, approved |-> kept]
<1>0. kept \in BOOLEAN
  OBVIOUS
<1> HIDE DEF kept
<1>1. row \in CoverageRows /\ row # None
  BY <1>0, QualityAssumption DEF CoverageRows
<1>2. coverage' = [coverage EXCEPT ![p] = row]
  BY DEF Covered, kept
<1>3. row.count = 0 /\ row.approved = (coverage[p] # None /\ coverage[p].approved)
  BY DEF kept
<1> HIDE DEF row
<1>4. RowShapes'
  BY <1>1, <1>2 DEF RowShapes
<1>5. \A q \in Providers : coverage'[q] = IF q = p THEN row ELSE coverage[q]
  BY <1>2 DEF RowShapes
<1>6. QualityRowsAgree'
  BY <1>1, <1>3, <1>5 DEF QualityRowsAgree
<1> QED
  BY <1>4, <1>6

(* Bars that another provider took over are gone from a report's source.   *)
LEMMA StoreKeeps ==
  ASSUME QualityInv, StoreBars
  PROVE  QualityInv'
<1> DEFINE h == Head(batch.left)
<1>1. /\ bars' = Upserted(h, batch.fetched.bars) /\ Persist(bars', h) /\ Record("completed")
      /\ UNCHANGED <<review, reviewing, trail>>
  BY DEF StoreBars
<1> HIDE DEF h
<1>2. /\ RowShapes' /\ QualityRowsAgree'
      /\ \A k \in Keys : report'[k] = IF k = h THEN Metrics(bars', k) ELSE report[k]
  BY <1>1, PersistKeeps DEF QualityInv
<1>3. BatchShape' /\ AnswersRecorded'
  BY <1>1, RecordKeeps DEF QualityInv, RunStatuses
<1>4. ReviewShapes' /\ StatusesNamed'
  BY <1>1 DEF QualityInv, ReviewShapes, StatusesNamed
<1>5. ASSUME NEW p \in Providers, report'[p] # None, report'[p] # Metrics(bars', p)
      PROVE  Metrics(bars', p).total < report'[p].total
  <2>1. p \in Keys /\ p # All
    BY QualityAssumption DEF Keys
  <2>2. p # h /\ report'[p] = report[p]
    BY <1>2, <1>5, <2>1
  <2>3. \A t \in LoadBars(bars', p) : t \in Times /\ bars'[t] # None /\ bars'[t].source = p
    BY <2>1 DEF LoadBars
  <2>4. \A t \in LoadBars(bars', p) : bars'[t] = bars[t]
    BY <1>1, <2>2, <2>3 DEF Upserted
  <2>5. LoadBars(bars', p) \subseteq LoadBars(bars, p)
    BY <2>3, <2>4 DEF LoadBars
  <2>6. \/ Metrics(bars', p) = Metrics(bars, p)
        \/ Metrics(bars', p).total < Metrics(bars, p).total
    BY <2>4, <2>5, MetricsOfFewer
  <2>7. /\ Metrics(bars, p).total \in Nat /\ Metrics(bars', p).total \in Nat
        /\ report[p] \in MetricsRows /\ report[p].total \in Nat
    <3>1. report[p] \in MetricsRows
      BY <1>5, <2>1, <2>2 DEF QualityInv, RowShapes
    <3>2. Metrics(bars, p) \in MetricsRows /\ Metrics(bars', p) \in MetricsRows
      BY MetricsAreRows
    <3> QED
      BY <3>1, <3>2 DEF MetricsRows
  <2>8. report[p] = Metrics(bars, p) \/ Metrics(bars, p).total < report[p].total
    BY <1>5, <2>2 DEF QualityInv, StaleOnlyWhenTakenOver
  <2> QED
    BY <1>5, <2>2, <2>6, <2>7, <2>8
<1>6. StaleOnlyWhenTakenOver'
  BY <1>5 DEF StaleOnlyWhenTakenOver
<1> QED
  BY <1>2, <1>3, <1>4, <1>6 DEF QualityInv

LEMMA RecalculateKeeps ==
  ASSUME QualityInv, NEW key \in Keys, Recalculate(key)
  PROVE  QualityInv'
<1>1. Persist(bars, key) /\ UNCHANGED <<bars, review, runs, batch, reviewing, trail>>
  BY DEF Recalculate
<1>2. /\ RowShapes' /\ QualityRowsAgree'
      /\ \A k \in Keys : report'[k] = IF k = key THEN Metrics(bars, k) ELSE report[k]
  BY <1>1, PersistKeeps DEF QualityInv
<1>3. BatchShape' /\ AnswersRecorded'
  BY <1>1 DEF QualityInv, BatchShape, AnswersRecorded, StatusesOf
<1>4. ReviewShapes' /\ StatusesNamed'
  BY <1>1 DEF QualityInv, ReviewShapes, StatusesNamed
<1>5. bars' = bars /\ \A p \in Providers : p \in Keys
  BY <1>1 DEF Keys
<1>6. ASSUME NEW p \in Providers, report'[p] # None, report'[p] # Metrics(bars', p)
      PROVE  Metrics(bars', p).total < report'[p].total
  <2>1. Metrics(bars', p) = Metrics(bars, p)
    BY <1>5, Zenon
  <2>2. report'[p] = report[p]
    BY <1>2, <1>5, <1>6, <2>1
  <2>3. Metrics(bars, p).total < report[p].total
    BY <1>6, <2>1, <2>2 DEF QualityInv, StaleOnlyWhenTakenOver
  <2> QED
    BY <2>1, <2>2, <2>3
<1>7. StaleOnlyWhenTakenOver'
  BY <1>6 DEF StaleOnlyWhenTakenOver
<1> QED
  BY <1>2, <1>3, <1>4, <1>7 DEF QualityInv

(* What an import does that stores no bars.                                *)
LEMMA ImportKeeps ==
  ASSUME QualityInv, StartImport \/ Fetch \/ DryRun \/ PassOver \/ FetchFailed \/ NoBars
  PROVE  QualityInv'
<1>1. UNCHANGED <<bars, report, review, openGaps, reviewing, trail>>
  BY DEF StartImport, Fetch, DryRun, PassOver, FetchFailed, NoBars
<1>2. ReviewShapes' /\ StatusesNamed'
  BY <1>1 DEF QualityInv, ReviewShapes, StatusesNamed
<1>3. StaleOnlyWhenTakenOver'
  <2>1. \A p \in Providers : Metrics(bars', p) = Metrics(bars, p)
    BY <1>1, Zenon
  <2> QED
    BY <1>1, <2>1 DEF QualityInv, StaleOnlyWhenTakenOver
<1>4. RowShapes' /\ QualityRowsAgree'
  <2>1. CASE coverage' = coverage
    BY <1>1, <2>1 DEF QualityInv, RowShapes, QualityRowsAgree
  <2>2. CASE coverage' = Covered(Head(batch.left), 0)
    BY <1>1, <2>2, CoveredKeeps DEF QualityInv
  <2> QED
    BY <2>1, <2>2 DEF StartImport, Fetch, DryRun, PassOver, FetchFailed, NoBars
<1>5. BatchShape' /\ AnswersRecorded'
  <2>1. CASE StartImport
    <3>1. PICK order \in SetToSeqs(Providers), dry \in BOOLEAN :
            batch' = [number |-> batch.number + 1, left |-> order, dry |-> dry,
                      fetched |-> NotFetched, answers |-> <<>>]
      BY <2>1 DEF StartImport
    <3>2. runs' = runs /\ batch'.number = batch.number + 1 /\ batch'.answers = <<>>
      BY <2>1, <3>1 DEF StartImport
    <3>3. BatchShape'
      BY <3>1, <3>2 DEF QualityInv, BatchShape
    <3>4. \A n \in DOMAIN runs : runs[n].batch \in Nat /\ runs[n].batch <= batch.number
      <4>1. \A n \in DOMAIN runs : runs[n] \in RunRows
        BY DEF QualityInv, BatchShape
      <4> QED
        BY <4>1 DEF QualityInv, AnswersRecorded, RunRows
    <3>5. batch.number \in Nat
      BY DEF QualityInv, BatchShape
    <3>6. /\ \A n \in DOMAIN runs : runs[n].batch <= batch.number + 1
          /\ \A n \in DOMAIN runs : runs[n].batch # batch.number + 1
      BY <3>4, <3>5
    <3>7. ToSet(batch'.answers) = {}
      BY <3>2 DEF ToSet
    <3>8. AnswersRecorded'
      BY <3>2, <3>6, <3>7 DEF AnswersRecorded, StatusesOf
    <3> QED
      BY <3>3, <3>8
  <2>2. CASE Fetch
    <3>1. runs' = runs
      BY <2>2 DEF Fetch
    <3>2. \E x : batch' = [batch EXCEPT !.fetched = x]
      BY <2>2 DEF Fetch
    <3>3. PICK x : batch' = [batch EXCEPT !.fetched = x]
      BY <3>2
    <3>4. BatchShape' /\ batch'.number = batch.number /\ batch'.answers = batch.answers
      BY <3>1, <3>3 DEF QualityInv, BatchShape
    <3> QED
      BY <3>1, <3>4 DEF QualityInv, AnswersRecorded, StatusesOf
  <2>3. CASE DryRun \/ PassOver \/ FetchFailed \/ NoBars
    <3>1. \E status \in RunStatuses : Record(status)
      BY <2>3 DEF DryRun, PassOver, FetchFailed, NoBars, RunStatuses
    <3> QED
      BY <3>1, RecordKeeps DEF QualityInv
  <2> QED
    BY <2>1, <2>2, <2>3
<1> QED
  BY <1>2, <1>3, <1>4, <1>5 DEF QualityInv

LEMMA ReviewingKeeps ==
  ASSUME QualityInv, NEW v \in Reviewers, LoadReport(v) \/ CommitReview(v)
  PROVE  QualityInv'
<1>1. UNCHANGED <<bars, report, openGaps, coverage, runs, batch>>
  BY DEF LoadReport, CommitReview
<1>2. RowShapes' /\ QualityRowsAgree' /\ BatchShape' /\ AnswersRecorded'
  BY <1>1 DEF QualityInv, RowShapes, QualityRowsAgree, BatchShape, AnswersRecorded, StatusesOf
<1>3. StaleOnlyWhenTakenOver'
  <2>1. \A p \in Providers : Metrics(bars', p) = Metrics(bars, p)
    BY <1>1, Zenon
  <2> QED
    BY <1>1, <2>1 DEF QualityInv, StaleOnlyWhenTakenOver
<1>4. ReviewShapes' /\ StatusesNamed'
  <2>1. CASE LoadReport(v)
    <3>1. PICK k \in Keys : reviewing' = [reviewing EXCEPT
                                ![v] = [stage |-> "loaded", key |-> k, loaded |-> review[k]]]
      BY <2>1 DEF LoadReport
    <3>2. review' = review /\ trail' = trail
      BY <2>1 DEF LoadReport
    <3>3. reviewing' \in [Reviewers -> ReviewStages]
      BY <3>1 DEF QualityInv, ReviewShapes, ReviewStages
    <3> QED
      BY <3>2, <3>3 DEF QualityInv, ReviewShapes, StatusesNamed
  <2>2. CASE CommitReview(v)
    <3> DEFINE key == reviewing[v].key
               loaded == reviewing[v].loaded
    <3>1. PICK status \in Statuses :
            /\ review' = [review EXCEPT ![key] = IF status = loaded THEN @ ELSE status]
            /\ trail' = Append(trail, [key |-> key, old |-> loaded, new |-> status])
      BY <2>2 DEF CommitReview
    <3>2. reviewing' = [reviewing EXCEPT ![v].stage = "done"]
      BY <2>2 DEF CommitReview
    <3>3. key \in Keys /\ loaded \in Statuses
      BY DEF QualityInv, ReviewShapes, ReviewStages
    <3> HIDE DEF key, loaded
    <3> DEFINE row == [key |-> key, old |-> loaded, new |-> status]
    <3>4. row \in TrailRows /\ row.key = key /\ row.new = status
      BY <3>3 DEF TrailRows
    <3> HIDE DEF row
    <3>5. /\ trail' \in Seq(TrailRows) /\ DOMAIN trail' = DOMAIN trail \union {Len(trail) + 1}
          /\ trail'[Len(trail) + 1] = row /\ \A n \in DOMAIN trail : trail'[n] = trail[n]
      <4>1. trail \in Seq(TrailRows) /\ trail' = Append(trail, row)
        BY <3>1 DEF QualityInv, ReviewShapes, row
      <4> QED
        BY <3>4, <4>1, AppendProperties, LenProperties
    <3>6. reviewing' \in [Reviewers -> ReviewStages]
      BY <3>2 DEF QualityInv, ReviewShapes, ReviewStages
    <3>7. review \in [Keys -> Statuses]
      BY DEF QualityInv, ReviewShapes
    <3>8. review' \in [Keys -> Statuses]
      BY <3>1, <3>7
    <3>9. ASSUME NEW k \in Keys, review'[k] # "unreviewed"
          PROVE  \E n \in DOMAIN trail' : trail'[n].key = k /\ trail'[n].new = review'[k]
      <4>1. CASE k = key /\ status # loaded
        BY <3>1, <3>4, <3>5, <3>7, <4>1
      <4>2. CASE ~ (k = key /\ status # loaded)
        <5>1. review'[k] = review[k]
          BY <3>1, <3>7, <4>2
        <5>2. PICK n \in DOMAIN trail : trail[n].key = k /\ trail[n].new = review[k]
          BY <3>9, <5>1 DEF QualityInv, StatusesNamed
        <5> QED
          BY <3>5, <5>1, <5>2
      <4> QED
        BY <4>1, <4>2
    <3> QED
      BY <3>5, <3>6, <3>8, <3>9 DEF ReviewShapes, StatusesNamed
  <2> QED
    BY <2>1, <2>2
<1> QED
  BY <1>2, <1>3, <1>4 DEF QualityInv

LEMMA QualityInductive == QualityInv /\ [QualityNext]_qualityVars => QualityInv'
<1> SUFFICES ASSUME QualityInv, [QualityNext]_qualityVars PROVE QualityInv'
  OBVIOUS
<1>1. CASE UNCHANGED qualityVars
  <2>1. UNCHANGED <<bars, report, review, openGaps, coverage, runs, batch, reviewing, trail>>
    BY <1>1 DEF qualityVars
  <2>2. \A p \in Providers : Metrics(bars', p) = Metrics(bars, p)
    BY <2>1, Zenon
  <2>3. StaleOnlyWhenTakenOver'
    BY <2>1, <2>2 DEF QualityInv, StaleOnlyWhenTakenOver
  <2>4. RowShapes' /\ QualityRowsAgree' /\ BatchShape' /\ AnswersRecorded'
    BY <2>1 DEF QualityInv, RowShapes, QualityRowsAgree, BatchShape, AnswersRecorded, StatusesOf
  <2>5. ReviewShapes' /\ StatusesNamed'
    BY <2>1 DEF QualityInv, ReviewShapes, StatusesNamed
  <2> QED
    BY <2>3, <2>4, <2>5 DEF QualityInv
<1>2. CASE \E k \in Keys : Recalculate(k)
  BY <1>2, RecalculateKeeps
<1>3. CASE StartImport \/ Fetch \/ DryRun \/ PassOver \/ FetchFailed \/ NoBars
  BY <1>3, ImportKeeps
<1>4. CASE StoreBars
  BY <1>4, StoreKeeps
<1>5. CASE \E v \in Reviewers : LoadReport(v) \/ CommitReview(v)
  BY <1>5, ReviewingKeeps
<1> QED
  BY <1>1, <1>2, <1>3, <1>4, <1>5 DEF QualityNext

LEMMA StatusesAreFinite == IsFiniteSet(Statuses)
<1>1. Statuses = (({} \union {"unreviewed"}) \union {"valid_market_move"}) \union {"bad_data"}
  BY DEF Statuses
<1> QED
  BY <1>1, FS_EmptySet, FS_AddElement

(* What is judged is in the list of its status and in no other.            *)
LEMMA ListsOfStatuses ==
  ASSUME NEW K, IsFiniteSet(K), NEW judged \in [K -> Statuses],
         NEW size, size = [s \in Statuses |-> Cardinality({k \in K : judged[k] = s})]
  PROVE  /\ \A s \in Statuses : size[s] \in Int
         /\ SumFunctionOnSet(size, Statuses) = Cardinality(K)
<1> DEFINE part == [s \in Statuses |-> {k \in K : judged[k] = s}]
<1>1. \A s \in Statuses : part[s] \subseteq K /\ size[s] = Cardinality(part[s])
  OBVIOUS
<1>2. \A s, t \in Statuses : s # t => part[s] \cap part[t] = {}
  OBVIOUS
<1>3. \A k \in K : \E s \in Statuses : k \in part[s]
  OBVIOUS
<1> HIDE DEF part
<1>4. \A s \in Statuses : IsFiniteSet(part[s])
  BY <1>1, FS_Subset
<1>5. \A s \in Statuses : size[s] \in Int
  BY <1>1, <1>4, FS_CardinalityType
<1>6. IsFiniteSet(K) /\ SumFunctionOnSet(size, Statuses) = Cardinality(K)
  <2>1. MadeOfParts(Statuses, part, size, K)
    BY <1>1, <1>2, <1>3, <1>4, StatusesAreFinite DEF MadeOfParts
  <2> QED
    BY <2>1, CardinalityOfParts
<1> QED
  BY <1>5, <1>6

(* The three lists of what is flagged share nothing and leave nothing out. *)
LEMMA ListsAddUp ==
  ASSUME ReviewShapes
  PROVE  MapThenSumSet(LAMBDA status : Cardinality(OutlierList(status)), Statuses)
            = UnreviewedSummary.total
<1> DEFINE flagged == {k \in Keys : Outlier(k)}
           judged == [k \in flagged |-> review[k]]
           size == [status \in Statuses |-> Cardinality({k \in flagged : judged[k] = status})]
           W(f) == f = [s \in SUBSET Statuses |->
                          IF s = {} THEN 0
                          ELSE Cardinality(OutlierList(Picked(s))) + f[s \ {Picked(s)}]]
           h == CHOOSE f : W(f)
<1>1. IsFiniteSet(flagged)
  <2>1. IsFiniteSet(Keys) /\ flagged \in SUBSET Keys
    BY QualityAssumption, FS_AddElement DEF Keys
  <2> HIDE DEF flagged
  <2> QED
    BY <2>1, FS_Subset
<1>2. \A status \in Statuses : size[status] = Cardinality(OutlierList(status))
  <2>1. \A status \in Statuses :
          OutlierList(status) = {k \in flagged : judged[k] = status}
    BY DEF OutlierList
  <2> HIDE DEF flagged, judged
  <2> QED
    BY <2>1
<1>3. judged \in [flagged -> Statuses]
  BY DEF ReviewShapes
<1>4. UnreviewedSummary.total = Cardinality(flagged)
  BY DEF UnreviewedSummary
<1> HIDE DEF flagged, judged
<1>5. /\ \A status \in Statuses : size[status] \in Int
      /\ SumFunctionOnSet(size, Statuses) = Cardinality(flagged)
  BY <1>1, <1>3, ListsOfStatuses
<1> HIDE DEF size
<1>6. \A s \in SUBSET Statuses : s # {} => size[Picked(s)] = Cardinality(OutlierList(Picked(s)))
  <2>1. \A s \in SUBSET Statuses : s # {} => Picked(s) \in Statuses
    BY PickedIsIn
  <2> QED
    BY <1>2, <2>1
<1>7. PICK f : Adds(size, f, Statuses)
  BY <1>5, StatusesAreFinite, AddsExists
<1>8. W(f)
  BY <1>6, <1>7 DEF Adds
<1>9. W(h)
  BY <1>8
<1>10. MapThenSumSet(LAMBDA status : Cardinality(OutlierList(status)), Statuses) = h[Statuses]
  BY DEF MapThenSumSet, MapThenFoldSet, Picked
<1> HIDE DEF h
<1>11. Adds(size, h, Statuses)
  BY <1>6, <1>9 DEF Adds
<1>12. h[Statuses] = SumFunctionOnSet(size, Statuses)
  BY <1>5, <1>11, StatusesAreFinite, SumOfSubset
<1> QED
  BY <1>4, <1>5, <1>10, <1>12

LEMMA QualityTold == QualityInv => DataToldTruly
<1> SUFFICES ASSUME QualityInv PROVE DataToldTruly
  OBVIOUS
<1>1. ReviewsTraced
  <2>1. OutlierList("unreviewed") = {k \in {j \in Keys : Outlier(j)} : review[k] = "unreviewed"}
    BY DEF OutlierList
  <2>2. Cardinality(OutlierList("unreviewed")) = UnreviewedSummary.unreviewed
    BY <2>1 DEF UnreviewedSummary
  <2> QED
    BY <2>2, ListsAddUp DEF QualityInv, StatusesNamed, ReviewsTraced
<1>2. ImportsShown
  <2>1. StatusesOf(batch.number) = ToSet(batch.answers) /\ ToSet(batch.answers) \subseteq RunStatuses
    <3>1. batch.answers \in Seq(RunStatuses)
      BY DEF QualityInv, BatchShape
    <3>2. \A n \in DOMAIN batch.answers : batch.answers[n] \in RunStatuses
      BY <3>1
    <3> QED
      BY <3>2 DEF QualityInv, AnswersRecorded, ToSet
  <2> DEFINE told == ToSet(batch.answers)
  <2>2. ListedStatus(batch.number) =
          IF "dry_run" \in told THEN "dry_run"
          ELSE IF told = {"failed"} THEN "failed"
          ELSE IF "failed" \in told THEN "partial" ELSE "completed"
    BY <2>1 DEF ListedStatus, StatusesOf
  <2>3. AnsweredStatus(batch.answers) =
          IF "dry_run" \in told THEN "dry_run"
          ELSE IF told = {"failed"} THEN "failed"
          ELSE IF told \intersect {"failed", "skipped"} # {} THEN "partial" ELSE "completed"
    BY DEF AnsweredStatus
  <2> HIDE DEF told
  <2>4. "skipped" \notin told =>
          (told \intersect {"failed", "skipped"} # {} <=> "failed" \in told)
    OBVIOUS
  <2>5. "skipped" \notin told => ListedStatus(batch.number) = AnsweredStatus(batch.answers)
    BY <2>2, <2>3, <2>4
  <2> QED
    BY <2>5 DEF ImportsShown, told
<1> QED
  BY <1>1, <1>2, GapsAreAlwaysHoles DEF QualityInv, DataToldTruly

(* Whatever bars the providers return and however imports, recalculations *)
(* and reviews follow one another, the data centre tells what bars there   *)
(* are and what is wrong with them.                                        *)
THEOREM DataIsToldTruly == QualitySpec => []DataToldTruly
<1>1. QualitySpec => []QualityInv
  BY QualityStart, QualityInductive, PTL DEF QualitySpec
<1> QED
  BY <1>1, QualityTold, PTL

-----------------------------------------------------------------------------
(* The prompts.  A request was sent what v1 says, or knows of an edit; the *)
(* rows after v1 are adaptations.                                          *)

Said == Texts \union {Proposed, Unseeded}
PromptRows == [system : Said, user : Said, hash : {"hand", "system", "user"} \X Said,
               by : {"hand", "apply"}]

EngineShape ==
    /\ disk \in Texts /\ engine \in Seq(PromptRows) /\ models \in Seq(Nat)
    /\ sweeping.models \in Seq(Nat)

(* The first row is v1, written by hand or by the last start; the others   *)
(* are adaptations.                                                        *)
FirstIsSeeded ==
    engine # <<>> =>
        /\ engine[1].by = "hand" /\ engine[1].hash[1] # "system"
        /\ running => engine[1].hash = <<"user", engine[1].user>>
        /\ running => engine[1].system = engine[1].user
        /\ running /\ ~ edited => engine[1].system = disk
        /\ \A n \in DOMAIN engine : n > 1 => engine[n].system = Proposed /\ engine[n].by = "apply"

(* A request in progress was sent what v1 says, if not edited since.       *)
AskedWithFirst ==
    /\ \A q \in Askers : requests[q] # NoRequest /\ engine # <<>> =>
          running /\ (requests[q].edited \/ requests[q].used = engine[1].system)
    /\ \A a \in Applies : applying[a] # 0 => applying[a] \in DOMAIN engine

SweptSound == \A s \in sweeping.signals : s.prompt = 0 /\ s.tradable

PromptsInv ==
    /\ EngineShape /\ FirstIsSeeded /\ AskedWithFirst /\ SweptSound
    /\ (catalyst => engine # <<>>)
    /\ RecordedAsUsed /\ SignalsSoundAndTraced

LEMMA PromptsStart == PromptsInit => PromptsInv
<1> SUFFICES ASSUME PromptsInit PROVE PromptsInv
  OBVIOUS
<1> DEFINE row == PromptRow(Unseeded, <<"hand", Unseeded>>, "hand")
<1>1. row \in PromptRows /\ row.by = "hand" /\ row.hash = <<"hand", Unseeded>>
  BY DEF PromptRow, PromptRows, Said
<1>2. row.hash[1] = "hand"
  BY <1>1
<1> HIDE DEF row
<1>3. engine = <<>> \/ engine = <<row>>
  BY DEF PromptsInit, row
<1>4. engine \in Seq(PromptRows) /\ DOMAIN engine \subseteq {1} /\ (engine # <<>> => engine[1] = row)
  <2>1. CASE engine = <<>>
    BY <2>1
  <2>2. CASE engine = <<row>>
    BY <1>1, <2>2
  <2> QED
    BY <1>3, <2>1, <2>2
<1>5. EngineShape
  BY <1>4 DEF PromptsInit, EngineShape, NoSweep
<1>6. FirstIsSeeded
  BY <1>1, <1>2, <1>4 DEF PromptsInit, FirstIsSeeded
<1>7. AskedWithFirst /\ SweptSound /\ RecordedAsUsed /\ SignalsSoundAndTraced
  BY DEF PromptsInit, AskedWithFirst, SweptSound, RecordedAsUsed, SignalsSoundAndTraced, NoSweep
<1> QED
  BY <1>5, <1>6, <1>7 DEF PromptsInit, PromptsInv

LEMMA ProductOfSame ==
  ASSUME NEW m \in Int, NEW n \in Int, (m > 0 /\ n > 0) \/ (m < 0 /\ n < 0)
  PROVE  m * n > 0
<1>1. CASE m > 0 /\ n > 0
  BY <1>1
<1>2. CASE m < 0 /\ n < 0
  BY <1>2
<1> QED
  BY <1>1, <1>2

(* An answer that is sound can be traded wherever it is entered.           *)
LEMMA SoundIsTradable == \A t \in SoundAnswers : t
<1> SUFFICES ASSUME NEW a \in AnswerShapes, Sound(a), a.direction # "flat"
             PROVE  TradableWherever(a)
  BY DEF SoundAnswers, TradableWherever
<1>1. /\ a.direction \in {"long", "short"}
      /\ a.low \in Prices /\ a.high \in Prices /\ a.stop \in Prices /\ a.target \in Prices
  BY DEF AnswerShapes
<1>2. Prices \subseteq Nat
  BY PromptAssumption
<1>3. /\ a.low <= a.high
      /\ a.direction = "long" => a.stop < a.low /\ a.target > a.high
      /\ a.direction = "short" => a.stop > a.high /\ a.target < a.low
  BY <1>1 DEF Sound
<1>4. \E p \in Prices : a.low <= p /\ p <= a.high
  <2>1. PICK low \in Nat : low = a.low
    BY <1>1, <1>2
  <2> QED
    BY <1>1, <1>3, <2>1
<1>5. ASSUME NEW p \in Prices, a.low <= p, p <= a.high
      PROVE  /\ (p - a.stop) * (a.target - p) > 0
             /\ a.target > a.stop <=> a.direction = "long"
  <2>1. PICK low \in Nat, high \in Nat, stop \in Nat, target \in Nat, price \in Nat :
          low = a.low /\ high = a.high /\ stop = a.stop /\ target = a.target /\ price = p
    BY <1>1, <1>2
  <2>2. CASE a.direction = "long"
    <3>1. price - stop > 0 /\ target - price > 0 /\ target > stop
      BY <1>3, <1>5, <2>1, <2>2
    <3>2. (price - stop) * (target - price) > 0
      BY <3>1, ProductOfSame
    <3> QED
      BY <2>1, <2>2, <3>1, <3>2
  <2>3. CASE a.direction = "short"
    <3>1. price - stop < 0 /\ target - price < 0 /\ ~ (target > stop)
      BY <1>3, <1>5, <2>1, <2>3
    <3>2. (price - stop) * (target - price) > 0
      BY <3>1, ProductOfSame
    <3> QED
      BY <2>1, <2>3, <3>1, <3>2
  <2> QED
    BY <1>1, <2>2, <2>3
<1> QED
  BY <1>4, <1>5 DEF TradableWherever

LEMMA SeedIs ==
  ASSUME NEW row \in PromptRows, row.hash[1] # "system", disk \in Texts
  PROVE  SeedUser(SeedSystem(row)) = [system |-> disk, user |-> disk, hash |-> <<"user", disk>>,
                                      by |-> row.by]
<1>1. row.hash # <<"system", disk>>
  OBVIOUS
<1>2. SeedSystem(row) = [row EXCEPT !.system = disk, !.hash = <<"system", disk>>]
  BY <1>1 DEF SeedSystem
<1>3. row = [system |-> row.system, user |-> row.user, hash |-> row.hash, by |-> row.by]
  BY DEF PromptRows
<1>4. SeedSystem(row) = [system |-> disk, user |-> row.user, hash |-> <<"system", disk>>,
                         by |-> row.by]
  BY <1>2, <1>3
<1>5. SeedSystem(row).hash # <<"user", disk>>
  BY <1>4
<1>6. SeedUser(SeedSystem(row)) = [SeedSystem(row) EXCEPT !.user = disk, !.hash = <<"user", disk>>]
  BY <1>5 DEF SeedUser
<1>7. PICK mid : mid = SeedSystem(row)
  OBVIOUS
<1>8. mid = [system |-> mid.system, user |-> mid.user, hash |-> mid.hash, by |-> mid.by]
      /\ mid.system = disk /\ mid.by = row.by
  BY <1>4, <1>7
<1>9. [mid EXCEPT !.user = disk, !.hash = <<"user", disk>>]
        = [system |-> mid.system, user |-> disk, hash |-> <<"user", disk>>, by |-> mid.by]
  <2>1. PICK half : half = [mid EXCEPT !.user = disk]
    OBVIOUS
  <2>2. half = [system |-> mid.system, user |-> disk, hash |-> mid.hash, by |-> mid.by]
    BY <1>8, <2>1
  <2>3. [half EXCEPT !.hash = <<"user", disk>>]
          = [system |-> mid.system, user |-> disk, hash |-> <<"user", disk>>, by |-> mid.by]
    BY <2>2
  <2> QED
    BY <2>1, <2>3
<1> QED
  BY <1>6, <1>7, <1>8, <1>9

LEMMA StartKeeps ==
  ASSUME PromptsInv, Start
  PROVE  PromptsInv'
<1>1. /\ running' = TRUE /\ edited' = FALSE /\ UNCHANGED <<disk, models, signals>>
      /\ applying' = [a \in Applies |-> 0] /\ requests' = [q \in Askers |-> NoRequest]
      /\ sweeping' = NoSweep
  BY DEF Start
<1>2. SweptSound' /\ AskedWithFirst' /\ RecordedAsUsed' /\ SignalsSoundAndTraced'
  BY <1>1 DEF PromptsInv, SweptSound, AskedWithFirst, RecordedAsUsed, SignalsSoundAndTraced,
              NoSweep
<1>3. EngineShape' /\ FirstIsSeeded' /\ (catalyst' => engine' # <<>>)
  <2>1. CASE engine = <<>>
    BY <1>1, <2>1 DEF PromptsInv, EngineShape, FirstIsSeeded, Start, NoSweep
  <2>2. CASE engine # <<>>
    <3> DEFINE row == SeedUser(SeedSystem(engine[1]))
               seeded == [system |-> disk, user |-> disk, hash |-> <<"user", disk>>,
                          by |-> engine[1].by]
    <3>1. engine' = [engine EXCEPT ![1] = row]
      BY <2>2 DEF Start, SeededRows
    <3>2. engine \in Seq(PromptRows) /\ 1 \in DOMAIN engine /\ disk \in Texts
      BY <2>2, EmptySeq, LenProperties DEF PromptsInv, EngineShape
    <3>3. engine[1] \in PromptRows /\ engine[1].hash[1] # "system" /\ engine[1].by = "hand"
      BY <2>2, <3>2 DEF PromptsInv, FirstIsSeeded
    <3>4. row = seeded
      BY <3>2, <3>3, SeedIs
    <3>5. /\ seeded.system = disk /\ seeded.user = disk /\ seeded.hash = <<"user", disk>>
          /\ seeded.by = "hand" /\ seeded.hash[1] = "user"
      BY <3>3
    <3>6. seeded \in PromptRows
      BY <3>2, <3>3 DEF PromptRows, Said
    <3> HIDE DEF row, seeded
    <3>7. /\ engine' \in Seq(PromptRows) /\ DOMAIN engine' = DOMAIN engine /\ engine'[1] = seeded
          /\ \A n \in DOMAIN engine : n # 1 => engine'[n] = engine[n]
      BY <3>1, <3>2, <3>4, <3>6, ExceptSeq, LenProperties
    <3>8. engine' # <<>>
      BY <3>2, <3>7
    <3>9. EngineShape'
      BY <1>1, <3>7 DEF PromptsInv, EngineShape, NoSweep
    <3>10. \A n \in DOMAIN engine' : n > 1 => engine'[n].system = Proposed /\ engine'[n].by = "apply"
      BY <2>2, <3>2, <3>7, LenProperties DEF PromptsInv, FirstIsSeeded
    <3>11. FirstIsSeeded'
      BY <1>1, <3>5, <3>7, <3>10 DEF FirstIsSeeded
    <3> QED
      BY <3>8, <3>9, <3>11
  <2> QED
    BY <2>1, <2>2
<1> QED
  BY <1>2, <1>3 DEF PromptsInv

LEMMA EditKeeps ==
  ASSUME PromptsInv, EditFiles
  PROVE  PromptsInv'
BY DEF PromptsInv, EditFiles, EngineShape, FirstIsSeeded, AskedWithFirst, SweptSound,
       RecordedAsUsed, SignalsSoundAndTraced

LEMMA LoadHighestKeeps ==
  ASSUME PromptsInv, NEW a \in Applies, LoadHighest(a)
  PROVE  PromptsInv'
<1>1. /\ engine # <<>> /\ applying' = [applying EXCEPT ![a] = Len(engine)]
      /\ UNCHANGED <<disk, edited, running, engine, catalyst, requests, sweeping, models, signals>>
  BY DEF LoadHighest
<1>2. Len(engine) \in DOMAIN engine
  BY <1>1, EmptySeq, LenProperties DEF PromptsInv, EngineShape
<1>3. \A b \in Applies : applying'[b] # 0 => applying'[b] \in DOMAIN engine
  BY <1>1, <1>2 DEF PromptsInv, AskedWithFirst
<1> QED
  BY <1>1, <1>3 DEF PromptsInv, EngineShape, FirstIsSeeded, AskedWithFirst, SweptSound,
                    RecordedAsUsed, SignalsSoundAndTraced

LEMMA AddKeeps ==
  ASSUME PromptsInv, NEW a \in Applies, AddAdapted(a)
  PROVE  PromptsInv'
<1>1. /\ applying[a] # 0 /\ applying' = [applying EXCEPT ![a] = 0]
      /\ UNCHANGED <<disk, edited, running, catalyst, requests, sweeping, models, signals>>
  BY DEF AddAdapted
<1> DEFINE made == [engine[applying[a]] EXCEPT !.system = Proposed, !.by = "apply"]
<1>2. engine' = Append(engine, made) \/ engine' = engine
  BY DEF AddAdapted
<1>3. engine \in Seq(PromptRows) /\ applying[a] \in DOMAIN engine
  BY <1>1 DEF PromptsInv, EngineShape, AskedWithFirst
<1>4. /\ made \in PromptRows /\ made.system = Proposed /\ made.by = "apply"
  <2>1. PICK row \in PromptRows : row = engine[applying[a]]
    BY <1>3
  <2>2. row = [system |-> row.system, user |-> row.user, hash |-> row.hash, by |-> row.by]
        /\ row.user \in Said /\ row.hash \in {"hand", "system", "user"} \X Said
    BY DEF PromptRows
  <2>3. [row EXCEPT !.system = Proposed, !.by = "apply"]
          = [system |-> Proposed, user |-> row.user, hash |-> row.hash, by |-> "apply"]
    <3>1. PICK half : half = [row EXCEPT !.system = Proposed]
      OBVIOUS
    <3>2. half = [system |-> Proposed, user |-> row.user, hash |-> row.hash, by |-> row.by]
      BY <2>2, <3>1
    <3>3. [half EXCEPT !.by = "apply"]
            = [system |-> Proposed, user |-> row.user, hash |-> row.hash, by |-> "apply"]
      BY <3>2
    <3> QED
      BY <3>1, <3>3
  <2>4. made = [row EXCEPT !.system = Proposed, !.by = "apply"]
    BY <2>1
  <2> QED
    BY <2>2, <2>3, <2>4 DEF PromptRows, Said
<1> HIDE DEF made
<1>5. /\ engine' \in Seq(PromptRows) /\ DOMAIN engine \subseteq DOMAIN engine'
      /\ 1 \in DOMAIN engine /\ engine' # <<>> /\ engine # <<>>
      /\ \A n \in DOMAIN engine : engine'[n] = engine[n]
      /\ \A n \in DOMAIN engine' : n \in DOMAIN engine \/ engine'[n] = made
  <2>1. 1 \in DOMAIN engine /\ engine # <<>>
    BY <1>3, LenProperties
  <2>2. CASE engine' = engine
    BY <1>3, <2>1, <2>2
  <2>3. CASE engine' = Append(engine, made)
    BY <1>3, <1>4, <2>1, <2>3, AppendProperties, LenProperties
  <2> QED
    BY <1>2, <2>1, <2>2, <2>3
<1>6. EngineShape'
  BY <1>1, <1>5 DEF PromptsInv, EngineShape
<1>7. FirstIsSeeded'
  BY <1>1, <1>4, <1>5 DEF PromptsInv, FirstIsSeeded
<1>8. AskedWithFirst'
  <2>1. \A q \in Askers : requests'[q] # NoRequest =>
          running /\ (requests'[q].edited \/ requests'[q].used = engine'[1].system)
    BY <1>1, <1>5 DEF PromptsInv, AskedWithFirst
  <2>2. \A b \in Applies : applying'[b] # 0 => applying'[b] \in DOMAIN engine
    BY <1>1, <1>3 DEF PromptsInv, AskedWithFirst
  <2> QED
    BY <1>1, <1>5, <2>1, <2>2 DEF AskedWithFirst
<1>9. SweptSound' /\ RecordedAsUsed' /\ SignalsSoundAndTraced' /\ (catalyst' => engine' # <<>>)
  BY <1>1, <1>5 DEF PromptsInv, SweptSound, RecordedAsUsed, SignalsSoundAndTraced
<1> QED
  BY <1>6, <1>7, <1>8, <1>9 DEF PromptsInv

LEMMA AskKeeps ==
  ASSUME PromptsInv, NEW q \in Askers, Ask(q) \/ AnswerRefused(q)
  PROVE  PromptsInv'
<1>1. UNCHANGED <<disk, edited, running, engine, catalyst, applying, sweeping, models, signals>>
  BY DEF Ask, AnswerRefused
<1>2. AskedWithFirst'
  <2>1. CASE Ask(q)
    <3>1. running /\ requests' = [requests EXCEPT ![q] = Request]
      BY <2>1 DEF Ask
    <3>2. Request.used = disk /\ Request.edited = edited
      BY DEF Request
    <3>3. engine # <<>> /\ ~ edited => engine[1].system = disk
      BY <3>1 DEF PromptsInv, FirstIsSeeded
    <3> HIDE DEF Request
    <3> QED
      BY <1>1, <3>1, <3>2, <3>3 DEF PromptsInv, AskedWithFirst
  <2>2. CASE AnswerRefused(q)
    <3>1. requests' = [requests EXCEPT ![q] = NoRequest]
      BY <2>2 DEF AnswerRefused
    <3> QED
      BY <1>1, <3>1 DEF PromptsInv, AskedWithFirst
  <2> QED
    BY <2>1, <2>2
<1> QED
  BY <1>1, <1>2 DEF PromptsInv, EngineShape, FirstIsSeeded, SweptSound,
                    RecordedAsUsed, SignalsSoundAndTraced

(* The row a signal names when it is kept is v1, which tells what was sent, *)
(* or an adaptation.                                                       *)
LEMMA KeptKeeps ==
  ASSUME PromptsInv, NEW q \in Askers, AnswerKept(q)
  PROVE  PromptsInv'
<1>1. /\ requests[q] # NoRequest /\ models' = Append(models, Newest)
      /\ requests' = [requests EXCEPT ![q] = NoRequest]
      /\ UNCHANGED <<disk, edited, running, engine, catalyst, applying, sweeping>>
  BY DEF AnswerKept
<1>2. PICK t \in SoundAnswers :
        signals' = signals \union {SignalRow(Newest, Len(models'), requests[q], t)}
  BY DEF AnswerKept
<1> DEFINE row == SignalRow(Newest, Len(models'), requests[q], t)
<1>3. /\ row.prompt = Newest /\ row.model = Len(models') /\ row.used = requests[q].used
      /\ row.told = Told(Newest) /\ row.edited = requests[q].edited /\ row.tradable = t
      /\ row.adapted = (Newest # 0 /\ engine[Newest].by = "apply")
  BY DEF SignalRow
<1> HIDE DEF row
<1>4. engine \in Seq(PromptRows) /\ models \in Seq(Nat) /\ Newest \in Nat
  BY LenProperties DEF PromptsInv, EngineShape, Newest
<1>5. /\ models' \in Seq(Nat) /\ DOMAIN models \subseteq DOMAIN models'
      /\ Len(models') \in DOMAIN models' /\ models'[Len(models')] = Newest
      /\ \A n \in DOMAIN models : models'[n] = models[n]
  BY <1>1, <1>4, AppendProperties, LenProperties
<1>6. row.prompt # 0 => row.told = row.used \/ row.edited \/ row.adapted
  <2> SUFFICES ASSUME Newest # 0, ~ requests[q].edited, engine[Newest].by # "apply"
               PROVE  Told(Newest) = requests[q].used
    BY <1>3
  <2>1. engine # <<>> /\ Newest \in DOMAIN engine /\ 1 \in DOMAIN engine
    BY <1>4, LenProperties DEF Newest
  <2>2. Newest = 1
    BY <1>4, <2>1, LenProperties DEF PromptsInv, FirstIsSeeded
  <2>3. running /\ requests[q].used = engine[1].system
    BY <1>1, <2>1 DEF PromptsInv, AskedWithFirst
  <2>4. engine[1].system = engine[1].user
    BY <2>1, <2>3 DEF PromptsInv, FirstIsSeeded
  <2> QED
    BY <2>2, <2>3, <2>4 DEF Told
<1>7. row.tradable
  BY <1>3, SoundIsTradable
<1>8. RecordedAsUsed'
  BY <1>2, <1>6 DEF PromptsInv, RecordedAsUsed, row
<1>9. SignalsSoundAndTraced'
  BY <1>2, <1>3, <1>5, <1>7 DEF PromptsInv, SignalsSoundAndTraced, row
<1>10. AskedWithFirst'
  BY <1>1 DEF PromptsInv, AskedWithFirst
<1>11. EngineShape' /\ FirstIsSeeded' /\ SweptSound' /\ (catalyst' => engine' # <<>>)
  BY <1>1, <1>5 DEF PromptsInv, EngineShape, FirstIsSeeded, SweptSound
<1> QED
  BY <1>8, <1>9, <1>10, <1>11 DEF PromptsInv

(* A sweep keeps signals that name no row, at its end.                     *)
LEMMA SweepKeeps ==
  ASSUME PromptsInv, StartSweep \/ SweepAsset
  PROVE  PromptsInv'
<1>1. UNCHANGED <<disk, edited, running, engine, catalyst, applying, requests>>
  BY DEF StartSweep, SweepAsset
<1>2. FirstIsSeeded' /\ AskedWithFirst' /\ (catalyst' => engine' # <<>>)
  BY <1>1 DEF PromptsInv, FirstIsSeeded, AskedWithFirst
<1>3. /\ engine \in Seq(PromptRows) /\ models \in Seq(Nat) /\ sweeping.models \in Seq(Nat)
      /\ Newest \in Nat /\ <<>> \in Seq(Nat)
  BY LenProperties, EmptySeq DEF PromptsInv, EngineShape, Newest
<1>4. CASE StartSweep
  <2>1. UNCHANGED <<models, signals>> /\ sweeping' = [NoSweep EXCEPT !.left = SweptAssets,
                                                                    !.request = Request]
    BY <1>4 DEF StartSweep
  <2>2. sweeping'.models = <<>> /\ sweeping'.signals = {}
    BY <2>1 DEF NoSweep
  <2> QED
    BY <1>1, <1>2, <1>3, <2>1, <2>2 DEF PromptsInv, EngineShape, SweptSound, RecordedAsUsed,
                                        SignalsSoundAndTraced
<1>5. CASE SweepAsset
  <2>1. \E ms, ss :
          /\ \/ ms = sweeping.models /\ ss = sweeping.signals
             \/ ms = Append(sweeping.models, Newest) /\ ss = sweeping.signals
             \/ /\ ms = Append(sweeping.models, Newest)
                /\ \E t \in SoundAnswers :
                      ss = sweeping.signals \union {SignalRow(0, 0, sweeping.request, t)}
          /\ \/ /\ sweeping' = [left |-> sweeping.left - 1, request |-> Request,
                                models |-> ms, signals |-> ss]
                /\ UNCHANGED <<models, signals>>
             \/ sweeping' = NoSweep /\ models' = models \o ms /\ signals' = signals \union ss
    <3> DEFINE GoOn(ms, ss) ==
                 IF sweeping.left > 1
                 THEN /\ sweeping' = [left |-> sweeping.left - 1, request |-> Request,
                                      models |-> ms, signals |-> ss]
                      /\ UNCHANGED <<models, signals>>
                 ELSE /\ sweeping' = NoSweep
                      /\ models' = models \o ms
                      /\ signals' = signals \union ss
    <3>1. \E ms, ss :
            /\ \/ ms = sweeping.models /\ ss = sweeping.signals
               \/ ms = Append(sweeping.models, Newest) /\ ss = sweeping.signals
               \/ /\ ms = Append(sweeping.models, Newest)
                  /\ \E t \in SoundAnswers :
                        ss = sweeping.signals \union {SignalRow(0, 0, sweeping.request, t)}
            /\ GoOn(ms, ss)
      BY <1>5, Zenon DEF SweepAsset
    <3> QED
      BY <3>1, Zenon
  <2>2. PICK ms, ss :
          /\ \/ ms = sweeping.models /\ ss = sweeping.signals
             \/ ms = Append(sweeping.models, Newest) /\ ss = sweeping.signals
             \/ /\ ms = Append(sweeping.models, Newest)
                /\ \E t \in SoundAnswers :
                      ss = sweeping.signals \union {SignalRow(0, 0, sweeping.request, t)}
          /\ \/ /\ sweeping' = [left |-> sweeping.left - 1, request |-> Request,
                                models |-> ms, signals |-> ss]
                /\ UNCHANGED <<models, signals>>
             \/ sweeping' = NoSweep /\ models' = models \o ms /\ signals' = signals \union ss
    BY <2>1
  <2>3. ms \in Seq(Nat)
    <3>1. Append(sweeping.models, Newest) \in Seq(Nat)
      BY <1>3, AppendProperties
    <3> QED
      BY <1>3, <2>2, <3>1
  <2>4. \A s \in ss : s.prompt = 0 /\ s.tradable
    <3>1. \A t \in SoundAnswers : LET s == SignalRow(0, 0, sweeping.request, t)
                                  IN  s.prompt = 0 /\ s.tradable
      BY SoundIsTradable DEF SignalRow
    <3> QED
      BY <2>2, <3>1 DEF PromptsInv, SweptSound
  <2>5. CASE /\ sweeping' = [left |-> sweeping.left - 1, request |-> Request,
                             models |-> ms, signals |-> ss]
             /\ UNCHANGED <<models, signals>>
    <3>1. sweeping'.models = ms /\ sweeping'.signals = ss
      BY <2>5
    <3> QED
      BY <1>1, <1>2, <2>3, <2>4, <2>5, <3>1 DEF PromptsInv, EngineShape, SweptSound,
                                               RecordedAsUsed, SignalsSoundAndTraced
  <2>6. CASE sweeping' = NoSweep /\ models' = models \o ms /\ signals' = signals \union ss
    <3>1. sweeping'.models = <<>> /\ sweeping'.signals = {}
      BY <2>6 DEF NoSweep
    <3>2. /\ models' \in Seq(Nat) /\ DOMAIN models \subseteq DOMAIN models'
          /\ \A n \in DOMAIN models : models'[n] = models[n]
      BY <1>3, <2>3, <2>6, ConcatProperties, LenProperties
    <3>3. EngineShape' /\ SweptSound'
      BY <1>1, <1>3, <3>1, <3>2 DEF PromptsInv, EngineShape, SweptSound
    <3>4. RecordedAsUsed' /\ SignalsSoundAndTraced'
      BY <2>4, <2>6, <3>2 DEF PromptsInv, RecordedAsUsed, SignalsSoundAndTraced
    <3> QED
      BY <1>2, <3>3, <3>4 DEF PromptsInv
  <2> QED
    BY <2>2, <2>5, <2>6
<1> QED
  BY <1>4, <1>5

LEMMA PromptsInductive == PromptsInv /\ [PromptsNext]_promptVars => PromptsInv'
<1> SUFFICES ASSUME PromptsInv, [PromptsNext]_promptVars PROVE PromptsInv'
  OBVIOUS
<1>1. CASE UNCHANGED promptVars
  BY <1>1 DEF promptVars, PromptsInv, EngineShape, FirstIsSeeded, AskedWithFirst, SweptSound,
              RecordedAsUsed, SignalsSoundAndTraced
<1>2. CASE Start
  BY <1>2, StartKeeps
<1>3. CASE EditFiles
  BY <1>3, EditKeeps
<1>4. CASE StartSweep \/ SweepAsset
  BY <1>4, SweepKeeps
<1>5. CASE \E a \in Applies : LoadHighest(a) \/ AddAdapted(a)
  BY <1>5, LoadHighestKeeps, AddKeeps
<1>6. CASE \E q \in Askers : Ask(q) \/ AnswerRefused(q) \/ AnswerKept(q)
  BY <1>6, AskKeeps, KeptKeeps
<1> QED
  BY <1>1, <1>2, <1>3, <1>4, <1>5, <1>6 DEF PromptsNext

LEMMA PromptsTold == PromptsInv => PromptsKept
<1> SUFFICES ASSUME PromptsInv PROVE PromptsKept
  OBVIOUS
<1>1. SeedingKeepsRows
  <2>1. catalyst => engine # <<>>
    BY DEF PromptsInv
  <2>2. running /\ ~ edited /\ engine # <<>> => engine[1].system = disk /\ engine[1].user = disk
    BY DEF PromptsInv, FirstIsSeeded
  <2>3. \A n \in DOMAIN engine : n > 1 => engine[n].system = Proposed /\ engine[n].by = "apply"
    BY DEF PromptsInv, FirstIsSeeded
  <2>4. ASSUME running, engine # <<>>
        PROVE  History[Len(History)].hash = <<"user", History[Len(History)].user>>
    <3>1. engine \in Seq(PromptRows) /\ Len(engine) \in Nat /\ Len(engine) >= 1
          /\ DOMAIN engine = 1..Len(engine)
      BY <2>4, LenProperties DEF PromptsInv, EngineShape
    <3>2. History \in Seq(PromptRows) /\ Len(History) = Len(engine)
      BY <3>1 DEF History
    <3>3. History[Len(History)] = engine[1]
      BY <3>1, <3>2 DEF History
    <3> QED
      BY <2>4, <3>3 DEF PromptsInv, FirstIsSeeded
  <2> QED
    BY <2>1, <2>2, <2>3, <2>4 DEF SeedingKeepsRows
<1> QED
  BY <1>1 DEF PromptsInv, PromptsKept

(* For any texts, requests and adaptations: a signal that names a prompt   *)
(* was asked with what the row says, unless the files were edited or an    *)
(* adaptation applied by then; what is seeded is whole; and every signal   *)
(* of an answer can be traded wherever it is entered.                      *)
THEOREM PromptsAreKept == PromptsSpec => []PromptsKept
<1>1. PromptsSpec => []PromptsInv
  BY PromptsStart, PromptsInductive, PTL DEF PromptsSpec
<1> QED
  BY <1>1, PromptsTold, PTL

-----------------------------------------------------------------------------
(* The ranking of the lab: the scores of one result and of two.            *)

Figures == Measures \union {NoFigure}

LEMMA TwoOf ==
  ASSUME NEW a \in Int, NEW b \in Int
  PROVE  /\ Min({a, b}) = IF a <= b THEN a ELSE b
         /\ Max({a, b}) = IF a >= b THEN a ELSE b
<1>1. Min({a, b}) \in {a, b} /\ Min({a, b}) <= a /\ Min({a, b}) <= b
  <2>1. \E m \in {a, b} : \A n \in {a, b} : m <= n
    OBVIOUS
  <2> QED
    BY <2>1 DEF Min
<1>2. Max({a, b}) \in {a, b} /\ Max({a, b}) >= a /\ Max({a, b}) >= b
  <2>1. \E m \in {a, b} : \A n \in {a, b} : m >= n
    OBVIOUS
  <2> QED
    BY <2>1 DEF Max
<1> QED
  BY <1>1, <1>2

LEMMA ClampIs ==
  ASSUME NEW n \in Int
  PROVE  Clamp(n) = IF n < 0 THEN 0 ELSE IF n > 10000 THEN 10000 ELSE n
<1> DEFINE low == Min({10000, n})
<1>1. low = IF 10000 <= n THEN 10000 ELSE n
  BY TwoOf
<1>2. low \in Int
  BY <1>1
<1> HIDE DEF low
<1>3. Max({0, low}) = IF 0 >= low THEN 0 ELSE low
  BY <1>2, TwoOf
<1>4. Clamp(n) = Max({0, low})
  BY DEF Clamp, low
<1> DEFINE clamped == Clamp(n)
<1>5. clamped = IF 0 >= low THEN 0 ELSE low
  BY <1>3, <1>4
<1> HIDE DEF clamped
<1>6. clamped = IF n < 0 THEN 0 ELSE IF n > 10000 THEN 10000 ELSE n
  BY <1>1, <1>2, <1>5
<1> QED
  BY <1>6 DEF clamped

(* The figures of a result and what is made of them.                       *)
LEMMA ScoresOfOne ==
  ASSUME NEW m \in Measures
  PROVE  /\ m.total \in Nat /\ m.drawdown \in Nat /\ m.gain \in Int /\ m.rate \in Int
         /\ m.highGain \in Int /\ Known(m.factor) \in Nat /\ Known(m.highFactor) \in Nat
         /\ SampleScore(m) \in {20, 40, 60, 80, 100}
         /\ ProfitScore(m) \in {20, 40, 60, 80, 100}
         /\ DrawdownScore(m) \in {20, 40, 60, 80, 100}
         /\ CostScore(m) \in {30, 70, 100} /\ (m.factor # NoFigure => CostScore(m) = 30)
<1>1. /\ m.total \in Nat /\ m.drawdown \in Nat /\ m.gain \in Int /\ m.rate \in Int
      /\ m.highGain \in Int /\ Known(m.factor) \in Nat /\ Known(m.highFactor) \in Nat
      /\ m.level \in {"low", "medium", "high"} /\ (m.factor # NoFigure => m.level = "high")
  BY RankingAssumption DEF Known
<1>2. SampleScore(m) \in {20, 40, 60, 80, 100}
  BY <1>1 DEF SampleScore
<1>3. ProfitScore(m) \in {20, 40, 60, 80, 100}
  BY <1>1 DEF ProfitScore
<1>4. DrawdownScore(m) \in {20, 40, 60, 80, 100}
  BY <1>1 DEF DrawdownScore
<1>5. CostScore(m) \in {30, 70, 100} /\ (m.factor # NoFigure => CostScore(m) = 30)
  BY <1>1 DEF CostScore
<1> QED
  BY <1>1, <1>2, <1>3, <1>4, <1>5

LEMMA RoundIs ==
  ASSUME NEW n \in Nat
  PROVE  RoundHalfEven(n) \in Nat /\ 100 * RoundHalfEven(n) - n \in -50..50
<1> DEFINE q == n \div 100
           r == n % 100
<1>1. q \in Nat /\ r \in 0..99 /\ n = 100 * q + r
  BY SMTT(30)
<1>2. RoundHalfEven(n) = IF r > 50 \/ (r = 50 /\ q % 2 = 1) THEN q + 1 ELSE q
  BY DEF RoundHalfEven
<1> HIDE DEF q, r
<1> QED
  BY <1>1, <1>2

LEMMA RoundsInOrder ==
  ASSUME NEW m \in Nat, NEW n \in Nat, m <= n
  PROVE  RoundHalfEven(m) <= RoundHalfEven(n)
<1>1. RoundHalfEven(m) \in Nat /\ RoundHalfEven(n) \in Nat
  BY RoundIs
<1> DEFINE q(k) == k \div 100
           r(k) == k % 100
           up(k) == r(k) > 50 \/ (r(k) = 50 /\ q(k) % 2 = 1)
<1>2. \A k \in Nat : /\ q(k) \in Nat /\ r(k) \in 0..99 /\ k = 100 * q(k) + r(k)
                     /\ RoundHalfEven(k) = IF up(k) THEN q(k) + 1 ELSE q(k)
                     /\ (up(k) => r(k) >= 50) /\ (r(k) > 50 => up(k))
  BY SMTT(30) DEF RoundHalfEven
<1>3. q(m) = q(n) /\ r(m) = r(n) => (up(m) <=> up(n))
  OBVIOUS
<1> DEFINE qm == q(m)
           qn == q(n)
           rm == r(m)
           rn == r(n)
<1>4. /\ qm \in Nat /\ rm \in 0..99 /\ m = 100 * qm + rm
      /\ RoundHalfEven(m) = IF up(m) THEN qm + 1 ELSE qm
      /\ (up(m) => rm >= 50) /\ (rm > 50 => up(m))
  BY <1>2
<1>5. /\ qn \in Nat /\ rn \in 0..99 /\ n = 100 * qn + rn
      /\ RoundHalfEven(n) = IF up(n) THEN qn + 1 ELSE qn
      /\ (up(n) => rn >= 50) /\ (rn > 50 => up(n))
  BY <1>2
<1>6. qm = qn /\ rm = rn => (up(m) <=> up(n))
  BY <1>3
<1> HIDE DEF q, r, up, qm, qn, rm, rn
<1>7. qm < qn \/ (qm = qn /\ rm <= rn)
  BY <1>4, <1>5
<1>8. CASE qm < qn
  BY <1>4, <1>5, <1>8
<1>9. CASE qm = qn /\ rm <= rn
  <2>1. up(m) => up(n)
    BY <1>4, <1>5, <1>6, <1>9
  <2> QED
    BY <1>4, <1>5, <1>9, <2>1
<1> QED
  BY <1>7, <1>8, <1>9

LEMMA ConfidenceIs ==
  ASSUME NEW m \in Measures
  PROVE  /\ Robustness(m) \in Nat /\ Confidence(m) \in Nat
         /\ 100 * Robustness(m) <= 45 * ProfitScore(m) + 30 * DrawdownScore(m)
                                       + 25 * CostScore(m) + 50
<1> DEFINE sum == 45 * ProfitScore(m) + 30 * DrawdownScore(m) + 25 * CostScore(m)
<1>1. sum \in Nat
  BY ScoresOfOne
<1>2. Robustness(m) = RoundHalfEven(sum)
  BY DEF Robustness
<1>3. Robustness(m) \in Nat /\ 100 * Robustness(m) <= sum + 50
  <2> HIDE DEF sum
  <2> QED
    BY <1>1, <1>2, RoundIs
<1>4. Confidence(m) \in Nat
  BY <1>3, ScoresOfOne DEF Confidence
<1> QED
  BY <1>3, <1>4

LEMMA ScoreIs ==
  ASSUME NEW m \in Figures
  PROVE  ScoreOf(m) \in Nat
<1>1. CASE m = NoFigure
  BY <1>1 DEF ScoreOf
<1>2. CASE m # NoFigure
  <2>1. m \in Measures
    BY <1>2 DEF Figures
  <2> DEFINE factor == Min({Known(m.factor), 500})
             penalty == IF m.total < 5 THEN 2500 ELSE IF m.total < 10 THEN 1000 ELSE 0
  <2>2. factor \in Int /\ penalty \in Int
    BY <2>1, ScoresOfOne, TwoOf
  <2>3. ScoreOf(m) = Clamp(30 * factor + 200 * m.gain + 20 * m.rate - 300 * m.drawdown - penalty)
    BY <1>2 DEF ScoreOf
  <2> HIDE DEF factor, penalty
  <2>4. PICK n \in Int :
            n = 30 * factor + 200 * m.gain + 20 * m.rate - 300 * m.drawdown - penalty
    BY <2>1, <2>2, ScoresOfOne
  <2>5. ScoreOf(m) = Clamp(n)
    BY <2>3, <2>4
  <2>6. ScoreOf(m) = IF n < 0 THEN 0 ELSE IF n > 10000 THEN 10000 ELSE n
    BY <2>5, ClampIs
  <2> QED
    BY <2>6
<1> QED
  BY <1>1, <1>2

(* What is no worse is judged no worse.                                    *)
LEMMA NoWorseIsJudgedSo ==
  ASSUME NEW m \in Measures, NEW n \in Measures, m # NoFigure, n # NoFigure, NoWorse(m, n)
  PROVE  Confidence(m) >= Confidence(n) /\ ScoreOf(m) >= ScoreOf(n)
<1>1. /\ m.total >= n.total /\ m.gain >= n.gain /\ m.rate >= n.rate
      /\ m.drawdown <= n.drawdown /\ CostScore(m) >= CostScore(n)
      /\ Known(m.factor) >= Known(n.factor)
  BY DEF NoWorse
<1>2. SampleScore(m) >= SampleScore(n)
  BY <1>1, ScoresOfOne DEF SampleScore
<1>3. ProfitScore(m) >= ProfitScore(n)
  BY <1>1, ScoresOfOne DEF ProfitScore
<1>4. DrawdownScore(m) >= DrawdownScore(n)
  BY <1>1, ScoresOfOne DEF DrawdownScore
<1> DEFINE sum(k) == 45 * ProfitScore(k) + 30 * DrawdownScore(k) + 25 * CostScore(k)
<1>5. sum(m) \in Nat /\ sum(n) \in Nat /\ sum(n) <= sum(m)
  BY <1>1, <1>3, <1>4, ScoresOfOne
<1>6. Robustness(m) >= Robustness(n)
  <2>1. Robustness(m) = RoundHalfEven(sum(m)) /\ Robustness(n) = RoundHalfEven(sum(n))
    BY DEF Robustness
  <2>2. RoundHalfEven(sum(m)) \in Nat /\ RoundHalfEven(sum(n)) \in Nat
    <3> HIDE DEF sum
    <3> QED
      BY <1>5, RoundIs
  <2>3. RoundHalfEven(sum(n)) <= RoundHalfEven(sum(m))
    <3> HIDE DEF sum
    <3> QED
      BY <1>5, RoundsInOrder
  <2> HIDE DEF sum
  <2> QED
    BY <2>1, <2>2, <2>3
<1>7. Confidence(m) >= Confidence(n)
  BY <1>1, <1>2, <1>3, <1>4, <1>6, ScoresOfOne, ConfidenceIs DEF Confidence
<1>8. ScoreOf(m) >= ScoreOf(n)
  <2> DEFINE factor(k) == Min({Known(k.factor), 500})
             penalty(k) == IF k.total < 5 THEN 2500 ELSE IF k.total < 10 THEN 1000 ELSE 0
             whole(k) == 30 * factor(k) + 200 * k.gain + 20 * k.rate - 300 * k.drawdown - penalty(k)
  <2>1. factor(m) \in Int /\ factor(n) \in Int /\ factor(m) >= factor(n)
    BY <1>1, ScoresOfOne, TwoOf
  <2>2. penalty(m) \in Int /\ penalty(n) \in Int /\ penalty(m) <= penalty(n)
    BY <1>1, ScoresOfOne
  <2>3. ScoreOf(m) = Clamp(whole(m)) /\ ScoreOf(n) = Clamp(whole(n))
    BY DEF ScoreOf
  <2>4. whole(m) \in Int /\ whole(n) \in Int /\ whole(n) <= whole(m)
    <3> HIDE DEF factor, penalty
    <3> QED
      BY <1>1, <2>1, <2>2, ScoresOfOne
  <2> HIDE DEF whole
  <2> QED
    BY <2>3, <2>4, ClampIs
<1> QED
  BY <1>7, <1>8

(* What the best grade and a high risk take.                               *)
LEMMA GradesAreEarned ==
  ASSUME NEW m \in Measures
  PROVE  /\ GradeOf(m) = "A" => /\ m.total >= 500 /\ m.drawdown <= 5
                                /\ m.factor # NoFigure /\ m.factor >= 150
         /\ OverfittingRisk(m) >= 70 => m.total < 100
<1>1. OverfittingRisk(m) >= 70 => m.total < 100
  <2> SUFFICES ASSUME ~ (m.total < 100) PROVE ~ (OverfittingRisk(m) >= 70)
    OBVIOUS
  <2> DEFINE If(condition, points) == IF condition THEN points ELSE 0
             worse == If(m.gain > 0 /\ m.highGain < 0, 20)
             poorer == If(m.highFactor # NoFigure /\ Known(m.factor) >= 120
                            /\ Known(m.highFactor) < 100, 10)
  <2>1. OverfittingRisk(m) = 30 + If(m.total < 50, 35) + If(m.total \in 50..99, 20)
           + If(m.gain > 30 /\ m.total < 100, 20)
           + If(Known(m.factor) >= 200 /\ m.total < 100, 15) + worse + poorer
    BY DEF OverfittingRisk
  <2>2. /\ If(m.total < 50, 35) = 0 /\ If(m.total \in 50..99, 20) = 0
        /\ If(m.gain > 30 /\ m.total < 100, 20) = 0
        /\ If(Known(m.factor) >= 200 /\ m.total < 100, 15) = 0
    BY ScoresOfOne
  <2>3. worse \in {0, 20} /\ poorer \in {0, 10}
    OBVIOUS
  <2> HIDE DEF If, worse, poorer
  <2> QED
    BY <2>1, <2>2, <2>3
<1>2. ASSUME GradeOf(m) = "A"
      PROVE  m.total >= 500 /\ m.drawdown <= 5 /\ m.factor # NoFigure /\ m.factor >= 150
  <2>1. Confidence(m) >= 8500
    BY <1>2, ConfidenceIs DEF GradeOf
  <2>2. CASE m.factor = NoFigure
    <3>1. ProfitScore(m) = 20
      BY <2>2 DEF ProfitScore, Known
    <3> QED
      BY <2>1, <3>1, ScoresOfOne, ConfidenceIs DEF Confidence
  <2>3. CASE m.factor # NoFigure
    <3>1. CostScore(m) = 30 /\ Known(m.factor) = m.factor
      BY <2>3, ScoresOfOne DEF Known
    <3>2. /\ SampleScore(m) \in {20, 40, 60, 80, 100} /\ ProfitScore(m) \in {20, 40, 60, 80, 100}
          /\ DrawdownScore(m) \in {20, 40, 60, 80, 100} /\ Robustness(m) \in Nat
          /\ 100 * Robustness(m) <= 45 * ProfitScore(m) + 30 * DrawdownScore(m) + 800
      BY <3>1, ScoresOfOne, ConfidenceIs
    <3>3. 8500 <= 25 * SampleScore(m) + 25 * ProfitScore(m) + 20 * DrawdownScore(m)
                      + 450 + 15 * Robustness(m)
      BY <2>1, <3>1, <3>2 DEF Confidence
    <3>4. SampleScore(m) = 100 /\ ProfitScore(m) = 100 /\ DrawdownScore(m) = 100
      BY <3>2, <3>3
    <3>5. m.total >= 500
      BY <3>4, ScoresOfOne DEF SampleScore
    <3>6. m.drawdown <= 5
      BY <3>4, ScoresOfOne DEF DrawdownScore
    <3>7. m.factor >= 150
      BY <3>1, <3>4, ScoresOfOne DEF ProfitScore
    <3> QED
      BY <2>3, <3>5, <3>6, <3>7
  <2> QED
    BY <2>2, <2>3
<1> QED
  BY <1>1, <1>2

(* The ranking.  Of two results one is ahead of the other, and then has    *)
(* fewer ahead of it.                                                      *)
Judgeable(results) == results \in Seq(Figures)

LEMMA AheadIsBefore ==
  ASSUME NEW results, Judgeable(results), NEW m \in DOMAIN results, NEW n \in DOMAIN results,
         m \in AheadOf(results, n)
  PROVE  Cardinality(AheadOf(results, m)) < Cardinality(AheadOf(results, n))
<1>1. DOMAIN results = 1..Len(results) /\ \A k \in DOMAIN results : results[k] \in Figures
  BY DEF Judgeable
<1>2. \A k \in DOMAIN results : ScoreOf(results[k]) \in Nat /\ k \in Nat
  BY <1>1, ScoreIs
<1>3. AheadOf(results, m) \subseteq AheadOf(results, n)
  BY <1>2 DEF AheadOf
<1>4. m \notin AheadOf(results, m)
  BY <1>2 DEF AheadOf
<1>5. IsFiniteSet(AheadOf(results, n)) /\ Cardinality(AheadOf(results, n)) \in Nat
  <2>1. AheadOf(results, n) \subseteq 1..Len(results) /\ Len(results) \in Nat
    BY <1>1 DEF AheadOf, Judgeable
  <2>2. IsFiniteSet(1..Len(results))
    BY <2>1, FS_Interval
  <2> QED
    BY <2>1, <2>2, FS_Subset, FS_CardinalityType
<1>6. /\ IsFiniteSet(AheadOf(results, n) \ {m})
      /\ Cardinality(AheadOf(results, n) \ {m}) = Cardinality(AheadOf(results, n)) - 1
  BY <1>5, FS_RemoveElement
<1>7. Cardinality(AheadOf(results, m)) <= Cardinality(AheadOf(results, n) \ {m})
  BY <1>3, <1>4, <1>6, FS_Subset
<1>8. Cardinality(AheadOf(results, m)) \in Nat
  BY <1>3, <1>5, FS_Subset, FS_CardinalityType
<1> QED
  BY <1>5, <1>6, <1>7, <1>8

(* So each rank is that of one config.                                     *)
LEMMA RanksAreTaken ==
  ASSUME NEW results, Judgeable(results), NEW i \in DOMAIN results
  PROVE  /\ Ranked(results)[i] \in DOMAIN results
         /\ Cardinality(AheadOf(results, Ranked(results)[i])) = i - 1
<1> DEFINE D == DOMAIN results
           size == Len(results)
           ahead(n) == Cardinality(AheadOf(results, n))
           place == [n \in D |-> ahead(n) + 1]
<1>1. size \in Nat /\ D = 1..size /\ \A k \in D : results[k] \in Figures
  BY DEF Judgeable
<1>2. \A k \in D : ScoreOf(results[k]) \in Nat /\ k \in Nat
  BY <1>1, ScoreIs
<1>3. \A n \in D : ahead(n) \in 0..(size - 1)
  <2> SUFFICES ASSUME NEW n \in D PROVE ahead(n) \in 0..(size - 1)
    OBVIOUS
  <2>1. AheadOf(results, n) \subseteq D \ {n}
    BY <1>2 DEF AheadOf
  <2>2. IsFiniteSet(D) /\ Cardinality(D) = size
    <3> HIDE DEF D, size
    <3>1. IsFiniteSet(1..size) /\ Cardinality(1..size) = IF 1 > size THEN 0 ELSE size - 1 + 1
      BY <1>1, FS_Interval
    <3> QED
      BY <1>1, <3>1
  <2>3. IsFiniteSet(D \ {n}) /\ Cardinality(D \ {n}) = size - 1
    BY <2>2, FS_RemoveElement
  <2>4. ahead(n) \in Nat /\ ahead(n) <= size - 1
    BY <2>1, <2>3, FS_Subset, FS_CardinalityType
  <2> QED
    BY <1>1, <2>4
<1>4. ASSUME NEW m \in D, NEW n \in D, m # n
      PROVE  ahead(m) # ahead(n)
  <2>1. m \in AheadOf(results, n) \/ n \in AheadOf(results, m)
    BY <1>2, <1>4 DEF AheadOf
  <2>2. ahead(m) < ahead(n) \/ ahead(n) < ahead(m)
    BY <2>1, AheadIsBefore
  <2> QED
    BY <1>3, <2>2
<1>5. place \in [D -> D]
  <2>1. \A n \in D : ahead(n) + 1 \in D
    <3> HIDE DEF ahead
    <3> QED
      BY <1>1, <1>3
  <2> HIDE DEF ahead, D
  <2> QED
    BY <2>1
<1>6. place \in Injection(D, D)
  <2>1. \A m, n \in D : place[m] = place[n] => m = n
    <3> HIDE DEF ahead, D
    <3> QED
      BY <1>3, <1>4
  <2> HIDE DEF place, D
  <2> QED
    BY <1>5, <2>1 DEF Injection, IsInjective
<1>7. place \in Surjection(D, D)
  <2>1. IsFiniteSet(D)
    BY <1>1, FS_Interval
  <2> HIDE DEF place, D
  <2> QED
    BY <1>6, <2>1, FS_Injection
<1>8. \E n \in D : place[n] = i
  <2> HIDE DEF place
  <2> QED
    BY <1>7 DEF Surjection
<1>9. \E n \in D : ahead(n) = i - 1
  <2> PICK n \in D : place[n] = i
    BY <1>8
  <2>1. ahead(n) + 1 = i
    <3> HIDE DEF ahead
    <3> QED
      OBVIOUS
  <2>2. ahead(n) \in Int
    BY <1>3
  <2> HIDE DEF ahead
  <2> QED
    BY <2>1, <2>2
<1> QED
  BY <1>9 DEF Ranked

(* What is ranked after another scores no more.                            *)
LEMMA RankedInOrder ==
  ASSUME NEW results, Judgeable(results), NEW a \in DOMAIN results, NEW b \in DOMAIN results,
         b < a
  PROVE  ScoreOf(results[Ranked(results)[a]]) <= ScoreOf(results[Ranked(results)[b]])
<1> DEFINE m == Ranked(results)[a]
           n == Ranked(results)[b]
<1>1. /\ m \in DOMAIN results /\ Cardinality(AheadOf(results, m)) = a - 1
      /\ n \in DOMAIN results /\ Cardinality(AheadOf(results, n)) = b - 1
  BY RanksAreTaken
<1>2. DOMAIN results = 1..Len(results) /\ \A k \in DOMAIN results : results[k] \in Figures
  BY DEF Judgeable
<1> HIDE DEF m, n
<1>3. m \notin AheadOf(results, n)
  <2> SUFFICES ASSUME m \in AheadOf(results, n) PROVE FALSE
    OBVIOUS
  <2>1. a - 1 < b - 1
    BY <1>1, AheadIsBefore
  <2>2. a \in Int /\ b \in Int
    BY <1>2
  <2> QED
    BY <2>1, <2>2
<1>4. ScoreOf(results[m]) <= ScoreOf(results[n])
  <2>1. ScoreOf(results[m]) \in Nat /\ ScoreOf(results[n]) \in Nat
    BY <1>1, <1>2, ScoreIs
  <2>2. ~ (ScoreOf(results[m]) > ScoreOf(results[n]))
    BY <1>1, <1>3 DEF AheadOf
  <2> QED
    BY <2>1, <2>2
<1> QED
  BY <1>4 DEF m, n

(* The first one scores no less than any.                                  *)
LEMMA FirstIsBest ==
  ASSUME NEW results, Judgeable(results), NEW k \in DOMAIN results
  PROVE  ScoreOf(results[k]) <= ScoreOf(results[Ranked(results)[1]])
<1>1. DOMAIN results = 1..Len(results) /\ \A j \in DOMAIN results : results[j] \in Figures
  BY DEF Judgeable
<1>2. 1 \in DOMAIN results
  BY <1>1 DEF Judgeable
<1> DEFINE n == Ranked(results)[1]
<1>3. n \in DOMAIN results /\ Cardinality(AheadOf(results, n)) = 0
  BY <1>2, RanksAreTaken
<1> HIDE DEF n
<1>4. AheadOf(results, n) = {}
  <2>1. AheadOf(results, n) \subseteq 1..Len(results) /\ Len(results) \in Nat
    BY <1>1 DEF AheadOf, Judgeable
  <2>2. IsFiniteSet(1..Len(results))
    BY <2>1, FS_Interval
  <2>3. IsFiniteSet(AheadOf(results, n))
    BY <2>1, <2>2, FS_Subset
  <2> QED
    BY <1>3, <2>3, FS_EmptySet
<1>5. ScoreOf(results[k]) <= ScoreOf(results[n])
  <2>1. ScoreOf(results[k]) \in Nat /\ ScoreOf(results[n]) \in Nat
    BY <1>1, <1>3, ScoreIs
  <2>2. ~ (ScoreOf(results[k]) > ScoreOf(results[n]))
    BY <1>4 DEF AheadOf
  <2> QED
    BY <2>1, <2>2
<1> QED
  BY <1>5 DEF n

-----------------------------------------------------------------------------
(* The pages, for any count *)

LEMMA ListsAlwaysCover == ListsCover
<1> SUFFICES ASSUME NEW count \in 1..40
             PROVE  /\ TopOf(count) \union BottomOf(count) = 1..count <=> count <= 15
                    /\ TopOf(count) \cap BottomOf(count) # {} <=> count \in 11..14
  BY DEF ListsCover
<1>1. TopOf(count) = 1..(IF count <= 10 THEN count ELSE 10)
  BY TwoOf DEF TopOf
<1>2. CASE count <= 10
  BY <1>1, <1>2 DEF BottomOf
<1>3. CASE count > 10
  <2>1. TopOf(count) = 1..10 /\ BottomOf(count) = (count - 4)..count
    BY <1>1, <1>3 DEF BottomOf
  <2>2. TopOf(count) \union BottomOf(count) = 1..count <=> count <= 15
    <3>1. ASSUME count <= 15 PROVE TopOf(count) \union BottomOf(count) = 1..count
      BY <1>3, <2>1, <3>1
    <3>2. ASSUME ~ (count <= 15) PROVE TopOf(count) \union BottomOf(count) # 1..count
      <4>1. 11 \in 1..count /\ 11 \notin TopOf(count) \union BottomOf(count)
        BY <2>1, <3>2
      <4> QED
        BY <4>1
    <3> QED
      BY <3>1, <3>2
  <2>3. TopOf(count) \cap BottomOf(count) # {} <=> count \in 11..14
    <3>1. ASSUME count \in 11..14 PROVE 10 \in TopOf(count) \cap BottomOf(count)
      BY <2>1, <3>1
    <3>2. ASSUME count \notin 11..14 PROVE TopOf(count) \cap BottomOf(count) = {}
      BY <1>3, <2>1, <3>2
    <3> QED
      BY <3>1, <3>2
  <2> QED
    BY <2>2, <2>3
<1> QED
  BY <1>2, <1>3

LEMMA PreviewsAlwaysReach == PreviewsReach
<1> SUFFICES ASSUME NEW count \in 1..200, NEW shown, shown = PreviewPoints(count)
             PROVE  /\ 0 \in shown /\ Cardinality(shown) \in Min({count, 32})..32
                    /\ 2 * (Max(shown) + 1) >= count - 1
  BY DEF PreviewsReach
<1>1. CASE count <= 32
  <2>1. shown = 0..(count - 1)
    BY <1>1 DEF PreviewPoints
  <2>2. Cardinality(shown) = count
    <3>1. Cardinality(0..(count - 1)) = IF 0 > count - 1 THEN 0 ELSE count - 1 - 0 + 1
      BY FS_Interval
    <3> QED
      BY <2>1, <3>1
  <2>3. Max(shown) = count - 1
    BY <2>1, GreatestIs
  <2>4. Min({count, 32}) = count
    BY <1>1, TwoOf
  <2> QED
    BY <1>1, <2>1, <2>2, <2>3, <2>4
<1>2. CASE count > 32
  <2>1. PICK step \in 1..6 : step = count \div 32 /\ 32 * step <= count /\ count < 32 * step + 32
    <3>1. count \div 32 \in 1..6 /\ 32 * (count \div 32) <= count
          /\ count < 32 * (count \div 32) + 32
      BY <1>2, SMTT(60)
    <3> QED
      BY <3>1
  <2>2. Max({1, count \div 32}) = step
    <3>1. Max({1, step}) = IF 1 >= step THEN 1 ELSE step
      BY TwoOf
    <3> QED
      BY <2>1, <3>1
  <2>3. \A j \in 0..31 : step * j \in 0..(31 * step) /\ step * j < count
    BY <2>1, SMTT(30)
  <2>4. shown = {step * i : i \in 0..31}
    <3>1. shown = {step * i : i \in {j \in 0..31 : step * j < count}}
      BY <1>2, <2>2 DEF PreviewPoints
    <3>2. {j \in 0..31 : step * j < count} = 0..31
      BY <2>3
    <3> QED
      BY <3>1, <3>2
  <2>5. 0 \in shown /\ 31 * step \in shown
    <3>1. step * 0 = 0 /\ step * 31 = 31 * step
      BY <2>1
    <3>2. 0 \in 0..31 /\ 31 \in 0..31
      OBVIOUS
    <3> QED
      BY <2>4, <3>1, <3>2
  <2>6. Max(shown) = 31 * step
    <3>1. shown \subseteq 0..(31 * step) /\ 31 * step \in Nat
      BY <2>1, <2>3, <2>4
    <3> QED
      BY <2>5, <3>1, GreatestIs
  <2>7. Cardinality(shown) = 32
    <3>1. PICK last \in Nat : last = 31
      OBVIOUS
    <3>2. shown = {step * i : i \in 0..last}
      BY <2>4, <3>1
    <3> DEFINE f == [i \in 0..last |-> step * i]
    <3>3. \A i, j \in 0..last : f[i] = f[j] => i = j
      BY <2>1
    <3>4. f \in Bijection(0..last, shown)
      BY <3>2, <3>3 DEF Bijection, Injection, Surjection, IsInjective
    <3>5. IsFiniteSet(0..last) /\ Cardinality(0..last) = last + 1
      BY FS_Interval
    <3>6. Cardinality(shown) = last + 1
      BY <3>4, <3>5, FS_Bijection DEF ExistsBijection
    <3> QED
      BY <3>1, <3>6
  <2>8. Min({count, 32}) = 32
    BY <1>2, TwoOf
  <2> QED
    BY <2>1, <2>5, <2>6, <2>7, <2>8
<1> QED
  BY <1>1, <1>2

-----------------------------------------------------------------------------
(* The comparison, its replays and the reports *)

AskingRows == [stage : {"idle", "asked", "done"}, of : Seq(Figures), replay : Nat]
ReportRows == [by : Reporters, replay : Nat, of : Seq(Figures), status : {"completed", "failed"},
               json : Nat \union {NoFigure}, confidence : Nat \union {NoFigure}]

RankingShape ==
    /\ Judgeable(rows) /\ Len(rows) <= Compared /\ replays \in Nat
    /\ asking \in [Reporters -> AskingRows] /\ reports \in Seq(ReportRows)

(* The response is the ranking of the rows until a replay clears them.     *)
ResponseRanks ==
    replays = 0 /\ response # <<>> => Len(rows) = Compared /\ response = Ranked(rows)

(* Results of an earlier replay, or those of this one as far as they were. *)
AsFarAs(of, replay) ==
    /\ replay <= replays
    /\ replay = replays => Len(of) <= Len(rows) /\ \A n \in 1..Len(of) : rows[n] = of[n]

Traceable ==
    /\ \A q \in Reporters : asking[q].stage = "asked" => AsFarAs(asking[q].of, asking[q].replay)
    /\ \A i \in DOMAIN reports : AsFarAs(reports[i].of, reports[i].replay)

OneConfidence ==
    \A i \in DOMAIN reports : reports[i].status = "completed" =>
        reports[i].json = reports[i].confidence \/ reports[i].json \in 1..100

RankingInv == RankingShape /\ ResponseRanks /\ Traceable /\ OneConfidence

LEMMA RowsOfReports ==
  ASSUME RankingShape, NEW i \in DOMAIN reports
  PROVE  reports[i].of \in Seq(Figures) /\ reports[i].replay \in Nat
<1>1. reports \in Seq(ReportRows)
  BY DEF RankingShape
<1>2. reports[i] \in ReportRows
  BY <1>1
<1> QED
  BY <1>2 DEF ReportRows

LEMMA RankingStart == RankingInit => RankingInv
<1> SUFFICES ASSUME RankingInit PROVE RankingInv
  OBVIOUS
<1>1. NotAsking \in AskingRows
  BY DEF NotAsking, AskingRows
<1>2. RankingShape
  BY <1>1, RankingAssumption DEF RankingInit, RankingShape, Judgeable
<1>3. ResponseRanks /\ Traceable /\ OneConfidence
  BY DEF RankingInit, ResponseRanks, Traceable, OneConfidence, NotAsking
<1> QED
  BY <1>2, <1>3 DEF RankingInv

LEMMA RunConfigKeeps == RankingInv /\ RunConfig => RankingInv'
<1> SUFFICES ASSUME RankingInv, RunConfig PROVE RankingInv'
  OBVIOUS
<1> USE DEF RankingInv
<1>1. /\ Len(rows) < Compared
      /\ UNCHANGED <<replays, response, asking, reports>>
  BY DEF RunConfig
<1>2. PICK m \in Figures : rows' = Append(rows, m)
  BY DEF RunConfig, Figures
<1>3. /\ rows \in Seq(Figures) /\ rows' \in Seq(Figures) /\ Len(rows') = Len(rows) + 1
      /\ Len(rows) \in Nat /\ \A n \in 1..Len(rows) : rows'[n] = rows[n]
  BY <1>2 DEF RankingShape, Judgeable
<1>4. RankingShape'
  BY <1>1, <1>3, RankingAssumption DEF RankingShape, Judgeable
<1>5. ResponseRanks'
  BY <1>1, <1>3, RankingAssumption DEF ResponseRanks
<1>6. ASSUME NEW of \in Seq(Figures), NEW replay, AsFarAs(of, replay)
      PROVE  AsFarAs(of, replay)'
  <2>1. Len(of) \in Nat
    OBVIOUS
  <2> QED
    BY <1>1, <1>3, <1>6, <2>1 DEF AsFarAs
<1>7. Traceable'
  <2>1. \A q \in Reporters : asking[q].of \in Seq(Figures)
    BY DEF RankingShape, AskingRows
  <2>2. \A i \in DOMAIN reports : reports[i].of \in Seq(Figures)
    BY RowsOfReports
  <2> QED
    BY <1>1, <1>6, <2>1, <2>2 DEF Traceable
<1>8. OneConfidence'
  BY <1>1 DEF OneConfidence
<1> QED
  BY <1>4, <1>5, <1>7, <1>8

LEMMA FinishComparisonKeeps == RankingInv /\ FinishComparison => RankingInv'
<1> SUFFICES ASSUME RankingInv, FinishComparison PROVE RankingInv'
  OBVIOUS
<1>1. /\ Len(rows) = Compared /\ response' = Ranked(rows)
      /\ UNCHANGED <<rows, replays, asking, reports>>
  BY DEF FinishComparison
<1>2. Ranked(rows)' = Ranked(rows)
  BY <1>1 DEF Ranked, AheadOf
<1>3. ResponseRanks'
  BY <1>1, <1>2 DEF ResponseRanks
<1> QED
  BY <1>1, <1>3 DEF RankingInv, RankingShape, Judgeable, Traceable, AsFarAs, OneConfidence

LEMMA ReplayKeeps == RankingInv /\ Replay => RankingInv'
<1> SUFFICES ASSUME RankingInv, Replay PROVE RankingInv'
  OBVIOUS
<1>1. /\ rows' = <<>> /\ replays' = replays + 1
      /\ UNCHANGED <<response, asking, reports>>
  BY DEF Replay
<1>2. replays \in Nat
  BY DEF RankingInv, RankingShape
<1>3. RankingShape' /\ ResponseRanks'
  BY <1>1, <1>2, RankingAssumption DEF RankingInv, RankingShape, Judgeable, ResponseRanks
<1>4. ASSUME NEW of, NEW replay \in Nat, AsFarAs(of, replay)
      PROVE  AsFarAs(of, replay)'
  BY <1>1, <1>2, <1>4 DEF AsFarAs
<1>5. Traceable'
  <2>1. \A q \in Reporters : asking[q].replay \in Nat
    BY DEF RankingInv, RankingShape, AskingRows
  <2>2. \A i \in DOMAIN reports : reports[i].replay \in Nat
    BY RowsOfReports DEF RankingInv
  <2> QED
    BY <1>1, <1>4, <2>1, <2>2 DEF RankingInv, Traceable
<1>6. OneConfidence'
  BY <1>1 DEF RankingInv, OneConfidence
<1> QED
  BY <1>3, <1>5, <1>6 DEF RankingInv

LEMMA NormalisedIs ==
  ASSUME NEW raw \in Int
  PROVE  /\ Normalised(raw) \in Nat
         /\ Normalised(raw) = Normalised(Normalised(raw)) \/ Normalised(raw) \in 1..100
<1> DEFINE scaled(n) == IF n \in 0..100 THEN 100 * n ELSE n
<1>1. ASSUME NEW n \in Int
      PROVE  Normalised(n) = IF scaled(n) < 0 THEN 0
                             ELSE IF scaled(n) > 10000 THEN 10000 ELSE scaled(n)
  <2>1. Normalised(n) = Clamp(scaled(n))
    BY DEF Normalised, Clamp
  <2>2. PICK k \in Int : k = scaled(n)
    OBVIOUS
  <2> HIDE DEF scaled
  <2> QED
    BY <2>1, <2>2, ClampIs
<1>2. PICK once \in Int : once = Normalised(raw) /\ once >= 0 /\ once <= 10000
  <2>1. /\ Normalised(raw) \in Int /\ Normalised(raw) >= 0 /\ Normalised(raw) <= 10000
    <3> PICK k \in Int : k = scaled(raw)
      OBVIOUS
    <3> HIDE DEF scaled
    <3> QED
      BY <1>1
  <2> QED
    BY <2>1
<1>3. Normalised(once) = once \/ once \in 1..100
  BY <1>1, <1>2
<1> QED
  BY <1>2, <1>3

LEMMA ReportKeeps ==
  ASSUME RankingInv, NEW q \in Reporters,
         RequestReport(q) \/ AnswerReport(q) \/ LoseReport(q)
  PROVE  RankingInv'
<1>1. UNCHANGED <<rows, replays, response>>
  BY DEF RequestReport, AnswerReport, LoseReport
<1>2. /\ Judgeable(rows)' /\ Len(rows') <= Compared /\ replays' \in Nat
      /\ asking \in [Reporters -> AskingRows] /\ reports \in Seq(ReportRows)
  BY <1>1 DEF RankingInv, RankingShape, Judgeable
<1>3. Ranked(rows)' = Ranked(rows)
  BY <1>1 DEF Ranked, AheadOf
<1>4. ResponseRanks'
  BY <1>1, <1>3 DEF RankingInv, ResponseRanks
<1>5. \A of, replay : AsFarAs(of, replay)' <=> AsFarAs(of, replay)
  BY <1>1 DEF AsFarAs
<1>6. CASE RequestReport(q)
  <2> DEFINE now == [stage |-> "asked", of |-> rows, replay |-> replays]
  <2>1. asking' = [asking EXCEPT ![q] = now] /\ reports' = reports
    BY <1>6 DEF RequestReport
  <2>2. now \in AskingRows
    BY DEF RankingInv, RankingShape, Judgeable, AskingRows
  <2>3. AsFarAs(now.of, now.replay)
    <3>1. replays \in Nat /\ Len(rows) \in Nat
      BY DEF RankingInv, RankingShape, Judgeable
    <3> QED
      BY <3>1 DEF AsFarAs
  <2> HIDE DEF now
  <2>4. RankingShape'
    BY <1>2, <2>1, <2>2 DEF RankingShape
  <2>5. Traceable'
    BY <1>2, <1>5, <2>1, <2>3 DEF RankingInv, Traceable
  <2>6. OneConfidence'
    BY <2>1 DEF RankingInv, OneConfidence
  <2> QED
    BY <1>4, <2>4, <2>5, <2>6 DEF RankingInv
<1>7. CASE LoseReport(q)
  <2>1. asking' = [asking EXCEPT ![q] = NotAsking] /\ reports' = reports
    BY <1>7 DEF LoseReport
  <2>2. NotAsking \in AskingRows /\ NotAsking.stage = "idle"
    BY DEF NotAsking, AskingRows
  <2>3. RankingShape'
    BY <1>2, <2>1, <2>2 DEF RankingShape
  <2>4. Traceable'
    BY <1>2, <1>5, <2>1, <2>2 DEF RankingInv, Traceable
  <2>5. OneConfidence'
    BY <2>1 DEF RankingInv, OneConfidence
  <2> QED
    BY <1>4, <2>3, <2>4, <2>5 DEF RankingInv
<1>8. CASE AnswerReport(q)
  <2>1. asking[q].stage = "asked" /\ asking' = [asking EXCEPT ![q].stage = "done"]
    BY <1>8 DEF AnswerReport
  <2>2. asking[q] \in AskingRows
    BY <1>2
  <2>3. PICK row \in ReportRows :
            /\ reports' = Append(reports, row)
            /\ row.of = asking[q].of /\ row.replay = asking[q].replay
            /\ row.status = "completed" => row.json = row.confidence \/ row.json \in 1..100
    <3> DEFINE Row(status, json, score) == [by |-> q, replay |-> asking[q].replay,
                   of |-> asking[q].of, status |-> status, json |-> json, confidence |-> score]
    <3>1. CASE \E raw \in RawConfidences :
                 reports' = Append(reports, Row("completed", Normalised(raw),
                                                Normalised(Normalised(raw))))
      <4> PICK raw \in RawConfidences :
                 reports' = Append(reports, Row("completed", Normalised(raw),
                                                Normalised(Normalised(raw))))
        BY <3>1
      <4>1. raw \in Int
        BY RankingAssumption
      <4>2. /\ Normalised(raw) \in Nat
            /\ Normalised(raw) = Normalised(Normalised(raw)) \/ Normalised(raw) \in 1..100
        BY <4>1, NormalisedIs
      <4>3. Normalised(Normalised(raw)) \in Nat
        <5> PICK n \in Int : n = Normalised(raw)
          BY <4>2
        <5> QED
          BY NormalisedIs
      <4>4. Row("completed", Normalised(raw), Normalised(Normalised(raw))) \in ReportRows
        BY <2>2, <4>2, <4>3 DEF ReportRows, AskingRows
      <4> QED
        BY <4>2, <4>4
    <3>2. CASE reports' = Append(reports, Row("failed", NoFigure, NoFigure))
      <4>1. Row("failed", NoFigure, NoFigure) \in ReportRows
        BY <2>2 DEF ReportRows, AskingRows
      <4> QED
        BY <3>2, <4>1
    <3> QED
      BY <1>8, <3>1, <3>2 DEF AnswerReport
  <2>4. RankingShape'
    <3>1. asking' \in [Reporters -> AskingRows]
      BY <1>2, <2>1, <2>2 DEF AskingRows
    <3>2. reports' \in Seq(ReportRows)
      BY <1>2, <2>3
    <3> QED
      BY <1>2, <3>1, <3>2 DEF RankingShape
  <2>5. /\ DOMAIN reports' = DOMAIN reports \union {Len(reports) + 1}
        /\ reports'[Len(reports) + 1] = row
        /\ \A i \in DOMAIN reports : reports'[i] = reports[i]
    BY <1>2, <2>3
  <2>6. Traceable'
    <3>1. \A p \in Reporters : asking'[p].stage = "asked" => p # q /\ asking'[p] = asking[p]
      BY <1>2, <2>1, <2>2 DEF AskingRows
    <3>2. AsFarAs(row.of, row.replay)
      BY <2>1, <2>3 DEF RankingInv, Traceable
    <3>3. \A i \in DOMAIN reports' : AsFarAs(reports'[i].of, reports'[i].replay)
      BY <2>5, <3>2 DEF RankingInv, Traceable
    <3>4. \A p \in Reporters : asking'[p].stage = "asked" =>
              AsFarAs(asking'[p].of, asking'[p].replay)
      BY <3>1 DEF RankingInv, Traceable
    <3> QED
      BY <1>1, <3>3, <3>4 DEF Traceable, AsFarAs
  <2>7. OneConfidence'
    BY <2>3, <2>5 DEF RankingInv, OneConfidence
  <2> QED
    BY <1>4, <2>4, <2>6, <2>7 DEF RankingInv
<1> QED
  BY <1>6, <1>7, <1>8

LEMMA RankingInductive == RankingInv /\ [RankingNext]_rankingVars => RankingInv'
<1> SUFFICES ASSUME RankingInv, [RankingNext]_rankingVars PROVE RankingInv'
  OBVIOUS
<1>1. CASE RunConfig
  BY <1>1, RunConfigKeeps
<1>2. CASE FinishComparison
  BY <1>2, FinishComparisonKeeps
<1>3. CASE Replay
  BY <1>3, ReplayKeeps
<1>4. CASE \E q \in Reporters : RequestReport(q) \/ AnswerReport(q) \/ LoseReport(q)
  BY <1>4, ReportKeeps
<1>5. CASE UNCHANGED rankingVars
  <2>1. UNCHANGED <<rows, replays, response, asking, reports>>
    BY <1>5 DEF rankingVars
  <2>2. Ranked(rows)' = Ranked(rows)
    BY <2>1 DEF Ranked, AheadOf
  <2> QED
    BY <2>1, <2>2 DEF RankingInv, RankingShape, Judgeable, ResponseRanks, Traceable, AsFarAs,
       OneConfidence
<1> QED
  BY <1>1, <1>2, <1>3, <1>4, <1>5 DEF RankingNext

-----------------------------------------------------------------------------
(* What the invariant tells *)

LEMMA JudgedFairly == RankingInv => JudgedByFigures
<1> SUFFICES ASSUME RankingInv PROVE JudgedByFigures
  OBVIOUS
<1>1. /\ rows \in Seq(Figures) /\ DOMAIN rows = 1..Len(rows)
      /\ \A n \in ResultsOf : n \in DOMAIN rows /\ rows[n] \in Measures /\ rows[n] # NoFigure
  BY DEF RankingInv, RankingShape, Judgeable, Figures, ResultsOf
<1>2. \A m, n \in ResultsOf : NoWorse(rows[m], rows[n]) =>
          /\ Confidence(rows[m]) >= Confidence(rows[n])
          /\ ScoreOf(rows[m]) >= ScoreOf(rows[n])
  BY <1>1, NoWorseIsJudgedSo
<1>3. ASSUME replays = 0, NEW a \in DOMAIN response, NEW b \in DOMAIN response,
             NEW m, m = response[a], NEW n, n = response[b],
             m \in ResultsOf, n \in ResultsOf, NoWorse(rows[m], rows[n]), b < a
      PROVE  ScoreOf(rows[m]) = ScoreOf(rows[n])
  <2>1. response # <<>>
    BY <1>3
  <2>2. response = Ranked(rows) /\ Judgeable(rows)
    BY <1>3, <2>1 DEF RankingInv, ResponseRanks, RankingShape
  <2>3. a \in DOMAIN rows /\ b \in DOMAIN rows
    BY <1>3, <2>2 DEF Ranked
  <2>4. ScoreOf(rows[m]) <= ScoreOf(rows[n])
    BY <1>3, <2>2, <2>3, RankedInOrder
  <2>5. ScoreOf(rows[m]) \in Nat /\ ScoreOf(rows[n]) \in Nat
    BY <1>1, <1>3, ScoreIs DEF Figures
  <2> QED
    BY <1>2, <1>3, <2>4, <2>5
<1>4. \A n \in ResultsOf :
          /\ GradeOf(rows[n]) = "A" =>
                /\ rows[n].total >= 500 /\ rows[n].drawdown <= 5
                /\ rows[n].factor # NoFigure /\ rows[n].factor >= 150
          /\ OverfittingRisk(rows[n]) >= 70 => rows[n].total < 100
  BY <1>1, GradesAreEarned
<1> QED
  BY <1>2, <1>3, <1>4 DEF JudgedByFigures

LEMMA PagesAgreeAlways == RankingInv => PagesAgree
<1> SUFFICES ASSUME RankingInv PROVE PagesAgree
  OBVIOUS
<1>1. /\ Judgeable(rows) /\ DOMAIN rows = 1..Len(rows) /\ Len(rows) \in Nat
      /\ ResultsOf \subseteq DOMAIN rows
  BY DEF RankingInv, RankingShape, Judgeable, ResultsOf
<1>2. ASSUME replays = 0, response # <<>>, ResultsOf # {}
      PROVE  ScoreOf(rows[HistoryBest]) <= ScoreOf(rows[response[1]])
  <2>1. response = Ranked(rows)
    BY <1>2 DEF RankingInv, ResponseRanks
  <2>2. HistoryBest \in ResultsOf
    <3>1. ResultsOf \subseteq Nat
      BY <1>1
    <3>2. \E n \in ResultsOf : \A m \in ResultsOf : n <= m
      BY <1>2, <3>1, LeastNatural
    <3> QED
      BY <3>2 DEF HistoryBest, Lowest
  <2> QED
    BY <1>1, <2>1, <2>2, FirstIsBest
<1>3. LowQualityRows = QualitySummary.grades["D"] + QualitySummary.grades["F"]
  <2> DEFINE graded(g) == {n \in ResultsOf : GradeOf(rows[n]) = g}
  <2>1. QualitySummary.grades["D"] = Cardinality(graded("D"))
        /\ QualitySummary.grades["F"] = Cardinality(graded("F"))
    BY DEF QualitySummary
  <2>2. LowQualityRows = Cardinality(graded("D") \union graded("F"))
    <3>1. {n \in ResultsOf : GradeOf(rows[n]) \in {"D", "F"}} = graded("D") \union graded("F")
      OBVIOUS
    <3> QED
      BY <3>1 DEF LowQualityRows
  <2>3. IsFiniteSet(graded("D")) /\ IsFiniteSet(graded("F")) /\ graded("D") \cap graded("F") = {}
    <3>1. IsFiniteSet(1..Len(rows))
      BY <1>1, FS_Interval
    <3>2. graded("D") \in SUBSET (1..Len(rows)) /\ graded("F") \in SUBSET (1..Len(rows))
      BY <1>1
    <3>3. graded("D") \cap graded("F") = {}
      OBVIOUS
    <3> HIDE DEF graded
    <3> QED
      BY <3>1, <3>2, <3>3, FS_Subset
  <2> HIDE DEF graded
  <2>4. /\ Cardinality(graded("D")) \in Nat /\ Cardinality(graded("F")) \in Nat
        /\ Cardinality(graded("D") \cap graded("F")) = 0
    BY <2>3, FS_CardinalityType, FS_EmptySet
  <2>5. Cardinality(graded("D") \union graded("F"))
            = Cardinality(graded("D")) + Cardinality(graded("F")) - 0
    BY <2>3, <2>4, FS_Union
  <2> QED
    BY <2>1, <2>2, <2>4, <2>5
<1> QED
  BY <1>2, <1>3, ListsAlwaysCover, PreviewsAlwaysReach DEF PagesAgree

LEMMA ReportsAreTraced == RankingInv => ReportsTraced
<1> SUFFICES ASSUME RankingInv, NEW i \in DOMAIN reports, NEW r, r = reports[i]
             PROVE  /\ r.replay = replays =>
                          Len(r.of) <= Len(rows) /\ SubSeq(rows, 1, Len(r.of)) = r.of
                    /\ r.status = "completed" => r.json = r.confidence \/ r.json \in 1..100
  BY DEF ReportsTraced
<1>1. r.of \in Seq(Figures) /\ rows \in Seq(Figures)
  BY RowsOfReports DEF RankingInv, RankingShape, Judgeable
<1>2. ASSUME r.replay = replays
      PROVE  Len(r.of) <= Len(rows) /\ SubSeq(rows, 1, Len(r.of)) = r.of
  <2>1. Len(r.of) <= Len(rows) /\ \A n \in 1..Len(r.of) : rows[n] = r.of[n]
    BY <1>2 DEF RankingInv, Traceable, AsFarAs
  <2>2. PICK of \in Seq(Figures) : of = r.of
    BY <1>1
  <2>3. SubSeq(rows, 1, Len(of)) = of
    <3>1. Len(of) \in Nat /\ Len(rows) \in Nat /\ Len(of) <= Len(rows)
          /\ \A n \in 1..Len(of) : rows[n] = of[n]
      BY <1>1, <2>1, <2>2
    <3>2. SubSeq(rows, 1, Len(of)) = [n \in 1..Len(of) |-> rows[n]]
      BY <3>1, <1>1
    <3>3. of = [n \in 1..Len(of) |-> of[n]]
      BY <2>2
    <3> QED
      BY <3>1, <3>2, <3>3, Zenon
  <2> QED
    BY <2>1, <2>2, <2>3
<1>3. r.status = "completed" => r.json = r.confidence \/ r.json \in 1..100
  BY DEF RankingInv, OneConfidence
<1> QED
  BY <1>2, <1>3

(* Whatever a comparison found, however often it is replayed and whoever   *)
(* asks for reports meanwhile: its judgements follow the figures, its      *)
(* pages agree and each report is of the results of one replay.            *)
THEOREM RankingIsToldTruly == RankingSpec => []RankingToldTruly
<1>1. RankingSpec => []RankingInv
  BY RankingStart, RankingInductive, PTL DEF RankingSpec
<1>2. RankingInv => RankingToldTruly
  BY JudgedFairly, PagesAgreeAlways, ReportsAreTraced DEF RankingToldTruly
<1> QED
  BY <1>1, <1>2, PTL

-----------------------------------------------------------------------------

(* The results of the lab: what its trades cost.                           *)
Scenarios == {"low", "base", "high"}
Levels == {"low", "medium", "high"}

ResultOf(gain) == IF gain > 0 THEN "win" ELSE IF gain < 0 THEN "loss" ELSE "breakeven"

TradeRow(gain, m) ==
    [gain |-> gain, result |-> ResultOf(gain),
     cost |-> [s \in DOMAIN Scenarios2 |-> CostOf(m, s)],
     level |-> SensitivityLevel(gain, CostOf(m, "base"))]

TradeRows == {TradeRow(p[1], p[2]) : p \in Gains \X Markets}

Weight(c, x) ==
    Assumptions[c].spread * StressPresets[x].spread
        + Assumptions[c].slippage * StressPresets[x].slippage
        + Assumptions[c].commission * StressPresets[x].commission

LEMMA ScenariosAre ==
  /\ DOMAIN Scenarios2 = Scenarios
  /\ Scenarios2["low"] = 1 /\ Scenarios2["base"] = 2 /\ Scenarios2["high"] = 4
BY DEF Scenarios2, Scenarios

LEMMA ProfilesAre ==
  /\ DOMAIN Profiles4 = {"optimistic", "standard", "conservative", "stress"}
  /\ \A p \in DOMAIN Profiles4 : Profiles4[p] \in Nat \ {0}
BY DEF Profiles4

LEMMA WeightsAreOrdered ==
  ASSUME NEW c \in AssetClasses, NEW x \in DOMAIN StressPresets
  PROVE  /\ Weight(c, x) \in Nat \ {0}
         /\ Weight(c, "normal_liquidity") <= Weight(c, x)
         /\ Weight(c, x) <= Weight(c, "news_event_stress")
         /\ Weight("forex", x) <= Weight(c, x) /\ Weight(c, x) <= Weight("crypto", x)
<1>1. x \in {"normal_liquidity", "wide_spread", "high_slippage", "volatile_session",
              "news_event_stress"}
  BY DEF StressPresets
<1>2. CASE x = "normal_liquidity"
  BY <1>2 DEF AssetClasses, Weight, Assumptions, StressPresets
<1>3. CASE x = "wide_spread"
  BY <1>3 DEF AssetClasses, Weight, Assumptions, StressPresets
<1>4. CASE x = "high_slippage"
  BY <1>4 DEF AssetClasses, Weight, Assumptions, StressPresets
<1>5. CASE x = "volatile_session"
  BY <1>5 DEF AssetClasses, Weight, Assumptions, StressPresets
<1>6. CASE x = "news_event_stress"
  BY <1>6 DEF AssetClasses, Weight, Assumptions, StressPresets
<1> QED
  BY <1>1, <1>2, <1>3, <1>4, <1>5, <1>6

LEMMA CostIs ==
  ASSUME NEW m, NEW s
  PROVE  CostOf(m, s) = Weight(m.class, m.preset) * Profiles4[m.profile] * Scenarios2[s]
BY DEF CostOf, Weight

LEMMA CostsOfMarket ==
  ASSUME NEW m \in [class : AssetClasses, profile : DOMAIN Profiles4, preset : DOMAIN StressPresets]
  PROVE  \E n \in Nat \ {0} : /\ CostOf(m, "low") = n /\ CostOf(m, "base") = 2 * n
                              /\ CostOf(m, "high") = 4 * n
<1>1. PICK w \in Nat \ {0} : w = Weight(m.class, m.preset)
  BY WeightsAreOrdered
<1>2. PICK p \in Nat \ {0} : p = Profiles4[m.profile]
  BY ProfilesAre
<1>3. w * p \in Nat \ {0} /\ (w * p) * 2 = 2 * (w * p) /\ (w * p) * 4 = 4 * (w * p)
      /\ (w * p) * 1 = w * p
  OBVIOUS
<1> QED
  BY <1>1, <1>2, <1>3, CostIs, ScenariosAre

LEMMA TradeIs ==
  ASSUME NEW t \in TradeRows
  PROVE  /\ t.gain \in Int /\ t.gain > -Capital
         /\ t.result = ResultOf(t.gain) /\ t.level \in Levels
         /\ \A s \in Scenarios : t.cost[s] \in Nat \ {0}
         /\ t.cost["low"] <= t.cost["base"] /\ t.cost["base"] <= t.cost["high"]
         /\ t.level # "high" => t.gain > 0 /\ \A s \in Scenarios : t.cost[s] < t.gain
<1>1. PICK g \in Gains, m \in Markets : t = TradeRow(g, m)
  BY DEF TradeRows
<1>2. g \in Int /\ g > -Capital
  BY ResultsAssumption
<1>3. PICK n \in Nat \ {0} : /\ CostOf(m, "low") = n /\ CostOf(m, "base") = 2 * n
                             /\ CostOf(m, "high") = 4 * n
  BY MarketsAssumption, CostsOfMarket
<1>4. /\ t.gain = g /\ t.result = ResultOf(g) /\ t.level = SensitivityLevel(g, 2 * n)
      /\ t.cost["low"] = n /\ t.cost["base"] = 2 * n /\ t.cost["high"] = 4 * n
  BY <1>1, <1>3, ScenariosAre DEF TradeRow, Scenarios
<1>5. t.level \in Levels /\ (t.level # "high" => g > 0 /\ 100 * (2 * n) <= 30 * g)
  BY <1>4, <1>2 DEF SensitivityLevel, Levels
<1>6. 100 * (2 * n) <= 30 * g => n < g /\ 2 * n < g /\ 4 * n < g
  BY <1>2
<1> QED
  BY <1>2, <1>4, <1>5, <1>6 DEF Scenarios

(* What is summed up in its figures.                                       *)
GainsIn(ts) == [n \in 1..Len(ts) |-> ts[n].gain]
NetsIn(ts, s) == [n \in 1..Len(ts) |-> ts[n].gain - ts[n].cost[s]]
Ups(f) == [n \in DOMAIN f |-> IF f[n] > 0 THEN f[n] ELSE 0]
Downs(f) == [n \in DOMAIN f |-> IF f[n] < 0 THEN -f[n] ELSE 0]
Together(f) == SumFunctionOnSet(f, DOMAIN f)
Factor(f) == IF Together(Downs(f)) = 0 THEN Missing ELSE <<Together(Ups(f)), Together(Downs(f))>>
With(ts, result) == {n \in 1..Len(ts) : ts[n].result = result}

(* The fall at a point, and that of a period.                              *)
FallAt(p) == <<p.peak - p.equity, p.peak>>
FallOf(p) == <<p.peak - p.trough, p.peak>>

FallsAlong(points) == {FallAt(points[n]) : n \in DOMAIN points}

LEMMA FactorIs ==
  ASSUME NEW f
  PROVE  Factor(f) = IF SumFunctionOnSet(Downs(f), DOMAIN f) = 0 THEN Missing
                     ELSE <<SumFunctionOnSet(Ups(f), DOMAIN f), SumFunctionOnSet(Downs(f), DOMAIN f)>>
BY DEF Factor, Together, Ups, Downs

LEMMA FiguresAre ==
  ASSUME NEW ts \in Seq(TradeRows), NEW points, NEW r, r = FiguresOf(ts, points)
  PROVE  /\ r.total = Len(ts) /\ r.final = Last(points).equity /\ r.level = WorstLevel(ts)
         /\ r.wins = Cardinality(With(ts, "win")) /\ r.losses = Cardinality(With(ts, "loss"))
         /\ r.pf = Factor(GainsIn(ts))
         /\ \A s \in Scenarios : /\ r.nets[s] = Together(NetsIn(ts, s))
                                 /\ r.netPf[s] = Factor(NetsIn(ts, s))
         /\ r.expectancy = IF r.wins = 0 \/ r.losses = 0 THEN Missing
                           ELSE Together(Ups(GainsIn(ts))) * r.losses
                                 - (r.total - r.wins) * Together(Downs(GainsIn(ts)))
         /\ r.drawdown = Deepest(FallsAlong(points))
<1>0. DOMAIN ts = 1..Len(ts) /\ DOMAIN GainsIn(ts) = 1..Len(ts)
      /\ \A s : DOMAIN NetsIn(ts, s) = 1..Len(ts)
  BY DEF GainsIn, NetsIn
<1>1. \A n \in 1..Len(ts) : ts[n].gain \in Int /\ ts[n].result = ResultOf(ts[n].gain)
  BY TradeIs
<1>2. /\ SumOf(ts, LAMBDA t : t.gain) = Together(GainsIn(ts))
      /\ SumOf(ts, LAMBDA t : IF t.gain > 0 THEN t.gain ELSE 0) = Together(Ups(GainsIn(ts)))
      /\ SumOf(ts, LAMBDA t : IF t.gain < 0 THEN -t.gain ELSE 0) = Together(Downs(GainsIn(ts)))
  BY <1>0 DEF SumOf, SumFunction, Together, GainsIn, Ups, Downs
<1>3. ASSUME NEW s \in Scenarios
      PROVE  /\ SumOf(ts, LAMBDA t : Net(s, t)) = Together(NetsIn(ts, s))
             /\ SumOf(ts, LAMBDA t : IF Net(s, t) > 0 THEN Net(s, t) ELSE 0)
                   = Together(Ups(NetsIn(ts, s)))
             /\ SumOf(ts, LAMBDA t : IF Net(s, t) < 0 THEN -Net(s, t) ELSE 0)
                   = Together(Downs(NetsIn(ts, s)))
  BY <1>0 DEF SumOf, SumFunction, Together, NetsIn, Ups, Downs, Net
<1>4. ProfitFactor(ts, LAMBDA t : t.gain) = Factor(GainsIn(ts))
  BY <1>2 DEF ProfitFactor, Factor
<1>5. \A s \in Scenarios : ProfitFactor(ts, LAMBDA t : Net(s, t)) = Factor(NetsIn(ts, s))
  BY <1>3 DEF ProfitFactor, Factor
<1>6. /\ SumOf(ts, LAMBDA t : IF t.result = "win" THEN t.gain ELSE 0) = Together(Ups(GainsIn(ts)))
      /\ SumOf(ts, LAMBDA t : IF t.result = "loss" THEN -t.gain ELSE 0) = Together(Downs(GainsIn(ts)))
  <2>1. \A n \in 1..Len(ts) : /\ ts[n].result = "win" <=> ts[n].gain > 0
                              /\ ts[n].result = "loss" <=> ts[n].gain < 0
    BY <1>1 DEF ResultOf
  <2>2. [n \in 1..Len(ts) |-> IF ts[n].result = "win" THEN ts[n].gain ELSE 0] = Ups(GainsIn(ts))
    BY <2>1, <1>0 DEF GainsIn, Ups
  <2>3. [n \in 1..Len(ts) |-> IF ts[n].result = "loss" THEN -ts[n].gain ELSE 0] = Downs(GainsIn(ts))
    BY <2>1, <1>0 DEF GainsIn, Downs
  <2> QED
    BY <1>0, <2>2, <2>3 DEF SumOf, SumFunction, Together
<1>7. /\ r.total = Len(ts) /\ r.final = Last(points).equity /\ r.level = WorstLevel(ts)
      /\ r.wins = Cardinality(With(ts, "win")) /\ r.losses = Cardinality(With(ts, "loss"))
      /\ r.drawdown = Deepest(FallsAlong(points))
  BY <1>0 DEF FiguresOf, With, FallsAlong, FallAt
<1>8. r.pf = Factor(GainsIn(ts))
  BY <1>4 DEF FiguresOf
<1>9. \A s \in Scenarios : r.nets[s] = Together(NetsIn(ts, s)) /\ r.netPf[s] = Factor(NetsIn(ts, s))
  BY <1>3, <1>5, ScenariosAre DEF FiguresOf
<1>10. r.expectancy = IF r.wins = 0 \/ r.losses = 0 THEN Missing
                      ELSE Together(Ups(GainsIn(ts))) * r.losses
                            - (r.total - r.wins) * Together(Downs(GainsIn(ts)))
  BY <1>6 DEF FiguresOf
<1> QED
  BY <1>7, <1>8, <1>9, <1>10

(* What was won and what was lost.                                         *)
LEMMA UpsAndDowns ==
  ASSUME NEW N \in Nat, NEW f \in [1..N -> Int]
  PROVE  /\ Together(f) \in Int /\ Together(Ups(f)) \in Nat /\ Together(Downs(f)) \in Nat
         /\ Together(f) = Together(Ups(f)) - Together(Downs(f))
         /\ Together(Downs(f)) = 0 <=> \A n \in 1..N : f[n] >= 0
         /\ Factor(f) = Missing <=> \A n \in 1..N : f[n] >= 0
         /\ Factor(f) # Missing =>
               Factor(f)[1] = Together(Ups(f)) /\ Factor(f)[2] = Together(Downs(f))
<1> DEFINE T == 1..N
<1>1. IsFiniteSet(T)
  BY FS_Interval
<1>2. DOMAIN f = T /\ DOMAIN Ups(f) = T /\ DOMAIN Downs(f) = T
  BY DEF Ups, Downs
<1>3. \A n \in T : f[n] \in Int
  OBVIOUS
<1>4. \A n \in T : /\ Ups(f)[n] \in Nat /\ Downs(f)[n] \in Nat
                   /\ Ups(f)[n] = f[n] + Downs(f)[n]
                   /\ Downs(f)[n] = 0 <=> f[n] >= 0
  BY <1>2, <1>3 DEF Ups, Downs
<1> HIDE DEF T
<1>5. \A n \in T : Ups(f)[n] \in Int /\ Downs(f)[n] \in Int
  BY <1>4
<1>6. /\ SumFunctionOnSet(f, T) \in Int /\ SumFunctionOnSet(Ups(f), T) \in Nat
      /\ SumFunctionOnSet(Downs(f), T) \in Nat
      /\ SumFunctionOnSet(Ups(f), T) = SumFunctionOnSet(f, T) + SumFunctionOnSet(Downs(f), T)
      /\ \A n \in T : Downs(f)[n] <= SumFunctionOnSet(Downs(f), T)
      /\ (\A n \in T : Downs(f)[n] = 0) => SumFunctionOnSet(Downs(f), T) = 0
  BY <1>1, <1>3, <1>4, <1>5, SumIsInt, SumOfNaturals, SumOfTwo
<1>7. /\ Together(f) \in Int /\ Together(Ups(f)) \in Nat /\ Together(Downs(f)) \in Nat
      /\ Together(f) = Together(Ups(f)) - Together(Downs(f))
      /\ \A n \in T : Downs(f)[n] <= Together(Downs(f))
      /\ (\A n \in T : Downs(f)[n] = 0) => Together(Downs(f)) = 0
  BY <1>2, <1>6 DEF Together
<1>8. Together(Downs(f)) = 0 <=> \A n \in T : f[n] >= 0
  <2>1. ASSUME Together(Downs(f)) = 0, NEW n \in T
        PROVE  f[n] >= 0
    <3>1. Downs(f)[n] <= 0 /\ Downs(f)[n] \in Nat
      BY <2>1, <1>7, <1>4
    <3>2. Downs(f)[n] = 0
      BY <3>1
    <3> QED
      BY <3>2, <1>4
  <2>2. ASSUME \A n \in T : f[n] >= 0
        PROVE  Together(Downs(f)) = 0
    BY <2>2, <1>4, <1>7
  <2> QED
    BY <2>1, <2>2
<1>9. /\ Factor(f) = Missing <=> Together(Downs(f)) = 0
      /\ Factor(f) # Missing =>
            Factor(f)[1] = Together(Ups(f)) /\ Factor(f)[2] = Together(Downs(f))
  <2>1. <<Together(Ups(f)), Together(Downs(f))>> \in Int \X Int
    BY <1>7
  <2>2. <<Together(Ups(f)), Together(Downs(f))>> # Missing
    BY <2>1, ResultsAssumption
  <2> QED
    BY <2>2 DEF Factor
<1> QED
  BY <1>7, <1>8, <1>9 DEF T

(* Who earns less in each trade has the lower factor.                      *)
LEMMA FactorsInOrder ==
  ASSUME NEW N \in Nat, NEW f \in [1..N -> Int], NEW g \in [1..N -> Int],
         \A n \in 1..N : f[n] <= g[n]
  PROVE  /\ Together(f) <= Together(g)
         /\ Factor(f) # Missing /\ Factor(g) # Missing =>
               Factor(f)[1] * Factor(g)[2] <= Factor(g)[1] * Factor(f)[2]
<1> DEFINE T == 1..N
<1>1. IsFiniteSet(T)
  BY FS_Interval
<1>2. /\ DOMAIN f = T /\ DOMAIN Ups(f) = T /\ DOMAIN Downs(f) = T
      /\ DOMAIN g = T /\ DOMAIN Ups(g) = T /\ DOMAIN Downs(g) = T
  BY DEF Ups, Downs
<1>3. \A n \in T : f[n] \in Int /\ g[n] \in Int /\ f[n] <= g[n]
  OBVIOUS
<1>4. \A n \in T : /\ Ups(f)[n] \in Int /\ Ups(g)[n] \in Int /\ Ups(f)[n] <= Ups(g)[n]
                   /\ Downs(f)[n] \in Int /\ Downs(g)[n] \in Int /\ Downs(g)[n] <= Downs(f)[n]
  BY <1>2, <1>3 DEF Ups, Downs
<1> HIDE DEF T
<1>5. /\ SumFunctionOnSet(f, T) <= SumFunctionOnSet(g, T)
      /\ SumFunctionOnSet(Ups(f), T) <= SumFunctionOnSet(Ups(g), T)
      /\ SumFunctionOnSet(Downs(g), T) <= SumFunctionOnSet(Downs(f), T)
  BY <1>1, <1>3, <1>4, SumsInOrder
<1>6. /\ Together(f) <= Together(g) /\ Together(Ups(f)) <= Together(Ups(g))
      /\ Together(Downs(g)) <= Together(Downs(f))
  BY <1>2, <1>5 DEF Together
<1>7. ASSUME Factor(f) # Missing, Factor(g) # Missing
      PROVE  Factor(f)[1] * Factor(g)[2] <= Factor(g)[1] * Factor(f)[2]
  <2>1. /\ Factor(f)[1] = Together(Ups(f)) /\ Factor(f)[2] = Together(Downs(f))
        /\ Factor(g)[1] = Together(Ups(g)) /\ Factor(g)[2] = Together(Downs(g))
    BY <1>7, UpsAndDowns
  <2>2. PICK a \in Nat, b \in Nat, c \in Nat, d \in Nat :
           a = Together(Ups(f)) /\ b = Together(Downs(f)) /\ c = Together(Ups(g)) /\ d = Together(Downs(g))
    BY UpsAndDowns
  <2>3. a * d <= c * d /\ d * c <= b * c
    BY <2>2, <1>6, Scales
  <2>4. d * c = c * d /\ b * c = c * b /\ a * d \in Int /\ c * d \in Int /\ c * b \in Int
    OBVIOUS
  <2>5. a * d <= c * b
    BY <2>3, <2>4
  <2> QED
    BY <2>1, <2>2, <2>5
<1> QED
  BY <1>6, <1>7

(* Which level is the worst.                                               *)
LEMMA WorstIs ==
  ASSUME NEW ts \in Seq(TradeRows), ts # <<>>
  PROVE  WorstLevel(ts) # "high" => \A n \in 1..Len(ts) : ts[n].level # "high"
<1> DEFINE levels == {ts[n].level : n \in DOMAIN ts}
           Worst(level) == /\ level \in levels
                           /\ level = "low" => levels = {"low"}
                           /\ level = "medium" => "high" \notin levels
<1>1. \A n \in 1..Len(ts) : ts[n].level \in Levels
  BY TradeIs
<1>2. levels \subseteq Levels /\ levels # {}
  <2>1. Len(ts) \in Nat /\ Len(ts) # 0 /\ DOMAIN ts = 1..Len(ts)
    BY EmptySeq
  <2>2. 1 \in DOMAIN ts
    BY <2>1
  <2> QED
    BY <1>1, <2>1, <2>2
<1>3. WorstLevel(ts) = CHOOSE level \in Levels : Worst(level)
  BY DEF WorstLevel, Levels
<1> HIDE DEF levels
<1>4. \E level \in Levels : Worst(level)
  <2>1. CASE "high" \in levels
    BY <2>1 DEF Levels
  <2>2. CASE "high" \notin levels /\ "medium" \in levels
    BY <2>2 DEF Levels
  <2>3. CASE levels = {"low"}
    BY <2>3 DEF Levels
  <2> QED
    BY <1>2, <2>1, <2>2, <2>3 DEF Levels
<1>5. Worst(WorstLevel(ts))
  BY <1>3, <1>4
<1>6. ASSUME WorstLevel(ts) # "high"
      PROVE  "high" \notin levels
  <2>1. WorstLevel(ts) \in levels
    BY <1>5
  <2>2. CASE WorstLevel(ts) = "low"
    BY <1>5, <2>2
  <2>3. CASE WorstLevel(ts) = "medium"
    BY <1>5, <2>3
  <2> QED
    BY <1>2, <1>6, <2>1, <2>2, <2>3 DEF Levels
<1> QED
  BY <1>6 DEF levels

(* Wins and losses are not the same trades.                                *)
LEMMA WinsAndLosses ==
  ASSUME NEW ts \in Seq(TradeRows)
  PROVE  /\ Cardinality(With(ts, "win")) \in Nat /\ Cardinality(With(ts, "loss")) \in Nat
         /\ Cardinality(With(ts, "win")) + Cardinality(With(ts, "loss")) <= Len(ts)
         /\ Cardinality(With(ts, "loss")) # 0 => \E n \in 1..Len(ts) : ts[n].gain < 0
         /\ (\A n \in 1..Len(ts) : ts[n].gain > 0) => Cardinality(With(ts, "win")) = Len(ts)
<1> DEFINE T == 1..Len(ts)
           win == With(ts, "win")
           loss == With(ts, "loss")
<1>1. Len(ts) \in Nat
  OBVIOUS
<1>2. IsFiniteSet(T) /\ Cardinality(T) = Len(ts)
  BY <1>1, FS_Interval
<1>3. \A n \in T : ts[n].gain \in Int /\ ts[n].result = ResultOf(ts[n].gain)
  BY TradeIs
<1>4. win \subseteq T /\ loss \subseteq T /\ win \cap loss = {}
  BY DEF With
<1>5. (\A n \in T : ts[n].gain > 0) => win = T
  BY <1>3 DEF With, ResultOf
<1>6. \A n \in loss : n \in T /\ ts[n].gain < 0
  BY <1>3 DEF With, ResultOf
<1> HIDE DEF T, win, loss
<1>7. IsFiniteSet(win) /\ IsFiniteSet(loss)
  BY <1>2, <1>4, FS_Subset
<1>8. Cardinality(win) \in Nat /\ Cardinality(loss) \in Nat
  BY <1>7, FS_CardinalityType
<1>9. Cardinality(win \union loss) = Cardinality(win) + Cardinality(loss)
  <2>1. Cardinality(win \union loss) = Cardinality(win) + Cardinality(loss) - Cardinality({})
    BY <1>4, <1>7, FS_Union
  <2> QED
    BY <2>1, <1>8, FS_EmptySet
<1>10. Cardinality(win \union loss) <= Cardinality(T)
  <2>1. win \union loss \subseteq T
    BY <1>4
  <2> QED
    BY <2>1, <1>2, FS_Subset
<1>11. Cardinality(loss) # 0 => loss # {}
  BY FS_EmptySet
<1> QED
  BY <1>2, <1>5, <1>6, <1>8, <1>9, <1>10, <1>11 DEF T, win, loss

(* What the trades that neither won nor lost take off an expectancy.       *)
LEMMA ShareOfBreakEven ==
  ASSUME NEW won \in Nat, NEW lost \in Nat \ {0}, NEW n \in Nat, NEW w \in Nat, NEW l \in Nat,
         w + l <= n
  PROVE  /\ won * l - (n - w) * lost <= (won - lost) * l
         /\ (won * l - (n - w) * lost = (won - lost) * l) = (n = w + l)
<1>1. PICK k \in Nat : n = w + l + k
  <2>1. n - w - l \in Nat /\ n = w + l + (n - w - l)
    OBVIOUS
  <2> QED
    BY <2>1
<1>2. n - w = k + l /\ (n = w + l <=> k = 0)
  BY <1>1
<1>3. (k + l) * lost = k * lost + l * lost /\ (won - lost) * l = won * l - l * lost
  OBVIOUS
<1>4. k * lost \in Nat /\ (k * lost = 0 <=> k = 0)
  OBVIOUS
<1>5. PICK a \in Int, b \in Int, c \in Nat : a = won * l /\ b = l * lost /\ c = k * lost
  BY <1>4
<1>6. /\ won * l - (n - w) * lost = a - (c + b) /\ (won - lost) * l = a - b
  BY <1>2, <1>3, <1>5
<1>7. (c = 0) = (n = w + l)
  BY <1>2, <1>4, <1>5
<1>8. a - (c + b) <= a - b /\ (a - (c + b) = a - b) = (c = 0)
  OBVIOUS
<1> QED
  BY <1>6, <1>7, <1>8

(* The figures of a history whose curve ends at what the trades made.      *)
LEMMA FiguresOfTrades ==
  ASSUME NEW ts \in Seq(TradeRows), ts # <<>>, NEW points,
         Last(points).equity = Capital + Together(GainsIn(ts)),
         NEW r, r = FiguresOf(ts, points),
         NEW mean, mean = (r.final - Capital) * r.losses
  PROVE  /\ r.nets["high"] <= r.nets["base"] /\ r.nets["base"] <= r.nets["low"]
         /\ r.nets["low"] < r.final - Capital
         /\ r.netPf["low"] = Missing => r.pf = Missing
         /\ \A s \in DOMAIN Scenarios2 : r.netPf[s] # Missing /\ r.pf # Missing =>
               r.netPf[s][1] * r.pf[2] <= r.pf[1] * r.netPf[s][2]
         /\ r.expectancy # Missing =>
               /\ r.expectancy <= mean
               /\ (r.expectancy = mean) = (r.total = r.wins + r.losses)
         /\ r.level # "high" =>
               r.wins = r.total /\ r.pf = Missing /\ \A s \in DOMAIN Scenarios2 : r.netPf[s] = Missing
<1> DEFINE N == Len(ts)
           gains == GainsIn(ts)
           nets(s) == NetsIn(ts, s)
           won == Together(Ups(gains))
           lost == Together(Downs(gains))
<1>1. /\ r.total = N /\ r.final = Capital + Together(gains) /\ r.level = WorstLevel(ts)
      /\ r.wins = Cardinality(With(ts, "win")) /\ r.losses = Cardinality(With(ts, "loss"))
      /\ r.pf = Factor(gains)
      /\ \A s \in Scenarios : r.nets[s] = Together(nets(s)) /\ r.netPf[s] = Factor(nets(s))
      /\ r.expectancy = IF r.wins = 0 \/ r.losses = 0 THEN Missing
                        ELSE won * r.losses - (r.total - r.wins) * lost
  <2>1. /\ r.total = Len(ts) /\ r.final = Last(points).equity /\ r.level = WorstLevel(ts)
        /\ r.wins = Cardinality(With(ts, "win")) /\ r.losses = Cardinality(With(ts, "loss"))
        /\ r.pf = Factor(GainsIn(ts))
        /\ \A s \in Scenarios : /\ r.nets[s] = Together(NetsIn(ts, s))
                                /\ r.netPf[s] = Factor(NetsIn(ts, s))
    BY FiguresAre
  <2>2. r.expectancy = IF r.wins = 0 \/ r.losses = 0 THEN Missing
                       ELSE Together(Ups(GainsIn(ts))) * r.losses
                             - (r.total - r.wins) * Together(Downs(GainsIn(ts)))
    BY FiguresAre
  <2> QED
    BY <2>1, <2>2
<1>2. N \in Nat /\ N # 0 /\ Capital \in Nat
  BY EmptySeq, ResultsAssumption
<1>3. \A n \in 1..N : /\ ts[n].gain \in Int
                      /\ \A s \in Scenarios : ts[n].cost[s] \in Nat \ {0}
                      /\ ts[n].cost["low"] <= ts[n].cost["base"]
                      /\ ts[n].cost["base"] <= ts[n].cost["high"]
                      /\ ts[n].level # "high" =>
                            ts[n].gain > 0 /\ \A s \in Scenarios : ts[n].cost[s] < ts[n].gain
  BY TradeIs
<1>4. "low" \in Scenarios /\ "base" \in Scenarios /\ "high" \in Scenarios /\ DOMAIN Scenarios2 = Scenarios
  BY ScenariosAre DEF Scenarios
<1>5. gains \in [1..N -> Int] /\ \A n \in 1..N : gains[n] = ts[n].gain
  BY <1>3 DEF GainsIn
<1>6. \A s \in Scenarios : /\ nets(s) \in [1..N -> Int]
                           /\ \A n \in 1..N : nets(s)[n] = ts[n].gain - ts[n].cost[s]
  BY <1>3 DEF NetsIn
<1> HIDE DEF N, gains, nets, won, lost
<1>7. /\ Together(gains) \in Int /\ won \in Nat /\ lost \in Nat /\ Together(gains) = won - lost
      /\ lost = 0 <=> \A n \in 1..N : gains[n] >= 0
      /\ Factor(gains) = Missing <=> \A n \in 1..N : gains[n] >= 0
  BY <1>2, <1>5, UpsAndDowns DEF won, lost
<1>8. \A s \in Scenarios : /\ Together(nets(s)) \in Int
                           /\ Factor(nets(s)) = Missing <=> \A n \in 1..N : nets(s)[n] >= 0
  BY <1>2, <1>6, UpsAndDowns
<1>9. Together(nets("high")) <= Together(nets("base")) /\ Together(nets("base")) <= Together(nets("low"))
  <2>1. \A n \in 1..N : nets("high")[n] <= nets("base")[n] /\ nets("base")[n] <= nets("low")[n]
    <3> SUFFICES ASSUME NEW n \in 1..N
                 PROVE  nets("high")[n] <= nets("base")[n] /\ nets("base")[n] <= nets("low")[n]
      OBVIOUS
    <3>1. PICK g \in Int, l \in Nat, b \in Nat, h \in Nat :
             g = ts[n].gain /\ l = ts[n].cost["low"] /\ b = ts[n].cost["base"] /\ h = ts[n].cost["high"]
      BY <1>3, <1>4
    <3>2. l <= b /\ b <= h
      BY <3>1, <1>3
    <3>3. nets("low")[n] = g - l /\ nets("base")[n] = g - b /\ nets("high")[n] = g - h
      BY <3>1, <1>4, <1>6
    <3>4. g - h <= g - b /\ g - b <= g - l
      BY <3>2
    <3> QED
      BY <3>3, <3>4
  <2> QED
    BY <2>1, <1>2, <1>4, <1>6, FactorsInOrder
<1>10. Together(nets("low")) < Together(gains)
  <2> DEFINE less == [gains EXCEPT ![1] = gains[1] - 1]
             T == 1..N
  <2>1. 1 \in T /\ IsFiniteSet(T)
    BY <1>2, FS_Interval
  <2>2. less \in [1..N -> Int] /\ less[1] = gains[1] - 1 /\ \A n \in T \ {1} : gains[n] = less[n]
    BY <2>1, <1>5
  <2>3. \A n \in 1..N : nets("low")[n] <= less[n]
    <3> SUFFICES ASSUME NEW n \in 1..N PROVE nets("low")[n] <= less[n]
      OBVIOUS
    <3>1. PICK g \in Int, l \in Nat \ {0} : g = ts[n].gain /\ l = ts[n].cost["low"]
      BY <1>3, <1>4
    <3>2. nets("low")[n] = g - l /\ (less[n] = g \/ less[n] = g - 1)
      BY <3>1, <1>4, <1>5, <1>6, <2>2
    <3> QED
      BY <3>1, <3>2
  <2> HIDE DEF less
  <2>4. Together(nets("low")) <= Together(less)
    BY <2>2, <2>3, <1>2, <1>4, <1>6, FactorsInOrder
  <2>5. Together(less) = Together(gains) - 1
    <3>1. DOMAIN less = T /\ DOMAIN gains = T
      BY <2>2, <1>5
    <3>2. \A n \in T : gains[n] \in Int /\ less[n] \in Int
      BY <2>2, <1>5
    <3>5. \A n \in T \ {1} : gains[n] = less[n]
      BY <2>2
    <3>6. 1 \in T /\ IsFiniteSet(T)
      BY <2>1
    <3>3. SumFunctionOnSet(less, T) = SumFunctionOnSet(gains, T) + less[1] - gains[1]
      <4> HIDE DEF T
      <4> QED
        BY <3>2, <3>5, <3>6, SumOfOneChanged
    <3>4. gains[1] \in Int /\ SumFunctionOnSet(gains, T) = Together(gains)
          /\ SumFunctionOnSet(less, T) = Together(less)
      BY <3>1, <3>2, <2>1 DEF Together
    <3> QED
      BY <3>3, <3>4, <2>2, <1>7
  <2> QED
    BY <2>4, <2>5, <1>4, <1>7, <1>8
<1>11. \A s \in Scenarios : \A n \in 1..N : nets(s)[n] <= gains[n]
  <2> SUFFICES ASSUME NEW s \in Scenarios, NEW n \in 1..N PROVE nets(s)[n] <= gains[n]
    OBVIOUS
  <2>1. PICK g \in Int, c \in Nat : g = ts[n].gain /\ c = ts[n].cost[s]
    BY <1>3
  <2> QED
    BY <2>1, <1>5, <1>6
<1>12. Factor(nets("low")) = Missing => Factor(gains) = Missing
  <2> SUFFICES ASSUME \A n \in 1..N : nets("low")[n] >= 0, NEW n \in 1..N PROVE gains[n] >= 0
    BY <1>4, <1>7, <1>8
  <2>1. nets("low")[n] \in Int /\ gains[n] \in Int /\ nets("low")[n] <= gains[n] /\ nets("low")[n] >= 0
    BY <1>4, <1>5, <1>6, <1>11
  <2> QED
    BY <2>1
<1>13. \A s \in Scenarios : Factor(nets(s)) # Missing /\ Factor(gains) # Missing =>
          Factor(nets(s))[1] * Factor(gains)[2] <= Factor(gains)[1] * Factor(nets(s))[2]
  BY <1>2, <1>5, <1>6, <1>11, FactorsInOrder
<1>14. r.expectancy # Missing =>
          r.expectancy <= mean /\ (r.expectancy = mean) = (r.total = r.wins + r.losses)
  <2> SUFFICES ASSUME r.expectancy # Missing
               PROVE  r.expectancy <= mean /\ (r.expectancy = mean) = (r.total = r.wins + r.losses)
    OBVIOUS
  <2>1. PICK w \in Nat, l \in Nat : w = r.wins /\ l = r.losses
    BY <1>1, WinsAndLosses
  <2>2. l # 0 /\ r.expectancy = won * l - (N - w) * lost
    BY <1>1, <2>1
  <2>3. w + l <= N
    BY <1>1, <2>1, WinsAndLosses DEF N
  <2>4. lost \in Nat \ {0}
    <3>1. \E n \in 1..N : gains[n] < 0
      BY <1>1, <1>5, <2>1, <2>2, WinsAndLosses DEF N
    <3>2. PICK n \in 1..N : gains[n] < 0 /\ gains[n] \in Int
      BY <3>1, <1>5
    <3>3. ~ (gains[n] >= 0)
      BY <3>2
    <3> QED
      BY <3>3, <1>7
  <2>5. mean = (won - lost) * l
    BY <1>1, <1>2, <1>7, <2>1
  <2>6. won * l - (N - w) * lost <= (won - lost) * l
        /\ (won * l - (N - w) * lost = (won - lost) * l) = (N = w + l)
    <3>1. won \in Nat /\ lost \in Nat \ {0} /\ N \in Nat
      BY <1>2, <1>7, <2>4
    <3> QED
      BY <3>1, <2>3, ShareOfBreakEven
  <2> QED
    BY <2>1, <2>2, <2>5, <2>6, <1>1
<1>15. r.level # "high" =>
          /\ r.wins = r.total /\ r.pf = Missing
          /\ \A s \in DOMAIN Scenarios2 : r.netPf[s] = Missing
  <2> SUFFICES ASSUME r.level # "high"
               PROVE  /\ r.wins = r.total /\ r.pf = Missing
                      /\ \A s \in DOMAIN Scenarios2 : r.netPf[s] = Missing
    OBVIOUS
  <2>1. \A n \in 1..N : ts[n].level # "high"
    BY <1>1, WorstIs DEF N
  <2>2. \A n \in 1..N : gains[n] > 0 /\ gains[n] \in Int
    BY <2>1, <1>3, <1>5
  <2>3. r.wins = r.total
    BY <1>1, <1>5, <2>2, WinsAndLosses DEF N
  <2>4. r.pf = Missing
    BY <1>1, <1>7, <2>2
  <2>5. ASSUME NEW s \in Scenarios
        PROVE  r.netPf[s] = Missing
    <3>1. ASSUME NEW n \in 1..N PROVE nets(s)[n] >= 0
      <4>1. PICK g \in Int, c \in Nat : g = ts[n].gain /\ c = ts[n].cost[s]
        BY <1>3
      <4>2. c < g /\ nets(s)[n] = g - c
        BY <4>1, <2>1, <1>3, <1>6
      <4> QED
        BY <4>1, <4>2
    <3> QED
      BY <3>1, <1>1, <1>8
  <2> QED
    BY <2>3, <2>4, <2>5, <1>4
<1>16. r.final - Capital = Together(gains)
  BY <1>1, <1>2, <1>7
<1> QED
  BY <1>1, <1>4, <1>9, <1>10, <1>12, <1>13, <1>14, <1>15, <1>16

(* What a symbol's class is, rule by rule.                                 *)
LEMMA ClassIs ==
  ASSUME NEW s \in Symbols
  PROVE  /\ s.given \in {"equity", "etf", "index_proxy"} => ClassOf(s) = "equities_etfs"
         /\ s.given = "fx" => ClassOf(s) = "forex"
         /\ s.given = "crypto" => ClassOf(s) = "crypto"
         /\ s.given = "commodity_proxy" => ClassOf(s) = "commodities"
         /\ s.given = Missing =>
               ClassOf(s) = IF s.table = "crypto" THEN "crypto"
                            ELSE IF s.table = "forex" \/ (s.letters = 6 /\ s.dollar) THEN "forex"
                            ELSE IF s.table = "commodities" THEN "commodities"
                            ELSE IF s.table = "etfs" \/ s.letters <= 5 THEN "equities_etfs"
                            ELSE "unknown"
<1>1. /\ Missing # "equity" /\ Missing # "etf" /\ Missing # "index_proxy" /\ Missing # "fx"
      /\ Missing # "crypto" /\ Missing # "commodity_proxy"
  BY MarketsAssumption
<1>2. CASE s.given \in {"equity", "etf", "index_proxy"}
  BY <1>1, <1>2 DEF ClassOf
<1>3. CASE s.given = "fx"
  BY <1>1, <1>3 DEF ClassOf
<1>4. CASE s.given = "crypto"
  BY <1>1, <1>4 DEF ClassOf
<1>5. CASE s.given = "commodity_proxy"
  BY <1>1, <1>5 DEF ClassOf
<1>6. CASE s.given = Missing
  BY <1>1, <1>6 DEF ClassOf
<1> QED
  BY <1>1, <1>2, <1>3, <1>4, <1>5, <1>6 DEF Symbols

LEMMA ClassesAreReached == {ClassOf(s) : s \in Symbols} = AssetClasses
<1>1. ASSUME NEW s \in Symbols
      PROVE  ClassOf(s) \in AssetClasses
  <2>1. s.given \in {Missing, "equity", "etf", "index_proxy", "fx", "crypto", "commodity_proxy"}
    BY DEF Symbols
  <2> QED
    BY <2>1, ClassIs DEF AssetClasses
<1> DEFINE Symbol(table, letters) ==
              [given |-> Missing, table |-> table, dollar |-> FALSE, letters |-> letters]
<1>2. /\ Symbol("crypto", 4) \in Symbols /\ Symbol("forex", 4) \in Symbols
      /\ Symbol("commodities", 4) \in Symbols /\ Symbol("none", 4) \in Symbols
      /\ Symbol("none", 9) \in Symbols
  BY DEF Symbols
<1>3. /\ ClassOf(Symbol("crypto", 4)) = "crypto" /\ ClassOf(Symbol("forex", 4)) = "forex"
      /\ ClassOf(Symbol("commodities", 4)) = "commodities"
      /\ ClassOf(Symbol("none", 4)) = "equities_etfs" /\ ClassOf(Symbol("none", 9)) = "unknown"
  BY <1>2, ClassIs
<1> HIDE DEF Symbol
<1>4. \A c \in AssetClasses : \E s \in Symbols : ClassOf(s) = c
  BY <1>2, <1>3 DEF AssetClasses
<1> QED
  BY <1>1, <1>4

LEMMA CostsAreOrdered == CostsOrdered
<1> DEFINE M(c, p, x) == [class |-> c, profile |-> p, preset |-> x]
<1>0. /\ "forex" \in AssetClasses /\ "crypto" \in AssetClasses
      /\ "normal_liquidity" \in DOMAIN StressPresets /\ "news_event_stress" \in DOMAIN StressPresets
  BY DEF AssetClasses, StressPresets
<1>1. ASSUME NEW c \in AssetClasses, NEW s \in DOMAIN Scenarios2, NEW p \in DOMAIN Profiles4,
             NEW q \in DOMAIN Profiles4, NEW x \in DOMAIN StressPresets
      PROVE  /\ Profiles4[p] <= Profiles4[q] => CostOf(M(c, p, x), s) <= CostOf(M(c, q, x), s)
             /\ CostOf(M(c, p, "normal_liquidity"), s) <= CostOf(M(c, p, x), s)
             /\ CostOf(M(c, p, x), s) <= CostOf(M(c, p, "news_event_stress"), s)
             /\ CostOf(M("forex", p, x), s) <= CostOf(M(c, p, x), s)
             /\ CostOf(M(c, p, x), s) <= CostOf(M("crypto", p, x), s)
  <2>1. PICK w \in Nat, a \in Nat, b \in Nat, f \in Nat, d \in Nat :
           /\ w = Weight(c, x) /\ a = Weight(c, "normal_liquidity") /\ b = Weight(c, "news_event_stress")
           /\ f = Weight("forex", x) /\ d = Weight("crypto", x)
    BY <1>0, WeightsAreOrdered
  <2>2. a <= w /\ w <= b /\ f <= w /\ w <= d
    BY <2>1, WeightsAreOrdered
  <2>3. PICK m \in Nat, n \in Nat, k \in Nat : m = Profiles4[p] /\ n = Profiles4[q] /\ k = Scenarios2[s]
    BY ProfilesAre, ScenariosAre DEF Scenarios
  <2>4. /\ CostOf(M(c, p, x), s) = (w * m) * k /\ CostOf(M(c, q, x), s) = (w * n) * k
        /\ CostOf(M(c, p, "normal_liquidity"), s) = (a * m) * k
        /\ CostOf(M(c, p, "news_event_stress"), s) = (b * m) * k
        /\ CostOf(M("forex", p, x), s) = (f * m) * k /\ CostOf(M("crypto", p, x), s) = (d * m) * k
    BY <2>1, <2>3, CostIs
  <2>5. \A i, j \in Nat : i <= j => (i * m) * k <= (j * m) * k
    <3> SUFFICES ASSUME NEW i \in Nat, NEW j \in Nat, i <= j PROVE (i * m) * k <= (j * m) * k
      OBVIOUS
    <3>1. i * m <= j * m /\ i * m \in Int /\ j * m \in Int
      BY Scales
    <3> QED
      BY <3>1, Scales
  <2>6. m <= n => (w * m) * k <= (w * n) * k
    <3> SUFFICES ASSUME m <= n PROVE (w * m) * k <= (w * n) * k
      OBVIOUS
    <3>1. m * w <= n * w /\ m * w = w * m /\ n * w = w * n /\ w * m \in Int /\ w * n \in Int
      BY Scales
    <3> QED
      BY <3>1, Scales
  <2>7. (a * m) * k <= (w * m) * k /\ (w * m) * k <= (b * m) * k
        /\ (f * m) * k <= (w * m) * k /\ (w * m) * k <= (d * m) * k
    BY <2>2, <2>5
  <2> QED
    BY <2>3, <2>4, <2>6, <2>7
<1>2. ASSUME NEW s \in Symbols, s.given = Missing, s.table \in AssetClasses, ClassOf(s) # s.table
      PROVE  s.table = "commodities" /\ s.letters = 6 /\ s.dollar
  <2>1. s.table \in {"crypto", "forex", "commodities"} /\ s.dollar \in BOOLEAN
    BY <1>2 DEF Symbols, AssetClasses
  <2>2. ClassOf(s) = IF s.table = "crypto" THEN "crypto"
                     ELSE IF s.table = "forex" \/ (s.letters = 6 /\ s.dollar) THEN "forex"
                     ELSE IF s.table = "commodities" THEN "commodities"
                     ELSE IF s.table = "etfs" \/ s.letters <= 5 THEN "equities_etfs"
                     ELSE "unknown"
    BY <1>2, ClassIs
  <2> QED
    BY <1>2, <2>1, <2>2
<1> HIDE DEF M
<1>3. \A c \in AssetClasses, s \in DOMAIN Scenarios2, p, q \in DOMAIN Profiles4,
        x \in DOMAIN StressPresets :
         /\ Profiles4[p] <= Profiles4[q] => CostOf(M(c, p, x), s) <= CostOf(M(c, q, x), s)
         /\ CostOf(M(c, p, "normal_liquidity"), s) <= CostOf(M(c, p, x), s)
         /\ CostOf(M(c, p, x), s) <= CostOf(M(c, p, "news_event_stress"), s)
         /\ CostOf(M("forex", p, x), s) <= CostOf(M(c, p, x), s)
         /\ CostOf(M(c, p, x), s) <= CostOf(M("crypto", p, x), s)
  BY <1>1
<1> USE DEF M
<1> QED
  BY <1>2, <1>3, ClassesAreReached DEF CostsOrdered

(* The deepest of finitely many falls.                                     *)
Falls == Int \X (Nat \ {0})

LEMMA NoDeeperGoesOn ==
  ASSUME NEW d \in Falls, NEW e \in Falls, NEW f \in Falls, NoDeeper(d, e), NoDeeper(e, f)
  PROVE  NoDeeper(d, f)
<1>1. PICK a \in Int, l \in Nat \ {0} : a = d[1] /\ l = d[2]
  BY DEF Falls
<1>2. PICK b \in Int, m \in Nat \ {0} : b = e[1] /\ m = e[2]
  BY DEF Falls
<1>3. PICK c \in Int, n \in Nat \ {0} : c = f[1] /\ n = f[2]
  BY DEF Falls
<1>4. a * m <= b * l /\ b * n <= c * m
  BY <1>1, <1>2, <1>3 DEF NoDeeper
<1>5. a * n <= c * l
  BY <1>4, FractionsOrdered
<1> QED
  BY <1>1, <1>3, <1>5 DEF NoDeeper

LEMMA DeepestIs ==
  ASSUME NEW S \in SUBSET Falls, IsFiniteSet(S), S # {}
  PROVE  Deepest(S) \in S /\ \A d \in S : NoDeeper(d, Deepest(S))
<1> DEFINE R == {p \in S \X S : NoDeeper(p[1], p[2])}
<1>1. \A x, y \in S : <<x, y>> \in R <=> NoDeeper(x, y)
  OBVIOUS
<1>2. \A x \in S : x[1] \in Int /\ x[2] \in Nat \ {0}
  BY DEF Falls
<1>3. \A x, y \in S : NoDeeper(x, y) \/ NoDeeper(y, x)
  <2> SUFFICES ASSUME NEW x \in S, NEW y \in S PROVE NoDeeper(x, y) \/ NoDeeper(y, x)
    OBVIOUS
  <2>1. x[1] * y[2] \in Int /\ y[1] * x[2] \in Int
    BY <1>2
  <2> QED
    BY <2>1 DEF NoDeeper
<1>4. \A x, y, z \in S : NoDeeper(x, y) /\ NoDeeper(y, z) => NoDeeper(x, z)
  <2> SUFFICES ASSUME NEW x \in S, NEW y \in S, NEW z \in S, NoDeeper(x, y), NoDeeper(y, z)
               PROVE  NoDeeper(x, z)
    OBVIOUS
  <2> QED
    BY NoDeeperGoesOn
<1> HIDE DEF R
<1>5. \A x, y \in S : <<x, y>> \in R \/ <<y, x>> \in R
  BY <1>1, <1>3
<1>6. \A x, y, z \in S : <<x, y>> \in R /\ <<y, z>> \in R => <<x, z>> \in R
  BY <1>1, <1>4
<1>7. \E x \in S : \A y \in S : <<y, x>> \in R
  BY <1>5, <1>6, GreatestByOrder
<1>8. \E x \in S : \A y \in S : NoDeeper(y, x)
  BY <1>1, <1>7
<1> QED
  BY <1>8 DEF Deepest

-----------------------------------------------------------------------------

(* An equity curve: ever later, under a peak that it has reached.          *)
CurvePoints == [at : Nat, equity : Int, peak : Nat \ {0}]

IsCurve(points) ==
    /\ points \in Seq(CurvePoints) /\ Len(points) > 0
    /\ \A i, j \in 1..Len(points) : i < j => points[i].at < points[j].at
    /\ \A i, j \in 1..Len(points) : i <= j => points[i].equity <= points[j].peak
    /\ \A j \in 1..Len(points) : \E i \in 1..j : points[i].equity = points[j].peak

PeriodRows == [start : Nat, end : Nat \union {Missing}, peak : Int, trough : Int, recovered : BOOLEAN]
Scans == [peak : Int, peakAt : Nat, trough : Int \union {Missing}, closed : Seq(PeriodRows)]

(* What the pass over m points has seen: the point k that the curve has    *)
(* fallen from, or not yet, and the lowest after it.                       *)
TopSeen(points, s, m, k) ==
    /\ points[k].equity = s.peak /\ points[k].at = s.peakAt
    /\ \A i \in 1..m : points[i].equity <= s.peak
    /\ \A i \in 1..m : i < k => points[i].equity < s.peak

LowSeen(points, s, m, k) ==
    /\ s.trough = Missing => \A i \in k..m : points[i].equity = s.peak
    /\ s.trough # Missing =>
          /\ s.trough < s.peak /\ \E i \in k..m : points[i].equity = s.trough
          /\ \A i \in k..m : s.trough <= points[i].equity

(* Each closed period is over, and its fall is that of a point.            *)
PeriodsOver(points, s, m) ==
    /\ \A n \in 1..Len(s.closed) :
          /\ s.closed[n].recovered /\ s.closed[n].end \in Nat /\ s.closed[n].end <= s.peakAt
          /\ \E i \in 1..m : points[i].peak = s.closed[n].peak /\ points[i].equity = s.closed[n].trough
    /\ \A n, o \in 1..Len(s.closed) : n < o => s.closed[n].end <= s.closed[o].start

(* And no point lies under a peak further than a period tells.             *)
AllTold(points, s, m) ==
    \A i \in 1..m :
        \/ points[i].equity = points[i].peak
        \/ points[i].peak = s.peak /\ s.trough # Missing /\ s.trough <= points[i].equity
        \/ \E n \in 1..Len(s.closed) :
              s.closed[n].peak = points[i].peak /\ s.closed[n].trough <= points[i].equity

Scanned(points, s, m) ==
    /\ s \in Scans /\ PeriodsOver(points, s, m) /\ AllTold(points, s, m)
    /\ \E k \in 1..m : TopSeen(points, s, m, k) /\ LowSeen(points, s, m, k)

LEMMA PointsAre ==
  ASSUME NEW points, IsCurve(points)
  PROVE  /\ Len(points) \in Nat \ {0} /\ DOMAIN points = 1..Len(points)
         /\ \A i \in 1..Len(points) : /\ points[i].at \in Nat /\ points[i].equity \in Int
                                      /\ points[i].peak \in Nat \ {0}
<1>1. points \in Seq(CurvePoints) /\ Len(points) > 0
  BY DEF IsCurve
<1>2. Len(points) \in Nat /\ DOMAIN points = 1..Len(points)
      /\ \A i \in 1..Len(points) : points[i] \in CurvePoints
  BY <1>1
<1>3. \A p \in CurvePoints : p.at \in Nat /\ p.equity \in Int /\ p.peak \in Nat \ {0}
  BY DEF CurvePoints
<1> QED
  BY <1>1, <1>2, <1>3

(* The peak of a point is the greatest so far.                             *)
LEMMA PeakFromTop ==
  ASSUME NEW points, IsCurve(points), NEW m \in 1..Len(points), NEW k \in 1..m,
         NEW top \in Int, points[k].equity = top, \A i \in 1..m : points[i].equity <= top
  PROVE  \A i \in k..m : points[i].peak = top
<1> SUFFICES ASSUME NEW i \in k..m PROVE points[i].peak = top
  OBVIOUS
<1>1. Len(points) \in Nat
  BY PointsAre
<1>2. m \in Nat /\ k \in Nat /\ i \in Nat /\ k <= i /\ i <= m /\ 1 <= k /\ m <= Len(points)
  BY <1>1
<1>3. i \in 1..Len(points) /\ k \in 1..Len(points) /\ 1..i \subseteq 1..m
  BY <1>1, <1>2
<1>4. top <= points[i].peak
  BY <1>2, <1>3 DEF IsCurve
<1>5. PICK j \in 1..i : points[j].equity = points[i].peak
  BY <1>3 DEF IsCurve
<1>6. points[j].equity <= top
  BY <1>3, <1>5
<1>7. points[i].peak \in Int
  BY <1>3, PointsAre
<1> QED
  BY <1>4, <1>5, <1>6, <1>7

LEMMA ScanBegins ==
  ASSUME NEW points, IsCurve(points),
         NEW s, s = [peak |-> points[1].equity, peakAt |-> points[1].at,
                     trough |-> Missing, closed |-> <<>>]
  PROVE  Scanned(points, s, 1)
<1>1. /\ 1 \in 1..Len(points) /\ 1 \in 1..1 /\ \A i \in 1..1 : i = 1
      /\ points[1].at \in Nat /\ points[1].equity \in Int
  BY PointsAre
<1>2. s \in Scans
  <2>1. <<>> \in Seq(PeriodRows)
    OBVIOUS
  <2> QED
    BY <1>1, <2>1 DEF Scans
<1>3. PeriodsOver(points, s, 1)
  BY DEF PeriodsOver
<1>4. AllTold(points, s, 1)
  <2>1. points[1].equity = points[1].peak
    BY <1>1 DEF IsCurve
  <2> QED
    BY <1>1, <2>1 DEF AllTold
<1>5. TopSeen(points, s, 1, 1)
  BY <1>1 DEF TopSeen
<1>6. LowSeen(points, s, 1, 1)
  BY <1>1 DEF LowSeen
<1> QED
  BY <1>1, <1>2, <1>3, <1>4, <1>5, <1>6 DEF Scanned

(* One more point: above the top, below the lowest, or neither.            *)
LEMMA NextPoint ==
  ASSUME NEW points, IsCurve(points), NEW m \in 1..Len(points), m # Len(points)
  PROVE  /\ m \in Nat \ {0} /\ m + 1 \in Nat /\ m + 1 \in 1..Len(points) /\ m < m + 1
         /\ 1..m \subseteq 1..Len(points) /\ 1..(m + 1) = (1..m) \union {m + 1}
         /\ \A k \in 1..m : k..(m + 1) = (k..m) \union {m + 1} /\ k \in 1..(m + 1) /\ k # m + 1
         /\ points[m + 1].at \in Nat /\ points[m + 1].equity \in Int /\ points[m + 1].peak \in Nat
         /\ \A i \in 1..m : /\ points[i].at \in Nat /\ points[i].equity \in Int /\ points[i].peak \in Nat
                            /\ points[i].at < points[m + 1].at
<1>1. Len(points) \in Nat
  BY PointsAre
<1>2. /\ m \in Nat \ {0} /\ m + 1 \in Nat /\ m + 1 \in 1..Len(points) /\ m < m + 1
      /\ 1..m \subseteq 1..Len(points)
      /\ \A i \in 1..m : i < m + 1
  BY <1>1
<1>3. /\ 1..(m + 1) = (1..m) \union {m + 1}
      /\ \A k \in 1..m : k..(m + 1) = (k..m) \union {m + 1} /\ k \in 1..(m + 1) /\ k # m + 1
  BY <1>2
<1>4. /\ points[m + 1].at \in Nat /\ points[m + 1].equity \in Int /\ points[m + 1].peak \in Nat
      /\ \A i \in 1..m : /\ points[i].at \in Nat /\ points[i].equity \in Int /\ points[i].peak \in Nat
  BY <1>2, PointsAre
<1>5. \A i \in 1..m : points[i].at < points[m + 1].at
  BY <1>2 DEF IsCurve
<1> QED
  BY <1>2, <1>3, <1>4, <1>5

LEMMA ScanShapes ==
  ASSUME NEW points, NEW s, NEW m, Scanned(points, s, m)
  PROVE  /\ s.peak \in Int /\ s.peakAt \in Nat /\ (s.trough # Missing => s.trough \in Int)
         /\ s.closed \in Seq(PeriodRows) /\ Len(s.closed) \in Nat
         /\ DOMAIN s.closed = 1..Len(s.closed)
         /\ \A n \in 1..Len(s.closed) : s.closed[n] \in PeriodRows
         /\ s = [peak |-> s.peak, peakAt |-> s.peakAt, trough |-> s.trough, closed |-> s.closed]
<1>1. s \in Scans
  BY DEF Scanned
<1>2. s.closed \in Seq(PeriodRows)
  BY <1>1 DEF Scans
<1> QED
  BY <1>1, <1>2 DEF Scans

(* What is below the top is below the peak of its points.                  *)
LEMMA ScanGoesOn ==
  ASSUME NEW points, IsCurve(points), NEW m \in 1..Len(points), m # Len(points),
         NEW s, Scanned(points, s, m), points[m + 1].equity <= s.peak
  PROVE  /\ points[m + 1].peak = s.peak
         /\ \A t : t.peak = s.peak /\ t.peakAt = s.peakAt =>
               \A k \in 1..m : TopSeen(points, s, m, k) => TopSeen(points, t, m + 1, k)
<1>1. PICK k \in 1..m : TopSeen(points, s, m, k)
  BY DEF Scanned
<1>2. \A i \in 1..(m + 1) : points[i].equity <= s.peak
  BY <1>1, NextPoint DEF TopSeen
<1>3. k \in 1..(m + 1) /\ m + 1 \in 1..Len(points) /\ points[k].equity = s.peak /\ s.peak \in Int
      /\ m + 1 \in k..(m + 1)
  BY <1>1, NextPoint, ScanShapes DEF TopSeen
<1>4. points[m + 1].peak = s.peak
  <2> DEFINE n == m + 1
  <2>1. /\ n \in 1..Len(points) /\ k \in 1..n /\ s.peak \in Int /\ points[k].equity = s.peak
        /\ \A i \in 1..n : points[i].equity <= s.peak
    BY <1>2, <1>3
  <2>2. \A i \in k..n : points[i].peak = s.peak
    <3> HIDE DEF n
    <3> QED
      BY <2>1, PeakFromTop
  <2> QED
    BY <2>2, <1>3
<1>5. ASSUME NEW t, t.peak = s.peak, t.peakAt = s.peakAt, NEW j \in 1..m, TopSeen(points, s, m, j)
      PROVE  TopSeen(points, t, m + 1, j)
  <2>1. \A i \in 1..(m + 1) : i < j => i \in 1..m
    BY NextPoint
  <2> QED
    BY <2>1, <1>2, <1>5 DEF TopSeen
<1> QED
  BY <1>4, <1>5

LEMMA ScanUnchanged ==
  ASSUME NEW points, IsCurve(points), NEW m \in 1..Len(points), m # Len(points),
         NEW s, Scanned(points, s, m), points[m + 1].equity <= s.peak,
         points[m + 1].equity = s.peak \/ (s.trough # Missing /\ s.trough <= points[m + 1].equity)
  PROVE  Scanned(points, s, m + 1)
<1>1. PICK k \in 1..m : TopSeen(points, s, m, k) /\ LowSeen(points, s, m, k)
  BY DEF Scanned
<1>2. TopSeen(points, s, m + 1, k) /\ points[m + 1].peak = s.peak
  BY <1>1, ScanGoesOn
<1>3. LowSeen(points, s, m + 1, k)
  <2>1. \A i \in k..(m + 1) : i \in k..m \/ i = m + 1
    BY NextPoint
  <2>2. k..m \subseteq k..(m + 1)
    BY NextPoint
  <2>3. s.trough = Missing => \A i \in k..(m + 1) : points[i].equity = s.peak
    BY <1>1, <2>1 DEF LowSeen
  <2>4. ASSUME s.trough # Missing
        PROVE  /\ s.trough < s.peak /\ \E i \in k..(m + 1) : points[i].equity = s.trough
               /\ \A i \in k..(m + 1) : s.trough <= points[i].equity
    <3>1. s.trough \in Int /\ s.peak \in Int
      BY <2>4, ScanShapes
    <3>2. s.trough <= points[m + 1].equity
      BY <1>1, <2>4, <3>1 DEF LowSeen
    <3> QED
      BY <1>1, <2>1, <2>2, <2>4, <3>2 DEF LowSeen
  <2> QED
    BY <2>3, <2>4 DEF LowSeen
<1>4. PeriodsOver(points, s, m + 1)
  BY NextPoint DEF Scanned, PeriodsOver
<1>5. AllTold(points, s, m + 1)
  <2>1. \/ points[m + 1].equity = points[m + 1].peak
        \/ /\ points[m + 1].peak = s.peak /\ s.trough # Missing /\ s.trough <= points[m + 1].equity
    BY <1>2
  <2>2. AllTold(points, s, m) /\ \A i \in 1..(m + 1) : i \in 1..m \/ i = m + 1
    BY NextPoint DEF Scanned
  <2> QED
    BY <2>1, <2>2 DEF AllTold
<1>6. k \in 1..(m + 1)
  BY NextPoint
<1> QED
  BY <1>2, <1>3, <1>4, <1>5, <1>6 DEF Scanned

LEMMA ScanLower ==
  ASSUME NEW points, IsCurve(points), NEW m \in 1..Len(points), m # Len(points),
         NEW s, Scanned(points, s, m), points[m + 1].equity < s.peak,
         s.trough = Missing \/ points[m + 1].equity < s.trough,
         NEW t, t = [s EXCEPT !.trough = points[m + 1].equity]
  PROVE  Scanned(points, t, m + 1)
<1> DEFINE low == points[m + 1].equity
<1>0. low \in Int /\ s.peak \in Int /\ low <= s.peak /\ low < s.peak
  BY NextPoint, ScanShapes
<1>1. PICK k \in 1..m : TopSeen(points, s, m, k) /\ LowSeen(points, s, m, k)
  BY DEF Scanned
<1>2. /\ t.peak = s.peak /\ t.peakAt = s.peakAt /\ t.closed = s.closed /\ t.trough = low
      /\ t \in Scans
  BY <1>0, ScanShapes DEF Scanned, Scans
<1>3. TopSeen(points, t, m + 1, k) /\ points[m + 1].peak = s.peak
  BY <1>0, <1>1, <1>2, ScanGoesOn
<1>4. low # Missing
  BY <1>0, ResultsAssumption
<1>5. LowSeen(points, t, m + 1, k)
  <2>1. \A i \in k..(m + 1) : i \in k..m \/ i = m + 1
    BY NextPoint
  <2>2. m + 1 \in k..(m + 1) /\ \A i \in k..m : points[i].equity \in Int
    <3>1. \A i \in k..m : i \in 1..m
      BY NextPoint
    <3> QED
      BY <3>1, NextPoint
  <2>3. \A i \in k..m : low <= points[i].equity
    <3>1. CASE s.trough = Missing
      BY <3>1, <1>0, <1>1, <2>2 DEF LowSeen
    <3>2. CASE s.trough # Missing
      <4>1. s.trough \in Int /\ low < s.trough /\ \A i \in k..m : s.trough <= points[i].equity
        BY <3>2, <1>1, ScanShapes DEF LowSeen
      <4> QED
        BY <4>1, <1>0, <2>2
    <3> QED
      BY <3>1, <3>2
  <2>4. \A i \in k..(m + 1) : low <= points[i].equity
    BY <2>1, <2>3, <1>0
  <2> QED
    BY <2>2, <2>4, <1>0, <1>2, <1>4 DEF LowSeen
<1>6. PeriodsOver(points, t, m + 1)
  <2>1. PeriodsOver(points, s, m + 1)
    BY NextPoint DEF Scanned, PeriodsOver
  <2> QED
    BY <2>1, <1>2 DEF PeriodsOver
<1>7. AllTold(points, t, m + 1)
  <2> SUFFICES ASSUME NEW i \in 1..(m + 1)
               PROVE \/ points[i].equity = points[i].peak
                     \/ points[i].peak = t.peak /\ t.trough # Missing /\ t.trough <= points[i].equity
                     \/ \E n \in 1..Len(t.closed) :
                           t.closed[n].peak = points[i].peak /\ t.closed[n].trough <= points[i].equity
    BY DEF AllTold
  <2>1. CASE i = m + 1
    BY <2>1, <1>0, <1>2, <1>3, <1>4
  <2>2. CASE i \in 1..m
    <3>1. points[i].equity \in Int
      BY <2>2, NextPoint
    <3>2. \/ points[i].equity = points[i].peak
          \/ points[i].peak = s.peak /\ s.trough # Missing /\ s.trough <= points[i].equity
          \/ \E n \in 1..Len(s.closed) :
                s.closed[n].peak = points[i].peak /\ s.closed[n].trough <= points[i].equity
      BY <2>2 DEF Scanned, AllTold
    <3>3. ASSUME s.trough # Missing, s.trough <= points[i].equity
          PROVE  low <= points[i].equity
      <4>1. s.trough \in Int /\ low < s.trough
        BY <3>3, ScanShapes
      <4> QED
        BY <4>1, <3>1, <3>3, <1>0
    <3> QED
      BY <3>2, <3>3, <1>2, <1>4
  <2> QED
    BY <2>1, <2>2, NextPoint
<1>8. k \in 1..(m + 1)
  BY NextPoint
<1> QED
  BY <1>2, <1>3, <1>5, <1>6, <1>7, <1>8 DEF Scanned

LEMMA ScanHigher ==
  ASSUME NEW points, IsCurve(points), NEW m \in 1..Len(points), m # Len(points),
         NEW s, Scanned(points, s, m), s.peak < points[m + 1].equity,
         NEW t, t = [peak |-> points[m + 1].equity, peakAt |-> points[m + 1].at, trough |-> Missing,
                     closed |-> IF s.trough = Missing THEN s.closed
                                ELSE Append(s.closed, Period(s, points[m + 1].at))]
  PROVE  Scanned(points, t, m + 1)
<1> DEFINE q == points[m + 1]
           p == Period(s, q.at)
           old == s.closed
           L == Len(old)
<1>1. PICK k \in 1..m : TopSeen(points, s, m, k) /\ LowSeen(points, s, m, k)
  BY DEF Scanned
<1>2. /\ q.at \in Nat /\ q.equity \in Int /\ s.peak \in Int /\ s.peakAt \in Nat
      /\ old \in Seq(PeriodRows) /\ L \in Nat /\ s.peak < q.equity
      /\ \A n \in 1..L : old[n] \in PeriodRows
  BY NextPoint, ScanShapes
<1>3. s.peakAt < q.at
  BY <1>1, NextPoint DEF TopSeen
<1>4. s.trough # Missing =>
         /\ s.trough \in Int /\ p \in PeriodRows /\ p.recovered /\ p.end = q.at
         /\ p.start = s.peakAt /\ p.peak = s.peak /\ p.trough = s.trough
  <2>1. q.at # Missing
    BY <1>2, ResultsAssumption
  <2> QED
    BY <1>2, <2>1, ScanShapes DEF Period, PeriodRows
<1>5. /\ t.peak = q.equity /\ t.peakAt = q.at /\ t.trough = Missing
      /\ s.trough = Missing => t.closed = old
      /\ s.trough # Missing => t.closed = Append(old, p)
  OBVIOUS
<1>6. /\ t.closed \in Seq(PeriodRows) /\ Len(t.closed) \in Nat
      /\ \A n \in 1..L : t.closed[n] = old[n] /\ n \in 1..Len(t.closed)
      /\ s.trough = Missing => Len(t.closed) = L
      /\ s.trough # Missing => Len(t.closed) = L + 1 /\ t.closed[L + 1] = p
  <2>1. CASE s.trough = Missing
    BY <2>1, <1>2, <1>5
  <2>2. CASE s.trough # Missing
    <3>1. p \in PeriodRows
      BY <2>2, <1>4
    <3> HIDE DEF p, old
    <3>2. /\ Append(old, p) \in Seq(PeriodRows) /\ Len(Append(old, p)) = L + 1
          /\ \A n \in 1..L : Append(old, p)[n] = old[n]
          /\ Append(old, p)[L + 1] = p
      BY <3>1, <1>2
    <3>3. \A n \in 1..L : n \in 1..(L + 1)
      BY <1>2
    <3>4. t.closed = Append(old, p)
      BY <2>2, <1>5
    <3>5. /\ t.closed \in Seq(PeriodRows) /\ Len(t.closed) = L + 1
          /\ \A n \in 1..L : t.closed[n] = old[n]
          /\ t.closed[L + 1] = p
      BY <3>2, <3>4, Zenon
    <3>6. L + 1 \in Nat
      BY <1>2
    <3> HIDE DEF L
    <3> QED
      BY <2>2, <3>3, <3>5, <3>6, Zenon
  <2> QED
    BY <2>1, <2>2
<1> HIDE DEF p, L, old
<1>7. t \in Scans
  BY <1>2, <1>5, <1>6 DEF Scans
<1>8. \A n \in 1..Len(t.closed) :
         n \in 1..L \/ (s.trough # Missing /\ n = L + 1)
  BY <1>2, <1>6
<1>9. /\ \A n \in 1..L : /\ old[n].recovered /\ old[n].end \in Nat /\ old[n].end <= s.peakAt
                         /\ \E i \in 1..m : points[i].peak = old[n].peak /\ points[i].equity = old[n].trough
      /\ \A n, o \in 1..L : n < o => old[n].end <= old[o].start
  BY DEF Scanned, PeriodsOver, old, L
<1>10. ASSUME s.trough # Missing
       PROVE  \E i \in 1..m : points[i].peak = s.peak /\ points[i].equity = s.trough
  <2>1. PICK i \in k..m : points[i].equity = s.trough
    BY <1>1, <1>10 DEF LowSeen
  <2>2. points[i].peak = s.peak
    <3>1. points[k].equity = s.peak /\ \A j \in 1..m : points[j].equity <= s.peak
      BY <1>1 DEF TopSeen
    <3>2. \A j \in k..m : points[j].peak = s.peak
      BY <3>1, <1>2, PeakFromTop
    <3> QED
      BY <3>2
  <2>3. i \in 1..m
    BY NextPoint
  <2> QED
    BY <2>1, <2>2, <2>3
<1>11. PeriodsOver(points, t, m + 1)
  <2>1. ASSUME NEW n \in 1..Len(t.closed)
        PROVE  /\ t.closed[n].recovered /\ t.closed[n].end \in Nat /\ t.closed[n].end <= t.peakAt
               /\ \E i \in 1..(m + 1) :
                     points[i].peak = t.closed[n].peak /\ points[i].equity = t.closed[n].trough
    <3>1. CASE n \in 1..L
      <4>1. t.closed[n] = old[n] /\ old[n].end \in Nat /\ old[n].end <= s.peakAt
        BY <3>1, <1>6, <1>9
      <4>2. old[n].end <= q.at
        BY <4>1, <1>2, <1>3
      <4>3. PICK i \in 1..m : points[i].peak = old[n].peak /\ points[i].equity = old[n].trough
        BY <3>1, <1>9
      <4>4. i \in 1..(m + 1) /\ old[n].recovered
        BY <3>1, <1>9, NextPoint
      <4> QED
        BY <4>1, <4>2, <4>3, <4>4, <1>5
    <3>2. CASE s.trough # Missing /\ n = L + 1
      <4>1. PICK i \in 1..m : points[i].peak = s.peak /\ points[i].equity = s.trough
        BY <3>2, <1>10
      <4>2. i \in 1..(m + 1) /\ t.closed[n] = p /\ q.at <= q.at
        BY <3>2, <1>2, <1>6, NextPoint
      <4> QED
        BY <3>2, <4>1, <4>2, <1>2, <1>4, <1>5
    <3> QED
      BY <3>1, <3>2, <1>8
  <2>2. ASSUME NEW n \in 1..Len(t.closed), NEW o \in 1..Len(t.closed), n < o
        PROVE  t.closed[n].end <= t.closed[o].start
    <3>1. n \in 1..L
      BY <2>2, <1>2, <1>8
    <3>2. CASE o \in 1..L
      BY <2>2, <3>1, <3>2, <1>6, <1>9
    <3>3. CASE s.trough # Missing /\ o = L + 1
      BY <3>1, <3>3, <1>4, <1>6, <1>9
    <3> QED
      BY <3>2, <3>3, <1>8
  <2> QED
    BY <2>1, <2>2 DEF PeriodsOver
<1>12. q.peak = q.equity
  <2>1. PICK j \in 1..(m + 1) : points[j].equity = q.peak
    BY NextPoint DEF IsCurve
  <2>2. q.equity <= q.peak /\ q.peak \in Int
    <3>1. m + 1 \in 1..Len(points) /\ m + 1 <= m + 1 /\ q.peak \in Int
      BY NextPoint
    <3> QED
      BY <3>1 DEF IsCurve
  <2>3. ASSUME j \in 1..m PROVE FALSE
    <3>1. points[j].equity <= s.peak /\ points[j].equity \in Int
      BY <2>3, <1>1, NextPoint DEF TopSeen
    <3> QED
      BY <3>1, <2>1, <2>2, <1>2
  <2>4. j = m + 1
    BY <2>3, NextPoint
  <2> QED
    BY <2>1, <2>4
<1>13. AllTold(points, t, m + 1)
  <2> SUFFICES ASSUME NEW i \in 1..(m + 1), points[i].equity # points[i].peak
               PROVE  \E n \in 1..Len(t.closed) :
                           t.closed[n].peak = points[i].peak /\ t.closed[n].trough <= points[i].equity
    BY DEF AllTold
  <2>1. i \in 1..m
    BY <1>12, NextPoint
  <2>2. \/ points[i].peak = s.peak /\ s.trough # Missing /\ s.trough <= points[i].equity
        \/ \E n \in 1..L : old[n].peak = points[i].peak /\ old[n].trough <= points[i].equity
    BY <2>1 DEF Scanned, AllTold, old, L
  <2>3. ASSUME points[i].peak = s.peak, s.trough # Missing, s.trough <= points[i].equity
        PROVE  /\ L + 1 \in 1..Len(t.closed)
               /\ t.closed[L + 1].peak = points[i].peak /\ t.closed[L + 1].trough <= points[i].equity
    BY <2>3, <1>2, <1>4, <1>6
  <2> QED
    BY <2>2, <2>3, <1>6
<1>14. TopSeen(points, t, m + 1, m + 1)
  <2>1. ASSUME NEW i \in 1..m PROVE points[i].equity < q.equity
    BY <1>1, <1>2, NextPoint DEF TopSeen
  <2>2. \A i \in 1..(m + 1) : i \in 1..m \/ i = m + 1
    BY NextPoint
  <2>3. m + 1 \in Nat /\ ~ (m + 1 < m + 1)
    BY NextPoint
  <2> QED
    <3>1. \A i \in 1..(m + 1) : points[i].equity <= q.equity
      BY <2>1, <2>2, <1>2, NextPoint
    <3>2. \A i \in 1..(m + 1) : i < m + 1 => points[i].equity < q.equity
      BY <2>1, <2>2, <2>3
    <3> QED
      BY <3>1, <3>2, <1>5 DEF TopSeen
<1>15. LowSeen(points, t, m + 1, m + 1)
  <2>1. \A i \in (m + 1)..(m + 1) : i = m + 1
    BY NextPoint
  <2> QED
    BY <2>1, <1>5 DEF LowSeen
<1>16. m + 1 \in 1..(m + 1)
  BY NextPoint
<1> QED
  BY <1>7, <1>11, <1>13, <1>14, <1>15, <1>16 DEF Scanned

LEMMA ScanStep ==
  ASSUME NEW points, IsCurve(points), NEW m \in 1..Len(points), m # Len(points),
         NEW s, Scanned(points, s, m)
  PROVE  Scanned(points, ReadPoint(s, points[m + 1]), m + 1)
<1> DEFINE q == points[m + 1]
<1>1. q.equity \in Int /\ s.peak \in Int /\ (s.trough # Missing => s.trough \in Int)
  BY NextPoint, ScanShapes
<1>2. CASE s.peak < q.equity
  <2>1. ReadPoint(s, q) = [peak |-> q.equity, peakAt |-> q.at, trough |-> Missing,
                           closed |-> IF s.trough = Missing THEN s.closed
                                      ELSE Append(s.closed, Period(s, q.at))]
    BY <1>1, <1>2 DEF ReadPoint
  <2> QED
    BY <2>1, <1>2, ScanHigher
<1>3. CASE q.equity < s.peak /\ (s.trough = Missing \/ q.equity < s.trough)
  <2>1. ReadPoint(s, q) = [s EXCEPT !.trough = q.equity]
    BY <1>1, <1>3 DEF ReadPoint
  <2> QED
    BY <2>1, <1>3, ScanLower
<1>4. CASE /\ q.equity <= s.peak
           /\ q.equity = s.peak \/ (s.trough # Missing /\ s.trough <= q.equity)
  <2>1. ReadPoint(s, q) = s
    BY <1>1, <1>4 DEF ReadPoint
  <2> QED
    BY <2>1, <1>4, ScanUnchanged
<1> QED
  BY <1>1, <1>2, <1>3, <1>4

LEMMA ReadStays ==
  ASSUME NEW s \in Scans, NEW p \in CurvePoints
  PROVE  ReadPoint(s, p) \in Scans
<1>1. /\ s.peak \in Int /\ s.peakAt \in Nat /\ s.trough \in Int \union {Missing}
      /\ s.closed \in Seq(PeriodRows) /\ p.at \in Nat /\ p.equity \in Int
  BY DEF Scans, CurvePoints
<1>2. CASE p.equity > s.peak
  <2> DEFINE closed == IF s.trough = Missing THEN s.closed ELSE Append(s.closed, Period(s, p.at))
  <2>1. s.trough # Missing => Period(s, p.at) \in PeriodRows
    BY <1>1 DEF Period, PeriodRows
  <2>2. closed \in Seq(PeriodRows)
    BY <2>1, <1>1
  <2>3. ReadPoint(s, p) = [peak |-> p.equity, peakAt |-> p.at, trough |-> Missing, closed |-> closed]
    BY <1>2 DEF ReadPoint
  <2> HIDE DEF closed
  <2> QED
    BY <2>2, <2>3, <1>1 DEF Scans
<1>3. CASE ~ (p.equity > s.peak)
  <2>1. ReadPoint(s, p) = s \/ ReadPoint(s, p) = [s EXCEPT !.trough = p.equity]
    BY <1>3 DEF ReadPoint
  <2>2. [s EXCEPT !.trough = p.equity] \in Scans
    BY <1>1 DEF Scans
  <2> QED
    BY <2>1, <2>2
<1> QED
  BY <1>2, <1>3

(* The pass over the whole curve.                                          *)
LEMMA PeriodsAre ==
  ASSUME NEW points, IsCurve(points)
  PROVE  \E s : /\ Scanned(points, s, Len(points))
                /\ DrawdownPeriods(points) =
                      IF s.trough = Missing THEN s.closed ELSE Append(s.closed, Period(s, Missing))
<1> DEFINE N == Len(points) - 1
           base == [peak |-> points[1].equity, peakAt |-> points[1].at,
                    trough |-> Missing, closed |-> <<>>]
           step == [n \in 1..N |-> [s \in Scans |-> ReadPoint(s, points[n + 1])]]
           Passed(F) == F = [n \in 0..N |->
                               IF n = 0 THEN base ELSE ReadPoint(F[n - 1], points[n + 1])]
           seen == CHOOSE F : Passed(F)
<1>1. N \in Nat /\ Len(points) = N + 1 /\ \A n \in 1..N : points[n + 1] \in CurvePoints
  <2>1. points \in Seq(CurvePoints) /\ Len(points) \in Nat \ {0}
    BY PointsAre DEF IsCurve
  <2>2. \A i \in 1..Len(points) : points[i] \in CurvePoints
    BY <2>1
  <2>3. \A n \in 1..N : n + 1 \in 1..Len(points)
    BY <2>1
  <2> QED
    BY <2>1, <2>2, <2>3
<1>2. Scanned(points, base, 1) /\ base \in Scans
  <2>1. Scanned(points, base, 1)
    BY ScanBegins
  <2> QED
    BY <2>1 DEF Scanned
<1>3. DrawdownPeriods(points) =
         IF seen[N].trough = Missing THEN seen[N].closed
         ELSE Append(seen[N].closed, Period(seen[N], Missing))
  BY DEF DrawdownPeriods
<1>4. \A s \in Scans, n \in 1..N :
         step[n][s] = ReadPoint(s, points[n + 1]) /\ step[n][s] \in Scans
  BY <1>1, ReadStays
<1>5. \A n \in 0..N : n # 0 => n \in 1..N /\ n - 1 \in 0..N
  BY <1>1
<1> HIDE DEF N, base, step
<1>6. StaysIn(Scans, step, N)
  BY <1>4 DEF StaysIn
<1>7. \E F : Passed(F)
  <2>1. PICK F \in [0..N -> Scans] : MadeBy(F, base, step, N)
    BY <1>1, <1>2, <1>6, StepByStep
  <2>2. \A n \in 0..N : F[n] = IF n = 0 THEN base ELSE step[n][F[n - 1]]
    BY <2>1 DEF MadeBy
  <2>3. \A n \in 0..N : F[n] = IF n = 0 THEN base ELSE ReadPoint(F[n - 1], points[n + 1])
    BY <2>1, <2>2, <1>4, <1>5
  <2>4. Passed(F)
    BY <2>1, <2>3
  <2> QED
    BY <2>4
<1>8. Passed(seen)
  BY <1>7
<1> HIDE DEF seen
<1>9. seen[0] = base /\ \A n \in 0..N : n # 0 => seen[n] = ReadPoint(seen[n - 1], points[n + 1])
  BY <1>1, <1>8
<1> DEFINE done == {n \in Nat : n <= N => Scanned(points, seen[n], n + 1)}
<1>10. 0 \in done
  BY <1>2, <1>9
<1>11. ASSUME NEW n \in Nat, n \in done
       PROVE  n + 1 \in done
  <2> SUFFICES ASSUME n + 1 <= N PROVE Scanned(points, seen[n + 1], (n + 1) + 1)
    OBVIOUS
  <2> DEFINE m == n + 1
  <2>1. m \in 1..Len(points) /\ m # Len(points) /\ m \in 0..N /\ m # 0 /\ m - 1 = n
    BY <1>1
  <2>2. Scanned(points, seen[n], m)
    BY <1>1, <1>11
  <2>3. seen[m] = ReadPoint(seen[n], points[m + 1])
    BY <1>9, <2>1
  <2> HIDE DEF m
  <2>4. Scanned(points, ReadPoint(seen[n], points[m + 1]), m + 1)
    BY <2>1, <2>2, ScanStep
  <2> QED
    BY <2>3, <2>4 DEF m
<1>12. Nat \subseteq done
  <2> HIDE DEF done
  <2> QED
    BY <1>10, <1>11, AllNaturals
<1>13. Scanned(points, seen[N], Len(points))
  BY <1>1, <1>12
<1> QED
  BY <1>3, <1>13

LEMMA FallsAre ==
  ASSUME NEW points, IsCurve(points)
  PROVE  /\ IsFiniteSet(FallsAlong(points)) /\ FallsAlong(points) # {}
         /\ FallsAlong(points) \in SUBSET Falls
         /\ \A d \in FallsAlong(points) : d[1] \in Nat
<1>1. DOMAIN points = 1..Len(points) /\ Len(points) \in Nat \ {0}
  BY PointsAre
<1>2. IsFiniteSet(1..Len(points)) /\ 1 \in 1..Len(points)
  BY <1>1, FS_Interval
<1> DEFINE f == [n \in 1..Len(points) |-> FallAt(points[n])]
<1>3. FallsAlong(points) = {f[n] : n \in 1..Len(points)}
  BY <1>1 DEF FallsAlong
<1>4. \A n \in 1..Len(points) : FallAt(points[n]) \in Falls /\ FallAt(points[n])[1] \in Nat
  <2> SUFFICES ASSUME NEW n \in 1..Len(points)
               PROVE  FallAt(points[n]) \in Falls /\ FallAt(points[n])[1] \in Nat
    OBVIOUS
  <2>1. n <= n /\ points[n].equity \in Int /\ points[n].peak \in Nat \ {0}
    BY PointsAre
  <2>2. points[n].equity <= points[n].peak
    BY <2>1 DEF IsCurve
  <2> QED
    BY <2>1, <2>2 DEF FallAt, Falls
<1>5. IsFiniteSet(FallsAlong(points))
  <2> HIDE DEF f
  <2> QED
    BY <1>2, <1>3, FiniteImage
<1> QED
  BY <1>1, <1>2, <1>4, <1>5 DEF FallsAlong

(* What the periods of a curve say of its points: which falls they tell,   *)
(* in which order they come, and when the last of them is open.            *)
FromPoints(points, periods) ==
    \A n \in 1..Len(periods) : \E i \in 1..Len(points) :
        points[i].peak = periods[n].peak /\ points[i].equity = periods[n].trough

ToPeriods(points, periods) ==
    \A i \in 1..Len(points) :
        \/ points[i].equity = points[i].peak
        \/ \E n \in 1..Len(periods) :
              periods[n].peak = points[i].peak /\ periods[n].trough <= points[i].equity

InTurn(periods) ==
    \A n, o \in 1..Len(periods) : n < o => periods[n].recovered /\ periods[n].end <= periods[o].start

StillDown(points) ==
    \E i, j \in 1..Len(points) :
        /\ i < j /\ points[j].equity < points[i].equity
        /\ \A k \in 1..Len(points) : points[k].equity <= points[i].equity

LastIsOpen(periods) == periods # <<>> /\ ~ periods[Len(periods)].recovered

LEMMA PeriodsSay ==
  ASSUME NEW points, IsCurve(points), NEW periods, periods = DrawdownPeriods(points)
  PROVE  /\ periods \in Seq(PeriodRows) /\ FromPoints(points, periods) /\ ToPeriods(points, periods)
         /\ InTurn(periods) /\ (LastIsOpen(periods) <=> StillDown(points))
<1>0. PICK N : N = Len(points)
  OBVIOUS
<1>1. PICK s : /\ Scanned(points, s, N)
               /\ periods = IF s.trough = Missing THEN s.closed
                            ELSE Append(s.closed, Period(s, Missing))
  BY <1>0, PeriodsAre
<1> DEFINE old == s.closed
           L == Len(old)
           p == Period(s, Missing)
<1>2. PICK k \in 1..N : TopSeen(points, s, N, k) /\ LowSeen(points, s, N, k)
  BY <1>1 DEF Scanned
<1>3. /\ N \in Nat \ {0} /\ k \in Nat /\ N \in 1..N
      /\ \A i \in k..N : i \in 1..N /\ k <= i
      /\ \A i \in 1..N : points[i].equity \in Int /\ points[i].peak \in Nat \ {0}
  BY <1>0, PointsAre
<1>4. /\ s.peak \in Int /\ s.peakAt \in Nat /\ (s.trough # Missing => s.trough \in Int)
      /\ old \in Seq(PeriodRows) /\ L \in Nat /\ \A n \in 1..L : old[n] \in PeriodRows
  BY <1>1, ScanShapes
<1>5. s.trough # Missing =>
         /\ p \in PeriodRows /\ ~ p.recovered
         /\ p.start = s.peakAt /\ p.peak = s.peak /\ p.trough = s.trough
  BY <1>4 DEF Period, PeriodRows
<1>6. s.trough = Missing => periods = old
  BY <1>1
<1>7. s.trough # Missing =>
         /\ periods \in Seq(PeriodRows) /\ Len(periods) = L + 1
         /\ \A n \in 1..L : periods[n] = old[n]
         /\ periods[L + 1] = p
  <2> SUFFICES ASSUME s.trough # Missing
               PROVE  /\ periods \in Seq(PeriodRows) /\ Len(periods) = L + 1
                      /\ \A n \in 1..L : periods[n] = old[n]
                      /\ periods[L + 1] = p
    OBVIOUS
  <2>1. periods = Append(old, p) /\ p \in PeriodRows
    BY <1>1, <1>5
  <2> HIDE DEF p, old
  <2>2. /\ Append(old, p) \in Seq(PeriodRows) /\ Len(Append(old, p)) = L + 1
        /\ \A n \in 1..L : Append(old, p)[n] = old[n]
        /\ Append(old, p)[L + 1] = p
    BY <2>1, <1>4
  <2> QED
    BY <2>1, <2>2, Zenon
<1> HIDE DEF p, L, old
<1>8. /\ \A n \in 1..L : /\ old[n].recovered /\ old[n].end \in Nat /\ old[n].end <= s.peakAt
                         /\ \E i \in 1..N : points[i].peak = old[n].peak /\ points[i].equity = old[n].trough
      /\ \A n, o \in 1..L : n < o => old[n].end <= old[o].start
  BY <1>1 DEF Scanned, PeriodsOver, old, L
<1>9. \A i \in 1..N :
         \/ points[i].equity = points[i].peak
         \/ points[i].peak = s.peak /\ s.trough # Missing /\ s.trough <= points[i].equity
         \/ \E n \in 1..L : old[n].peak = points[i].peak /\ old[n].trough <= points[i].equity
  BY <1>1 DEF Scanned, AllTold, old, L
<1>10. /\ points[k].equity = s.peak
       /\ \A i \in 1..N : points[i].equity <= s.peak
       /\ \A i \in 1..N : i < k => points[i].equity < s.peak
  BY <1>2 DEF TopSeen
(* A curve that is under its peak at the end has a last, open period.      *)
<1>11. CASE s.trough # Missing
  <2>1. PICK j \in k..N : points[j].equity = s.trough
    BY <1>2, <1>11 DEF LowSeen
  <2>2. s.trough < s.peak
    BY <1>2, <1>11 DEF LowSeen
  <2>3. points[j].peak = s.peak
    <3>1. N \in 1..Len(points)
      BY <1>0, <1>3
    <3>2. \A i \in k..N : points[i].peak = s.peak
      BY <3>1, <1>4, <1>10, PeakFromTop
    <3> QED
      BY <3>2
  <2>4. \A n \in 1..Len(periods) : n \in 1..L \/ n = L + 1
    BY <1>4, <1>7, <1>11
  <2>5. \A n \in 1..L : n \in 1..Len(periods)
    BY <1>4, <1>7, <1>11
  <2>6. L + 1 \in 1..Len(periods) /\ L + 1 \in Nat
    BY <1>4, <1>7, <1>11
  <2>7. \A n \in 1..Len(periods) : \E i \in 1..N :
           points[i].peak = periods[n].peak /\ points[i].equity = periods[n].trough
    <3> SUFFICES ASSUME NEW n \in 1..Len(periods)
                 PROVE  \E i \in 1..N : points[i].peak = periods[n].peak /\ points[i].equity = periods[n].trough
      OBVIOUS
    <3>1. CASE n \in 1..L
      BY <3>1, <1>7, <1>8, <1>11
    <3>2. CASE n = L + 1
      BY <3>2, <2>1, <2>3, <1>3, <1>5, <1>7, <1>11
    <3> QED
      BY <3>1, <3>2, <2>4
  <2>8. \A i \in 1..N : \/ points[i].equity = points[i].peak
                        \/ \E n \in 1..Len(periods) : /\ periods[n].peak = points[i].peak
                                                      /\ periods[n].trough <= points[i].equity
    <3> SUFFICES ASSUME NEW i \in 1..N, points[i].equity # points[i].peak
                 PROVE  \E n \in 1..Len(periods) : /\ periods[n].peak = points[i].peak
                                                   /\ periods[n].trough <= points[i].equity
      OBVIOUS
    <3>1. CASE points[i].peak = s.peak /\ s.trough <= points[i].equity
      BY <3>1, <2>6, <1>5, <1>7, <1>11
    <3>2. CASE \E n \in 1..L : old[n].peak = points[i].peak /\ old[n].trough <= points[i].equity
      BY <3>2, <2>5, <1>7, <1>11
    <3> QED
      BY <3>1, <3>2, <1>9
  <2>9. \A n, o \in 1..Len(periods) :
           n < o => periods[n].recovered /\ periods[n].end <= periods[o].start
    <3> SUFFICES ASSUME NEW n \in 1..Len(periods), NEW o \in 1..Len(periods), n < o
                 PROVE  periods[n].recovered /\ periods[n].end <= periods[o].start
      OBVIOUS
    <3>1. n \in 1..L
      <4>1. CASE n = L + 1
        <5>1. o \in 1..L \/ o = L + 1
          BY <2>4
        <5> QED
          BY <4>1, <5>1, <1>4
      <4> QED
        BY <4>1, <2>4
    <3>2. CASE o \in 1..L
      BY <3>1, <3>2, <1>7, <1>8, <1>11
    <3>3. CASE o = L + 1
      BY <3>1, <3>3, <1>5, <1>7, <1>8, <1>11
    <3> QED
      BY <3>2, <3>3, <2>4
  <2>10. periods # <<>> /\ ~ periods[Len(periods)].recovered
    <3>1. Len(periods) # 0
      BY <1>4, <1>7, <1>11
    <3> QED
      BY <3>1, <1>5, <1>7, <1>11, EmptySeq
  <2>11. k < j /\ j \in 1..N
    <3>1. j # k
      BY <2>1, <2>2, <1>4, <1>10, <1>11
    <3> QED
      BY <3>1, <1>3, <2>1
  <2>12. \E i, l \in 1..N : /\ i < l /\ points[l].equity < points[i].equity
                            /\ \A m \in 1..N : points[m].equity <= points[i].equity
    BY <2>1, <2>2, <2>11, <1>10
  <2> QED
    BY <2>7, <2>8, <2>9, <2>10, <2>12, <1>0, <1>7, <1>11
       DEF FromPoints, ToPeriods, InTurn, LastIsOpen, StillDown
<1>12. CASE s.trough = Missing
  <2>1. periods = old /\ Len(periods) = L
    BY <1>6, <1>12 DEF L
  <2>2. ~ (periods # <<>> /\ ~ periods[Len(periods)].recovered)
    <3>1. CASE L = 0
      BY <3>1, <2>1, <1>4, EmptySeq DEF L
    <3>2. CASE L # 0
      <4>1. L \in 1..L
        BY <3>2, <1>4
      <4> QED
        BY <4>1, <2>1, <1>8
    <3> QED
      BY <3>1, <3>2
  <2>3. ASSUME NEW i \in 1..N, NEW j \in 1..N, i < j, points[j].equity < points[i].equity,
               \A m \in 1..N : points[m].equity <= points[i].equity
        PROVE  FALSE
    <3>1. points[i].equity = s.peak
      BY <2>3, <1>3, <1>4, <1>10
    <3>2. ~ (i < k)
      BY <3>1, <1>3, <1>10
    <3>3. j \in k..N
      BY <3>2, <2>3, <1>3
    <3>4. points[j].equity = s.peak
      BY <3>3, <1>2, <1>12 DEF LowSeen
    <3> QED
      BY <3>1, <3>4, <2>3, <1>3
  <2>4. periods \in Seq(PeriodRows)
    BY <2>1, <1>4
  <2>5. \A n \in 1..Len(periods) : \E i \in 1..N :
           points[i].peak = periods[n].peak /\ points[i].equity = periods[n].trough
    BY <2>1, <1>8
  <2>6. \A i \in 1..N : \/ points[i].equity = points[i].peak
                        \/ \E n \in 1..Len(periods) : /\ periods[n].peak = points[i].peak
                                                      /\ periods[n].trough <= points[i].equity
    BY <2>1, <1>9, <1>12
  <2>7. \A n, o \in 1..Len(periods) :
           n < o => periods[n].recovered /\ periods[n].end <= periods[o].start
    BY <2>1, <1>8
  <2>8. ~ \E i, j \in 1..N : /\ i < j /\ points[j].equity < points[i].equity
                             /\ \A m \in 1..N : points[m].equity <= points[i].equity
    BY <2>3
  <2> QED
    BY <2>2, <2>4, <2>5, <2>6, <2>7, <2>8, <1>0
       DEF FromPoints, ToPeriods, InTurn, LastIsOpen, StillDown
<1> QED
  BY <1>11, <1>12

-----------------------------------------------------------------------------

(* Every fall is that of a period, or less deep than one.                  *)
LEMMA FallsAreTold ==
  ASSUME NEW points, IsCurve(points), NEW periods, periods = DrawdownPeriods(points)
  PROVE  /\ \A n \in 1..Len(periods) : FallOf(periods[n]) \in FallsAlong(points)
         /\ \A d \in FallsAlong(points) :
               d[1] # 0 => \E n \in 1..Len(periods) : NoDeeper(d, FallOf(periods[n]))
<1> DEFINE N == Len(points)
           L == Len(periods)
<1>1. /\ FromPoints(points, periods) /\ ToPeriods(points, periods) /\ periods \in Seq(PeriodRows)
  BY PeriodsSay
<1>2. /\ DOMAIN points = 1..N
      /\ \A i \in 1..N : points[i].equity \in Int /\ points[i].peak \in Nat \ {0}
  BY PointsAre
<1>3. \A n \in 1..L : periods[n] \in PeriodRows
  BY <1>1
<1> HIDE DEF N, L
<1>4. ASSUME NEW n \in 1..L
      PROVE  FallOf(periods[n]) \in FallsAlong(points)
  <2>1. PICK i \in 1..N : points[i].peak = periods[n].peak /\ points[i].equity = periods[n].trough
    BY <1>1 DEF FromPoints, N, L
  <2>2. FallOf(periods[n]) = FallAt(points[i])
    BY <2>1 DEF FallOf, FallAt
  <2> QED
    BY <2>2, <1>2 DEF FallsAlong
<1>5. ASSUME NEW d \in FallsAlong(points), d[1] # 0
      PROVE  \E n \in 1..L : NoDeeper(d, FallOf(periods[n]))
  <2>1. PICK i \in 1..N : d = FallAt(points[i])
    BY <1>2 DEF FallsAlong
  <2>2. d[1] = points[i].peak - points[i].equity /\ d[2] = points[i].peak
    BY <2>1 DEF FallAt
  <2>3. points[i].equity # points[i].peak
    BY <1>2, <1>5, <2>2
  <2>4. PICK n \in 1..L : /\ periods[n].peak = points[i].peak
                          /\ periods[n].trough <= points[i].equity
    BY <1>1, <2>3 DEF ToPeriods, N, L
  <2>5. PICK peak \in Nat \ {0}, equity \in Int, trough \in Int :
           peak = points[i].peak /\ equity = points[i].equity /\ trough = periods[n].trough
    BY <1>2, <1>3 DEF PeriodRows
  <2>6. trough <= equity /\ peak - equity <= peak - trough /\ peak - equity \in Int
        /\ peak - trough \in Int
    BY <2>4, <2>5
  <2>7. (peak - equity) * peak <= (peak - trough) * peak
    BY <2>6, Scales
  <2>8. /\ d[1] = peak - equity /\ d[2] = peak
        /\ FallOf(periods[n])[1] = peak - trough /\ FallOf(periods[n])[2] = peak
    BY <2>2, <2>4, <2>5 DEF FallOf
  <2>9. NoDeeper(d, FallOf(periods[n]))
    BY <2>7, <2>8 DEF NoDeeper
  <2> QED
    BY <2>9
<1> QED
  BY <1>4, <1>5 DEF L

LEMMA NoFallIsNotDeep ==
  ASSUME NEW d \in Falls, NEW e \in Falls, d[1] = 0, e[1] \in Nat
  PROVE  NoDeeper(d, e)
<1>1. d[2] \in Nat /\ e[2] \in Nat /\ 0 * e[2] = 0 /\ e[1] * d[2] \in Nat
  BY DEF Falls
<1> QED
  BY <1>1 DEF NoDeeper

LEMMA WorstOfCurve ==
  ASSUME NEW points, IsCurve(points), NEW periods, periods = DrawdownPeriods(points),
         NEW d, d = Deepest(FallsAlong(points))
  PROVE  IF periods = <<>> THEN d[1] = 0
         ELSE SameDepth(d, Deepest({<<p.peak - p.trough, p.peak>> : p \in ToSet(periods)}))
<1>1. /\ d \in FallsAlong(points) /\ \A e \in FallsAlong(points) : NoDeeper(e, d)
      /\ FallsAlong(points) \in SUBSET Falls /\ d[1] \in Nat
      /\ \A e \in FallsAlong(points) : e[1] \in Nat
  BY FallsAre, DeepestIs
<1>2. periods \in Seq(PeriodRows)
  BY PeriodsSay
<1>3. CASE periods = <<>>
  <2>1. \A n \in 1..Len(periods) : FALSE
    BY <1>3
  <2> QED
    BY <2>1, <1>1, <1>3, FallsAreTold
<1>4. CASE periods # <<>>
  <2> DEFINE S == {<<p.peak - p.trough, p.peak>> : p \in ToSet(periods)}
             worst == Deepest(S)
  <2>1. S = {FallOf(periods[n]) : n \in 1..Len(periods)}
    BY <1>2 DEF ToSet, FallOf
  <2>2. S \in SUBSET FallsAlong(points)
    BY <2>1, FallsAreTold
  <2>3. Len(periods) \in Nat /\ Len(periods) # 0
    BY <1>2, <1>4, EmptySeq
  <2>4. 1 \in 1..Len(periods)
    BY <2>3
  <2>5. S # {}
    BY <2>1, <2>4
  <2> HIDE DEF S
  <2>6. IsFiniteSet(S) /\ S \in SUBSET Falls
    BY <2>2, <1>1, FallsAre, FS_Subset
  <2>7. worst \in S /\ \A e \in S : NoDeeper(e, worst)
    BY <2>5, <2>6, DeepestIs
  <2>8. NoDeeper(worst, d) /\ worst \in Falls /\ d \in Falls /\ worst[1] \in Nat
    BY <2>2, <2>7, <1>1
  <2> HIDE DEF worst
  <2>9. NoDeeper(d, worst)
    <3>1. CASE d[1] = 0
      BY <3>1, <2>8, NoFallIsNotDeep
    <3>2. CASE d[1] # 0
      <4>1. PICK n \in 1..Len(periods) : NoDeeper(d, FallOf(periods[n]))
        BY <3>2, <1>1, FallsAreTold
      <4>2. FallOf(periods[n]) \in S
        BY <2>1
      <4>3. FallOf(periods[n]) \in Falls /\ NoDeeper(FallOf(periods[n]), worst)
        BY <4>2, <2>6, <2>7
      <4> QED
        BY <4>1, <4>3, <2>8, NoDeeperGoesOn
    <3> QED
      BY <3>1, <3>2
  <2> QED
    BY <1>4, <2>8, <2>9 DEF SameDepth, worst, S
<1> QED
  BY <1>3, <1>4

(* What is stored of a config.                                             *)
CurveOf(ts, points) ==
    IsCurve(points) /\ Last(points).equity = Capital + Together(GainsIn(ts))

Histories == {h \in [trades : Seq(TradeRows), points : Seq(CurvePoints)] :
                h.trades # <<>> /\ CurveOf(h.trades, h.points)}

OutputOf(h) ==
    [trades |-> h.trades, points |-> h.points, periods |-> DrawdownPeriods(h.points),
     result |-> FiguresOf(h.trades, h.points)]

Outputs == {Missing} \union {OutputOf(h) : h \in Histories}

LEMMA OutputIs ==
  ASSUME NEW o \in Outputs, o # Missing
  PROVE  \E h \in Histories : /\ o = OutputOf(h)
                              /\ o.trades = h.trades /\ o.points = h.points /\ IsCurve(o.points)
                              /\ o.periods = DrawdownPeriods(o.points)
                              /\ o.result = FiguresOf(o.trades, o.points)
                              /\ o.result.drawdown = Deepest(FallsAlong(o.points))
                              /\ o.result.final = Last(o.points).equity
                              /\ o.trades \in Seq(TradeRows) /\ o.trades # <<>>
                              /\ Last(o.points).equity = Capital + Together(GainsIn(o.trades))
<1>1. PICK h \in Histories : o = OutputOf(h)
  BY DEF Outputs
<1>2. /\ o.trades = h.trades /\ o.points = h.points /\ o.periods = DrawdownPeriods(o.points)
      /\ o.result = FiguresOf(o.trades, o.points)
  BY <1>1 DEF OutputOf
<1>3. /\ IsCurve(o.points) /\ o.trades \in Seq(TradeRows) /\ o.trades # <<>>
      /\ Last(o.points).equity = Capital + Together(GainsIn(o.trades))
  BY <1>2 DEF Histories, CurveOf
<1>4. o.result.drawdown = Deepest(FallsAlong(o.points)) /\ o.result.final = Last(o.points).equity
  <2> DEFINE ts == o.trades
             points == o.points
             r == o.result
  <2>1. ts \in Seq(TradeRows) /\ r = FiguresOf(ts, points)
    BY <1>2, <1>3
  <2> HIDE DEF ts, points, r
  <2>2. /\ r.final = Last(points).equity
        /\ r.drawdown = Deepest(FallsAlong(points))
    BY <2>1, FiguresAre
  <2> QED
    BY <2>2 DEF points, r
<1> QED
  BY <1>1, <1>2, <1>3, <1>4

(* The state of a run: what is stored, and the config in progress.         *)
ResultsInv ==
    /\ outputs \in Seq(Outputs) /\ Len(outputs) <= Configs
    /\ ledger \in Seq(TradeRows) /\ Len(curve) = Len(ledger) + 1
    /\ CurveOf(ledger, curve) /\ market \in Markets

LEMMA StoredAre ==
  ASSUME ResultsInv
  PROVE  /\ IsFiniteSet(Stored) /\ \A n \in Stored : outputs[n] \in Outputs /\ outputs[n] # Missing
<1>1. outputs \in Seq(Outputs) /\ Len(outputs) \in Nat /\ DOMAIN outputs = 1..Len(outputs)
  BY DEF ResultsInv
<1>2. IsFiniteSet(1..Len(outputs)) /\ Stored \subseteq 1..Len(outputs)
  BY <1>1, FS_Interval DEF Stored
<1>3. IsFiniteSet(Stored)
  BY <1>2, FS_Subset
<1> QED
  BY <1>1, <1>2, <1>3 DEF Stored

(* One output: its curve, and what the periods and the result tell.        *)
LEMMA StoredIs ==
  ASSUME ResultsInv, NEW n \in Stored
  PROVE  /\ IsCurve(outputs[n].points)
         /\ outputs[n].periods = DrawdownPeriods(outputs[n].points)
         /\ outputs[n].periods \in Seq(PeriodRows)
         /\ outputs[n].result = FiguresOf(outputs[n].trades, outputs[n].points)
         /\ outputs[n].result.drawdown = Deepest(FallsAlong(outputs[n].points))
         /\ outputs[n].result.final = Last(outputs[n].points).equity
         /\ outputs[n].trades \in Seq(TradeRows) /\ outputs[n].trades # <<>>
         /\ Last(outputs[n].points).equity = Capital + Together(GainsIn(outputs[n].trades))
<1>1. outputs[n] \in Outputs /\ outputs[n] # Missing
  BY StoredAre
<1>2. /\ IsCurve(outputs[n].points)
      /\ outputs[n].periods = DrawdownPeriods(outputs[n].points)
      /\ outputs[n].result = FiguresOf(outputs[n].trades, outputs[n].points)
      /\ outputs[n].result.drawdown = Deepest(FallsAlong(outputs[n].points))
      /\ outputs[n].result.final = Last(outputs[n].points).equity
      /\ outputs[n].trades \in Seq(TradeRows) /\ outputs[n].trades # <<>>
      /\ Last(outputs[n].points).equity = Capital + Together(GainsIn(outputs[n].trades))
  BY <1>1, OutputIs
<1> QED
  BY <1>2, PeriodsSay

LEMMA CurvesAreTold == ResultsInv => PeriodsTellCurve
<1> SUFFICES ASSUME ResultsInv, NEW n \in Stored,
                    NEW points, points = outputs[n].points, NEW periods, periods = outputs[n].periods
             PROVE  /\ IF periods = <<>> THEN outputs[n].result.drawdown[1] = 0
                       ELSE SameDepth(outputs[n].result.drawdown,
                                Deepest({<<p.peak - p.trough, p.peak>> : p \in ToSet(periods)}))
                    /\ \A i, j \in DOMAIN periods :
                          i < j => ~ (~ periods[i].recovered) /\ periods[i].end <= periods[j].start
                    /\ (periods # <<>> /\ ~ periods[Len(periods)].recovered) =
                          \E i, j \in DOMAIN points :
                              /\ i < j /\ points[j].equity < points[i].equity
                              /\ \A k \in DOMAIN points : points[k].equity <= points[i].equity
  BY DEF PeriodsTellCurve
<1> DEFINE d == outputs[n].result.drawdown
<1>1. /\ IsCurve(points) /\ periods = DrawdownPeriods(points) /\ d = Deepest(FallsAlong(points))
      /\ DOMAIN points = 1..Len(points)
  BY StoredIs, PointsAre
<1>2. IF periods = <<>> THEN d[1] = 0
      ELSE SameDepth(d, Deepest({<<p.peak - p.trough, p.peak>> : p \in ToSet(periods)}))
  <2> HIDE DEF d
  <2> QED
    BY <1>1, WorstOfCurve
<1>3. periods \in Seq(PeriodRows) /\ InTurn(periods) /\ (LastIsOpen(periods) <=> StillDown(points))
  BY <1>1, PeriodsSay
<1>4. DOMAIN periods = 1..Len(periods)
  BY <1>3
<1>5. \A i, j \in DOMAIN periods :
         i < j => ~ (~ periods[i].recovered) /\ periods[i].end <= periods[j].start
  BY <1>3, <1>4 DEF InTurn
<1>6. (periods # <<>> /\ ~ periods[Len(periods)].recovered) =
         \E i, j \in DOMAIN points :
             /\ i < j /\ points[j].equity < points[i].equity
             /\ \A k \in DOMAIN points : points[k].equity <= points[i].equity
  BY <1>1, <1>3 DEF LastIsOpen, StillDown
<1> QED
  BY <1>2, <1>5, <1>6

LEMMA FiguresAlwaysAgree == ResultsInv => FiguresAgree
<1> SUFFICES ASSUME ResultsInv, NEW n \in Stored, NEW r, r = outputs[n].result,
                    NEW mean, mean = (r.final - Capital) * r.losses
             PROVE  /\ r.nets["high"] <= r.nets["base"] /\ r.nets["base"] <= r.nets["low"]
                    /\ r.nets["low"] < r.final - Capital
                    /\ r.netPf["low"] = Missing => r.pf = Missing
                    /\ \A s \in DOMAIN Scenarios2 : r.netPf[s] # Missing /\ r.pf # Missing =>
                          r.netPf[s][1] * r.pf[2] <= r.pf[1] * r.netPf[s][2]
                    /\ r.expectancy # Missing =>
                          /\ r.expectancy <= mean
                          /\ (r.expectancy = mean) = (r.total = r.wins + r.losses)
                    /\ r.level # "high" =>
                          /\ r.wins = r.total /\ r.pf = Missing
                          /\ \A s \in DOMAIN Scenarios2 : r.netPf[s] = Missing
  BY DEF FiguresAgree
<1>1. PICK ts, points :
         /\ ts \in Seq(TradeRows) /\ ts # <<>> /\ Last(points).equity = Capital + Together(GainsIn(ts))
         /\ r = FiguresOf(ts, points)
  BY StoredIs
<1> QED
  BY <1>1, FiguresOfTrades

(* The sets that a page is made of are finite.                             *)
LEMMA RunIsFinite ==
  ASSUME ResultsInv
  PROVE  IsFiniteSet(PointsOfRun) /\ IsFiniteSet(PeriodsOfRun)
<1>1. ASSUME NEW n \in Stored
      PROVE  /\ IsFiniteSet(ToSet(outputs[n].points))
             /\ IsFiniteSet({n} \X DOMAIN outputs[n].periods)
  <2>1. Len(outputs[n].points) \in Nat /\ DOMAIN outputs[n].points = 1..Len(outputs[n].points)
    BY StoredIs, PointsAre
  <2>2. outputs[n].periods \in Seq(PeriodRows)
    BY StoredIs
  <2>3. Len(outputs[n].periods) \in Nat /\ DOMAIN outputs[n].periods = 1..Len(outputs[n].periods)
    BY <2>2
  <2>4. IsFiniteSet(DOMAIN outputs[n].points) /\ IsFiniteSet(DOMAIN outputs[n].periods)
    BY <2>1, <2>3, FS_Interval
  <2>5. IsFiniteSet({outputs[n].points[i] : i \in DOMAIN outputs[n].points})
    BY <2>4, FiniteImage
  <2>6. IsFiniteSet({n})
    BY FS_Singleton
  <2> QED
    BY <2>4, <2>5, <2>6, FS_Product DEF ToSet
<1> DEFINE f == [n \in Stored |-> ToSet(outputs[n].points)]
           g == [n \in Stored |-> {n} \X DOMAIN outputs[n].periods]
<1>2. IsFiniteSet({f[n] : n \in Stored}) /\ IsFiniteSet({g[n] : n \in Stored})
  <2> HIDE DEF f, g
  <2> QED
    BY StoredAre, FiniteImage
<1>3. PointsOfRun = UNION {f[n] : n \in Stored} /\ PeriodsOfRun = UNION {g[n] : n \in Stored}
  BY DEF PointsOfRun, PeriodsOfRun
<1>4. \A T \in {f[n] : n \in Stored} \union {g[n] : n \in Stored} : IsFiniteSet(T)
  BY <1>1
<1> HIDE DEF f, g
<1> QED
  BY <1>2, <1>3, <1>4, FS_UNION

LEMMA PointsOfRunAre ==
  ASSUME ResultsInv
  PROVE  \A p : p \in PointsOfRun <=>
            \E n \in Stored : \E i \in 1..Len(outputs[n].points) : p = outputs[n].points[i]
<1>1. \A n \in Stored : DOMAIN outputs[n].points = 1..Len(outputs[n].points)
  BY StoredIs, PointsAre
<1> QED
  BY <1>1 DEF PointsOfRun, ToSet

LEMMA PeriodsOfRunAre ==
  ASSUME ResultsInv
  PROVE  /\ \A i \in PeriodsOfRun : /\ i[1] \in Stored /\ i = <<i[1], i[2]>>
                                    /\ i[2] \in 1..Len(outputs[i[1]].periods)
         /\ \A n \in Stored : \A m \in 1..Len(outputs[n].periods) : <<n, m>> \in PeriodsOfRun
<1>1. \A n \in Stored : DOMAIN outputs[n].periods = 1..Len(outputs[n].periods)
  BY StoredIs
<1> QED
  BY <1>1 DEF PeriodsOfRun

-----------------------------------------------------------------------------

(* The drawdown of a stored result is the deepest of its curve.            *)
LEMMA DrawdownOfStored ==
  ASSUME ResultsInv, NEW n \in Stored, NEW d, d = outputs[n].result.drawdown
  PROVE  /\ d \in Falls /\ d[1] \in Nat
         /\ \A m \in 1..Len(outputs[n].periods) :
               /\ FallOf(outputs[n].periods[m]) \in Falls /\ FallOf(outputs[n].periods[m])[1] \in Nat
               /\ NoDeeper(FallOf(outputs[n].periods[m]), d)
         /\ d[1] # 0 => \E m \in 1..Len(outputs[n].periods) : NoDeeper(d, FallOf(outputs[n].periods[m]))
<1>1. PICK points, periods : /\ points = outputs[n].points /\ periods = outputs[n].periods
                             /\ IsCurve(points) /\ periods = DrawdownPeriods(points)
                             /\ d = Deepest(FallsAlong(points))
  BY StoredIs
<1>2. /\ FallsAlong(points) \in SUBSET Falls /\ \A e \in FallsAlong(points) : e[1] \in Nat
      /\ d \in FallsAlong(points) /\ \A e \in FallsAlong(points) : NoDeeper(e, d)
  BY <1>1, FallsAre, DeepestIs
<1>3. /\ \A m \in 1..Len(periods) : FallOf(periods[m]) \in FallsAlong(points)
      /\ d[1] # 0 => \E m \in 1..Len(periods) : NoDeeper(d, FallOf(periods[m]))
  BY <1>1, <1>2, FallsAreTold
<1> QED
  BY <1>1, <1>2, <1>3

LEMMA PageShowsWorst ==
  ASSUME ResultsInv, Stored # {}
  PROVE  SameDepth(DetailPage.worst, Deepest({outputs[n].result.drawdown : n \in Stored}))
<1> DEFINE D(n) == outputs[n].result.drawdown
           drawdowns == {D(n) : n \in Stored}
           W == Deepest(drawdowns)
           told == {<<PeriodOf(i).peak - PeriodOf(i).trough, PeriodOf(i).peak>> : i \in PeriodsOfRun}
           E == Deepest(told)
           fs == [n \in Stored |-> D(n)]
           gs == [i \in PeriodsOfRun |-> FallOf(PeriodOf(i))]
<1>1. \A n \in Stored : D(n) \in Falls /\ D(n)[1] \in Nat /\ D(n) \in drawdowns
  BY DrawdownOfStored
<1>2. drawdowns = {fs[n] : n \in Stored} /\ told = {gs[i] : i \in PeriodsOfRun}
  BY DEF FallOf
<1>3. IsFiniteSet(drawdowns) /\ IsFiniteSet(told)
  <2> HIDE DEF fs, gs, drawdowns, told
  <2> QED
    BY <1>2, StoredAre, RunIsFinite, FiniteImage
<1>4. \A i \in PeriodsOfRun : /\ FallOf(PeriodOf(i)) \in Falls /\ FallOf(PeriodOf(i))[1] \in Nat
                              /\ FallOf(PeriodOf(i)) \in told /\ NoDeeper(FallOf(PeriodOf(i)), D(i[1]))
                              /\ i[1] \in Stored
  <2> SUFFICES ASSUME NEW i \in PeriodsOfRun
               PROVE  /\ FallOf(PeriodOf(i)) \in Falls /\ FallOf(PeriodOf(i))[1] \in Nat
                      /\ FallOf(PeriodOf(i)) \in told /\ NoDeeper(FallOf(PeriodOf(i)), D(i[1]))
                      /\ i[1] \in Stored
    OBVIOUS
  <2>1. i[1] \in Stored /\ i[2] \in 1..Len(outputs[i[1]].periods)
    BY PeriodsOfRunAre
  <2>2. FallOf(PeriodOf(i)) \in told
    BY DEF FallOf
  <2>3. PeriodOf(i) = outputs[i[1]].periods[i[2]]
    BY DEF PeriodOf
  <2> QED
    BY <2>1, <2>2, <2>3, DrawdownOfStored
<1>5. \A d \in drawdowns : \E n \in Stored : d = D(n)
  OBVIOUS
<1>6. \A d \in told : \E i \in PeriodsOfRun : d = FallOf(PeriodOf(i))
  BY <1>2
<1>7. \A n \in Stored : D(n)[1] # 0 => \E i \in PeriodsOfRun : NoDeeper(D(n), FallOf(PeriodOf(i)))
  <2> SUFFICES ASSUME NEW n \in Stored, D(n)[1] # 0
               PROVE  \E i \in PeriodsOfRun : NoDeeper(D(n), FallOf(PeriodOf(i)))
    OBVIOUS
  <2>1. PICK m \in 1..Len(outputs[n].periods) : NoDeeper(D(n), FallOf(outputs[n].periods[m]))
    BY DrawdownOfStored
  <2>2. <<n, m>> \in PeriodsOfRun
    BY PeriodsOfRunAre
  <2>3. PeriodOf(<<n, m>>) = outputs[n].periods[m]
    BY DEF PeriodOf
  <2> QED
    BY <2>1, <2>2, <2>3
<1>8. DetailPage.worst = IF PeriodsOfRun = {} THEN <<0, 1>> ELSE E
  BY DEF DetailPage
<1>9. drawdowns # {}
  BY <1>1
<1> HIDE DEF drawdowns, told, fs, gs, D, E
<1>10. PICK n \in Stored : /\ W = D(n) /\ W \in Falls /\ W[1] \in Nat
                           /\ \A o \in Stored : NoDeeper(D(o), W)
  <2>1. drawdowns \in SUBSET Falls
    BY <1>1, <1>5
  <2>2. W \in drawdowns /\ \A d \in drawdowns : NoDeeper(d, W)
    BY <2>1, <1>3, <1>9, DeepestIs
  <2> HIDE DEF W
  <2> QED
    BY <2>2, <1>1, <1>5
<1> HIDE DEF W
<1>11. CASE PeriodsOfRun = {}
  <2>1. W[1] = 0 /\ <<0, 1>> \in Falls /\ <<0, 1>>[1] = 0
    BY <1>7, <1>10, <1>11 DEF Falls
  <2>2. NoDeeper(W, <<0, 1>>) /\ NoDeeper(<<0, 1>>, W)
    <3>1. 0 \in Nat
      OBVIOUS
    <3> QED
      BY <2>1, <3>1, <1>10, NoFallIsNotDeep
  <2> QED
    BY <2>2, <1>8, <1>11 DEF SameDepth, W, drawdowns, D
<1>12. CASE PeriodsOfRun # {}
  <2>1. told \in SUBSET Falls /\ told # {}
    BY <1>4, <1>6, <1>12
  <2>2. E \in told /\ \A d \in told : NoDeeper(d, E)
    BY <2>1, <1>3, DeepestIs DEF E
  <2>3. PICK i \in PeriodsOfRun : E = FallOf(PeriodOf(i))
    BY <2>2, <1>6
  <2>4. E \in Falls /\ E[1] \in Nat /\ NoDeeper(E, D(i[1])) /\ NoDeeper(D(i[1]), W) /\ D(i[1]) \in Falls
    BY <2>3, <1>1, <1>4, <1>10
  <2>5. NoDeeper(E, W)
    BY <2>4, <1>10, NoDeeperGoesOn
  <2>6. NoDeeper(W, E)
    <3>1. CASE W[1] = 0
      BY <3>1, <2>4, <1>10, NoFallIsNotDeep
    <3>2. CASE W[1] # 0
      <4>1. PICK j \in PeriodsOfRun : NoDeeper(W, FallOf(PeriodOf(j)))
        BY <3>2, <1>7, <1>10
      <4>2. FallOf(PeriodOf(j)) \in Falls /\ NoDeeper(FallOf(PeriodOf(j)), E)
        BY <2>2, <1>4
      <4> QED
        BY <4>1, <4>2, <2>4, <1>10, NoDeeperGoesOn
    <3> QED
      BY <3>1, <3>2
  <2> QED
    BY <2>5, <2>6, <1>8, <1>12 DEF SameDepth, W, drawdowns, D
<1> QED
  BY <1>11, <1>12

(* The highest of all points is the peak at which one of the curves ends.  *)
LEMMA PageShowsPeak ==
  ASSUME ResultsInv, Stored # {}
  PROVE  DetailPage.peak = Max({Last(outputs[n].points).peak : n \in Stored})
<1> DEFINE P(n) == outputs[n].points
           N(n) == Len(outputs[n].points)
           E == {p.equity : p \in PointsOfRun}
           T == {Last(outputs[n].points).peak : n \in Stored}
           e == [p \in PointsOfRun |-> p.equity]
           t == [n \in Stored |-> Last(outputs[n].points).peak]
<1>1. ASSUME NEW n \in Stored
      PROVE  /\ N(n) \in 1..N(n) /\ Last(P(n)) = P(n)[N(n)] /\ P(n)[N(n)].peak \in Int
             /\ \A i \in 1..N(n) : P(n)[i].equity \in Int /\ P(n)[i].equity <= P(n)[N(n)].peak
             /\ \E i \in 1..N(n) : P(n)[i].equity = P(n)[N(n)].peak
  <2> DEFINE points == P(n)
  <2>1. IsCurve(points)
    BY StoredIs
  <2> HIDE DEF points
  <2>2. /\ Len(points) \in Nat \ {0}
        /\ \A i \in 1..Len(points) : points[i].equity \in Int /\ points[i].peak \in Nat \ {0}
    BY <2>1, PointsAre
  <2>3. Len(points) \in 1..Len(points) /\ \A i \in 1..Len(points) : i <= Len(points)
    BY <2>2
  <2>4. /\ \A i \in 1..Len(points) : points[i].equity <= points[Len(points)].peak
        /\ \E i \in 1..Len(points) : points[i].equity = points[Len(points)].peak
    BY <2>1, <2>3 DEF IsCurve
  <2> QED
    BY <2>2, <2>3, <2>4 DEF Last, points
<1>2. E = {e[p] : p \in PointsOfRun} /\ T = {t[n] : n \in Stored}
  OBVIOUS
<1>3. IsFiniteSet(E) /\ IsFiniteSet(T)
  <2> HIDE DEF e, t, E, T
  <2> QED
    BY <1>2, StoredAre, RunIsFinite, FiniteImage
<1>4. \A x \in E : \E n \in Stored : x \in Int /\ x <= P(n)[N(n)].peak
  BY <1>1, PointsOfRunAre
<1>5. \A n \in Stored : P(n)[N(n)].peak \in E
  <2> SUFFICES ASSUME NEW n \in Stored PROVE P(n)[N(n)].peak \in E
    OBVIOUS
  <2>1. PICK i \in 1..N(n) : P(n)[i].equity = P(n)[N(n)].peak
    BY <1>1
  <2>2. P(n)[i] \in PointsOfRun
    BY PointsOfRunAre
  <2>3. P(n)[i].equity \in E
    BY <2>2
  <2> QED
    BY <2>1, <2>3
<1>6. \A n \in Stored : P(n)[N(n)].peak \in T /\ P(n)[N(n)].peak \in Int
  BY <1>1
<1>7. \A y \in T : \E n \in Stored : y = P(n)[N(n)].peak
  BY <1>1
<1> HIDE DEF E, T, P, N
<1>8. E \in SUBSET Int /\ T \in SUBSET Int /\ E # {} /\ T # {}
  BY <1>4, <1>5, <1>6, <1>7
<1>9. /\ Max(E) \in E /\ \A x \in E : x <= Max(E)
      /\ Max(T) \in T /\ \A y \in T : y <= Max(T)
  BY <1>3, <1>8, GreatestInt
<1>10. PICK a \in Int, b \in Int : a = Max(E) /\ b = Max(T)
  BY <1>8, <1>9
<1>11. a <= b
  <2>1. PICK n \in Stored : a <= P(n)[N(n)].peak
    BY <1>4, <1>9, <1>10
  <2>2. P(n)[N(n)].peak <= b /\ P(n)[N(n)].peak \in Int
    BY <1>6, <1>9, <1>10
  <2> QED
    BY <2>1, <2>2
<1>12. b <= a
  <2>1. PICK n \in Stored : b = P(n)[N(n)].peak
    BY <1>7, <1>9, <1>10
  <2> QED
    BY <2>1, <1>5, <1>9, <1>10
<1>13. Max(E) = Max(T)
  BY <1>10, <1>11, <1>12
<1> QED
  BY <1>13 DEF DetailPage, E, T

(* One period of a config is open at most.                                 *)
LEMMA PageCountsOpen ==
  ASSUME ResultsInv
  PROVE  DetailPage.open <= Cardinality(Stored)
<1> DEFINE open == {i \in PeriodsOfRun : ~ PeriodOf(i).recovered}
           f == [i \in open |-> i[1]]
<1>1. \A i \in open : /\ i[1] \in Stored /\ i = <<i[1], i[2]>>
                      /\ i[2] \in 1..Len(outputs[i[1]].periods)
                      /\ ~ outputs[i[1]].periods[i[2]].recovered
  BY PeriodsOfRunAre DEF PeriodOf
<1>2. ASSUME NEW n \in Stored
      PROVE  /\ Len(outputs[n].periods) \in Nat
             /\ \A i, j \in 1..Len(outputs[n].periods) : i < j => outputs[n].periods[i].recovered
  <2>1. PICK points, periods : /\ IsCurve(points) /\ periods = outputs[n].periods
                               /\ periods = DrawdownPeriods(points) /\ periods \in Seq(PeriodRows)
    BY StoredIs
  <2>2. InTurn(periods)
    BY <2>1, PeriodsSay
  <2> QED
    BY <2>1, <2>2 DEF InTurn
<1>3. ASSUME NEW i \in open, NEW j \in open, i[1] = j[1]
      PROVE  i = j
  <2>1. PICK n \in Stored, k \in Nat, l \in Nat :
           /\ n = i[1] /\ k = i[2] /\ l = j[2] /\ i = <<n, k>> /\ j = <<n, l>>
           /\ k \in 1..Len(outputs[n].periods) /\ l \in 1..Len(outputs[n].periods)
           /\ ~ outputs[n].periods[k].recovered /\ ~ outputs[n].periods[l].recovered
    <3>1. i[1] \in Stored /\ i[2] \in Nat /\ j[2] \in Nat
      BY <1>1, <1>2, <1>3
    <3> QED
      BY <3>1, <1>1, <1>3
  <2>2. ~ (k < l) /\ ~ (l < k)
    BY <2>1, <1>2
  <2>3. k = l
    BY <2>2
  <2> QED
    BY <2>1, <2>3
<1> HIDE DEF open
<1>4. f \in Injection(open, Stored)
  BY <1>1, <1>3 DEF Injection, IsInjective
<1>5. Cardinality(open) <= Cardinality(Stored)
  BY <1>4, StoredAre, FS_Injection
<1> QED
  BY <1>5 DEF DetailPage, open

(* The last of all points is the end of a curve.                           *)
LEMMA PageEndsWithOne ==
  ASSUME ResultsInv
  PROVE  EndEquities \subseteq {outputs[n].result.final : n \in Stored}
<1> SUFFICES ASSUME NEW p \in PointsOfRun, \A r \in PointsOfRun : r.at <= p.at
             PROVE  \E n \in Stored : p.equity = outputs[n].result.final
  BY DEF EndEquities
<1>1. PICK n \in Stored : \E i \in 1..Len(outputs[n].points) : p = outputs[n].points[i]
  BY PointsOfRunAre
<1>2. PICK points : /\ points = outputs[n].points /\ IsCurve(points)
                    /\ outputs[n].result.final = Last(points).equity
  BY StoredIs
<1>3. PICK i \in 1..Len(points) : p = points[i]
  BY <1>1, <1>2
<1>4. /\ Len(points) \in Nat \ {0} /\ \A j \in 1..Len(points) : points[j].at \in Nat
  BY <1>2, PointsAre
<1>5. Len(points) \in 1..Len(points) /\ i \in Nat /\ i <= Len(points)
  BY <1>4
<1>6. points[Len(points)].at <= points[i].at
  <2>1. points[Len(points)] \in PointsOfRun
    BY <1>2, <1>5, PointsOfRunAre
  <2> QED
    BY <2>1, <1>3
<1>7. i = Len(points)
  <2>1. ASSUME i < Len(points) PROVE FALSE
    <3>1. points[i].at < points[Len(points)].at
      BY <2>1, <1>2, <1>5 DEF IsCurve
    <3> QED
      BY <3>1, <1>4, <1>5, <1>6
  <2> QED
    BY <2>1, <1>4, <1>5
<1> QED
  BY <1>2, <1>3, <1>7 DEF Last

LEMMA PageAlwaysTells == ResultsInv => PageTellsRun
BY PageShowsWorst, PageShowsPeak, PageCountsOpen, PageEndsWithOne DEF PageTellsRun

-----------------------------------------------------------------------------

(* A point that follows the last one.                                      *)
Followed(points, at, equity) ==
    Append(points, [at |-> at, equity |-> equity, peak |-> Max({Last(points).peak, equity})])

LEMMA CurveGoesOn ==
  ASSUME NEW points, IsCurve(points), NEW at \in Nat, Last(points).at < at, NEW equity \in Int
  PROVE  LET more == Followed(points, at, equity)
         IN  IsCurve(more) /\ Last(more).equity = equity /\ Len(more) = Len(points) + 1
<1> DEFINE N == Len(points)
           more == Followed(points, at, equity)
           peak == Max({Last(points).peak, equity})
           p == [at |-> at, equity |-> equity, peak |-> peak]
<1>1. /\ N \in Nat \ {0} /\ points \in Seq(CurvePoints)
      /\ \A i \in 1..N : points[i].at \in Nat /\ points[i].equity \in Int /\ points[i].peak \in Nat \ {0}
  BY PointsAre DEF IsCurve
<1>2. N \in 1..N /\ Last(points) = points[N] /\ \A i \in 1..N : i <= N
  BY <1>1 DEF Last
<1> more = Append(points, p)
  BY DEF Followed
<1> HIDE DEF more
<1>3. PICK top \in Nat \ {0} : top = points[N].peak
  BY <1>1, <1>2
<1>4. peak \in Nat \ {0} /\ points[N].peak <= peak /\ equity <= peak
      /\ (peak = equity \/ peak = points[N].peak)
  <2>1. peak = Max({top, equity}) /\ top \in Int
    BY <1>2, <1>3
  <2>2. peak = IF top >= equity THEN top ELSE equity
    BY <2>1, TwoOf
  <2>3. peak \in Nat \ {0} /\ top <= peak /\ equity <= peak /\ (peak = equity \/ peak = top)
    BY <2>2
  <2> QED
    BY <1>3, <2>3
<1> HIDE DEF peak
<1>5. p \in CurvePoints /\ p.at = at /\ p.equity = equity /\ p.peak = peak
  BY <1>4 DEF CurvePoints
<1> HIDE DEF p
<1>6. /\ more \in Seq(CurvePoints) /\ Len(more) = N + 1
      /\ \A i \in 1..N : more[i] = points[i]
      /\ more[N + 1] = p
  BY <1>1, <1>5
<1> HIDE DEF N
<1>7. N + 1 \in Nat /\ \A i \in 1..(N + 1) : i \in 1..N \/ i = N + 1
  BY <1>1
<1>8. \A i, j \in 1..(N + 1) : i < j => more[i].at < more[j].at
  <2> SUFFICES ASSUME NEW i \in 1..(N + 1), NEW j \in 1..(N + 1), i < j
               PROVE  more[i].at < more[j].at
    OBVIOUS
  <2>1. i \in 1..N
    BY <1>1
  <2>2. CASE j \in 1..N
    BY <2>1, <2>2, <1>6 DEF IsCurve, N
  <2>3. CASE j = N + 1
    <3>1. points[i].at <= points[N].at
      <4>1. CASE i = N
        BY <4>1, <1>1, <1>2
      <4>2. CASE i # N
        <5>1. i < N
          BY <4>2, <2>1, <1>1
        <5>2. points[i].at < points[N].at
          BY <5>1, <2>1, <1>2 DEF IsCurve, N
        <5> QED
          BY <5>2, <2>1, <1>1, <1>2
      <4> QED
        BY <4>1, <4>2
    <3>2. points[N].at < at /\ more[i] = points[i] /\ more[j].at = at
      BY <2>1, <2>3, <1>2, <1>5, <1>6
    <3>3. PICK a \in Nat, b \in Nat : a = points[i].at /\ b = points[N].at
      BY <2>1, <1>1, <1>2
    <3>4. a <= b /\ b < at
      BY <3>1, <3>2, <3>3
    <3>5. a < at
      BY <3>4
    <3> QED
      BY <3>2, <3>3, <3>5
  <2> QED
    BY <2>2, <2>3, <1>7
<1>9. \A i, j \in 1..(N + 1) : i <= j => more[i].equity <= more[j].peak
  <2> SUFFICES ASSUME NEW i \in 1..(N + 1), NEW j \in 1..(N + 1), i <= j
               PROVE  more[i].equity <= more[j].peak
    OBVIOUS
  <2>1. CASE j \in 1..N
    <3>1. i \in 1..N
      BY <2>1, <1>1
    <3> QED
      BY <2>1, <3>1, <1>6 DEF IsCurve, N
  <2>2. CASE j = N + 1 /\ i \in 1..N
    <3>1. points[i].equity <= points[N].peak
      BY <2>2, <1>2 DEF IsCurve, N
    <3> QED
      BY <2>2, <3>1, <1>1, <1>2, <1>4, <1>5, <1>6
  <2>3. CASE j = N + 1 /\ i = N + 1
    BY <2>3, <1>4, <1>5, <1>6
  <2> QED
    BY <2>1, <2>2, <2>3, <1>7
<1>10. \A j \in 1..(N + 1) : \E i \in 1..j : more[i].equity = more[j].peak
  <2> SUFFICES ASSUME NEW j \in 1..(N + 1) PROVE \E i \in 1..j : more[i].equity = more[j].peak
    OBVIOUS
  <2>1. CASE j \in 1..N
    <3>1. PICK i \in 1..j : points[i].equity = points[j].peak
      BY <2>1 DEF IsCurve, N
    <3>2. i \in 1..N
      BY <2>1, <1>1
    <3> QED
      BY <2>1, <3>1, <3>2, <1>6
  <2>2. CASE j = N + 1 /\ peak = equity
    <3>1. j \in 1..j
      BY <2>2, <1>1
    <3> QED
      BY <2>2, <3>1, <1>5, <1>6
  <2>3. CASE j = N + 1 /\ peak = points[N].peak
    <3>1. PICK i \in 1..N : points[i].equity = points[N].peak
      BY <1>2 DEF IsCurve, N
    <3>2. i \in 1..j
      BY <2>3, <1>1
    <3> QED
      BY <2>3, <3>1, <3>2, <1>5, <1>6
  <2> QED
    BY <2>1, <2>2, <2>3, <1>4, <1>7
<1>11. IsCurve(more)
  <2>1. N + 1 > 0
    BY <1>1
  <2> QED
    BY <2>1, <1>6, <1>8, <1>9, <1>10 DEF IsCurve
<1> QED
  BY <1>5, <1>6, <1>11 DEF Last, N, more

LEMMA GainsGoOn ==
  ASSUME NEW ts \in Seq(TradeRows), NEW t \in TradeRows, NEW more, more = Append(ts, t)
  PROVE  Together(GainsIn(more)) = Together(GainsIn(ts)) + t.gain /\ Together(GainsIn(ts)) \in Int
<1> DEFINE N == Len(ts)
           f == GainsIn(ts)
           g == GainsIn(more)
<1>1. /\ N \in Nat /\ more \in Seq(TradeRows) /\ Len(more) = N + 1
      /\ \A n \in 1..N : more[n] = ts[n]
      /\ more[N + 1] = t
  OBVIOUS
<1>2. t.gain \in Int /\ \A n \in 1..N : ts[n].gain \in Int
  BY TradeIs
<1>3. /\ DOMAIN f = 1..N /\ DOMAIN g = 1..(N + 1)
      /\ \A n \in 1..N : f[n] \in Int /\ f[n] = ts[n].gain
      /\ \A n \in 1..(N + 1) : g[n] = more[n].gain
  BY <1>1, <1>2 DEF GainsIn
<1>4. \A n \in 1..(N + 1) : n \in 1..N \/ n = N + 1
  BY <1>1
<1>5. \A n \in 1..N : n \in 1..(N + 1)
  BY <1>1
<1>6. N + 1 \in 1..(N + 1)
  BY <1>1
<1> HIDE DEF N, f, g
<1>7. /\ \A n \in 1..(N + 1) : g[n] \in Int
      /\ \A n \in 1..N : g[n] = f[n]
      /\ g[N + 1] = t.gain
  BY <1>1, <1>2, <1>3, <1>4, <1>5, <1>6
<1>8. SumFunctionOnSet(g, 1..(N + 1)) = SumFunctionOnSet(g, 1..N) + g[N + 1]
  BY <1>1, <1>7, SumUpTo
<1>9. IsFiniteSet(1..N)
  <2>1. N \in Int
    BY <1>1
  <2> QED
    BY <2>1, FS_Interval
<1>10. SumFunctionOnSet(f, 1..N) = SumFunctionOnSet(g, 1..N) /\ SumFunctionOnSet(f, 1..N) \in Int
  BY <1>3, <1>7, <1>9, SumOfSame, SumIsInt
<1> QED
  BY <1>3, <1>7, <1>8, <1>10 DEF Together, f, g

LEMMA FirstCurve ==
  IsCurve(<<StartPoint>>) /\ Last(<<StartPoint>>).equity = Capital + Together(GainsIn(<<>>))
<1>1. Capital \in Nat \ {0}
  BY ResultsAssumption
<1>2. StartPoint \in CurvePoints /\ StartPoint.equity = Capital /\ StartPoint.peak = Capital
  BY <1>1 DEF StartPoint, CurvePoints
<1>3. /\ <<StartPoint>> \in Seq(CurvePoints) /\ Len(<<StartPoint>>) = 1
      /\ \A i \in 1..1 : i = 1
      /\ <<StartPoint>>[1] = StartPoint /\ 1 \in 1..1
  BY <1>2
<1>4. IsCurve(<<StartPoint>>)
  BY <1>1, <1>2, <1>3 DEF IsCurve
<1>5. Together(GainsIn(<<>>)) = 0
  <2>1. DOMAIN GainsIn(<<>>) = {}
    BY DEF GainsIn
  <2> QED
    BY <2>1, SumOfNone DEF Together
<1> QED
  BY <1>1, <1>2, <1>3, <1>4, <1>5 DEF Last

LEMMA ResultsStart == ResultsInit => ResultsInv
<1> SUFFICES ASSUME ResultsInit PROVE ResultsInv
  OBVIOUS
<1>1. /\ market \in Markets /\ ledger = <<>> /\ curve = <<StartPoint>> /\ outputs = <<>>
  BY DEF ResultsInit
<1>2. /\ <<>> \in Seq(Outputs) /\ <<>> \in Seq(TradeRows) /\ Len(<<>>) = 0 /\ 0 <= Configs
      /\ Len(<<StartPoint>>) = 1
  BY ResultsAssumption
<1> QED
  BY <1>1, <1>2, FirstCurve DEF ResultsInv, CurveOf

LEMMA ResultsInductive == ResultsInv /\ [ResultsNext]_resultVars => ResultsInv'
<1> SUFFICES ASSUME ResultsInv, [ResultsNext]_resultVars PROVE ResultsInv'
  OBVIOUS
<1>1. /\ outputs \in Seq(Outputs) /\ Len(outputs) \in Nat /\ Len(outputs) <= Configs
      /\ ledger \in Seq(TradeRows) /\ Len(ledger) \in Nat /\ Len(curve) = Len(ledger) + 1
      /\ IsCurve(curve) /\ Last(curve).equity = Capital + Together(GainsIn(ledger))
      /\ market \in Markets /\ Configs \in Nat
  BY ResultsAssumption DEF ResultsInv, CurveOf
<1>2. ASSUME NEW gain \in Gains, NEW at \in CloseTimes, CloseTrade(gain, at)
      PROVE  ResultsInv'
  <2> DEFINE t == TradeRow(gain, market)
             equity == Last(curve).equity + gain
             peak == Max({Last(curve).peak, equity})
             p == [at |-> at, equity |-> equity, peak |-> peak]
  <2>1. /\ Last(curve).at < at /\ ledger' = Append(ledger, t) /\ curve' = Append(curve, p)
        /\ market' = market /\ outputs' = outputs
    BY <1>2 DEF CloseTrade, TradeRow, ResultOf
  <2>2. t \in TradeRows /\ t.gain = gain /\ gain \in Int /\ at \in Nat
    <3>1. t \in TradeRows
      <4>1. <<gain, market>> \in Gains \X Markets /\ <<gain, market>>[1] = gain
            /\ <<gain, market>>[2] = market
        BY <1>1
      <4>2. t = TradeRow(<<gain, market>>[1], <<gain, market>>[2])
        BY <4>1
      <4> HIDE DEF t
      <4> QED
        BY <4>1, <4>2 DEF TradeRows
    <3>2. t.gain = gain
      BY DEF TradeRow
    <3> HIDE DEF t
    <3> QED
      BY <3>1, <3>2, ResultsAssumption
  <2> HIDE DEF t
  <2>3. /\ Together(GainsIn(ledger')) = Together(GainsIn(ledger)) + gain
        /\ Together(GainsIn(ledger)) \in Int
    BY <2>1, <2>2, <1>1, GainsGoOn
  <2>4. Capital \in Int /\ equity \in Int /\ equity = Capital + Together(GainsIn(ledger'))
    BY <2>2, <2>3, <1>1, ResultsAssumption
  <2> HIDE DEF equity
  <2>5. IsCurve(curve') /\ Last(curve').equity = equity /\ Len(curve') = Len(curve) + 1
    <3>1. curve' = Followed(curve, at, equity)
      BY <2>1 DEF Followed
    <3>2. IsCurve(curve) /\ at \in Nat /\ Last(curve).at < at /\ equity \in Int
      BY <2>1, <2>2, <2>4, <1>1
    <3>3. LET more == Followed(curve, at, equity)
          IN  IsCurve(more) /\ Last(more).equity = equity /\ Len(more) = Len(curve) + 1
      BY <3>2, CurveGoesOn
    <3> QED
      BY <3>1, <3>3, Zenon
  <2>6. ledger' \in Seq(TradeRows) /\ Len(ledger') = Len(ledger) + 1
    BY <2>1, <2>2, <1>1
  <2> QED
    BY <2>1, <2>4, <2>5, <2>6, <1>1 DEF ResultsInv, CurveOf
<1>3. ASSUME FinishConfig
      PROVE  ResultsInv'
  <2> DEFINE o == IF ledger = <<>> THEN Missing
                  ELSE [trades |-> ledger, points |-> curve, periods |-> DrawdownPeriods(curve),
                        result |-> FiguresOf(ledger, curve)]
             h == [trades |-> ledger, points |-> curve]
  <2>1. /\ Len(outputs) < Configs /\ outputs' = Append(outputs, o)
        /\ ledger' = <<>> /\ curve' = <<StartPoint>> /\ market' = market
    BY <1>3 DEF FinishConfig
  <2>2. o \in Outputs
    <3>1. CASE ledger = <<>>
      BY <3>1 DEF Outputs
    <3>2. CASE ledger # <<>>
      <4>1. h \in Histories
        BY <3>2, <1>1 DEF Histories, CurveOf, IsCurve
      <4>2. o = OutputOf(h)
        BY <3>2 DEF OutputOf
      <4> HIDE DEF h, o
      <4> QED
        BY <4>1, <4>2 DEF Outputs
    <3> QED
      BY <3>1, <3>2
  <2> HIDE DEF o
  <2>3. outputs' \in Seq(Outputs) /\ Len(outputs') = Len(outputs) + 1
    BY <2>1, <2>2, <1>1
  <2>4. Len(outputs') <= Configs
    BY <2>1, <2>3, <1>1
  <2>5. <<>> \in Seq(TradeRows) /\ Len(<<>>) = 0 /\ Len(<<StartPoint>>) = 0 + 1
    OBVIOUS
  <2>6. CurveOf(<<>>, <<StartPoint>>)
    BY FirstCurve DEF CurveOf
  <2> QED
    BY <2>1, <2>3, <2>4, <2>5, <2>6, <1>1 DEF ResultsInv
<1>4. CASE UNCHANGED resultVars
  BY <1>4 DEF resultVars, ResultsInv
<1> QED
  BY <1>2, <1>3, <1>4 DEF ResultsNext

(* Whatever the trades of a run made and in whichever market: its curves,  *)
(* periods, figures and page tell the same.                                *)
THEOREM ResultsAreToldTruly == ResultsSpec => []ResultsToldTruly
<1>1. ResultsSpec => []ResultsInv
  BY ResultsStart, ResultsInductive, PTL DEF ResultsSpec
<1>2. ResultsInv => ResultsToldTruly
  BY CurvesAreTold, FiguresAlwaysAgree, CostsAreOrdered, PageAlwaysTells DEF ResultsToldTruly
<1> QED
  BY <1>1, <1>2, PTL

-----------------------------------------------------------------------------
(* Whatever the runs of the lab found and whatever is compared of them:    *)
(* their curves, periods, figures and pages tell the same, the judgements  *)
(* follow the figures, and each report is of the results of one replay.    *)
THEOREM LabAlwaysTellsTruth == MCSpec => []LabTellsTruth
<1>1. MCInit => ResultsInv /\ RankingInv
  BY ResultsStart, RankingStart DEF MCInit
<1>2. [MCNext]_recordsVars => [ResultsNext]_resultVars
  <2>1. CASE MCNext /\ focus = "results"
    BY <2>1 DEF MCNext
  <2>2. CASE MCNext /\ focus # "results"
    BY <2>2 DEF MCNext
  <2>3. CASE UNCHANGED recordsVars
    BY <2>3 DEF recordsVars
  <2> QED
    BY <2>1, <2>2, <2>3
<1>3. [MCNext]_recordsVars => [RankingNext]_rankingVars
  <2>1. CASE MCNext /\ focus = "ranking"
    BY <2>1 DEF MCNext, RankingStep
  <2>2. CASE MCNext /\ focus # "ranking"
    BY <2>2 DEF MCNext
  <2>3. CASE UNCHANGED recordsVars
    BY <2>3 DEF recordsVars
  <2> QED
    BY <2>1, <2>2, <2>3
<1>4. ResultsInv /\ RankingInv /\ [MCNext]_recordsVars => ResultsInv' /\ RankingInv'
  BY <1>2, <1>3, ResultsInductive, RankingInductive
<1>5. MCSpec => [](ResultsInv /\ RankingInv)
  BY <1>1, <1>4, PTL DEF MCSpec
<1>6. ResultsInv => ResultsToldTruly
  BY CurvesAreTold, FiguresAlwaysAgree, CostsAreOrdered, PageAlwaysTells DEF ResultsToldTruly
<1>7. RankingInv => RankingToldTruly
  BY JudgedFairly, PagesAgreeAlways, ReportsAreTraced DEF RankingToldTruly
<1>8. ResultsInv /\ RankingInv => LabTellsTruth
  BY <1>6, <1>7 DEF LabTellsTruth
<1> QED
  BY <1>5, <1>8, PTL

-----------------------------------------------------------------------------
(* The schema, whose invariant is that it is what the revisions applied    *)
(* make (Fits), whatever way they were applied; so each revision that is   *)
(* due finds what it needs.                                                *)

WithAncestors(applied) ==
    applied \subseteq Revisions /\ \A r \in applied : Lineage[r] \subseteq applied

SchemaFits(w) ==
    /\ w = [applied |-> w.applied, tables |-> w.tables, columns |-> w.columns, refs |-> w.refs,
            types |-> w.types, rows |-> w.rows]
    /\ WithAncestors(w.applied)
    /\ w.tables = TablesOf(w.applied)
    /\ w.columns = ColumnsOf(w.applied)
    /\ w.refs = RefsOf(w.applied)
    /\ w.types = UNION {Revision[r].types : r \in w.applied}
    /\ w.rows \subseteq w.tables
    /\ \A r \in w.applied : Revision[r].seeds \subseteq w.rows

UpgradeGoes ==
    /\ command.left \subseteq Revisions \ command.work.applied
    /\ \E target \in Targets \ {Base} :
          command.work.applied \union command.left = database.applied \union Lineage[target]
    /\ database.applied \subseteq command.work.applied
    /\ database.rows \subseteq command.work.rows

DowngradeGoes ==
    /\ command.left \subseteq command.work.applied
    /\ command.work.applied \subseteq database.applied
    /\ database.rows \intersect command.work.tables \subseteq command.work.rows
    /\ "d058936fdd0d" \in database.applied => "d058936fdd0d" \in command.work.applied

FailedAsKnown ==
    /\ stopped.why \in {"nothing", "rows", "one way"}
    /\ stopped.why = "rows" => stopped.at \in {"9c0191d5922a", "d058936fdd0d"}
    /\ stopped.why = "one way" =>
          \/ stopped.at = "d058936fdd0d"
          \/ stopped.at = "9c0191d5922a" /\ "9c0191d5922a" \in Targets

(* A database is left at the second revision only by a command that names it. *)
LeftAtSecond ==
    "9c0191d5922a" \in database.applied /\ "d058936fdd0d" \notin database.applied =>
        "9c0191d5922a" \in Targets

MigrationInv ==
    /\ SchemaFits(database) /\ SchemaFits(command.work)
    /\ command = [kind |-> command.kind, left |-> command.left, work |-> command.work]
    /\ command.kind \in {"none", "upgrade", "downgrade"}
    /\ command.kind = "upgrade" => UpgradeGoes
    /\ command.kind = "downgrade" => DowngradeGoes
    /\ FailedAsKnown /\ LeftAtSecond

LEMMA LineageIs ==
    ASSUME NEW r \in Revisions
    PROVE  /\ r \in Lineage[r] /\ Lineage[r] \subseteq Revisions
           /\ Lineage[r] = {r} \union UNION {Lineage[p] : p \in Revision[r].parents}
           /\ Revision[r].parents \subseteq Ancestors(r)
           /\ \A s \in Ancestors(r) : /\ Lineage[s] \subseteq Ancestors(r)
                                  /\ \E t \in Lineage[r] : s \in Revision[t].parents
           /\ "9c0191d5922a" \in Ancestors(r) <=> "d058936fdd0d" \in Lineage[r]
  BY RevisionsFit DEF LineageFits

LEMMA HeldWithNext ==
    ASSUME NEW added, NEW dropped, ComesAndGoes(added, dropped),
           NEW applied, WithAncestors(applied),
           NEW r \in Revisions \ applied, Ancestors(r) \subseteq applied
    PROVE  /\ Held(added, dropped, applied \union {r})
                  = (Held(added, dropped, applied) \ dropped[r]) \union added[r]
           /\ dropped[r] \subseteq Held(added, dropped, applied)
           /\ added[r] \intersect Held(added, dropped, applied) = {}
  <1>1. \A s \in applied : s \in Revisions /\ r \notin Lineage[s] /\ s # r
    BY DEF WithAncestors
  <1>2. ASSUME NEW p \in Revisions, p \in Ancestors(r) PROVE p \in applied
    BY <1>2
  <1>3. ASSUME NEW c \in Held(added, dropped, applied \union {r}), c \notin added[r]
        PROVE  c \in Held(added, dropped, applied) /\ c \notin dropped[r]
    <2>1. PICK q \in applied \union {r} :
              /\ c \in added[q]
              /\ \A s \in applied \union {r} : q \in Lineage[s] /\ q # s => c \notin dropped[s]
      BY DEF Held
    <2>2. q \in applied /\ q \in Revisions
      BY <2>1, <1>3, <1>1
    <2>3. c \in Held(added, dropped, applied)
      BY <2>1, <2>2 DEF Held
    <2>4. ~ (r \in Ancestors(q))
      BY <2>2, <1>1 DEF Ancestors
    <2>5. ASSUME c \in dropped[r] PROVE FALSE
      <3>1. q \in Ancestors(r)
        BY <2>1, <2>2, <2>4, <2>5 DEF ComesAndGoes
      <3>2. q \in Lineage[r] /\ q # r
        BY <3>1 DEF Ancestors
      <3> QED BY <3>2, <2>1, <2>5
    <2> QED BY <2>3, <2>5
  <1>4. added[r] \subseteq Held(added, dropped, applied \union {r})
    BY <1>1 DEF Held
  <1>5. ASSUME NEW c \in Held(added, dropped, applied), c \notin dropped[r]
        PROVE  c \in Held(added, dropped, applied \union {r})
    BY <1>5 DEF Held
  <1>6. ASSUME NEW c \in dropped[r] PROVE c \in Held(added, dropped, applied)
    <2>1. PICK p \in Ancestors(r) :
              /\ c \in added[p]
              /\ \A s \in Revisions : p \in Ancestors(s) /\ c \in dropped[s] => r \in Lineage[s]
      BY DEF ComesAndGoes
    <2>2. p \in applied
      BY <2>1
    <2>3. \A s \in applied : p \in Lineage[s] /\ p # s => c \notin dropped[s]
      BY <2>1, <1>1 DEF Ancestors
    <2> QED BY <2>1, <2>2, <2>3 DEF Held
  <1>7. ASSUME NEW c \in added[r], c \in Held(added, dropped, applied) PROVE FALSE
    <2>1. PICK q \in applied :
              /\ c \in added[q]
              /\ \A s \in applied : q \in Lineage[s] /\ q # s => c \notin dropped[s]
      BY <1>7 DEF Held
    <2>2. q \in Revisions \ {r} /\ r \notin Lineage[q] /\ c \in added[r] \intersect added[q]
      BY <2>1, <1>1
    <2>3. PICK s \in Ancestors(r) : q \in Ancestors(s) /\ c \in dropped[s]
      BY <2>2 DEF ComesAndGoes
    <2> QED BY <2>1, <2>3 DEF Ancestors
  <1> QED BY <1>3, <1>4, <1>5, <1>6, <1>7

LEMMA HeldWithoutLast ==
    ASSUME NEW added, NEW dropped, ComesAndGoes(added, dropped),
           NEW applied, WithAncestors(applied), NEW r \in applied, dropped[r] = {},
           \A s \in applied \ {r} : r \notin Lineage[s]
    PROVE  /\ Held(added, dropped, applied \ {r}) = Held(added, dropped, applied) \ added[r]
           /\ added[r] \subseteq Held(added, dropped, applied)
  <1>1. \A s \in applied : s \in Revisions /\ Lineage[s] \subseteq applied
    BY DEF WithAncestors
  <1>2. ASSUME NEW c \in Held(added, dropped, applied \ {r})
        PROVE  c \in Held(added, dropped, applied) /\ c \notin added[r]
    <2>1. PICK q \in applied \ {r} :
              /\ c \in added[q]
              /\ \A s \in applied \ {r} : q \in Lineage[s] /\ q # s => c \notin dropped[s]
      BY DEF Held
    <2>2. c \in Held(added, dropped, applied)
      BY <2>1 DEF Held
    <2>3. ASSUME c \in added[r] PROVE FALSE
      <3>1. q \in Revisions \ {r} /\ r \notin Lineage[q] /\ c \in added[r] \intersect added[q]
        BY <2>1, <2>3, <1>1
      <3>2. PICK s \in Ancestors(r) : q \in Ancestors(s) /\ c \in dropped[s]
        BY <3>1, <1>1 DEF ComesAndGoes
      <3>3. s \in applied \ {r} /\ q \in Lineage[s] /\ q # s
        BY <3>2, <1>1 DEF Ancestors
      <3> QED BY <3>2, <3>3, <2>1
    <2> QED BY <2>2, <2>3
  <1>3. ASSUME NEW c \in Held(added, dropped, applied), c \notin added[r]
        PROVE  c \in Held(added, dropped, applied \ {r})
    BY <1>3 DEF Held
  <1>4. added[r] \subseteq Held(added, dropped, applied)
    BY DEF Held
  <1> QED BY <1>2, <1>3, <1>4

LEMMA CreatedIs == \A r : Created(r) = {Revision[r].creates[n] : n \in DOMAIN Revision[r].creates}
  BY DEF Created, ToSet

LEMMA TablesAre ==
    ASSUME NEW r \in Revisions
    PROVE  /\ \A s \in Revisions \ {r} : /\ Created(r) \intersect Created(s) = {}
                                         /\ Revision[r].types \intersect Revision[s].types = {}
           /\ \A n \in DOMAIN Revision[r].creates, ref \in Revision[r].refs :
                 ref[1] = Revision[r].creates[n] =>
                     ref[2] \in TablesOf(Ancestors(r)) \union {Revision[r].creates[m] : m \in 1..n}
           /\ \A ref \in Revision[r].refs : {ref[1], ref[2]} \subseteq TablesOf(Lineage[r])
           /\ \A c \in Revision[r].adds : c[1] \in TablesOf(Lineage[r])
           /\ Revision[r].seeds \subseteq Created(r)
  BY RevisionsFit DEF TablesFit

LEMMA ColumnsComeAndGo ==
    /\ ComesAndGoes([r \in Revisions |-> Revision[r].adds], [r \in Revisions |-> Revision[r].drops])
    /\ ComesAndGoes([r \in Revisions |-> Revision[r].refs], [r \in Revisions |-> Revision[r].unrefs])
  BY RevisionsFit

LEMMA OnlyTwoAreOneWay ==
    ASSUME NEW r \in Revisions
    PROVE  IF r \in {"9c0191d5922a", "d058936fdd0d"} THEN Revision[r].oneWay
           ELSE /\ ~ Revision[r].oneWay /\ Revision[r].drops = {} /\ Revision[r].unrefs = {}
                /\ Revision[r].requires \union Revision[r].recasts = {}
  BY RevisionsFit

LEMMA TablesGrow ==
    \A a, b : a \subseteq b => TablesOf(a) \subseteq TablesOf(b)
  BY DEF TablesOf

(* A revision that is due for an upgrade: it and what is applied. *)
LEMMA NextFits ==
    ASSUME NEW w, SchemaFits(w), NEW r \in Revisions \ w.applied,
           Revision[r].parents \subseteq w.applied
    PROVE  /\ CanUpgrade(w, r)
           /\ SchemaFits(Upgraded(w, r))
           /\ Upgraded(w, r).applied = w.applied \union {r}
           /\ Upgraded(w, r).rows = w.rows \union Revision[r].seeds
  <1> DEFINE applied == w.applied
             next == applied \union {r}
  <1>1. /\ WithAncestors(applied) /\ w.tables = TablesOf(applied)
        /\ w.columns = ColumnsOf(applied) /\ w.refs = RefsOf(applied)
        /\ w.types = UNION {Revision[q].types : q \in applied}
        /\ w.rows \subseteq w.tables
        /\ \A q \in applied : Revision[q].seeds \subseteq w.rows
        /\ r \notin applied /\ Revision[r].parents \subseteq applied
    BY DEF SchemaFits
  <1>2. /\ Upgraded(w, r).applied = next
        /\ Upgraded(w, r).rows = w.rows \union Revision[r].seeds
    BY DEF Upgraded
  <1>3. Ancestors(r) \subseteq applied /\ Lineage[r] \subseteq next
    BY <1>1, LineageIs DEF WithAncestors, Ancestors
  <1>4. WithAncestors(next)
    BY <1>1, <1>3 DEF WithAncestors
  <1> HIDE DEF applied, next
  <1>5. /\ ColumnsOf(next) = (ColumnsOf(applied) \ Revision[r].drops) \union Revision[r].adds
        /\ Revision[r].drops \subseteq ColumnsOf(applied)
        /\ Revision[r].adds \intersect ColumnsOf(applied) = {}
    <2> DEFINE added == [q \in Revisions |-> Revision[q].adds]
               dropped == [q \in Revisions |-> Revision[q].drops]
    <2>1. ComesAndGoes(added, dropped)
      BY ColumnsComeAndGo
    <2>2. added[r] = Revision[r].adds /\ dropped[r] = Revision[r].drops
      OBVIOUS
    <2>3. \A a : ColumnsOf(a) = Held(added, dropped, a)
      BY DEF ColumnsOf
    <2> HIDE DEF added, dropped
    <2>4. r \in Revisions \ applied
      BY <1>1
    <2> QED BY <1>1, <1>3, <2>1, <2>2, <2>3, <2>4, HeldWithNext DEF next
  <1>6. /\ RefsOf(next) = (RefsOf(applied) \ Revision[r].unrefs) \union Revision[r].refs
        /\ Revision[r].unrefs \subseteq RefsOf(applied)
    <2> DEFINE added == [q \in Revisions |-> Revision[q].refs]
               dropped == [q \in Revisions |-> Revision[q].unrefs]
    <2>1. ComesAndGoes(added, dropped)
      BY ColumnsComeAndGo
    <2>2. added[r] = Revision[r].refs /\ dropped[r] = Revision[r].unrefs
      OBVIOUS
    <2>3. \A a : RefsOf(a) = Held(added, dropped, a)
      BY DEF RefsOf
    <2> HIDE DEF added, dropped
    <2>4. r \in Revisions \ applied
      BY <1>1
    <2> QED BY <1>1, <1>3, <2>1, <2>2, <2>3, <2>4, HeldWithNext DEF next
  <1>7. TablesOf(next) = TablesOf(applied) \union Created(r)
    BY DEF TablesOf, next
  <1>8. UNION {Revision[q].types : q \in next} = w.types \union Revision[r].types
    BY <1>1 DEF next
  <1>9. Created(r) \intersect TablesOf(applied) = {}
    BY <1>1, TablesAre DEF TablesOf, WithAncestors
  <1>10. TablesOf(Ancestors(r)) \subseteq TablesOf(applied)
         /\ TablesOf(Lineage[r]) \subseteq TablesOf(next)
    BY <1>3, TablesGrow
  <1>11. CanUpgrade(w, r)
    <2>1. CanCreate(w, r)
      <3>1. ASSUME NEW n \in DOMAIN Revision[r].creates
            PROVE  Revision[r].creates[n] \notin w.tables
        BY <1>1, <1>9, CreatedIs
      <3>2. ASSUME NEW n \in DOMAIN Revision[r].creates, NEW ref \in Revision[r].refs,
                   ref[1] = Revision[r].creates[n]
            PROVE  ref[2] \in w.tables \union {Revision[r].creates[m] : m \in 1..n}
        BY <3>2, <1>1, <1>10, TablesAre
      <3> QED BY <3>1, <3>2 DEF CanCreate
    <2>2. \A c \in Revision[r].adds : c[1] \in w.tables \union Created(r) /\ c \notin w.columns
      BY <1>1, <1>5, <1>7, <1>10, TablesAre
    <2>3. Revision[r].drops \subseteq w.columns /\ Revision[r].unrefs \subseteq w.refs
      BY <1>1, <1>5, <1>6
    <2>4. \A ref \in Revision[r].refs : ref[2] \in w.tables \union Created(r)
      BY <1>1, <1>7, <1>10, TablesAre
    <2> QED BY <2>1, <2>2, <2>3, <2>4 DEF CanUpgrade
  <1>12. SchemaFits(Upgraded(w, r))
    <2> DEFINE u == Upgraded(w, r)
    <2>1. /\ u = [applied |-> u.applied, tables |-> u.tables, columns |-> u.columns,
                  refs |-> u.refs, types |-> u.types, rows |-> u.rows]
          /\ u.applied = next /\ u.tables = w.tables \union Created(r)
          /\ u.columns = (w.columns \ Revision[r].drops) \union Revision[r].adds
          /\ u.refs = (w.refs \ Revision[r].unrefs) \union Revision[r].refs
          /\ u.types = w.types \union Revision[r].types
          /\ u.rows = w.rows \union Revision[r].seeds
      BY DEF Upgraded, next, applied
    <2> HIDE DEF u
    <2>2. u.tables = TablesOf(next) /\ u.columns = ColumnsOf(next) /\ u.refs = RefsOf(next)
      BY <2>1, <1>1, <1>5, <1>6, <1>7
    <2>3. u.types = UNION {Revision[q].types : q \in next}
      BY <2>1, <1>8
    <2>4. u.rows \subseteq u.tables
      BY <2>1, <1>1, TablesAre
    <2>5. \A q \in next : Revision[q].seeds \subseteq u.rows
      BY <2>1, <1>1 DEF next
    <2>6. SchemaFits(u)
      <3>1. /\ u.applied = next
            /\ u = [applied |-> u.applied, tables |-> u.tables, columns |-> u.columns,
                  refs |-> u.refs, types |-> u.types, rows |-> u.rows]
        BY <2>1
      <3> QED BY <3>1, <2>2, <2>3, <2>4, <2>5, <1>4 DEF SchemaFits
    <2> QED BY <2>6 DEF u
  <1> QED BY <1>11, <1>12, <1>2 DEF next, applied

(* A revision that is due for a downgrade: no other applied rests on it. *)
LEMMA NoneRestsOnLast ==
    ASSUME NEW applied, WithAncestors(applied), NEW r \in applied,
           \A s \in applied : r \notin Revision[s].parents
    PROVE  \A s \in applied \ {r} : r \notin Lineage[s]
  <1> SUFFICES ASSUME NEW s \in applied \ {r}, r \in Lineage[s] PROVE FALSE
    OBVIOUS
  <1>1. r \in Ancestors(s) /\ s \in Revisions
    BY DEF Ancestors, WithAncestors
  <1>2. PICK t \in Lineage[s] : r \in Revision[t].parents
    BY <1>1, LineageIs
  <1> QED BY <1>2 DEF WithAncestors

LEMMA LastGoes ==
    ASSUME NEW w, SchemaFits(w), NEW r \in w.applied, ~ Revision[r].oneWay,
           \A s \in w.applied : r \notin Revision[s].parents
    PROVE  /\ CanDowngrade(w, r)
           /\ SchemaFits(Downgraded(w, r))
           /\ Downgraded(w, r).applied = w.applied \ {r}
           /\ Downgraded(w, r).tables = w.tables \ Created(r)
           /\ Downgraded(w, r).rows = w.rows \ Created(r)
  <1> DEFINE applied == w.applied
             rest == applied \ {r}
  <1>1. /\ WithAncestors(applied) /\ w.tables = TablesOf(applied)
        /\ w.columns = ColumnsOf(applied) /\ w.refs = RefsOf(applied)
        /\ w.types = UNION {Revision[q].types : q \in applied}
        /\ w.rows \subseteq w.tables
        /\ \A q \in applied : Revision[q].seeds \subseteq w.rows
        /\ r \in applied /\ r \in Revisions
        /\ \A q \in applied : q \in Revisions /\ Lineage[q] \subseteq applied
    BY DEF SchemaFits, WithAncestors
  <1>2. \A s \in rest : r \notin Lineage[s]
    BY <1>1, NoneRestsOnLast
  <1>3. Revision[r].drops = {} /\ Revision[r].unrefs = {}
    BY <1>1, OnlyTwoAreOneWay
  <1>4. WithAncestors(rest)
    BY <1>1, <1>2 DEF WithAncestors
  <1>0. \A s \in applied : r \notin Revision[s].parents
    OBVIOUS
  <1> HIDE DEF applied
  <1>5. ColumnsOf(rest) = ColumnsOf(applied) \ Revision[r].adds
        /\ Revision[r].adds \subseteq ColumnsOf(applied)
    <2> DEFINE added == [q \in Revisions |-> Revision[q].adds]
               dropped == [q \in Revisions |-> Revision[q].drops]
    <2>1. ComesAndGoes(added, dropped)
      BY ColumnsComeAndGo
    <2>2. added[r] = Revision[r].adds /\ dropped[r] = {}
      BY <1>1, <1>3
    <2>3. \A a : ColumnsOf(a) = Held(added, dropped, a)
      BY DEF ColumnsOf
    <2> HIDE DEF added, dropped
    <2> QED BY <1>1, <1>2, <2>1, <2>2, <2>3, HeldWithoutLast
  <1>6. RefsOf(rest) = RefsOf(applied) \ Revision[r].refs
    <2> DEFINE added == [q \in Revisions |-> Revision[q].refs]
               dropped == [q \in Revisions |-> Revision[q].unrefs]
    <2>1. ComesAndGoes(added, dropped)
      BY ColumnsComeAndGo
    <2>2. added[r] = Revision[r].refs /\ dropped[r] = {}
      BY <1>1, <1>3
    <2>3. \A a : RefsOf(a) = Held(added, dropped, a)
      BY DEF RefsOf
    <2> HIDE DEF added, dropped
    <2> QED BY <1>1, <1>2, <2>1, <2>2, <2>3, HeldWithoutLast
  <1>7. \A q \in rest : Created(r) \intersect Created(q) = {}
                        /\ Revision[r].types \intersect Revision[q].types = {}
    BY <1>1, TablesAre
  <1>8. TablesOf(rest) = TablesOf(applied) \ Created(r)
    BY <1>1, <1>7 DEF TablesOf
  <1>9. UNION {Revision[q].types : q \in rest} = w.types \ Revision[r].types
    BY <1>1, <1>7
  <1>10. CanDowngrade(w, r)
    <2>1. Created(r) \subseteq w.tables
      BY <1>1 DEF TablesOf
    <2>2. ASSUME NEW ref \in w.refs \ Revision[r].refs, ref[2] \in Created(r) PROVE FALSE
      <3>1. PICK q \in applied : ref \in Revision[q].refs
        BY <1>1 DEF RefsOf, Held
      <3>2. q \in rest /\ q \in Revisions
        BY <3>1, <1>1
      <3>3. PICK t \in Lineage[q] : ref[2] \in Created(t)
        BY <3>1, <3>2, TablesAre DEF TablesOf
      <3>4. t \in applied /\ t # r
        BY <3>2, <3>3, <1>1, <1>2
      <3> QED BY <3>3, <3>4, <2>2, <1>7
    <2> QED BY <1>1, <1>5, <2>1, <2>2 DEF CanDowngrade
  <1>11. SchemaFits(Downgraded(w, r))
    <2> DEFINE u == Downgraded(w, r)
    <2>1. /\ u = [applied |-> u.applied, tables |-> u.tables, columns |-> u.columns,
                  refs |-> u.refs, types |-> u.types, rows |-> u.rows]
          /\ u.applied = rest /\ u.tables = w.tables \ Created(r)
          /\ u.columns = (w.columns \ Revision[r].adds) \union Revision[r].drops
          /\ u.refs = (w.refs \ Revision[r].refs) \union Revision[r].unrefs
          /\ u.types = w.types \ Revision[r].types
          /\ u.rows = w.rows \ Created(r)
      BY DEF Downgraded, applied
    <2> HIDE DEF u
    <2>2. u.tables = TablesOf(rest) /\ u.columns = ColumnsOf(rest) /\ u.refs = RefsOf(rest)
      BY <2>1, <1>1, <1>3, <1>5, <1>6, <1>8
    <2>3. u.types = UNION {Revision[q].types : q \in rest}
      BY <2>1, <1>9
    <2>4. u.rows \subseteq u.tables
      BY <2>1, <1>1
    <2>5. \A q \in rest : Revision[q].seeds \subseteq u.rows
      BY <2>1, <1>1, <1>7, TablesAre
    <2>6. SchemaFits(u)
      <3>1. /\ u.applied = rest
            /\ u = [applied |-> u.applied, tables |-> u.tables, columns |-> u.columns,
                  refs |-> u.refs, types |-> u.types, rows |-> u.rows]
        BY <2>1
      <3> HIDE DEF rest
      <3> QED BY <3>1, <2>2, <2>3, <2>4, <2>5, <1>4 DEF SchemaFits
    <2> QED BY <2>6 DEF u
  <1>12. /\ Downgraded(w, r).applied = w.applied \ {r}
         /\ Downgraded(w, r).tables = w.tables \ Created(r)
         /\ Downgraded(w, r).rows = w.rows \ Created(r)
    BY DEF Downgraded
  <1> QED BY <1>10, <1>11, <1>12

LEMMA MigrationStart == MigrationInit => MigrationInv
  <1> SUFFICES ASSUME MigrationInit PROVE MigrationInv
    OBVIOUS
  <1>1. /\ database = Empty /\ command.work = Empty /\ command.kind = "none" /\ stopped.why = "nothing"
        /\ command = [kind |-> command.kind, left |-> command.left, work |-> command.work]
    BY DEF MigrationInit, Idle
  <1>2. SchemaFits(Empty)
    BY DEF SchemaFits, Empty, WithAncestors, TablesOf, ColumnsOf, RefsOf, Held
  <1>3. database.applied = {}
    BY <1>1 DEF Empty
  <1> QED BY <1>1, <1>2, <1>3 DEF MigrationInv, FailedAsKnown, LeftAtSecond

LEMMA IdleIs ==
    /\ Idle.kind = "none" /\ SchemaFits(Idle.work)
    /\ Idle = [kind |-> Idle.kind, left |-> Idle.left, work |-> Idle.work]
  BY DEF Idle, SchemaFits, Empty, WithAncestors, TablesOf, ColumnsOf, RefsOf, Held

LEMMA BeginKeeps ==
    ASSUME MigrationInv, NEW target \in Targets, StartUpgrade(target) \/ StartDowngrade(target)
    PROVE  MigrationInv'
  <1>1. /\ UNCHANGED <<database, stopped>> /\ command'.work = database
        /\ command' = [kind |-> command'.kind, left |-> command'.left, work |-> command'.work]
        /\ command'.kind \in {"none", "upgrade", "downgrade"}
    BY DEF StartUpgrade, StartDowngrade
  <1>2. SchemaFits(database)' /\ SchemaFits(command.work)'
    BY <1>1 DEF MigrationInv, SchemaFits
  <1>3. FailedAsKnown' /\ LeftAtSecond'
    BY <1>1 DEF MigrationInv, FailedAsKnown, LeftAtSecond
  <1>4. ASSUME command'.kind = "upgrade" PROVE UpgradeGoes'
    <2>1. command'.left = Lineage[target] \ database.applied /\ target \in Targets \ {Base}
      BY <1>4 DEF StartUpgrade, StartDowngrade
    <2>2. target \in Revisions
      BY <2>1, TargetsAssumption
    <2>3. Lineage[target] \subseteq Revisions
      BY <2>2, LineageIs
    <2>4. database.rows \subseteq command'.work.rows /\ database.applied \subseteq command'.work.applied
          /\ command'.work.applied \union command'.left = database.applied \union Lineage[target]
      BY <1>1, <2>1
    <2>5. command'.left \subseteq Revisions \ command'.work.applied
      BY <1>1, <2>1, <2>3
    <2> QED BY <1>1, <2>1, <2>4, <2>5 DEF UpgradeGoes
  <1>5. ASSUME command'.kind = "downgrade" PROVE DowngradeGoes'
    BY <1>5, <1>1 DEF StartUpgrade, StartDowngrade, DowngradeGoes
  <1> QED BY <1>1, <1>2, <1>3, <1>4, <1>5 DEF MigrationInv

LEMMA RunUpgradeKeeps == MigrationInv /\ RunUpgrade => MigrationInv'
  <1> SUFFICES ASSUME MigrationInv, RunUpgrade PROVE MigrationInv'
    OBVIOUS
  <1>1. PICK r \in Due : command' = [command EXCEPT !.left = @ \ {r}, !.work = Upgraded(@, r)]
    BY DEF RunUpgrade
  <1>2. /\ UNCHANGED <<database, stopped>> /\ command.kind = "upgrade" /\ UpgradeGoes
        /\ SchemaFits(command.work) /\ SchemaFits(database)
        /\ FailedAsKnown /\ LeftAtSecond
        /\ command = [kind |-> command.kind, left |-> command.left, work |-> command.work]
    BY DEF RunUpgrade, MigrationInv
  <1>3. /\ command'.kind = "upgrade" /\ command'.left = command.left \ {r}
        /\ command'.work = Upgraded(command.work, r)
        /\ command' = [kind |-> command'.kind, left |-> command'.left, work |-> command'.work]
    BY <1>1, <1>2
  <1>4. r \in command.left /\ Revision[r].parents \subseteq command.work.applied
    BY <1>1, <1>2 DEF Due
  <1>5. r \in Revisions \ command.work.applied
    BY <1>2, <1>4 DEF UpgradeGoes
  <1>6. /\ SchemaFits(command'.work)
        /\ command'.work.applied = command.work.applied \union {r}
        /\ command'.work.rows = command.work.rows \union Revision[r].seeds
    BY <1>2, <1>3, <1>4, <1>5, NextFits
  <1>7. SchemaFits(database)' /\ FailedAsKnown' /\ LeftAtSecond'
    BY <1>2 DEF SchemaFits, FailedAsKnown, LeftAtSecond
  <1>8. UpgradeGoes'
    <2>1. PICK target \in Targets \ {Base} :
              command.work.applied \union command.left = database.applied \union Lineage[target]
      BY <1>2 DEF UpgradeGoes
    <2>2. command'.work.applied \union command'.left = database.applied \union Lineage[target]
      BY <2>1, <1>3, <1>4, <1>6
    <2>3. /\ command'.left \subseteq Revisions \ command'.work.applied
          /\ database.rows \subseteq command'.work.rows
          /\ database.applied \subseteq command'.work.applied
      BY <1>2, <1>3, <1>6 DEF UpgradeGoes
    <2> QED BY <1>2, <2>1, <2>2, <2>3 DEF UpgradeGoes
  <1>9. SchemaFits(command.work)'
    BY <1>6 DEF SchemaFits
  <1> QED BY <1>3, <1>7, <1>8, <1>9 DEF MigrationInv

LEMMA RunDowngradeKeeps == MigrationInv /\ RunDowngrade => MigrationInv'
  <1> SUFFICES ASSUME MigrationInv, RunDowngrade PROVE MigrationInv'
    OBVIOUS
  <1>1. PICK r \in Due :
            /\ CanDowngrade(command.work, r)
            /\ command' = [command EXCEPT !.left = @ \ {r}, !.work = Downgraded(@, r)]
    BY DEF RunDowngrade
  <1>2. /\ UNCHANGED <<database, stopped>> /\ command.kind = "downgrade" /\ DowngradeGoes
        /\ SchemaFits(command.work) /\ SchemaFits(database)
        /\ FailedAsKnown /\ LeftAtSecond
        /\ command = [kind |-> command.kind, left |-> command.left, work |-> command.work]
    BY DEF RunDowngrade, MigrationInv
  <1>3. /\ command'.kind = "downgrade" /\ command'.left = command.left \ {r}
        /\ command'.work = Downgraded(command.work, r)
        /\ command' = [kind |-> command'.kind, left |-> command'.left, work |-> command'.work]
    BY <1>1, <1>2
  <1>4. r \in command.left /\ \A s \in command.work.applied : r \notin Revision[s].parents
    BY <1>1, <1>2 DEF Due
  <1>5. r \in command.work.applied /\ ~ Revision[r].oneWay /\ r \in Revisions
    BY <1>1, <1>2, <1>4 DEF DowngradeGoes, CanDowngrade, SchemaFits, WithAncestors
  <1>6. /\ SchemaFits(command'.work)
        /\ command'.work.applied = command.work.applied \ {r}
        /\ command'.work.tables = command.work.tables \ Created(r)
        /\ command'.work.rows = command.work.rows \ Created(r)
    BY <1>2, <1>3, <1>4, <1>5, LastGoes
  <1>7. SchemaFits(database)' /\ FailedAsKnown' /\ LeftAtSecond'
    BY <1>2 DEF SchemaFits, FailedAsKnown, LeftAtSecond
  <1>8. r # "d058936fdd0d"
    BY <1>5, OnlyTwoAreOneWay
  <1>9. DowngradeGoes'
    BY <1>2, <1>3, <1>6, <1>8 DEF DowngradeGoes
  <1>10. SchemaFits(command.work)'
    BY <1>6 DEF SchemaFits
  <1> QED BY <1>3, <1>7, <1>9, <1>10 DEF MigrationInv

LEMMA FailKeeps == MigrationInv /\ Fail => MigrationInv'
  <1> SUFFICES ASSUME MigrationInv, Fail PROVE MigrationInv'
    OBVIOUS
  <1>1. PICK r \in Due, why \in {"schema", "rows", "one way"} :
          /\ \/ /\ why = "schema"
                /\ \/ command.kind = "upgrade" /\ ~ CanUpgrade(command.work, r)
                   \/ /\ command.kind = "downgrade" /\ ~ Revision[r].oneWay
                      /\ ~ CanDowngrade(command.work, r)
             \/ /\ why = "rows" /\ command.kind = "upgrade"
                /\ RowsStop(command.work, r) \/ RowsMayStop(command.work, r)
             \/ why = "one way" /\ command.kind = "downgrade" /\ Revision[r].oneWay
          /\ stopped' = [why |-> why, at |-> r]
    BY DEF Fail
  <1>2. /\ command' = Idle /\ UNCHANGED database
        /\ SchemaFits(command.work) /\ SchemaFits(database) /\ LeftAtSecond
        /\ command.kind = "upgrade" => UpgradeGoes
        /\ command.kind = "downgrade" => DowngradeGoes
    BY DEF Fail, MigrationInv
  <1>3. SchemaFits(database)' /\ LeftAtSecond'
    BY <1>2 DEF SchemaFits, LeftAtSecond
  <1>4. SchemaFits(command.work)'
    BY <1>2, IdleIs DEF SchemaFits
  <1>5. ASSUME command.kind = "upgrade"
        PROVE  /\ r \in Revisions \ command.work.applied
               /\ Revision[r].parents \subseteq command.work.applied
    BY <1>5, <1>1, <1>2 DEF Due, UpgradeGoes
  <1>6. ASSUME command.kind = "downgrade"
        PROVE  /\ r \in command.work.applied /\ r \in Revisions
               /\ \A s \in command.work.applied : r \notin Revision[s].parents
    <2>1. r \in command.left /\ \A s \in command.work.applied : r \notin Revision[s].parents
      BY <1>6, <1>1 DEF Due
    <2> QED BY <1>6, <2>1, <1>2 DEF DowngradeGoes, SchemaFits, WithAncestors
  <1>7. why # "schema"
    BY <1>1, <1>2, <1>5, <1>6, NextFits, LastGoes
  <1>8. ASSUME why = "rows" PROVE r \in {"9c0191d5922a", "d058936fdd0d"}
    <2>1. Revision[r].requires \union Revision[r].recasts # {} /\ r \in Revisions
      BY <1>8, <1>1, <1>5 DEF RowsStop, RowsMayStop
    <2> QED BY <2>1, OnlyTwoAreOneWay
  <1>9. ASSUME why = "one way"
        PROVE  \/ r = "d058936fdd0d"
               \/ r = "9c0191d5922a" /\ "9c0191d5922a" \in Targets
    <2>1. /\ command.kind = "downgrade" /\ Revision[r].oneWay /\ DowngradeGoes
          /\ r \in command.work.applied /\ r \in Revisions
      BY <1>9, <1>1, <1>2, <1>6
    <2>2. r \in {"9c0191d5922a", "d058936fdd0d"}
      BY <2>1, OnlyTwoAreOneWay
    <2>3. ASSUME r = "9c0191d5922a" PROVE "9c0191d5922a" \in Targets
      <3>1. ASSUME "d058936fdd0d" \in command.work.applied PROVE FALSE
        <4>1. "d058936fdd0d" \in Revisions /\ WithAncestors(command.work.applied)
          BY <3>1, <1>2 DEF SchemaFits, WithAncestors
        <4>2. r \in Ancestors("d058936fdd0d")
          BY <4>1, <2>3, LineageIs
        <4>3. r # "d058936fdd0d"
          BY <2>3
        <4>4. r \notin Lineage["d058936fdd0d"]
          BY <4>1, <4>3, <3>1, <1>6, <2>1, NoneRestsOnLast
        <4> QED BY <4>2, <4>4 DEF Ancestors
      <3>2. "d058936fdd0d" \notin database.applied /\ "9c0191d5922a" \in database.applied
        BY <3>1, <2>1, <2>3 DEF DowngradeGoes
      <3> QED BY <3>2, <1>2 DEF LeftAtSecond
    <2> QED BY <2>2, <2>3
  <1>10. FailedAsKnown'
    <2>1. stopped'.why = why /\ stopped'.at = r
      BY <1>1
    <2> QED BY <2>1, <1>7, <1>8, <1>9 DEF FailedAsKnown
  <1> QED BY <1>2, <1>3, <1>4, <1>10, IdleIs DEF MigrationInv

LEMMA CommitKeeps == MigrationInv /\ Commit => MigrationInv'
  <1> SUFFICES ASSUME MigrationInv, Commit PROVE MigrationInv'
    OBVIOUS
  <1>1. /\ command' = Idle /\ UNCHANGED stopped /\ database' = command.work
        /\ command.left = {} /\ command.kind \in {"upgrade", "downgrade"}
        /\ SchemaFits(command.work) /\ SchemaFits(database) /\ LeftAtSecond /\ FailedAsKnown
        /\ command.kind = "upgrade" => UpgradeGoes
        /\ command.kind = "downgrade" => DowngradeGoes
    BY DEF Commit, MigrationInv
  <1>2. SchemaFits(database)' /\ SchemaFits(command.work)' /\ FailedAsKnown'
    BY <1>1, IdleIs DEF SchemaFits, FailedAsKnown
  <1>3. LeftAtSecond'
    <2> SUFFICES ASSUME "9c0191d5922a" \in command.work.applied,
                        "d058936fdd0d" \notin command.work.applied
                 PROVE  "9c0191d5922a" \in Targets
      BY <1>1 DEF LeftAtSecond
    <2>1. CASE command.kind = "downgrade"
      BY <2>1, <1>1 DEF DowngradeGoes, LeftAtSecond
    <2>2. CASE command.kind = "upgrade"
      <3>1. PICK target \in Targets \ {Base} :
                command.work.applied = database.applied \union Lineage[target]
        BY <2>2, <1>1 DEF UpgradeGoes
      <3>2. target \in Revisions
        BY TargetsAssumption
      <3>3. CASE "9c0191d5922a" \in database.applied
        BY <3>1, <3>3, <1>1 DEF LeftAtSecond
      <3>4. CASE "9c0191d5922a" \in Lineage[target]
        <4>1. "9c0191d5922a" \notin Ancestors(target)
          BY <3>1, <3>2, LineageIs
        <4>2. target = "9c0191d5922a"
          BY <4>1, <3>4 DEF Ancestors
        <4> QED BY <4>2
      <3> QED BY <3>1, <3>3, <3>4
    <2> QED BY <2>1, <2>2, <1>1
  <1> QED BY <1>1, <1>2, <1>3, IdleIs DEF MigrationInv

LEMMA MigrationInductive == MigrationInv /\ [MigrationNext]_migrationVars => MigrationInv'
  <1> SUFFICES ASSUME MigrationInv, [MigrationNext]_migrationVars PROVE MigrationInv'
    OBVIOUS
  <1>1. ASSUME NEW target \in Targets, StartUpgrade(target) \/ StartDowngrade(target)
        PROVE  MigrationInv'
    BY <1>1, BeginKeeps
  <1>2. CASE Abort
    <2>1. command' = Idle /\ UNCHANGED <<database, stopped>>
      BY <1>2 DEF Abort
    <2>2. SchemaFits(database)' /\ SchemaFits(command.work)' /\ FailedAsKnown' /\ LeftAtSecond'
      BY <2>1, IdleIs DEF MigrationInv, SchemaFits, FailedAsKnown, LeftAtSecond
    <2> QED BY <2>1, <2>2, IdleIs DEF MigrationInv
  <1>3. ASSUME NEW table \in Filled, StoreRow(table) PROVE MigrationInv'
    <2>1. /\ database' = [database EXCEPT !.rows = @ \union {table}] /\ table \in database.tables
          /\ UNCHANGED <<command, stopped>> /\ command.kind = "none"
      BY <1>3 DEF StoreRow
    <2>2. /\ SchemaFits(database)
          /\ database = [applied |-> database.applied, tables |-> database.tables,
                         columns |-> database.columns, refs |-> database.refs,
                         types |-> database.types, rows |-> database.rows]
      BY DEF MigrationInv, SchemaFits
    <2>3. /\ database'.applied = database.applied /\ database'.tables = database.tables
          /\ database'.columns = database.columns /\ database'.refs = database.refs
          /\ database'.types = database.types /\ database'.rows = database.rows \union {table}
          /\ database' = [applied |-> database'.applied, tables |-> database'.tables,
                          columns |-> database'.columns, refs |-> database'.refs,
                          types |-> database'.types, rows |-> database'.rows]
      BY <2>1, <2>2
    <2>4. SchemaFits(database)'
      BY <2>1, <2>2, <2>3 DEF SchemaFits
    <2>5. SchemaFits(command.work)' /\ FailedAsKnown' /\ LeftAtSecond'
      BY <2>1, <2>3 DEF MigrationInv, SchemaFits, FailedAsKnown, LeftAtSecond
    <2> QED BY <2>1, <2>4, <2>5 DEF MigrationInv
  <1>4. CASE UNCHANGED migrationVars
    BY <1>4 DEF migrationVars, MigrationInv, SchemaFits, UpgradeGoes, DowngradeGoes, FailedAsKnown,
                LeftAtSecond
  <1> QED BY <1>1, <1>2, <1>3, <1>4, RunUpgradeKeeps, RunDowngradeKeeps, FailKeeps, CommitKeeps
      DEF MigrationNext

LEMMA MigrationsTold == MigrationInv => MigrationsFit /\ MigrationTypeOK
  <1> SUFFICES ASSUME MigrationInv PROVE MigrationsFit /\ MigrationTypeOK
    OBVIOUS
  <1>1. ASSUME NEW w, SchemaFits(w)
        PROVE  /\ w.tables = UNION {Created(r) : r \in w.applied}
               /\ w.columns = ColumnsOf(w.applied)
               /\ w.types = UNION {Revision[r].types : r \in w.applied}
               /\ \A ref \in w.refs : ref[1] \in w.tables /\ ref[2] \in w.tables
               /\ \A r \in w.applied : Revision[r].seeds \subseteq w.rows
               /\ w.applied \subseteq Revisions /\ w.tables \subseteq ModelTables
               /\ w.columns \subseteq ModelColumns /\ w.rows \subseteq w.tables
               /\ \A r \in w.applied : Revision[r].parents \subseteq w.applied
    <2>1. /\ w.applied \subseteq Revisions /\ \A r \in w.applied : Lineage[r] \subseteq w.applied
          /\ w.tables = TablesOf(w.applied) /\ w.refs = RefsOf(w.applied)
          /\ w.columns = ColumnsOf(w.applied)
      BY <1>1 DEF SchemaFits, WithAncestors
    <2>2. ASSUME NEW ref \in w.refs PROVE ref[1] \in w.tables /\ ref[2] \in w.tables
      <3>1. PICK q \in w.applied : ref \in Revision[q].refs
        BY <2>1 DEF RefsOf, Held
      <3>2. {ref[1], ref[2]} \subseteq TablesOf(Lineage[q])
        BY <3>1, <2>1, TablesAre
      <3> QED BY <3>2, <2>1, TablesGrow
    <2>3. w.tables \subseteq ModelTables
      BY <2>1 DEF TablesOf, ModelTables, Created
    <2>4. w.columns \subseteq ModelColumns
      BY <2>1 DEF ColumnsOf, Held, ModelColumns
    <2>5. \A r \in w.applied : Revision[r].parents \subseteq w.applied
      BY <2>1, LineageIs DEF Ancestors
    <2> QED BY <1>1, <2>1, <2>2, <2>3, <2>4, <2>5 DEF SchemaFits, TablesOf
  <1>2. SchemaFits(database) /\ SchemaFits(command.work)
    BY DEF MigrationInv
  <1>3. SchemaFollowsRevisions
    BY <1>1, <1>2 DEF SchemaFollowsRevisions
  <1>4. FailuresKnown
    BY DEF MigrationInv, FailedAsKnown, DowngradeGoes, FailuresKnown
  <1>5. RowsKept
    <2>1. command.kind # "none" => database.rows \intersect command.work.tables \subseteq command.work.rows
      BY DEF MigrationInv, UpgradeGoes, DowngradeGoes
    <2> QED BY <2>1, <1>1, <1>2 DEF RowsKept
  <1>6. HeadServesMostModels
    <2> SUFFICES ASSUME HeadRevision \in database.applied
                 PROVE  /\ ModelTables \ database.tables = UnmigratedModels
                        /\ ModelColumns \ database.columns = OutcomeMeasures
      BY DEF HeadServesMostModels
    <2>1. database.applied = Revisions
      <3>1. Lineage[HeadRevision] = Revisions
        BY RevisionsFit DEF LineageFits
      <3> QED BY <3>1, <1>2 DEF SchemaFits, WithAncestors
    <2>2. database.tables = TablesOf(Revisions) /\ database.columns = ColumnsOf(Revisions)
      BY <2>1, <1>2 DEF SchemaFits
    <2>3. /\ UnmigratedModels \intersect TablesOf(Revisions) = {}
          /\ ModelColumns \ ColumnsOf(Revisions) = OutcomeMeasures
      BY RevisionsFit
    <2>4. ModelTables = UnmigratedModels \union TablesOf(Revisions)
      BY DEF ModelTables, TablesOf, Created
    <2> QED BY <2>2, <2>3, <2>4
  <1>7. MigrationTypeOK
    BY <1>1, <1>2 DEF MigrationTypeOK
  <1> QED BY <1>3, <1>4, <1>5, <1>6, <1>7 DEF MigrationsFit

(* The migrations alone, for any targets and any tables with rows. *)
THEOREM MigrationsAlwaysFit == MigrationSpec => []MigrationsFit
  BY MigrationStart, MigrationInductive, MigrationsTold, PTL DEF MigrationSpec

-----------------------------------------------------------------------------
(* Whatever targets the migrations are run to and back, past whatever      *)
(* fails, the schema is that of its revisions; however the files of the    *)
(* prompts are edited and adapted, the rows say what was used; and         *)
(* whatever settings a process starts with, its jobs keep to them.         *)
LEMMA StepsOfDeployments ==
  [MCNext]_recordsVars =>
      /\ [MigrationNext]_migrationVars /\ [PromptsNext]_promptVars /\ [ScheduleNext]_scheduleVars
<1> SUFFICES ASSUME [MCNext]_recordsVars
             PROVE  /\ [MigrationNext]_migrationVars /\ [PromptsNext]_promptVars
                    /\ [ScheduleNext]_scheduleVars
  OBVIOUS
<1>1. CASE MCNext
  <2>1. CASE focus = "schema"
    BY <1>1, <2>1 DEF MCNext
  <2>2. CASE focus = "prompts"
    BY <1>1, <2>2 DEF MCNext, PromptsStep
  <2>3. CASE focus = "schedule"
    BY <1>1, <2>3 DEF MCNext, ScheduleStep
  <2>4. CASE focus \notin {"schema", "prompts", "schedule"}
    BY <1>1, <2>4 DEF MCNext
  <2> QED
    BY <2>1, <2>2, <2>3, <2>4
<1>2. CASE UNCHANGED recordsVars
  BY <1>2 DEF recordsVars
<1> QED
  BY <1>1, <1>2

THEOREM DeploymentsAlwaysKeepRecords == MCSpec => []DeploymentsKeepRecords
<1> DEFINE Inv == MigrationInv /\ PromptsInv /\ ScheduleInv
<1>1. MCInit => Inv
  BY MigrationStart, PromptsStart, ScheduleStart DEF MCInit
<1>2. Inv /\ [MCNext]_recordsVars => Inv'
  BY StepsOfDeployments, MigrationInductive, PromptsInductive, ScheduleStepKeeps
<1>3. Inv => DeploymentsKeepRecords
  BY MigrationsTold, PromptsTold DEF DeploymentsKeepRecords, ScheduleInv
<1> QED
  BY <1>1, <1>2, <1>3, PTL DEF MCSpec

-----------------------------------------------------------------------------
(* The shapes of the records.  What a provider is to be asked for and what *)
(* it returned decide what the bars may be.                                *)
BarRows == [source : Providers, kind : Kinds]

BatchBounds ==
    /\ bars \in [Times -> BarRows \union {None}]
    /\ batch.left \in Seq(Providers)
    /\ batch.fetched.end # "none" => batch.left # <<>>
    /\ batch.fetched.end = "bars" => batch.fetched.bars \in Feeds

ReportsBounded ==
    \A k \in Keys : report[k] # None => report[k].total <= Cardinality(Times)

LEMMA BoundsOfReports ==
  ASSUME QualityInv, [QualityNext]_qualityVars, ReportsBounded
  PROVE  ReportsBounded'
<1>1. \A kept, key : Metrics(kept, key).total <= Cardinality(Times)
  <2> SUFFICES ASSUME NEW kept, NEW key PROVE Metrics(kept, key).total <= Cardinality(Times)
    OBVIOUS
  <2>1. LoadBars(kept, key) \in SUBSET Times
    BY DEF LoadBars
  <2>2. Cardinality(LoadBars(kept, key)) <= Cardinality(Times)
    BY <2>1, FS_Subset, QualityAssumption
  <2> QED
    BY <2>2, MetricsAreRows
<1>2. ASSUME NEW kept, NEW key, Persist(kept, key), NEW k \in Keys, report'[k] # None
      PROVE  report'[k].total <= Cardinality(Times)
  <2>1. report'[k] = IF k = key THEN Metrics(kept, k) ELSE report[k]
    BY <1>2, PersistKeeps DEF QualityInv
  <2> QED
    BY <1>1, <1>2, <2>1 DEF ReportsBounded
<1>3. ASSUME UNCHANGED report PROVE ReportsBounded'
  BY <1>3 DEF ReportsBounded
<1>4. CASE \E k \in Keys : Recalculate(k)
  BY <1>2, <1>4 DEF Recalculate, ReportsBounded
<1>5. CASE StoreBars
  BY <1>2, <1>5 DEF StoreBars, ReportsBounded
<1> QED
  BY <1>3, <1>4, <1>5
  DEF QualityNext, qualityVars, StartImport, Fetch, DryRun, PassOver, FetchFailed, NoBars,
      LoadReport, CommitReview

LEMMA BoundsOfBatches ==
  ASSUME QualityInv, [QualityNext]_qualityVars, BatchBounds
  PROVE  BatchBounds'
<1>1. BatchShape
  BY DEF QualityInv
<1>2. \A p \in Seq(Providers) : p # <<>> => Tail(p) \in Seq(Providers) /\ Head(p) \in Providers
  OBVIOUS
<1>3. ASSUME UNCHANGED <<bars, batch>> PROVE BatchBounds'
  BY <1>3 DEF BatchBounds
<1>4. ASSUME NEW status, Record(status), batch.left # <<>>, bars' \in [Times -> BarRows \union {None}]
      PROVE  BatchBounds'
  <2>1. batch' = [number |-> batch.number, left |-> Tail(batch.left), dry |-> batch.dry,
                  fetched |-> NotFetched, answers |-> Append(batch.answers, status)]
    BY <1>1, <1>4 DEF BatchShape, Record
  <2>2. batch'.left \in Seq(Providers) /\ batch'.fetched = NotFetched
    BY <1>2, <1>4, <2>1 DEF BatchBounds
  <2> QED
    BY <1>4, <2>2 DEF BatchBounds, NotFetched
<1>5. CASE StartImport
  <2>1. PICK order \in SetToSeqs(Providers), dry \in BOOLEAN :
          batch' = [number |-> batch.number + 1, left |-> order, dry |-> dry,
                    fetched |-> NotFetched, answers |-> <<>>]
    BY <1>5 DEF StartImport
  <2>2. order \in Seq(Providers)
    <3>1. Cardinality(Providers) \in Nat
      BY FS_CardinalityType, QualityAssumption
    <3>2. order \in [1..Cardinality(Providers) -> Providers]
      BY DEF SetToSeqs
    <3> QED
      BY <3>1, <3>2
  <2>3. batch'.left = order /\ batch'.fetched = NotFetched /\ bars' = bars
    BY <1>5, <2>1 DEF StartImport
  <2> QED
    BY <2>2, <2>3 DEF BatchBounds, NotFetched
<1>6. CASE Fetch
  <2>1. /\ batch.left # <<>> /\ batch.fetched = NotFetched /\ bars' = bars
        /\ batch = [number |-> batch.number, left |-> batch.left, dry |-> batch.dry,
                    fetched |-> batch.fetched, answers |-> batch.answers]
    BY <1>1, <1>6 DEF Fetch, BatchShape
  <2>2. CASE \E feed \in Feeds : batch' = [batch EXCEPT !.fetched = [end |-> "bars", bars |-> feed]]
    <3>1. PICK feed \in Feeds : batch' = [batch EXCEPT !.fetched = [end |-> "bars", bars |-> feed]]
      BY <2>2
    <3>2. batch'.left = batch.left /\ batch'.fetched = [end |-> "bars", bars |-> feed]
      BY <2>1, <3>1
    <3> QED
      BY <2>1, <3>2 DEF BatchBounds
  <2>3. CASE \E end \in {"empty", "failed"} : batch' = [batch EXCEPT !.fetched.end = end]
    <3>1. PICK end \in {"empty", "failed"} : batch' = [batch EXCEPT !.fetched.end = end]
      BY <2>3
    <3>2. batch'.left = batch.left /\ batch'.fetched = [NotFetched EXCEPT !.end = end]
      BY <2>1, <3>1
    <3>3. batch'.fetched.end = end
      BY <3>2 DEF NotFetched
    <3> QED
      BY <2>1, <3>2, <3>3 DEF BatchBounds
  <2> QED
    BY <1>6, <2>2, <2>3 DEF Fetch
<1>7. CASE DryRun \/ PassOver \/ FetchFailed \/ NoBars
  <2>1. bars' = bars /\ batch.left # <<>>
    BY <1>7 DEF DryRun, PassOver, FetchFailed, NoBars, BatchBounds
  <2>2. \E status \in RunStatuses : Record(status)
    BY <1>7 DEF DryRun, PassOver, FetchFailed, NoBars, RunStatuses
  <2> QED
    BY <1>4, <2>1, <2>2 DEF BatchBounds
<1>8. CASE StoreBars
  <2> DEFINE feed == batch.fetched.bars
  <2>1. /\ bars' = Upserted(Head(batch.left), feed) /\ Record("completed")
        /\ batch.left # <<>> /\ feed \in Feeds /\ Head(batch.left) \in Providers
    BY <1>2, <1>8 DEF StoreBars, BatchBounds
  <2>2. bars' \in [Times -> BarRows \union {None}]
    <3>1. \A t \in DOMAIN feed : feed[t] \in Kinds
      BY <2>1, FeedsAssumption
    <3> HIDE DEF feed
    <3> QED
      BY <2>1, <3>1 DEF Upserted, BatchBounds, BarRows
  <2> QED
    BY <1>4, <2>1, <2>2
<1> QED
  BY <1>3, <1>5, <1>6, <1>7, <1>8 DEF QualityNext, qualityVars, Recalculate, LoadReport, CommitReview

LEMMA QualityKeepsShape ==
  QualityInv /\ BatchBounds /\ ReportsBounded => QualityTypeOK
<1> SUFFICES ASSUME QualityInv, BatchBounds, ReportsBounded PROVE QualityTypeOK
  OBVIOUS
<1>1. \A t \in Times : bars[t] # None => bars[t].source \in Providers /\ bars[t].kind \in Kinds
  BY DEF BatchBounds, BarRows
<1>2. ASSUME NEW k \in Keys
      PROVE  review[k] \in Statuses /\ (report[k] # None => report[k].total \in 0..Cardinality(Times))
  <2>1. Cardinality(Times) \in Nat
    BY FS_CardinalityType, QualityAssumption
  <2>2. report[k] # None => report[k].total \in Nat
    BY DEF QualityInv, RowShapes, MetricsRows
  <2> QED
    BY <2>1, <2>2 DEF ReportsBounded, QualityInv, ReviewShapes
<1>3. \A p \in Providers : coverage[p] # None => coverage[p].approved \in BOOLEAN
  BY DEF QualityInv, RowShapes, CoverageRows
<1>4. \A n \in DOMAIN trail : trail[n].key \in Keys
  <2>1. trail \in Seq(TrailRows)
    BY DEF QualityInv, ReviewShapes
  <2>2. \A n \in DOMAIN trail : trail[n] \in TrailRows
    BY <2>1
  <2> QED
    BY <2>2 DEF TrailRows
<1> QED
  BY <1>1, <1>2, <1>3, <1>4 DEF QualityTypeOK

(* A create has seen the rows before its own. *)
SeenBefore ==
    /\ \A n \in DOMAIN candidate :
          candidate[n].pair \in Results /\ candidate[n].seen \in 0..(n - 1)
    /\ \A c \in Creators : creating[c].stage = "checked" => creating[c].pair \in Results

LEMMA SeenStaysBefore ==
  ASSUME CandInv, [CandNext]_candVars, SeenBefore
  PROVE  SeenBefore'
<1>1. candidate \in Seq(CandRows) /\ Len(candidate) \in Nat /\ DOMAIN candidate = 1..Len(candidate)
  BY DEF CandInv, CandShapes
<1>2. CASE UNCHANGED candVars
  BY <1>2 DEF candVars, SeenBefore
<1>3. ASSUME NEW c \in Creators, NEW pair \in Pairs, CheckDuplicate(c, pair) PROVE SeenBefore'
  BY <1>3 DEF CheckDuplicate, SeenBefore, CandInv, CandShapes
<1>4. ASSUME NEW c \in Creators, CreateCandidate(c) PROVE SeenBefore'
  <2>1. PICK status \in CandidateStatuses :
           candidate' = Append(candidate, [pair |-> creating[c].pair, status |-> status,
                                           reviewed |-> FALSE, seen |-> creating[c].seen])
    BY <1>4 DEF CreateCandidate
  <2>2. /\ creating[c].stage = "checked" /\ creating[c].pair \in Pairs
        /\ creating[c].pair \in Results /\ creating[c].seen \in 0..Len(candidate)
        /\ creating' = [creating EXCEPT ![c] = NotCreating]
    BY <1>4 DEF CreateCandidate, CandInv, CandShapes, SeenBefore
  <2> DEFINE row == [pair |-> creating[c].pair, status |-> status, reviewed |-> FALSE,
                     seen |-> creating[c].seen]
  <2>3. row \in CandRows /\ row.pair \in Results /\ row.seen \in 0..Len(candidate)
    BY <2>2 DEF CandRows
  <2> HIDE DEF row
  <2>4. candidate' = Append(candidate, row)
    BY <2>1 DEF row
  <2>5. /\ DOMAIN candidate' = 1..(Len(candidate) + 1) /\ candidate'[Len(candidate) + 1] = row
        /\ \A n \in 1..Len(candidate) : candidate'[n] = candidate[n]
    BY <1>1, <2>3, <2>4
  <2>6. ASSUME NEW n \in DOMAIN candidate'
        PROVE  candidate'[n].pair \in Results /\ candidate'[n].seen \in 0..(n - 1)
    <3>1. CASE n = Len(candidate) + 1
      BY <1>1, <2>3, <2>5, <3>1
    <3>2. CASE n \in 1..Len(candidate)
      BY <1>1, <2>5, <3>2 DEF SeenBefore
    <3> QED
      BY <1>1, <2>5, <3>1, <3>2
  <2>7. \A d \in Creators : creating'[d].stage = "checked" => creating'[d] = creating[d]
    BY <2>2 DEF NotCreating, CandInv, CandShapes
  <2> QED
    BY <2>6, <2>7 DEF SeenBefore
<1>5. ASSUME NEW u \in Updaters, UpdateCandidate(u) PROVE SeenBefore'
  <2> DEFINE k == updating[u].row
  <2>1. PICK status \in CandidateStatuses \union {NoStatus}, named \in BOOLEAN :
           candidate' = [candidate EXCEPT
              ![k].status = IF status \in {NoStatus, updating[u].loaded} THEN @ ELSE status,
              ![k].reviewed = @ \/ status # NoStatus \/ named]
    BY <1>5 DEF UpdateCandidate
  <2>2. k \in 1..Len(candidate) /\ UNCHANGED creating
    BY <1>5 DEF UpdateCandidate, CandInv, CandShapes
  <2> DEFINE row == candidate[k]
             new == IF status \in {NoStatus, updating[u].loaded} THEN row.status ELSE status
             mark == row.reviewed \/ status # NoStatus \/ named
  <2>3. candidate' = [candidate EXCEPT ![k] = [row EXCEPT !.status = new, !.reviewed = mark]]
    BY <1>1, <2>1, <2>2
  <2>4. row \in CandRows
    BY <1>1, <2>2, ElementOfSeq
  <2> HIDE DEF k, new, mark, row
  <2>5. [row EXCEPT !.status = new, !.reviewed = mark]
            = [pair |-> row.pair, status |-> new, reviewed |-> mark, seen |-> row.seen]
    BY <2>4, RowWritten
  <2>6. /\ DOMAIN candidate' = DOMAIN candidate
        /\ \A n \in DOMAIN candidate : /\ candidate'[n].pair = candidate[n].pair
                                       /\ candidate'[n].seen = candidate[n].seen
    BY <1>1, <2>2, <2>3, <2>5 DEF row
  <2> QED
    BY <2>2, <2>6 DEF SeenBefore
<1>6. ASSUME NEW u \in Updaters, NEW n \in 1..MaxCandidates, LoadCandidate(u, n) PROVE SeenBefore'
  BY <1>6 DEF LoadCandidate, SeenBefore
<1> QED
  BY <1>2, <1>3, <1>4, <1>5, <1>6 DEF CandNext

LEMMA CandidatesKeepShape == CandInv /\ SeenBefore => CandTypeOK
<1> SUFFICES ASSUME CandInv, SeenBefore, NEW n \in DOMAIN candidate
             PROVE  /\ candidate[n].pair \in Results /\ candidate[n].status \in CandidateStatuses
                    /\ candidate[n].reviewed \in BOOLEAN /\ candidate[n].seen \in 0..(n - 1)
  BY DEF CandTypeOK
<1>1. candidate[n] \in CandRows
  BY ElementOfSeq DEF CandInv, CandShapes
<1> QED
  BY <1>1 DEF CandRows, SeenBefore

LEMMA RecommendationsKeepShape == RecInv => RecTypeOK
  BY DEF RecInv, RecShapes, RecTypeOK, RecRows, Decisions

LEMMA RankingKeepsShape == RankingInv => RankingTypeOK
<1> SUFFICES ASSUME RankingInv PROVE RankingTypeOK
  OBVIOUS
<1>1. \A n \in DOMAIN rows : rows[n] \in Measures \union {NoFigure}
  <2>1. rows \in Seq(Figures)
    BY DEF RankingInv, RankingShape, Judgeable
  <2> QED
    BY <2>1, ElementOfSeq DEF Figures
<1>2. reports \in Seq(ReportRows)
  BY DEF RankingInv, RankingShape
<1>3. \A i \in DOMAIN reports : reports[i] \in ReportRows
  BY <1>2
<1> QED
  BY <1>1, <1>3 DEF RankingInv, RankingShape, RankingTypeOK, ReportRows

LEMMA ResultsKeepShape == ResultsInv => ResultsTypeOK
<1> SUFFICES ASSUME ResultsInv PROVE ResultsTypeOK
  OBVIOUS
<1>1. \A n \in DOMAIN ledger : ledger[n] \in TradeRows
  BY DEF ResultsInv
<1>2. ASSUME NEW n \in DOMAIN ledger
      PROVE  ledger[n].gain \in Gains /\ ledger[n].level \in {"low", "medium", "high"}
  <2>1. ledger[n] \in TradeRows /\ ledger[n].level \in Levels
    BY <1>1, TradeIs
  <2>2. PICK g \in Gains, m \in Markets : ledger[n] = TradeRow(g, m)
    BY <2>1 DEF TradeRows
  <2> QED
    BY <2>1, <2>2 DEF TradeRow, Levels
<1> QED
  BY <1>2 DEF ResultsInv, ResultsTypeOK

(* The rows of the prompts: what each column may say, and how many there   *)
(* are; what is told of a sweep or a request names one of them.            *)
Numbers == 0..(VersionRoom + 1)

PromptShapes ==
    /\ edited \in BOOLEAN /\ running \in BOOLEAN /\ catalyst \in BOOLEAN
    /\ Len(engine) \in Numbers
    /\ \A n \in DOMAIN engine : engine[n].user \in Texts \union {Unseeded}
    /\ applying \in [Applies -> Numbers]
    /\ requests \in [Askers -> {NoRequest} \union [stage : {"waiting"}, used : Texts, edited : BOOLEAN]]
    /\ sweeping.left \in 0..SweptAssets
    /\ \A n \in DOMAIN sweeping.models : sweeping.models[n] \in Numbers
    /\ \A n \in DOMAIN models : models[n] \in Numbers
    /\ \A s \in signals \union sweeping.signals : s.prompt \in Numbers

LEMMA PromptShapesStart == PromptsInit => PromptShapes
<1> SUFFICES ASSUME PromptsInit PROVE PromptShapes
  OBVIOUS
<1>1. 0 \in Numbers /\ 1 \in Numbers
  BY PromptAssumption DEF Numbers
<1> HIDE DEF Numbers
<1>2. engine = <<>> \/ \E row : row.user = Unseeded /\ engine = <<row>>
  BY DEF PromptsInit, PromptRow
<1>3. Len(engine) \in Numbers /\ \A n \in DOMAIN engine : engine[n].user \in Texts \union {Unseeded}
  <2>1. CASE engine = <<>>
    BY <1>1, <2>1
  <2>2. ASSUME NEW row, row.user = Unseeded, engine = <<row>>
        PROVE  Len(engine) \in Numbers /\ \A n \in DOMAIN engine : engine[n].user \in Texts \union {Unseeded}
    <3>1. Len(engine) = 1 /\ DOMAIN engine = {1} /\ engine[1] = row
      BY <2>2
    <3> QED
      BY <1>1, <2>2, <3>1
  <2> QED
    BY <1>2, <2>1, <2>2
<1>4. sweeping.left = 0 /\ sweeping.models = <<>> /\ sweeping.signals = {}
  BY DEF PromptsInit, NoSweep
<1>5. 0 \in 0..SweptAssets
  BY PromptAssumption
<1>6. /\ applying \in [Applies -> Numbers] /\ models = <<>> /\ signals = {}
      /\ edited = FALSE /\ running = FALSE /\ catalyst = FALSE
      /\ requests = [q \in Askers |-> NoRequest]
  BY <1>1 DEF PromptsInit
<1>7. requests \in [Askers -> {NoRequest} \union [stage : {"waiting"}, used : Texts, edited : BOOLEAN]]
  BY <1>6
<1>8. \A s \in signals \union sweeping.signals : s.prompt \in Numbers
  BY <1>4, <1>6
<1>9. /\ \A n \in DOMAIN sweeping.models : sweeping.models[n] \in Numbers
      /\ \A n \in DOMAIN models : models[n] \in Numbers
  BY <1>4, <1>6
<1> QED
  BY <1>3, <1>4, <1>5, <1>6, <1>7, <1>8, <1>9 DEF PromptShapes

LEMMA PromptShapesKept ==
  ASSUME PromptsInv, PromptShapes, [PromptsNext]_promptVars
  PROVE  PromptShapes'
<1>1. /\ engine \in Seq(PromptRows) /\ models \in Seq(Nat) /\ sweeping.models \in Seq(Nat)
      /\ disk \in Texts /\ Len(engine) \in Nat /\ DOMAIN engine = 1..Len(engine)
  BY DEF PromptsInv, EngineShape
<1>2. 0 \in Numbers /\ 0 \in 0..SweptAssets /\ Newest \in Numbers /\ Numbers \subseteq Nat
  BY PromptAssumption DEF Numbers, Newest, PromptShapes
<1>3. CASE UNCHANGED promptVars
  BY <1>3 DEF promptVars, PromptShapes
<1>4. CASE Start
  <2>1. /\ running' = TRUE /\ edited' = FALSE /\ applying' = [a \in Applies |-> 0]
        /\ requests' = [q \in Askers |-> NoRequest] /\ sweeping' = NoSweep
        /\ UNCHANGED <<disk, models, signals>>
        /\ catalyst' \in {catalyst, TRUE}
    BY <1>4 DEF Start
  <2>2. Len(engine') \in Numbers /\ \A n \in DOMAIN engine' : engine'[n].user \in Texts \union {Unseeded}
    <3>1. CASE engine = <<>>
      BY <1>4, <3>1 DEF Start, PromptShapes
    <3>2. CASE engine # <<>>
      <4> DEFINE row == SeedUser(SeedSystem(engine[1]))
      <4>1. engine' = [engine EXCEPT ![1] = row] /\ 1 \in DOMAIN engine
        BY <1>1, <1>4, <3>2 DEF Start, SeededRows
      <4>2. row.user \in Texts \union {Unseeded}
        <5>1. engine[1] \in PromptRows /\ engine[1].user \in Texts \union {Unseeded}
          BY <1>1, <4>1 DEF PromptShapes
        <5> DEFINE seeded == SeedSystem(engine[1])
        <5>2. seeded.user = engine[1].user /\ DOMAIN seeded = DOMAIN engine[1]
          BY <5>1 DEF SeedSystem, PromptRows
        <5> HIDE DEF seeded
        <5>3. "user" \in DOMAIN seeded
          BY <5>1, <5>2 DEF PromptRows
        <5>4. SeedUser(seeded).user \in {seeded.user, disk}
          BY <5>3 DEF SeedUser
        <5> QED
          BY <1>1, <5>1, <5>2, <5>4 DEF seeded
      <4> HIDE DEF row
      <4>3. engine' \in Seq(PromptRows) \/ Len(engine') = Len(engine)
        BY <1>1, <4>1
      <4>4. Len(engine') = Len(engine) /\ DOMAIN engine' = DOMAIN engine
            /\ \A n \in DOMAIN engine : engine'[n] = IF n = 1 THEN row ELSE engine[n]
        BY <1>1, <4>1
      <4> QED
        BY <4>2, <4>4 DEF PromptShapes
    <3> QED
      BY <3>1, <3>2
  <2>3. sweeping'.left = 0 /\ sweeping'.models = <<>> /\ sweeping'.signals = {}
    BY <2>1 DEF NoSweep
  <2>4. edited' \in BOOLEAN /\ running' \in BOOLEAN /\ catalyst' \in BOOLEAN
    BY <2>1 DEF PromptShapes
  <2>5. /\ applying' \in [Applies -> Numbers]
        /\ requests' \in [Askers -> {NoRequest} \union [stage : {"waiting"}, used : Texts, edited : BOOLEAN]]
    BY <1>2, <2>1
  <2>6. /\ \A n \in DOMAIN models' : models'[n] \in Numbers
        /\ \A s \in signals' \union sweeping'.signals : s.prompt \in Numbers
        /\ \A n \in DOMAIN sweeping'.models : sweeping'.models[n] \in Numbers
    BY <2>1, <2>3 DEF PromptShapes
  <2> QED
    BY <1>2, <2>2, <2>3, <2>4, <2>5, <2>6 DEF PromptShapes
<1>5. CASE EditFiles
  BY <1>5 DEF EditFiles, PromptShapes
<1>6. ASSUME NEW a \in Applies, LoadHighest(a) PROVE PromptShapes'
  <2>1. /\ applying' = [applying EXCEPT ![a] = Len(engine)]
        /\ UNCHANGED <<disk, edited, running, engine, catalyst, requests, sweeping, models, signals>>
    BY <1>6 DEF LoadHighest
  <2>2. applying' \in [Applies -> Numbers]
    BY <2>1 DEF PromptShapes
  <2>3. \A s \in signals' \union sweeping'.signals : s.prompt \in Numbers
    BY <2>1 DEF PromptShapes
  <2> QED
    BY <2>1, <2>2, <2>3 DEF PromptShapes
<1>7. ASSUME NEW a \in Applies, AddAdapted(a) PROVE PromptShapes'
  <2>1. /\ applying' = [applying EXCEPT ![a] = 0]
        /\ UNCHANGED <<disk, edited, running, catalyst, requests, sweeping, models, signals>>
    BY <1>7 DEF AddAdapted
  <2>2. Len(engine') \in Numbers /\ \A n \in DOMAIN engine' : engine'[n].user \in Texts \union {Unseeded}
    <3>1. CASE applying[a] = Len(engine) /\ applying[a] <= VersionRoom
      <4> DEFINE row == [engine[Len(engine)] EXCEPT !.system = Proposed, !.by = "apply"]
      <4>1. engine' = Append(engine, row) /\ Len(engine) # 0 /\ Len(engine) <= VersionRoom
        BY <1>7, <3>1 DEF AddAdapted
      <4>2. Len(engine) \in DOMAIN engine
        BY <1>1, <4>1
      <4>3. row.user = engine[Len(engine)].user
        OBVIOUS
      <4> HIDE DEF row
      <4>4. Len(engine') = Len(engine) + 1 /\ DOMAIN engine' = 1..(Len(engine) + 1)
            /\ \A n \in DOMAIN engine' : engine'[n] = IF n = Len(engine) + 1 THEN row ELSE engine[n]
        BY <1>1, <4>1
      <4>5. Len(engine') \in Numbers
        BY <1>1, <4>1, <4>4, PromptAssumption DEF Numbers
      <4>6. \A n \in DOMAIN engine' : engine'[n].user \in Texts \union {Unseeded}
        <5>1. \A n \in 1..Len(engine) : engine[n].user \in Texts \union {Unseeded}
          BY <1>1 DEF PromptShapes
        <5>2. \A n \in DOMAIN engine' : n = Len(engine) + 1 \/ n \in 1..Len(engine)
          BY <1>1, <4>4
        <5>3. \A n \in 1..Len(engine) : n # Len(engine) + 1
          BY <1>1
        <5>4. row.user \in Texts \union {Unseeded}
          BY <1>1, <4>2, <4>3, <5>1
        <5> QED
          BY <4>4, <5>1, <5>2, <5>3, <5>4
      <4> QED
        BY <4>5, <4>6
    <3>2. CASE ~ (applying[a] = Len(engine) /\ applying[a] <= VersionRoom)
      BY <1>7, <3>2 DEF AddAdapted, PromptShapes
    <3> QED
      BY <3>1, <3>2
  <2>3. applying' \in [Applies -> Numbers]
    BY <1>2, <2>1 DEF PromptShapes
  <2> QED
    BY <2>1, <2>2, <2>3 DEF PromptShapes
<1>8. Request \in [stage : {"waiting"}, used : Texts, edited : BOOLEAN]
  BY <1>1 DEF Request, PromptShapes
<1>9. ASSUME NEW q \in Askers, Ask(q) \/ AnswerRefused(q) PROVE PromptShapes'
  BY <1>8, <1>9 DEF Ask, AnswerRefused, PromptShapes
<1>10. ASSUME NEW q \in Askers, AnswerKept(q) PROVE PromptShapes'
  <2>1. PICK t \in SoundAnswers :
            signals' = signals \union {SignalRow(Newest, Len(models'), requests[q], t)}
    BY <1>10 DEF AnswerKept
  <2>2. /\ models' = Append(models, Newest) /\ requests' = [requests EXCEPT ![q] = NoRequest]
        /\ UNCHANGED <<disk, edited, running, engine, catalyst, applying, sweeping>>
    BY <1>10 DEF AnswerKept
  <2>3. SignalRow(Newest, Len(models'), requests[q], t).prompt = Newest
    BY DEF SignalRow
  <2>4. \A n \in DOMAIN models' : models'[n] \in Numbers
    <3> DEFINE k == Newest
    <3>1. k \in Numbers /\ models' = Append(models, k)
      BY <1>2, <2>2
    <3> HIDE DEF k
    <3> QED
      BY <1>1, <3>1 DEF PromptShapes
  <2> QED
    BY <1>2, <2>1, <2>2, <2>3, <2>4 DEF PromptShapes
<1>11. CASE StartSweep
  <2>1. /\ sweeping' = [NoSweep EXCEPT !.left = SweptAssets, !.request = Request]
        /\ UNCHANGED <<disk, edited, running, engine, catalyst, applying, requests, models, signals>>
    BY <1>11 DEF StartSweep
  <2>2. sweeping'.left = SweptAssets /\ sweeping'.models = <<>> /\ sweeping'.signals = {}
    BY <2>1 DEF NoSweep
  <2>3. SweptAssets \in 0..SweptAssets
    BY PromptAssumption
  <2> QED
    BY <2>1, <2>2, <2>3 DEF PromptShapes
<1>12. CASE SweepAsset
  <2> DEFINE kept == sweeping.models
  <2>1. PICK ms, ss :
          /\ \/ ms = kept /\ ss = sweeping.signals
             \/ ms = Append(kept, Newest) /\ ss = sweeping.signals
             \/ /\ ms = Append(kept, Newest)
                /\ \E t \in SoundAnswers :
                       ss = sweeping.signals \union {SignalRow(0, 0, sweeping.request, t)}
          /\ IF sweeping.left > 1
             THEN /\ sweeping' = [left |-> sweeping.left - 1, request |-> Request,
                                  models |-> ms, signals |-> ss]
                  /\ UNCHANGED <<models, signals>>
             ELSE /\ sweeping' = NoSweep /\ models' = models \o ms /\ signals' = signals \union ss
    BY <1>12, Zenon DEF SweepAsset
  <2>2. UNCHANGED <<disk, edited, running, engine, catalyst, applying, requests>>
    BY <1>12 DEF SweepAsset
  <2>3. ms \in Seq(Nat) /\ \A n \in DOMAIN ms : ms[n] \in Numbers
    <3> DEFINE k == Newest
    <3>1. k \in Numbers /\ k \in Nat /\ (ms = kept \/ ms = Append(kept, k))
      BY <1>2, <2>1
    <3>2. kept \in Seq(Nat) /\ \A n \in DOMAIN kept : kept[n] \in Numbers
      BY <1>1 DEF PromptShapes
    <3> HIDE DEF k, kept
    <3> QED
      BY <3>1, <3>2
  <2>4. \A s \in ss : s.prompt \in Numbers
    BY <1>2, <2>1 DEF PromptShapes, SignalRow
  <2>5. CASE sweeping.left > 1
    <3>1. sweeping'.left = sweeping.left - 1 /\ sweeping'.models = ms /\ sweeping'.signals = ss
          /\ UNCHANGED <<models, signals>>
      BY <2>1, <2>5
    <3>2. sweeping.left - 1 \in 0..SweptAssets
      BY <2>5, PromptAssumption DEF PromptShapes
    <3> QED
      BY <2>2, <2>3, <2>4, <3>1, <3>2 DEF PromptShapes
  <2>6. CASE ~ (sweeping.left > 1)
    <3>1. sweeping' = NoSweep /\ models' = models \o ms /\ signals' = signals \union ss
      BY <2>1, <2>6
    <3>2. \A n \in DOMAIN models' : models'[n] \in Numbers
      BY <1>1, <2>3, <3>1 DEF PromptShapes
    <3>3. sweeping'.left = 0 /\ sweeping'.models = <<>> /\ sweeping'.signals = {}
      BY <3>1 DEF NoSweep
    <3> QED
      BY <1>2, <2>2, <2>4, <3>1, <3>2, <3>3 DEF PromptShapes
  <2> QED
    BY <2>5, <2>6
<1> QED
  BY <1>3, <1>4, <1>5, <1>6, <1>7, <1>9, <1>10, <1>11, <1>12 DEF PromptsNext

LEMMA PromptsKeepShape == PromptsInv /\ PromptShapes => PromptsTypeOK
<1> SUFFICES ASSUME PromptsInv, PromptShapes PROVE PromptsTypeOK
  OBVIOUS
<1>1. \A n \in DOMAIN engine : engine[n].system \in Texts \union {Proposed, Unseeded}
  <2>1. engine \in Seq(PromptRows)
    BY DEF PromptsInv, EngineShape
  <2>2. \A n \in DOMAIN engine : engine[n] \in PromptRows
    BY <2>1
  <2> QED
    BY <2>2 DEF PromptRows, Said
<1> QED
  BY <1>1 DEF PromptsInv, EngineShape, PromptShapes, PromptsTypeOK, Numbers, NoRequest

-----------------------------------------------------------------------------
LEMMA StepsOfRecords ==
  [MCNext]_recordsVars =>
      /\ [QualityNext]_qualityVars /\ [ResultsNext]_resultVars /\ [RankingNext]_rankingVars
      /\ [RecNext]_recVars /\ [CandNext]_candVars
<1> SUFFICES ASSUME [MCNext]_recordsVars
             PROVE  /\ [QualityNext]_qualityVars /\ [ResultsNext]_resultVars
                    /\ [RankingNext]_rankingVars /\ [RecNext]_recVars /\ [CandNext]_candVars
  OBVIOUS
<1>1. CASE MCNext
  <2>1. CASE focus = "quality"
    BY <1>1, <2>1 DEF MCNext, QualityStep
  <2>2. CASE focus = "ranking"
    BY <1>1, <2>2 DEF MCNext, RankingStep
  <2>3. CASE focus \notin {"quality", "ranking"}
    BY <1>1, <2>3 DEF MCNext
  <2> QED
    BY <2>1, <2>2, <2>3
<1>2. CASE UNCHANGED recordsVars
  BY <1>2 DEF recordsVars
<1> QED
  BY <1>1, <1>2

(* Every variable of the records keeps its shape: the schema is of the     *)
(* models' tables and columns, bars are of a provider, a report is on no   *)
(* more bars than there are times, a create saw the rows before its own,   *)
(* and a signal names a row of the prompts that there is.                  *)
THEOREM RecordsKeepShapes == MCSpec => []RecordsTypeOK
<1> DEFINE Inv == /\ MigrationInv /\ QualityInv /\ ResultsInv /\ RankingInv /\ RecInv /\ CandInv
                  /\ PromptsInv /\ ScheduleInv
           Shapes == BatchBounds /\ ReportsBounded /\ SeenBefore /\ PromptShapes
<1>1. MCInit => Inv
  BY MigrationStart, QualityStart, ResultsStart, RankingStart, RecStart, CandStart, PromptsStart,
     ScheduleStart
  DEF MCInit
<1>2. MCInit => Shapes
  <2> SUFFICES ASSUME MCInit PROVE Shapes
    OBVIOUS
  <2>1. BatchBounds /\ ReportsBounded
    BY DEF MCInit, QualityInit, BatchBounds, ReportsBounded, NotFetched
  <2>2. SeenBefore
    BY DEF MCInit, CandInit, SeenBefore, NotCreating
  <2> QED
    BY <2>1, <2>2, PromptShapesStart DEF MCInit
<1>3. Inv /\ [MCNext]_recordsVars => Inv'
  BY StepsOfDeployments, StepsOfRecords, MigrationInductive, QualityInductive, ResultsInductive,
     RankingInductive, RecInductive, CandInductive, PromptsInductive, ScheduleStepKeeps
<1>4. Inv /\ Shapes /\ [MCNext]_recordsVars => Shapes'
  BY StepsOfDeployments, StepsOfRecords, BoundsOfBatches, BoundsOfReports, SeenStaysBefore,
     PromptShapesKept
<1>5. Inv /\ Shapes => RecordsTypeOK
  BY MigrationsTold, QualityKeepsShape, ResultsKeepShape, RankingKeepsShape, RecommendationsKeepShape,
     CandidatesKeepShape, PromptsKeepShape
  DEF RecordsTypeOK, ScheduleInv
<1> HIDE DEF Inv, Shapes
<1> QED
  BY <1>1, <1>2, <1>3, <1>4, <1>5, PTL DEF MCSpec
=============================================================================
