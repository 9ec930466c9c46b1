----------------------------- MODULE PagesProofs -----------------------------
(***************************************************************************)
(* What the operator reads and controls.  The requests that arm and disarm,*)
(* any number of them overlapping over any number of days; the reports of  *)
(* the day, which add up to what the trades made; the risk rules, which    *)
(* judge the losses that were known; the pages of what needs attention;    *)
(* and what the status card, the checklist and the gates say of the same   *)
(* settings.                                                               *)
(***************************************************************************)
EXTENDS MCPages, SumTheorems, FiniteSetTheorems, SequenceTheorems, TLAPS

Rows == [state : {"armed", "disarmed"}, at : Nat \union {Unset}, until : Nat \union {Unset}]

Handled == [stage : {"idle", "looked", "awaiting", "accepted", "loaded", "answered", "rejected"},
            kind : {"none", "arm", "disarm"}, seen : Nat \union {Unset},
            at : Nat \union {Unset}, loaded : Rows \union {NoRow},
            left : {"none", "armed", "disarmed"}]

Shapes ==
    /\ now \in Nat
    /\ row \in Rows /\ RowConstraints(row)
    /\ request \in [ArmRequests -> Handled]

(* What an accepted request has behind it, and what it has loaded.         *)
Vetted(q) ==
    /\ q.kind \in {"arm", "disarm"}
    /\ q.kind = "arm" => q.at \in Nat /\ q.at <= now /\ Fresh(q.seen, q.at)

Progress ==
    \A r \in ArmRequests :
        /\ request[r].stage = "awaiting" =>
              request[r].kind = "arm" /\ request[r].at \in Nat /\ request[r].at <= now
        /\ request[r].stage \in {"accepted", "loaded", "answered"} => Vetted(request[r])
        /\ request[r].stage \in {"loaded", "answered"} =>
              request[r].loaded \in Rows /\ RowConstraints(request[r].loaded)

(* The expiry on the row is that of an arm request that has answered.      *)
Granted(u) ==
    \E r \in ArmRequests : /\ request[r].kind = "arm" /\ request[r].stage = "answered"
                           /\ u = Expiry(request[r].at)

ExpiryGranted == row.until # Unset => Granted(row.until)

ArmInv == Shapes /\ Progress /\ AnswersTrue /\ ExpiryGranted

-----------------------------------------------------------------------------

(* A midnight is a time, and the day of t lasts until the midnight that    *)
(* ends it.                                                                *)
LEMMA ExpiryIsTime ==
  ASSUME NEW t \in Nat
  PROVE  Expiry(t) \in Nat
<1>1. t \div TicksPerDay \in Nat
  BY ArmingAssumption, Z3
<1> QED
  BY <1>1, ArmingAssumption DEF Expiry, DayOf

LEMMA SameDay ==
  ASSUME NEW t \in Nat, NEW c \in Nat, t <= c, c < Expiry(t)
  PROVE  DayOf(c) = DayOf(t)
BY ArmingAssumption, SMTT(30) DEF Expiry, DayOf

-----------------------------------------------------------------------------

LEMMA ArmStart == ArmInit => ArmInv
<1>1. Unset \notin Nat
  BY ArmingAssumption
<1> QED
  BY <1>1 DEF ArmInit, ArmInv, Shapes, Progress, AnswersTrue, ExpiryGranted, Rows, Handled,
              RowConstraints, NoRequestYet, NoRow

(* A request goes on to a stage before its answer.                         *)
LEMMA RequestStep ==
  ASSUME ArmInv, NEW r \in ArmRequests, NEW q \in Handled,
         request[r].stage # "answered", q.stage # "answered",
         request' = [request EXCEPT ![r] = q], UNCHANGED <<now, row>>,
         q.stage = "awaiting" => q.kind = "arm" /\ q.at \in Nat /\ q.at <= now,
         q.stage \in {"accepted", "loaded"} => Vetted(q),
         q.stage = "loaded" => q.loaded \in Rows /\ RowConstraints(q.loaded)
  PROVE  ArmInv'
<1>1. /\ request' \in [ArmRequests -> Handled] /\ request'[r] = q
      /\ \A p \in ArmRequests \ {r} : request'[p] = request[p]
  BY DEF ArmInv, Shapes
<1>2. Shapes'
  BY <1>1 DEF ArmInv, Shapes, RowConstraints
<1>3. Progress'
  BY <1>1 DEF ArmInv, Progress, Vetted, Fresh, RowConstraints
<1>4. AnswersTrue'
  BY <1>1 DEF ArmInv, AnswersTrue, Expiry, DayOf
<1>5. ExpiryGranted'
  BY <1>1 DEF ArmInv, ExpiryGranted, Granted, Expiry, DayOf
<1> QED
  BY <1>2, <1>3, <1>4, <1>5 DEF ArmInv

LEMMA ReadKeeps ==
  ASSUME ArmInv, NEW r \in ArmRequests, ReadEnablement(r)
  PROVE  ArmInv'
<1> DEFINE q == [request[r] EXCEPT !.stage = "looked", !.seen = now]
<1>1. q \in Handled /\ q.stage = "looked"
  BY DEF ArmInv, Shapes, Handled
<1>2. request' = [request EXCEPT ![r] = q] /\ UNCHANGED <<now, row>>
  BY DEF ReadEnablement, Others
<1>3. request[r].stage # "answered"
  BY DEF ReadEnablement
<1> QED
  BY <1>1, <1>2, <1>3, RequestStep

LEMMA StartArmKeeps ==
  ASSUME ArmInv, NEW r \in ArmRequests, StartArm(r)
  PROVE  ArmInv'
<1> DEFINE q == [request[r] EXCEPT !.stage = "awaiting", !.kind = "arm", !.at = now]
<1>1. q \in Handled /\ q.stage = "awaiting" /\ q.kind = "arm" /\ q.at = now /\ now \in Nat
  BY DEF ArmInv, Shapes, Handled
<1>2. request' = [request EXCEPT ![r] = q] /\ UNCHANGED <<now, row>>
  BY DEF StartArm, Others
<1>3. request[r].stage # "answered" /\ now <= now
  BY <1>1 DEF StartArm
<1> QED
  BY <1>1, <1>2, <1>3, RequestStep

LEMMA CheckArmKeeps ==
  ASSUME ArmInv, NEW r \in ArmRequests, CheckArm(r)
  PROVE  ArmInv'
<1> DEFINE Q(stage) == [request[r] EXCEPT !.stage = stage]
<1>1. PICK stage \in {"accepted", "rejected"} :
          /\ request' = [request EXCEPT ![r] = Q(stage)]
          /\ stage = "accepted" => Fresh(request[r].seen, request[r].at)
  BY DEF CheckArm, Acceptable
<1>2. UNCHANGED <<now, row>> /\ request[r].stage = "awaiting"
  BY DEF CheckArm, Others
<1>3. /\ Q(stage) \in Handled /\ Q(stage).stage = stage
      /\ Q(stage).kind = "arm" /\ Q(stage).at \in Nat /\ Q(stage).at <= now
      /\ Q(stage).at = request[r].at /\ Q(stage).seen = request[r].seen
  BY <1>2 DEF ArmInv, Shapes, Progress, Handled
<1>4. stage = "accepted" => Vetted(Q(stage))
  BY <1>1, <1>3 DEF Vetted
<1> HIDE DEF Q
<1> QED
  BY <1>1, <1>2, <1>3, <1>4, RequestStep

LEMMA StartDisarmKeeps ==
  ASSUME ArmInv, NEW r \in ArmRequests, StartDisarm(r)
  PROVE  ArmInv'
<1> DEFINE Q(stage) == [request[r] EXCEPT !.stage = stage, !.kind = "disarm", !.at = now]
<1>1. PICK stage \in {"accepted", "rejected"} : request' = [request EXCEPT ![r] = Q(stage)]
  BY DEF StartDisarm
<1>2. UNCHANGED <<now, row>> /\ request[r].stage # "answered"
  BY DEF StartDisarm, Others
<1>3. Q(stage) \in Handled /\ Q(stage).stage = stage /\ Q(stage).kind = "disarm"
  BY DEF ArmInv, Shapes, Handled
<1>4. Vetted(Q(stage))
  BY <1>3 DEF Vetted
<1> HIDE DEF Q
<1> QED
  BY <1>1, <1>2, <1>3, <1>4, RequestStep

LEMMA LoadKeeps ==
  ASSUME ArmInv, NEW r \in ArmRequests, LoadRow(r)
  PROVE  ArmInv'
<1> DEFINE q == [request[r] EXCEPT !.stage = "loaded", !.loaded = row]
<1>1. /\ q \in Handled /\ q.stage = "loaded" /\ q.loaded \in Rows /\ RowConstraints(q.loaded)
      /\ q.kind = request[r].kind /\ q.at = request[r].at /\ q.seen = request[r].seen
  BY DEF ArmInv, Shapes, Handled, RowConstraints
<1>2. /\ request' = [request EXCEPT ![r] = q] /\ UNCHANGED <<now, row>>
      /\ request[r].stage = "accepted"
  BY DEF LoadRow, Others
<1>3. Vetted(q)
  BY <1>1, <1>2 DEF ArmInv, Progress, Vetted
<1> HIDE DEF q
<1> QED
  BY <1>1, <1>2, <1>3, RequestStep

-----------------------------------------------------------------------------

(* A commit leaves each column as it is or as it was wanted.               *)
LEMMA UpdatedColumns ==
  ASSUME row \in Rows, NEW loaded \in Rows, NEW wanted \in Rows
  PROVE  LET new == Updated(loaded, wanted) IN
         /\ new \in Rows
         /\ new.state = IF wanted.state = loaded.state THEN row.state ELSE wanted.state
         /\ new.until = IF wanted.until = loaded.until THEN row.until ELSE wanted.until
BY DEF Updated, Rows

LEMMA WantedIsRow ==
  ASSUME ArmInv, NEW r \in ArmRequests, request[r].stage = "loaded"
  PROVE  /\ Wanted(r) \in Rows /\ request[r].loaded \in Rows
         /\ request[r].kind = "arm" =>
               /\ Wanted(r).state = "armed" /\ Wanted(r).until = Expiry(request[r].at)
               /\ Expiry(request[r].at) \in Nat
         /\ request[r].kind # "arm" => Wanted(r).state = "disarmed" /\ Wanted(r).until = Unset
<1>1. request[r].loaded \in Rows /\ Vetted(request[r])
  BY DEF ArmInv, Progress
<1>2. CASE request[r].kind = "arm"
  <2>1. request[r].at \in Nat
    BY <1>1, <1>2 DEF Vetted
  <2>2. Expiry(request[r].at) \in Nat
    BY <2>1, ExpiryIsTime
  <2> QED
    BY <1>1, <1>2, <2>1, <2>2 DEF Wanted, Rows
<1>3. CASE request[r].kind # "arm"
  BY <1>1, <1>3 DEF Wanted, Rows
<1> QED
  BY <1>2, <1>3

LEMMA CommitKeeps ==
  ASSUME ArmInv, NEW r \in ArmRequests, CommitRow(r)
  PROVE  ArmInv'
<1> DEFINE new == Updated(request[r].loaded, Wanted(r))
           q == [request[r] EXCEPT !.stage = "answered", !.left = new.state]
<1>1. /\ request[r].stage = "loaded" /\ row \in Rows /\ UNCHANGED now
      /\ Wanted(r) \in Rows /\ request[r].loaded \in Rows
  BY WantedIsRow DEF CommitRow, ArmInv, Shapes
<1>2. CASE ~ RowConstraints(new)
  <2> DEFINE p == [request[r] EXCEPT !.stage = "rejected"]
  <2>1. p \in Handled /\ p.stage = "rejected"
    BY DEF ArmInv, Shapes, Handled
  <2>2. request' = [request EXCEPT ![r] = p] /\ UNCHANGED <<now, row>>
    BY <1>2 DEF CommitRow
  <2> HIDE DEF p
  <2> QED
    BY <1>1, <2>1, <2>2, RequestStep
<1>3. CASE RowConstraints(new)
  <2>1. row' = new /\ request' = [request EXCEPT ![r] = q]
    BY <1>3 DEF CommitRow
  <2>2. /\ new \in Rows
        /\ new.state = IF Wanted(r).state = request[r].loaded.state
                       THEN row.state ELSE Wanted(r).state
        /\ new.until = IF Wanted(r).until = request[r].loaded.until
                       THEN row.until ELSE Wanted(r).until
    BY <1>1, UpdatedColumns
  <2> HIDE DEF new
  <2>3. /\ request[r].kind = "arm" =>
              /\ Wanted(r).state = "armed" /\ Wanted(r).until = Expiry(request[r].at)
              /\ Expiry(request[r].at) # Unset
        /\ request[r].kind # "arm" => Wanted(r).state = "disarmed" /\ Wanted(r).until = Unset
    <3>1. \A u \in Nat : u # Unset
      BY ArmingAssumption
    <3> QED
      BY <1>1, <3>1, WantedIsRow
  <2>4. /\ q \in Handled /\ q.stage = "answered" /\ q.left = new.state
        /\ q.kind = request[r].kind /\ q.at = request[r].at /\ q.seen = request[r].seen
        /\ q.loaded = request[r].loaded
    BY <2>2 DEF ArmInv, Shapes, Handled, Rows
  <2> HIDE DEF q
  <2>5. /\ request' \in [ArmRequests -> Handled] /\ request'[r] = q
        /\ \A p \in ArmRequests \ {r} : request'[p] = request[p]
    BY <2>1, <2>4 DEF ArmInv, Shapes
  <2>6. Shapes'
    BY <1>1, <1>3, <2>1, <2>2, <2>5 DEF ArmInv, Shapes, RowConstraints
  <2>7. Vetted(request[r]) /\ RowConstraints(request[r].loaded)
    BY <1>1 DEF ArmInv, Progress
  <2>8. Progress'
    BY <1>1, <2>4, <2>5, <2>7 DEF ArmInv, Progress, Vetted, RowConstraints, Fresh
  <2>9. q.kind = "arm" => q.left = "armed" \/ q.loaded.until = Expiry(q.at)
    <3> SUFFICES ASSUME q.kind = "arm", new.state # "armed"
                 PROVE  q.loaded.until = Expiry(q.at)
      BY <2>4
    <3>1. new.state = "disarmed" /\ new.until = Unset
      BY <1>3, <2>2 DEF RowConstraints, Rows
    <3>2. request[r].kind = "arm"
      BY <2>4
    <3>3. Wanted(r).until = Expiry(request[r].at) /\ Expiry(request[r].at) # Unset
      BY <2>3, <3>2
    <3>4. Wanted(r).until = request[r].loaded.until
      BY <2>2, <3>1, <3>3
    <3> QED
      BY <2>4, <3>3, <3>4
  <2>10. q.kind # "arm" => q.left = "disarmed" \/ q.loaded.state = "disarmed"
    BY <2>2, <2>3, <2>4
  <2>11. AnswersTrue'
    BY <2>4, <2>5, <2>7, <2>9, <2>10 DEF ArmInv, AnswersTrue, Vetted, Expiry, DayOf
  <2> DEFINE G(u) == \E p \in ArmRequests :
                        /\ request'[p].kind = "arm" /\ request'[p].stage = "answered"
                        /\ u = Expiry(request'[p].at)
  <2>12. row.until # Unset => G(row.until)
    BY <1>1, <2>5 DEF ArmInv, ExpiryGranted, Granted
  <2>13. q.kind = "arm" => G(Expiry(q.at))
    BY <2>4, <2>5
  <2>14. ASSUME new.until # Unset
         PROVE  G(new.until)
    <3>1. CASE new.until = row.until
      BY <2>12, <2>14, <3>1
    <3>2. CASE new.until # row.until
      <4>1. new.until = Wanted(r).until /\ Wanted(r).until # Unset
        BY <2>2, <2>14, <3>2
      <4>2. request[r].kind = "arm"
        BY <2>3, <4>1
      <4>3. Wanted(r).until = Expiry(request[r].at)
        BY <2>3, <4>2
      <4>4. q.kind = "arm" /\ new.until = Expiry(q.at)
        BY <2>4, <4>1, <4>2, <4>3
      <4> QED
        BY <2>13, <4>4
    <3> QED
      BY <3>1, <3>2
  <2>15. ExpiryGranted'
    BY <2>1, <2>14 DEF ExpiryGranted, Granted, Expiry, DayOf
  <2> QED
    BY <2>6, <2>8, <2>11, <2>15 DEF ArmInv
<1> QED
  BY <1>2, <1>3

LEMMA TickKeeps ==
  ASSUME ArmInv, ClockTicks
  PROVE  ArmInv'
<1>1. now \in Nat /\ now' = now + 1 /\ UNCHANGED <<row, request>>
  BY DEF ClockTicks, ArmInv, Shapes
<1>2. Shapes' /\ Progress'
  BY <1>1 DEF ArmInv, Shapes, Progress, Vetted, Fresh, RowConstraints
<1>3. AnswersTrue' /\ ExpiryGranted'
  BY <1>1 DEF ArmInv, AnswersTrue, ExpiryGranted, Granted, Expiry, DayOf
<1> QED
  BY <1>2, <1>3 DEF ArmInv

LEMMA StillKeeps ==
  ASSUME ArmInv, UNCHANGED armVars
  PROVE  ArmInv'
BY DEF ArmInv, Shapes, Progress, Vetted, Fresh, RowConstraints, AnswersTrue, ExpiryGranted,
       Granted, Expiry, DayOf, armVars

LEMMA ArmStep == ArmInv /\ [ArmNext]_<<controlVars, armVars>> => ArmInv'
<1> SUFFICES ASSUME ArmInv, [ArmNext]_<<controlVars, armVars>> PROVE ArmInv'
  OBVIOUS
<1>1. ASSUME NEW r \in ArmRequests,
             \/ ReadEnablement(r) \/ StartArm(r) \/ CheckArm(r)
             \/ StartDisarm(r) \/ LoadRow(r) \/ CommitRow(r)
      PROVE  ArmInv'
  BY <1>1, ReadKeeps, StartArmKeeps, CheckArmKeeps, StartDisarmKeeps, LoadKeeps, CommitKeeps
<1>2. CASE ClockTicks
  BY <1>2, TickKeeps
<1>3. CASE UNCHANGED armVars
  BY <1>3, StillKeeps
<1> QED
  BY <1>1, <1>2, <1>3 DEF ArmNext

(* The invariant of the requests and the row. *)
THEOREM ArmInvariant == ArmSpec => []ArmInv
<1> QED
  BY ArmStart, ArmStep, PTL DEF ArmSpec

(* Arm and disarm requests answer what they left behind, however many of   *)
(* them overlap.                                                           *)
THEOREM RequestsAnswerTruly == ArmSpec => []AnswersTrue
<1>1. ArmInv => AnswersTrue
  BY DEF ArmInv
<1> QED
  BY <1>1, ArmInvariant, PTL

(* Auto-paper is armed only on a day on which a request armed it, and the  *)
(* readback page and the requests judge the row alike.                     *)
THEOREM ArmedOnItsDayOnly == ArmSpec => []ArmedTruly
<1>1. ArmInv => ArmedForItsDay
  <2> SUFFICES ASSUME ArmInv, EffectiveState = "armed"
               PROVE  \E r \in ArmRequests :
                         /\ request[r].kind = "arm" /\ request[r].stage = "answered"
                         /\ DayOf(request[r].at) = DayOf(now)
                         /\ request[r].at - request[r].seen <= SnapshotAge
    BY DEF ArmedForItsDay
  <2>1. row.until # Unset /\ row.until \in Nat /\ now \in Nat /\ now < row.until
    BY DEF EffectiveState, ArmInv, Shapes, Rows
  <2>2. PICK r \in ArmRequests : /\ request[r].kind = "arm" /\ request[r].stage = "answered"
                                 /\ row.until = Expiry(request[r].at)
    BY <2>1 DEF ArmInv, ExpiryGranted, Granted
  <2>3. /\ request[r].at \in Nat /\ request[r].at <= now
        /\ request[r].at - request[r].seen <= SnapshotAge
    BY <2>2 DEF ArmInv, Progress, Vetted, Fresh
  <2>4. DayOf(request[r].at) = DayOf(now)
    BY <2>1, <2>2, <2>3, SameDay
  <2> QED
    BY <2>2, <2>3, <2>4
<1>2. ArmInv => ReadbackAgrees
  BY DEF ArmInv, Shapes, Rows, RowConstraints, ReadbackAgrees, ReadbackStatus, EffectiveState
<1>3. ArmInv => ArmedTruly
  BY <1>1, <1>2 DEF ArmedTruly
<1> QED
  BY <1>3, ArmInvariant, PTL

-----------------------------------------------------------------------------

TradeRows ==
    [stage : {"none", "ordered", "filled", "open", "closed"}, worker : BOOLEAN,
     ordered : Nat \union {Unknown}, closed : Nat \union {Unknown}, gain : Int,
     realized : Amounts, unrealized : Amounts,
     reason : {"none", "auto_paper", "paper_order_closed", "horizon_expired"}]

Outcomes == [correct : BOOLEAN, pnl : Int, closed : Nat]

(* A closed position has the time and the gain of its close, and its P&L   *)
(* and its outcome, where it has one, are on the same side of zero.        *)
CloseIsKnown(t) ==
    IF trade[t].stage = "closed"
    THEN /\ trade[t].closed \in 0..clock
         /\ trade[t].realized \in Int
         /\ trade[t].gain < 0 <=> trade[t].realized < 0
         /\ trade[t].gain > 0 <=> trade[t].realized > 0
         /\ trade[t].reason \in {"paper_order_closed", "horizon_expired"}
         /\ outcome[t] # Unknown => outcome[t].correct = (trade[t].gain > 0)
    ELSE trade[t].closed = Unknown /\ trade[t].realized = Unknown /\ outcome[t] = Unknown

DayInv ==
    /\ clock \in Nat
    /\ trade \in [Trades -> TradeRows]
    /\ outcome \in [Trades -> Outcomes \union {Unknown}]
    /\ \A t \in Trades : CloseIsKnown(t)

(* What a step of the day may do to the closes: none is undone, and a new  *)
(* one is of the present.                                                  *)
ClosesStay ==
    /\ clock <= clock'
    /\ \A t \in Trades :
          IF trade[t].stage = "closed"
          THEN /\ trade'[t].stage = "closed" /\ trade'[t].closed = trade[t].closed
               /\ trade'[t].gain = trade[t].gain /\ trade'[t].realized = trade[t].realized
          ELSE trade'[t].stage = "closed" => trade'[t].closed = clock

LEMMA DayStart == DayInit => DayInv
BY DayAssumption DEF DayInit, DayInv, NoTrade, TradeRows, CloseIsKnown, Amounts

LEMMA SignOfMoney ==
  ASSUME NEW g \in Int
  PROVE  Money(g) \in Int /\ (Money(g) < 0 <=> g < 0) /\ (Money(g) > 0 <=> g > 0)
<1>1. Notional \in Nat \ {0}
  BY DayAssumption
<1>2. CASE g < 0
  BY <1>1, <1>2 DEF Money
<1>3. CASE g = 0
  BY <1>1, <1>3 DEF Money
<1>4. CASE g > 0
  BY <1>1, <1>4 DEF Money
<1> QED
  BY <1>2, <1>3, <1>4

(* A step that writes one trade. *)
LEMMA OneTradeKeeps ==
  ASSUME DayInv, NEW t \in Trades, NEW fresh \in TradeRows, trade[t].stage # "closed",
         trade' = [trade EXCEPT ![t] = fresh], clock' = clock,
         outcome' \in [Trades -> Outcomes \union {Unknown}],
         \A u \in Trades \ {t} : outcome'[u] = outcome[u],
         CloseIsKnown(t)', fresh.stage = "closed" => fresh.closed = clock
  PROVE  DayInv' /\ ClosesStay
<1>1. trade'[t] = fresh /\ \A u \in Trades \ {t} : trade'[u] = trade[u]
  BY DEF DayInv
<1>2. trade' \in [Trades -> TradeRows]
  BY DEF DayInv
<1>3. \A u \in Trades \ {t} : CloseIsKnown(u)'
  BY <1>1 DEF DayInv, CloseIsKnown
<1>4. DayInv'
  BY <1>2, <1>3 DEF DayInv
<1>5. ClosesStay
  BY <1>1 DEF DayInv, ClosesStay
<1> QED
  BY <1>4, <1>5

LEMMA OpenKeeps ==
  ASSUME DayInv, NEW t \in Trades, NEW fresh \in TradeRows, trade[t].stage # "closed",
         fresh.stage # "closed", fresh.closed = Unknown, fresh.realized = Unknown,
         trade' = [trade EXCEPT ![t] = fresh], UNCHANGED <<clock, outcome>>
  PROVE  DayInv' /\ ClosesStay
<1>1. trade'[t] = fresh
  BY DEF DayInv
<1>2. outcome[t] = Unknown
  BY DEF DayInv, CloseIsKnown
<1>3. CloseIsKnown(t)'
  BY <1>1, <1>2 DEF CloseIsKnown
<1> QED
  BY <1>3, OneTradeKeeps DEF DayInv

LEMMA SubmitKeeps ==
  ASSUME DayInv, NEW t \in Trades, SubmitOrder(t)
  PROVE  DayInv' /\ ClosesStay
<1> DEFINE fresh == [trade[t] EXCEPT !.stage = "ordered", !.ordered = clock]
<1>1. fresh \in TradeRows /\ fresh.stage = "ordered" /\ fresh.closed = trade[t].closed
      /\ fresh.realized = trade[t].realized
  BY DEF DayInv, TradeRows
<1>2. trade[t].stage = "none" /\ trade[t].closed = Unknown /\ trade[t].realized = Unknown
  BY DEF SubmitOrder, DayInv, CloseIsKnown
<1>3. trade' = [trade EXCEPT ![t] = fresh] /\ UNCHANGED <<clock, outcome>>
  BY DEF SubmitOrder
<1> HIDE DEF fresh
<1> QED
  BY <1>1, <1>2, <1>3, OpenKeeps

LEMMA FillKeeps ==
  ASSUME DayInv, NEW t \in Trades, FillOrder(t)
  PROVE  DayInv' /\ ClosesStay
<1> DEFINE marked == [trade[t] EXCEPT !.unrealized = 0]
           fresh == [marked EXCEPT !.stage = "open"]
           bare == [trade[t] EXCEPT !.stage = "filled"]
<1>0. bare \in TradeRows /\ bare.stage = "filled" /\ bare.closed = trade[t].closed
      /\ bare.realized = trade[t].realized
  BY DEF DayInv, TradeRows
<1>1. fresh \in TradeRows /\ fresh.stage = "open" /\ fresh.closed = trade[t].closed
      /\ fresh.realized = trade[t].realized
  <2>1. marked \in TradeRows /\ marked.closed = trade[t].closed
        /\ marked.realized = trade[t].realized
    BY DEF DayInv, TradeRows, Amounts
  <2> HIDE DEF marked
  <2> QED
    BY <2>1 DEF TradeRows
<1>2. trade[t].stage = "ordered" /\ trade[t].closed = Unknown /\ trade[t].realized = Unknown
  BY DEF FillOrder, DayInv, CloseIsKnown
<1>3. /\ trade' = [trade EXCEPT ![t] = fresh] \/ trade' = [trade EXCEPT ![t] = bare]
      /\ UNCHANGED <<clock, outcome>>
  BY DEF FillOrder
<1> HIDE DEF fresh, bare
<1>4. CASE trade' = [trade EXCEPT ![t] = fresh]
  BY <1>1, <1>2, <1>3, <1>4, OpenKeeps
<1>5. CASE trade' = [trade EXCEPT ![t] = bare]
  BY <1>0, <1>2, <1>3, <1>5, OpenKeeps
<1> QED
  BY <1>3, <1>4, <1>5

LEMMA TraderKeeps ==
  ASSUME DayInv, NEW t \in Trades, OpenByTrader(t)
  PROVE  DayInv' /\ ClosesStay
<1> DEFINE bought == [trade[t] EXCEPT !.stage = "open", !.worker = TRUE]
           dated == [bought EXCEPT !.ordered = clock]
           fresh == [dated EXCEPT !.reason = "auto_paper"]
<1>1. fresh \in TradeRows /\ fresh.stage = "open" /\ fresh.closed = trade[t].closed
      /\ fresh.realized = trade[t].realized
  <2>1. bought \in TradeRows /\ bought.stage = "open" /\ bought.closed = trade[t].closed
        /\ bought.realized = trade[t].realized
    BY DEF DayInv, TradeRows
  <2> HIDE DEF bought
  <2>2. dated \in TradeRows /\ dated.stage = "open" /\ dated.closed = trade[t].closed
        /\ dated.realized = trade[t].realized
    BY <2>1 DEF DayInv, TradeRows
  <2> HIDE DEF dated
  <2> QED
    BY <2>2 DEF TradeRows
<1>2. trade[t].stage = "none" /\ trade[t].closed = Unknown /\ trade[t].realized = Unknown
  BY DEF OpenByTrader, DayInv, CloseIsKnown
<1>3. trade' = [trade EXCEPT ![t] = fresh] /\ UNCHANGED <<clock, outcome>>
  BY DEF OpenByTrader
<1> HIDE DEF fresh
<1> QED
  BY <1>1, <1>2, <1>3, OpenKeeps

LEMMA MarkKeeps ==
  ASSUME DayInv, NEW t \in Trades, NEW g \in Marks, MarkToMarket(t, g)
  PROVE  DayInv' /\ ClosesStay
<1> DEFINE fresh == [trade[t] EXCEPT !.unrealized = Money(g)]
<1>0. Money(g) \in Int
  BY SignOfMoney, DayAssumption
<1>1. fresh \in TradeRows /\ fresh.stage = trade[t].stage /\ fresh.closed = trade[t].closed
      /\ fresh.realized = trade[t].realized
  BY <1>0 DEF DayInv, TradeRows, Amounts
<1>2. trade[t].stage = "open" /\ trade[t].closed = Unknown /\ trade[t].realized = Unknown
  BY DEF MarkToMarket, DayInv, CloseIsKnown
<1>3. trade' = [trade EXCEPT ![t] = fresh] /\ UNCHANGED <<clock, outcome>>
  BY DEF MarkToMarket
<1> HIDE DEF fresh
<1> QED
  BY <1>1, <1>2, <1>3, OpenKeeps

LEMMA CloseKeeps ==
  ASSUME DayInv, NEW t \in Trades, NEW g \in Moves, ClosePosition(t, g)
  PROVE  DayInv' /\ ClosesStay
<1> DEFINE ended == [trade[t] EXCEPT !.stage = "closed", !.closed = clock, !.gain = g]
           paid == [ended EXCEPT !.realized = Money(g)]
           settled == [paid EXCEPT !.unrealized = 0]
           fresh == [settled EXCEPT !.reason = "paper_order_closed"]
<1>0. g \in Int /\ Money(g) \in Int /\ (Money(g) < 0 <=> g < 0) /\ (Money(g) > 0 <=> g > 0)
  BY SignOfMoney, DayAssumption
<1>1. fresh \in TradeRows /\ fresh.stage = "closed" /\ fresh.closed = clock /\ fresh.gain = g
      /\ fresh.realized = Money(g) /\ fresh.reason = "paper_order_closed"
  <2>1. ended \in TradeRows /\ ended.stage = "closed" /\ ended.closed = clock /\ ended.gain = g
    BY <1>0 DEF DayInv, TradeRows
  <2> HIDE DEF ended
  <2>2. paid \in TradeRows /\ paid.stage = "closed" /\ paid.closed = clock /\ paid.gain = g
        /\ paid.realized = Money(g)
    BY <1>0, <2>1 DEF TradeRows, Amounts
  <2> HIDE DEF paid
  <2>3. settled \in TradeRows /\ settled.stage = "closed" /\ settled.closed = clock /\ settled.gain = g
        /\ settled.realized = Money(g)
    BY <2>2 DEF TradeRows, Amounts
  <2> HIDE DEF settled
  <2> QED
    BY <2>3 DEF TradeRows
<1>2. trade[t].stage = "open" /\ outcome[t] = Unknown
  BY DEF ClosePosition, DayInv, CloseIsKnown
<1>3. trade' = [trade EXCEPT ![t] = fresh] /\ UNCHANGED <<clock, outcome>>
  BY DEF ClosePosition
<1> HIDE DEF fresh
<1>4. trade'[t] = fresh
  BY <1>3 DEF DayInv
<1>5. CloseIsKnown(t)'
  BY <1>0, <1>1, <1>2, <1>3, <1>4 DEF DayInv, CloseIsKnown
<1> QED
  BY <1>1, <1>2, <1>3, <1>5, OneTradeKeeps DEF DayInv

LEMMA ExpiryKeeps ==
  ASSUME DayInv, NEW t \in Trades, NEW g \in Moves, CloseExpired(t, g)
  PROVE  DayInv' /\ ClosesStay
<1> DEFINE fresh == [trade[t] EXCEPT !.stage = "closed", !.closed = clock, !.gain = g,
                                   !.reason = "horizon_expired", !.realized = g]
           result == [correct |-> DirectionCorrect(g), pnl |-> g, closed |-> clock]
<1>0. g \in Int
  BY DayAssumption
<1>1. fresh \in TradeRows /\ fresh.stage = "closed" /\ fresh.closed = clock /\ fresh.gain = g
      /\ fresh.realized = g /\ fresh.reason = "horizon_expired"
  BY <1>0 DEF DayInv, TradeRows, Amounts
<1>2. trade[t].stage = "open"
  BY DEF CloseExpired
<1>3. trade' = [trade EXCEPT ![t] = fresh] /\ clock' = clock
      /\ outcome' = [outcome EXCEPT ![t] = result]
  BY DEF CloseExpired
<1>4. result \in Outcomes /\ result.correct = (g > 0)
  BY <1>0 DEF DayInv, Outcomes, DirectionCorrect
<1> HIDE DEF fresh, result
<1>5. trade'[t] = fresh /\ outcome'[t] = result
  BY <1>3 DEF DayInv
<1>6. CloseIsKnown(t)'
  BY <1>0, <1>1, <1>3, <1>4, <1>5 DEF DayInv, CloseIsKnown
<1>7. /\ outcome' \in [Trades -> Outcomes \union {Unknown}]
      /\ \A u \in Trades \ {t} : outcome'[u] = outcome[u]
  BY <1>3, <1>4 DEF DayInv
<1> QED
  BY <1>1, <1>2, <1>3, <1>6, <1>7, OneTradeKeeps

LEMMA DayInductive == DayInv /\ [DayNext]_dayVars => DayInv' /\ ClosesStay
<1> SUFFICES ASSUME DayInv, [DayNext]_dayVars PROVE DayInv' /\ ClosesStay
  OBVIOUS
<1>1. ASSUME UNCHANGED <<trade, outcome>>, clock' \in Nat, clock <= clock'
      PROVE  DayInv' /\ ClosesStay
  <2>1. \A t \in Trades : CloseIsKnown(t)'
    BY <1>1 DEF DayInv, CloseIsKnown
  <2> QED
    BY <1>1, <2>1 DEF DayInv, ClosesStay
<1>2. CASE TimePasses \/ UNCHANGED dayVars
  <2>1. clock \in Nat /\ UNCHANGED <<trade, outcome>> /\ (clock' = clock \/ clock' = clock + 1)
    BY <1>2 DEF TimePasses, dayVars, DayInv
  <2> QED
    BY <1>1, <2>1
<1> QED
  BY <1>2, SubmitKeeps, FillKeeps, TraderKeeps, MarkKeeps, CloseKeeps, ExpiryKeeps DEF DayNext

(* The losses of the day before a, which what was sampled at a knows.      *)
KnownAt(a) ==
    {t \in ClosedRows : /\ trade[t].gain < 0 /\ trade[t].closed < a
                       /\ trade[t].closed >= a - DayLength}

Shaped(x) ==
    /\ x = [stage |-> x.stage, fault |-> x.fault, context |-> x.context, at |-> x.at,
            rule |-> x.rule, reasons |-> x.reasons]
    /\ x.stage \in {"idle", "sampled", "decided"}
    /\ x.context.at \in Nat \union {Unknown} /\ x.context.last \in Nat \union {Unknown}
    /\ x.context.losses \in Nat /\ x.context.open \in Nat
    /\ x.stage = "idle" => x.context = NoContext
    /\ x.stage # "decided" => x.rule = "none"

(* A context that was sampled counts the losses that it knows, and none of *)
(* them is later than its last.                                            *)
Truthful(c) ==
    c.at # Unknown =>
        /\ c.at <= clock
        /\ Cardinality(KnownAt(c.at)) <= c.losses
        /\ KnownAt(c.at) # {} => c.last # Unknown
        /\ \A t \in KnownAt(c.at) : trade[t].closed <= c.last

(* What was approved was not cooling down when it was, and a rule that was *)
(* found broken is among the reasons of the older rules.                   *)
Judged(x) ==
    /\ x.stage = "decided" /\ x.rule = "none" =>
          /\ x.at \in Nat
          /\ \/ x.context.losses < LossStreak \/ x.context.last = Unknown
             \/ x.at - x.context.last >= profile.cooldown
    /\ x.rule \in {"drawdown_exceeded", "cooldown_active", "position_limit_exceeded"}
       /\ (profile.positions = 0 \/ profile.positions >= MaxOpenMvp)
       => x.rule \in x.reasons

RiskInv ==
    /\ DayInv
    /\ profile \in Profiles
    /\ evaluation = [e \in Evaluations |-> evaluation[e]]
    /\ \A e \in Evaluations : Shaped(evaluation[e]) /\ Truthful(evaluation[e].context)
                              /\ Judged(evaluation[e])

LEMMA RiskStart == RiskInit => RiskInv
<1> SUFFICES ASSUME RiskInit PROVE RiskInv
  OBVIOUS
<1>1. DayInv /\ profile \in Profiles
  BY DayStart DEF RiskInit
<1>2. evaluation = [e \in Evaluations |-> evaluation[e]]
      /\ \A e \in Evaluations : evaluation[e] = NotEvaluated
  BY DEF RiskInit
<1>3. Shaped(NotEvaluated) /\ Truthful(NotEvaluated.context) /\ Judged(NotEvaluated)
  BY DEF Shaped, Truthful, Judged, NotEvaluated, NoContext
<1> QED
  BY <1>1, <1>2, <1>3 DEF RiskInv

LEMMA KnownIsClosed ==
  ASSUME DayInv, NEW a
  PROVE  KnownAt(a) = {t \in Trades : /\ trade[t].stage = "closed" /\ trade[t].gain < 0
                                      /\ trade[t].closed < a
                                      /\ trade[t].closed >= a - DayLength}
BY DEF KnownAt, ClosedRows, Positions, DayInv, CloseIsKnown

(* What was known when it was sampled is what is known of that time later. *)
LEMMA KnownStays ==
  ASSUME DayInv, DayInv', ClosesStay, NEW a \in 0..clock
  PROVE  /\ KnownAt(a)' = KnownAt(a)
         /\ \A t \in KnownAt(a) : trade'[t].closed = trade[t].closed
<1>1. \A t \in Trades :
         /\ trade[t].stage = "closed" => trade[t].closed \in 0..clock
         /\ trade'[t].stage = "closed" => trade'[t].closed \in 0..clock'
  BY DEF DayInv, CloseIsKnown
<1>2. clock \in Nat
  BY DEF DayInv
<1>3. KnownAt(a) = {t \in Trades : /\ trade[t].stage = "closed" /\ trade[t].gain < 0
                                   /\ trade[t].closed < a
                                   /\ trade[t].closed >= a - DayLength}
  BY KnownIsClosed
<1>4. KnownAt(a)' = {t \in Trades : /\ trade'[t].stage = "closed" /\ trade'[t].gain < 0
                                    /\ trade'[t].closed < a
                                    /\ trade'[t].closed >= a - DayLength}
  BY DEF KnownAt, ClosedRows, Positions, DayInv, CloseIsKnown
<1>5. ASSUME NEW t \in Trades
      PROVE  /\ t \in KnownAt(a)' <=> t \in KnownAt(a)
             /\ t \in KnownAt(a) => trade'[t].closed = trade[t].closed
  BY <1>1, <1>2, <1>3, <1>4 DEF ClosesStay
<1>6. KnownAt(a) \subseteq Trades /\ KnownAt(a)' \subseteq Trades
  BY <1>3, <1>4
<1> QED
  BY <1>5, <1>6

(* A step of the day.                                                      *)
LEMMA DayKeepsRisk ==
  ASSUME RiskInv, [DayNext]_dayVars, UNCHANGED riskVars
  PROVE  RiskInv'
<1>1. DayInv' /\ ClosesStay /\ DayInv
  BY DayInductive DEF RiskInv
<1>2. profile' = profile /\ evaluation' = evaluation
  BY DEF riskVars
<1>3. clock \in Nat /\ clock' \in Nat /\ clock <= clock'
  BY <1>1 DEF DayInv, ClosesStay
<1>4. ASSUME NEW e \in Evaluations PROVE Truthful(evaluation[e].context)'
  <2> DEFINE c == evaluation[e].context
  <2>1. Truthful(c) /\ c.at \in Nat \union {Unknown} /\ evaluation'[e].context = c
    BY <1>2 DEF RiskInv, Shaped
  <2> HIDE DEF c
  <2>2. CASE c.at = Unknown
    BY <2>1, <2>2 DEF Truthful
  <2>3. CASE c.at # Unknown
    <3>1. PICK a \in 0..clock : c.at = a
      BY <1>3, <2>1, <2>3 DEF Truthful
    <3>2. /\ KnownAt(a)' = KnownAt(a)
          /\ \A t \in KnownAt(a) : trade'[t].closed = trade[t].closed
      BY <1>1, KnownStays
    <3>3. KnownAt(evaluation[e].context.at)' = KnownAt(a)'
      BY <2>1, <3>1 DEF KnownAt
    <3> QED
      BY <1>3, <2>1, <2>3, <3>1, <3>2, <3>3 DEF Truthful
  <2> QED
    BY <2>2, <2>3
<1>5. \A e \in Evaluations : Shaped(evaluation[e])' /\ Judged(evaluation[e])'
  BY <1>2 DEF RiskInv, Shaped, Judged
<1> QED
  BY <1>1, <1>2, <1>4, <1>5 DEF RiskInv

(* The context that is sampled of the day as it is.                        *)
LEMMA SnapshotIsTrue ==
  ASSUME DayInv
  PROVE  /\ Snapshot.at = clock /\ clock \in Nat /\ Unknown \notin Int
         /\ Snapshot.losses \in Nat /\ Snapshot.open \in Nat
         /\ Snapshot.last \in Nat \union {Unknown}
         /\ Truthful(Snapshot)
<1> DEFINE lost == RecentLosses
           times == {trade[t].closed : t \in lost}
<1>1. clock \in Nat /\ Unknown \notin Int /\ IsFiniteSet(Trades)
  BY DayAssumption DEF DayInv
<1>2. lost \subseteq Trades /\ OpenNow \subseteq Trades /\ \A t \in lost : trade[t].stage = "closed"
  BY DEF RecentLosses, Losing, Known, Realized, Positions, OpenNow, DayInv, CloseIsKnown
<1>3. times \subseteq 0..clock
  BY <1>2 DEF DayInv, CloseIsKnown
<1>4. KnownAt(clock) \subseteq lost
  <2>1. KnownAt(clock) = {t \in Trades : /\ trade[t].stage = "closed" /\ trade[t].gain < 0
                                         /\ trade[t].closed < clock
                                         /\ trade[t].closed >= clock - DayLength}
    BY KnownIsClosed
  <2> QED
    BY <1>1, <2>1 DEF RecentLosses, Losing, Known, Realized, Positions, DayInv, CloseIsKnown
<1>5. /\ IsFiniteSet(lost) /\ IsFiniteSet(OpenNow)
      /\ Cardinality(KnownAt(clock)) <= Cardinality(lost)
      /\ Cardinality(lost) \in Nat /\ Cardinality(OpenNow) \in Nat
      /\ Cardinality(KnownAt(clock)) \in Nat
  BY <1>1, <1>2, <1>4, FS_Subset, FS_CardinalityType
<1>6. lost # {} => /\ LastOf(lost) \in 0..clock
                   /\ \A t \in lost : trade[t].closed <= LastOf(lost)
  <2> SUFFICES ASSUME lost # {} PROVE /\ LastOf(lost) \in 0..clock
                                      /\ \A t \in lost : trade[t].closed <= LastOf(lost)
    OBVIOUS
  <2>1. times # {}
    OBVIOUS
  <2>2. \E m \in times : \A k \in times : k <= m
    <3> HIDE DEF times
    <3> QED
      BY <1>1, <1>3, <2>1, GreatestUpTo
  <2>3. Max(times) \in times /\ \A k \in times : k <= Max(times)
    <3> HIDE DEF times
    <3> QED
      BY <2>2 DEF Max
  <2>4. LastOf(lost) = Max(times)
    BY DEF LastOf
  <2>5. \A t \in lost : trade[t].closed \in times
    OBVIOUS
  <2> HIDE DEF times, lost
  <2> QED
    BY <1>3, <2>3, <2>4, <2>5
<1>7. lost = {} => LastOf(lost) = Unknown
  BY DEF LastOf
<1>8. /\ Snapshot.at = clock /\ Snapshot.losses = Cardinality(lost)
      /\ Snapshot.open = Cardinality(OpenNow) /\ Snapshot.last = LastOf(lost)
  BY DEF Snapshot
<1> HIDE DEF lost, times
<1>9. Truthful(Snapshot)
  BY <1>1, <1>4, <1>5, <1>6, <1>8 DEF Truthful
<1> QED
  BY <1>1, <1>5, <1>6, <1>7, <1>8, <1>9

(* A step that writes one evaluation.                                      *)
LEMMA OneEvaluationKeeps ==
  ASSUME RiskInv, NEW e \in Evaluations, NEW x, evaluation' = [evaluation EXCEPT ![e] = x],
         UNCHANGED <<profile, dayVars>>,
         Shaped(x), Truthful(x.context), Judged(x)
  PROVE  RiskInv'
<1>1. /\ evaluation' = [d \in Evaluations |-> evaluation'[d]]
      /\ evaluation'[e] = x /\ \A d \in Evaluations \ {e} : evaluation'[d] = evaluation[d]
  BY DEF RiskInv
<1>2. DayInv' /\ profile' = profile /\ profile \in Profiles
  BY DayInductive DEF RiskInv
<1>3. UNCHANGED <<clock, trade>>
  BY DEF dayVars
<1>4. ASSUME NEW d \in Evaluations
      PROVE  (Shaped(evaluation[d]) /\ Truthful(evaluation[d].context) /\ Judged(evaluation[d]))'
  <2>1. CASE d = e
    BY <1>1, <1>2, <1>3, <2>1 DEF Shaped, Truthful, Judged, KnownAt, ClosedRows, Positions
  <2>2. CASE d # e
    BY <1>1, <1>2, <1>3, <2>2
       DEF RiskInv, Shaped, Truthful, Judged, KnownAt, ClosedRows, Positions
  <2> QED
    BY <2>1, <2>2
<1> QED
  BY <1>1, <1>2, <1>4 DEF RiskInv

LEMMA SampleKeeps ==
  ASSUME RiskInv, NEW e \in Evaluations, SampleContext(e)
  PROVE  RiskInv'
<1> DEFINE old == evaluation[e]
<1>1. PICK fault \in Faults \union {"none"} :
         evaluation' = [evaluation EXCEPT ![e].stage = "sampled", ![e].fault = fault,
                                          ![e].context = Snapshot]
  BY DEF SampleContext
<1> DEFINE x == [stage |-> "sampled", fault |-> fault, context |-> Snapshot, at |-> old.at,
                 rule |-> old.rule, reasons |-> old.reasons]
<1>2. Shaped(old) /\ old.stage = "idle" /\ UNCHANGED <<profile, dayVars>>
  BY DEF RiskInv, SampleContext
<1>3. [old EXCEPT !.stage = "sampled", !.fault = fault, !.context = Snapshot] = x
  <2> DEFINE staged == [old EXCEPT !.stage = "sampled"]
             faulty == [staged EXCEPT !.fault = fault]
  <2>1. staged = [stage |-> "sampled", fault |-> old.fault, context |-> old.context,
                  at |-> old.at, rule |-> old.rule, reasons |-> old.reasons]
    BY <1>2 DEF Shaped
  <2> HIDE DEF staged
  <2>2. faulty = [stage |-> "sampled", fault |-> fault, context |-> old.context,
                  at |-> old.at, rule |-> old.rule, reasons |-> old.reasons]
    BY <2>1
  <2> HIDE DEF faulty
  <2>3. [faulty EXCEPT !.context = Snapshot] = x
    BY <2>2
  <2> QED
    BY <2>3 DEF staged, faulty
<1>4. evaluation' = [evaluation EXCEPT ![e] =
                       [old EXCEPT !.stage = "sampled", !.fault = fault, !.context = Snapshot]]
  BY <1>1
<1>5. Shaped(x) /\ Truthful(x.context) /\ Judged(x)
  BY <1>2, SnapshotIsTrue DEF RiskInv, Shaped, Judged
<1> HIDE DEF x, old
<1> QED
  BY <1>2, <1>3, <1>4, <1>5, OneEvaluationKeeps

LEMMA ZerosKeep ==
  ASSUME RiskInv, NEW e \in Evaluations, GiveZeros(e)
  PROVE  RiskInv'
<1> DEFINE old == evaluation[e]
           x == [stage |-> "sampled", fault |-> old.fault, context |-> old.context,
                 at |-> old.at, rule |-> old.rule, reasons |-> old.reasons]
<1>2. Shaped(old) /\ old.stage = "idle" /\ UNCHANGED <<profile, dayVars>>
      /\ Truthful(old.context) /\ Judged(old)
  BY DEF RiskInv, GiveZeros
<1>3. [old EXCEPT !.stage = "sampled"] = x
  BY <1>2 DEF Shaped
<1>4. evaluation' = [evaluation EXCEPT ![e] = [old EXCEPT !.stage = "sampled"]]
  BY DEF GiveZeros
<1>5. Shaped(x) /\ Truthful(x.context) /\ Judged(x)
  BY <1>2 DEF Shaped, Judged
<1> HIDE DEF x, old
<1> QED
  BY <1>2, <1>3, <1>4, <1>5, OneEvaluationKeeps

(* No rule blocks only if none is broken, and one that blocks is broken.   *)
LEMMA BlockingRuleIsBroken ==
  ASSUME NEW fault, NEW c
  PROVE  /\ BlockingRule(fault, c) = "none" => ~ Breaks("cooldown_active", fault, c)
         /\ BlockingRule(fault, c) # "none" =>
               /\ BlockingRule(fault, c) \in ToSet(Rules)
               /\ Breaks(BlockingRule(fault, c), fault, c)
<1> DEFINE broken == {n \in DOMAIN Rules : Breaks(Rules[n], fault, c)}
<1>1. DOMAIN Rules = 1..8 /\ Rules[6] = "cooldown_active"
      /\ \A n \in 1..8 : Rules[n] # "none" /\ Rules[n] \in ToSet(Rules)
  BY DEF Rules, ToSet
<1>2. BlockingRule(fault, c) = IF broken = {} THEN "none" ELSE Rules[Min(broken)]
  BY DEF BlockingRule
<1>3. broken \subseteq 1..8 /\ \A n \in broken : Breaks(Rules[n], fault, c)
  BY <1>1
<1>4. Breaks("cooldown_active", fault, c) => 6 \in broken
  BY <1>1
<1> HIDE DEF broken
<1>5. broken # {} => Min(broken) \in broken
  <2> SUFFICES ASSUME broken # {} PROVE Min(broken) \in broken
    OBVIOUS
  <2>1. \E n \in broken : \A m \in broken : n <= m
    <3>1. broken \subseteq Nat
      BY <1>3
    <3> QED
      BY <3>1, LeastNatural
  <2> QED
    BY <2>1 DEF Min
<1> QED
  BY <1>1, <1>2, <1>3, <1>4, <1>5

(* Where both sets of rules judge the same of a context, those of          *)
(* RiskEvaluator are the stricter.                                         *)
LEMMA OlderRulesAreStricter ==
  ASSUME NEW fault, NEW c, c.open \in Nat, profile \in Profiles,
         NEW rule \in {"drawdown_exceeded", "cooldown_active", "position_limit_exceeded"},
         Breaks(rule, fault, c), rule \in ToSet(Rules),
         profile.positions = 0 \/ profile.positions >= MaxOpenMvp
  PROVE  rule \in BlockedReasons(fault, c)
<1>1. MaxOpenMvp \in Nat /\ profile.positions \in Nat
  BY RiskContextAssumption
<1>2. CASE rule = "drawdown_exceeded"
  BY <1>2 DEF Breaks, Reaches, BlockedReasons
<1>3. CASE rule = "cooldown_active"
  BY <1>3 DEF Breaks, CoolingDown, BlockedReasons
<1>4. CASE rule = "position_limit_exceeded"
  BY <1>1, <1>4 DEF Breaks, Reaches, BlockedReasons
<1> QED
  BY <1>2, <1>3, <1>4

LEMMA EvaluateKeeps ==
  ASSUME RiskInv, NEW e \in Evaluations, Evaluate(e)
  PROVE  RiskInv'
<1> DEFINE old == evaluation[e]
           c == old.context
           blocked == BlockingRule(old.fault, c)
           reasons == BlockedReasons(old.fault, c)
           x == [stage |-> "decided", fault |-> old.fault, context |-> c,
                 at |-> clock, rule |-> blocked, reasons |-> reasons]
<1>1. Shaped(old) /\ Truthful(c) /\ UNCHANGED <<profile, dayVars>>
      /\ clock \in Nat /\ profile \in Profiles /\ old.stage = "sampled"
  BY DEF RiskInv, DayInv, Evaluate
<1>2. evaluation' = [evaluation EXCEPT ![e] =
                       [old EXCEPT !.stage = "decided", !.at = clock, !.rule = blocked,
                                   !.reasons = reasons]]
  BY DEF Evaluate
<1>3. /\ blocked = "none" => ~ Breaks("cooldown_active", old.fault, c)
      /\ blocked # "none" => blocked \in ToSet(Rules) /\ Breaks(blocked, old.fault, c)
  BY BlockingRuleIsBroken
<1>4. c.open \in Nat /\ c.losses \in Nat /\ c.last \in Nat \union {Unknown}
  BY <1>1 DEF Shaped
<1>5. blocked = "none" => \/ c.losses < LossStreak \/ c.last = Unknown
                          \/ clock - c.last >= profile.cooldown
  BY <1>1, <1>3, <1>4, RiskContextAssumption DEF Breaks, CoolingDown
<1>6. /\ blocked \in {"drawdown_exceeded", "cooldown_active", "position_limit_exceeded"}
      /\ profile.positions = 0 \/ profile.positions >= MaxOpenMvp
      => blocked \in reasons
  <2> HIDE DEF c
  <2> SUFFICES ASSUME blocked \in {"drawdown_exceeded", "cooldown_active",
                                   "position_limit_exceeded"},
                      profile.positions = 0 \/ profile.positions >= MaxOpenMvp
               PROVE  blocked \in reasons
    OBVIOUS
  <2> QED
    BY <1>1, <1>3, <1>4, OlderRulesAreStricter
<1> HIDE DEF c, blocked, reasons
<1>7. [old EXCEPT !.stage = "decided", !.at = clock, !.rule = blocked,
                  !.reasons = reasons] = x
  <2> DEFINE staged == [old EXCEPT !.stage = "decided"]
             dated == [staged EXCEPT !.at = clock]
             ruled == [dated EXCEPT !.rule = blocked]
  <2>1. staged = [stage |-> "decided", fault |-> old.fault, context |-> c,
                  at |-> old.at, rule |-> old.rule, reasons |-> old.reasons]
    BY <1>1 DEF Shaped, c
  <2> HIDE DEF staged
  <2>2. dated = [stage |-> "decided", fault |-> old.fault, context |-> c,
                 at |-> clock, rule |-> old.rule, reasons |-> old.reasons]
    BY <2>1
  <2> HIDE DEF dated
  <2>3. ruled = [stage |-> "decided", fault |-> old.fault, context |-> c,
                 at |-> clock, rule |-> blocked, reasons |-> old.reasons]
    BY <2>2
  <2> HIDE DEF ruled
  <2>4. [ruled EXCEPT !.reasons = reasons] = x
    BY <2>3
  <2> QED
    BY <2>4 DEF staged, dated, ruled
<1>8. Shaped(x)
  BY <1>1 DEF Shaped, c
<1>9. Judged(x)
  BY <1>1, <1>5, <1>6 DEF Judged
<1> HIDE DEF x, old
<1> QED
  BY <1>1, <1>2, <1>7, <1>8, <1>9, OneEvaluationKeeps DEF x

LEMMA RiskInvHolds == RiskInv => RulesHold
<1> SUFFICES ASSUME RiskInv PROVE RulesHold
  OBVIOUS
<1>1. CooldownHolds
  <2> SUFFICES ASSUME NEW e \in Evaluations, Approved(e), evaluation[e].context.at # Unknown,
                      Cardinality(KnownAt(evaluation[e].context.at)) >= LossStreak
               PROVE  \E t \in KnownAt(evaluation[e].context.at) :
                         /\ \A u \in KnownAt(evaluation[e].context.at) :
                               trade[u].closed <= trade[t].closed
                         /\ evaluation[e].at - trade[t].closed >= profile.cooldown
    BY DEF CooldownHolds, KnownAt
  <2> DEFINE c == evaluation[e].context
             known == KnownAt(c.at)
             times == {trade[t].closed : t \in known}
  <2>1. /\ Truthful(c) /\ c.at # Unknown /\ c.losses \in Nat /\ c.last \in Nat \union {Unknown}
        /\ evaluation[e].at \in Nat
        /\ \/ c.losses < LossStreak \/ c.last = Unknown
           \/ evaluation[e].at - c.last >= profile.cooldown
    BY DEF RiskInv, Shaped, Judged, Approved
  <2>2. /\ Cardinality(known) <= c.losses
        /\ known # {} => c.last # Unknown
        /\ \A t \in known : trade[t].closed <= c.last
    BY <2>1 DEF Truthful
  <2>3. clock \in Nat /\ LossStreak \in Nat \ {0} /\ profile.cooldown \in Nat
    BY RiskContextAssumption DEF RiskInv, DayInv
  <2>4. known \subseteq Trades /\ \A t \in known : trade[t].closed \in 0..clock
    BY KnownIsClosed DEF RiskInv, DayInv, CloseIsKnown
  <2>5. known # {} /\ Cardinality(known) \in Nat /\ Cardinality(known) >= LossStreak
    <3>1. IsFiniteSet(known)
      BY <2>4, DayAssumption, FS_Subset
    <3>2. Cardinality(known) \in Nat /\ Cardinality(known) >= LossStreak
      BY <3>1, FS_CardinalityType
    <3>3. known # {}
      <4> HIDE DEF known
      <4> QED
        BY <2>3, <3>2, FS_EmptySet
    <3> QED
      BY <3>2, <3>3
  <2>6. times # {} /\ times \subseteq 0..clock
    <3> HIDE DEF known
    <3> QED
      BY <2>4, <2>5
  <2>7. PICK m \in times : \A k \in times : k <= m
    <3> HIDE DEF times
    <3> QED
      BY <2>3, <2>6, GreatestUpTo
  <2>8. PICK t \in known : trade[t].closed = m
    BY <2>7
  <2>9. \A u \in known : trade[u].closed <= trade[t].closed
    BY <2>7, <2>8
  <2>10. evaluation[e].at - trade[t].closed >= profile.cooldown
    <3> HIDE DEF known, c
    <3> QED
      BY <2>1, <2>2, <2>3, <2>4, <2>5, <2>8
  <2> QED
    BY <2>8, <2>9, <2>10
<1>2. OlderRulesNoLaxer
  BY DEF RiskInv, Judged, OlderRulesNoLaxer
<1> QED
  BY <1>1, <1>2 DEF RulesHold

LEMMA RiskStepKeeps == RiskInv /\ [MCNext]_pagesVars => RiskInv'
<1> SUFFICES ASSUME RiskInv, [MCNext]_pagesVars PROVE RiskInv'
  OBVIOUS
<1>1. CASE UNCHANGED <<dayVars, riskVars>>
  BY <1>1, DayKeepsRisk
<1>2. CASE DayNext /\ UNCHANGED riskVars
  BY <1>2, DayKeepsRisk
<1>3. CASE RiskNext
  BY <1>2, <1>3, SampleKeeps, ZerosKeep, EvaluateKeeps DEF RiskNext
<1> QED
  BY <1>1, <1>2, <1>3 DEF MCNext, pagesVars, DayStep, RiskStep

(* Whatever trades are closed by whom, and however long an evaluation is   *)
(* on its way: RiskService approves nothing in a cooldown that its sampled *)
(* context knows, and RiskEvaluator is no laxer.                           *)
THEOREM RulesAlwaysHold == MCSpec => []RulesHold
<1>1. MCInit => RiskInv
  BY RiskStart DEF MCInit
<1> QED
  BY <1>1, RiskInvHolds, RiskStepKeeps, PTL DEF MCSpec

-----------------------------------------------------------------------------

(* The report and the scoreboard count the same rows: open positions are   *)
(* those without the time of a close, and P&L is known of all closes just  *)
(* where it is known of as many.                                           *)
LEMMA PagesAreAgreed == DayInv => PagesAgree
<1> SUFFICES ASSUME DayInv PROVE PagesAgree
  OBVIOUS
<1> DEFINE all == ClosedToday
           some == Known(ClosedToday)
<1>1. OpenNow = Active
  BY DayAssumption DEF OpenNow, Active, Positions, DayInv, CloseIsKnown
<1>2. IsFiniteSet(Trades) /\ all \subseteq Trades /\ some \subseteq all
  BY DayAssumption DEF ClosedToday, Positions, Known
<1>3. IsFiniteSet(all) /\ IsFiniteSet(some) /\ Cardinality(all) \in Nat /\ Cardinality(some) \in Nat
  BY <1>2, FS_Subset, FS_CardinalityType
<1>4. Cardinality(all \ some) = Cardinality(all) - Cardinality(some)
  <2>1. all \cap some = some
    BY <1>2
  <2> QED
    BY <1>3, <2>1, FS_Difference
<1>5. some = all <=> Cardinality(some) = Cardinality(all)
  BY <1>2, <1>3, FS_Subset
<1> QED
  BY <1>1, <1>4, <1>5 DEF PagesAgree, EodReport, Scoreboard, CountIfKnown

(* The verdict that is read for a close, of its own outcome or of its P&L, *)
(* has the sign of its gain, in money and in fractions.                    *)
LEMMA VerdictsAreRight == DayInv => VerdictsMatchGains
<1> SUFFICES ASSUME DayInv, NEW rows \in Explained, NEW t \in rows
             PROVE  /\ CloseLabel(t) # "unknown"
                    /\ ~ ToldAnothers(t) =>
                          /\ (OutcomeMatch(t) = "matched") = (trade[t].gain > 0)
                          /\ OutcomeMatch(t) = "mismatched" => trade[t].gain <= 0
  BY DEF VerdictsMatchGains, Explanations
<1>1. t \in Trades /\ trade[t].stage = "closed"
  BY DEF Explained, FirstRows, ClosedRows, Positions, DayInv, CloseIsKnown
<1>2. /\ trade[t].realized \in Int /\ trade[t].gain \in Int /\ Unknown \notin Int
      /\ trade[t].gain < 0 <=> trade[t].realized < 0
      /\ trade[t].gain > 0 <=> trade[t].realized > 0
      /\ trade[t].reason \in {"paper_order_closed", "horizon_expired"}
      /\ outcome[t] # Unknown => outcome[t].correct = (trade[t].gain > 0)
  BY <1>1, DayAssumption DEF DayInv, CloseIsKnown, TradeRows
<1>3. CloseLabel(t) # "unknown"
  BY <1>2 DEF CloseLabel
<1>4. ASSUME ~ ToldAnothers(t), NEW u \in OutcomesOf(t)
      PROVE  u = t /\ outcome[t] # Unknown
  <2>1. /\ u \in Trades /\ SignalOf[u] = SignalOf[t] /\ outcome[u] # Unknown
        /\ outcome[t] # Unknown => outcome[t].closed <= outcome[u].closed
    BY <1>1 DEF OutcomesOf, OfSignal
  <2> QED
    BY <1>4, <2>1 DEF ToldAnothers
<1>5. ASSUME ~ ToldAnothers(t)
      PROVE  OutcomeMatch(t) = "matched" <=> trade[t].gain > 0
  <2>1. CASE OutcomesOf(t) = {}
    BY <1>2, <2>1 DEF OutcomeMatch, Realized
  <2>2. CASE OutcomesOf(t) # {}
    <3>1. (CHOOSE u \in OutcomesOf(t) : TRUE) = t /\ outcome[t] # Unknown
      BY <1>4, <1>5, <2>2
    <3> QED
      BY <1>2, <2>2, <3>1 DEF OutcomeMatch
  <2> QED
    BY <2>1, <2>2
<1> QED
  BY <1>2, <1>3, <1>5

-----------------------------------------------------------------------------

Paid == [t \in Trades |-> trade[t].realized]

FigureNames == {"closed", "realized", "wins", "losses", "flat"}
Books == [FigureNames -> Int]

(* What is to be said of some closed trades.                               *)
Book(rows) ==
    [k \in FigureNames |->
        CASE k = "closed" -> Cardinality(rows)
          [] k = "realized" -> SumFunctionOnSet(Paid, rows)
          [] k = "wins" -> Cardinality(Winning(rows))
          [] k = "losses" -> Cardinality(Losing(rows))
          [] k = "flat" -> Cardinality(Flat(rows))]

(* Two books in one.                                                       *)
Both(b, c) == [k \in FigureNames |-> b[k] + c[k]]

ClosedTrades == {t \in Trades : trade[t].stage = "closed"}

LEMMA ClosedAreKnown ==
  ASSUME DayInv
  PROVE  /\ ClosedRows = ClosedTrades /\ IsFiniteSet(ClosedTrades)
         /\ \A t \in ClosedTrades : /\ trade[t].realized \in Int /\ Paid[t] = trade[t].realized
                                    /\ trade[t].realized # Unknown
                                    /\ trade[t].closed \in 0..clock
<1>1. ClosedRows = ClosedTrades
  BY DEF ClosedRows, ClosedTrades, Positions, DayInv, CloseIsKnown
<1>2. IsFiniteSet(ClosedTrades)
  BY DayAssumption, FS_Subset DEF ClosedTrades
<1> QED
  BY <1>1, <1>2, DayAssumption DEF ClosedTrades, DayInv, CloseIsKnown, Paid

LEMMA BookIsBook ==
  ASSUME DayInv, NEW rows \in SUBSET ClosedTrades
  PROVE  Book(rows) \in Books
<1>1. IsFiniteSet(rows) /\ \A t \in rows : Paid[t] \in Int
  BY ClosedAreKnown, FS_Subset
<1>2. Winning(rows) \subseteq rows /\ Losing(rows) \subseteq rows /\ Flat(rows) \subseteq rows
  BY DEF Winning, Losing, Flat, Known
<1>3. /\ Cardinality(rows) \in Nat /\ Cardinality(Winning(rows)) \in Nat
      /\ Cardinality(Losing(rows)) \in Nat /\ Cardinality(Flat(rows)) \in Nat
  BY <1>1, <1>2, FS_Subset, FS_CardinalityType
<1>4. SumFunctionOnSet(Paid, rows) \in Int
  BY <1>1, SumIsInt
<1> QED
  BY <1>3, <1>4 DEF Book, Books, FigureNames

LEMMA CountOfParts ==
  ASSUME NEW S, NEW T, IsFiniteSet(S), IsFiniteSet(T), S \cap T = {}
  PROVE  Cardinality(S \union T) = Cardinality(S) + Cardinality(T)
<1>1. Cardinality(S) \in Nat /\ Cardinality(T) \in Nat /\ Cardinality(S \cap T) = 0
  BY FS_CardinalityType, FS_EmptySet
<1>2. Cardinality(S \union T) = Cardinality(S) + Cardinality(T) - Cardinality(S \cap T)
  BY FS_Union
<1> QED
  BY <1>1, <1>2

LEMMA BookOfParts ==
  ASSUME DayInv, NEW a \in SUBSET ClosedTrades, NEW b \in SUBSET ClosedTrades, a \cap b = {}
  PROVE  Book(a \union b) = Both(Book(a), Book(b))
<1>1. IsFiniteSet(a) /\ IsFiniteSet(b) /\ \A t \in a \union b : Paid[t] \in Int
  BY ClosedAreKnown, FS_Subset
<1>2. /\ Winning(a) \subseteq a /\ Losing(a) \subseteq a /\ Flat(a) \subseteq a
      /\ Winning(b) \subseteq b /\ Losing(b) \subseteq b /\ Flat(b) \subseteq b
      /\ Winning(a \union b) = Winning(a) \union Winning(b)
      /\ Losing(a \union b) = Losing(a) \union Losing(b)
      /\ Flat(a \union b) = Flat(a) \union Flat(b)
  BY DEF Winning, Losing, Flat, Known
<1>3. \A s \in SUBSET a, r \in SUBSET b : Cardinality(s \union r) = Cardinality(s) + Cardinality(r)
  BY <1>1, FS_Subset, CountOfParts
<1>4. /\ Cardinality(Winning(a \union b)) = Cardinality(Winning(a)) + Cardinality(Winning(b))
      /\ Cardinality(Losing(a \union b)) = Cardinality(Losing(a)) + Cardinality(Losing(b))
      /\ Cardinality(Flat(a \union b)) = Cardinality(Flat(a)) + Cardinality(Flat(b))
      /\ Cardinality(a \union b) = Cardinality(a) + Cardinality(b)
  BY <1>2, <1>3
<1>5. SumFunctionOnSet(Paid, a \union b) = SumFunctionOnSet(Paid, a) + SumFunctionOnSet(Paid, b)
  BY <1>1, SumOfParts
<1> QED
  BY <1>4, <1>5 DEF Book, Both, FigureNames

(* A figure of the books that were filed, and its sum.                     *)
FigureOf(reports, k) == [d \in DOMAIN reports |-> reports[d][k]]

Filed(reports) ==
    [k \in FigureNames |-> SumFunctionOnSet(FigureOf(reports, k), DOMAIN reports)]

LEMMA OneMoreFigure ==
  ASSUME NEW n \in Nat, NEW f, NEW h, NEW v \in Int,
         \A d \in 1..n : f[d] \in Int /\ h[d] = f[d], h[n + 1] = v
  PROVE  SumFunctionOnSet(h, 1..(n + 1)) = SumFunctionOnSet(f, 1..n) + v
<1>1. \A d \in 1..(n + 1) : h[d] \in Int
  <2> SUFFICES ASSUME NEW d \in 1..(n + 1) PROVE h[d] \in Int
    OBVIOUS
  <2>1. d = n + 1 \/ d \in 1..n
    OBVIOUS
  <2> QED
    BY <2>1
<1>2. SumFunctionOnSet(h, 1..(n + 1)) = SumFunctionOnSet(h, 1..n) + h[n + 1]
  BY <1>1, SumUpTo
<1>3. IsFiniteSet(1..n)
  BY FS_Interval
<1>4. SumFunctionOnSet(f, 1..n) = SumFunctionOnSet(h, 1..n)
  BY <1>3, SumOfSame
<1> QED
  BY <1>2, <1>4

LEMMA OneMoreFiled ==
  ASSUME NEW reports \in Seq(Books), NEW b \in Books
  PROVE  Filed(Append(reports, b)) = Both(Filed(reports), b)
<1> DEFINE n == Len(reports)
           more == Append(reports, b)
<1>1. /\ n \in Nat /\ DOMAIN reports = 1..n /\ DOMAIN more = 1..(n + 1)
      /\ \A d \in 1..n : more[d] = reports[d] /\ reports[d] \in Books
      /\ more[n + 1] = b
  OBVIOUS
<1> HIDE DEF n, more
<1>2. (\A d \in 1..n : d \in 1..(n + 1)) /\ n + 1 \in 1..(n + 1)
  BY <1>1
<1>3. ASSUME NEW k \in FigureNames
      PROVE  SumFunctionOnSet(FigureOf(more, k), 1..(n + 1))
             = SumFunctionOnSet(FigureOf(reports, k), 1..n) + b[k]
  <2> DEFINE f == FigureOf(reports, k)
             h == FigureOf(more, k)
  <2>1. /\ \A d \in 1..n : f[d] \in Int /\ h[d] = f[d]
        /\ h[n + 1] = b[k] /\ b[k] \in Int
    BY <1>1, <1>2 DEF FigureOf, Books
  <2> HIDE DEF f, h
  <2>2. SumFunctionOnSet(h, 1..(n + 1)) = SumFunctionOnSet(f, 1..n) + b[k]
    BY <1>1, <2>1, OneMoreFigure
  <2> QED
    BY <2>2 DEF f, h
<1> QED
  BY <1>1, <1>3 DEF Filed, Both, more

(* Midnight before the present.                                            *)
TodayStart == DayLength * (clock \div DayLength)
ClosedBefore == {t \in ClosedTrades : trade[t].closed < TodayStart}

FiledInv ==
    /\ filed \in Seq(Books)
    /\ Filed(filed) = Book(ClosedBefore)

LEMMA TodayHoldsNow ==
  ASSUME NEW c \in Nat, NEW d \in Nat \ {0}
  PROVE  /\ d * (c \div d) \in Nat
         /\ d * (c \div d) <= c /\ c < d * (c \div d) + d
         /\ d * ((c + 1) \div d) = IF c + 1 < d * (c \div d) + d THEN d * (c \div d)
                                   ELSE d * (c \div d) + d
<1> DEFINE q == c \div d
           p == (c + 1) \div d
<1>1. q \in Int /\ d * q <= c /\ c < d * q + d
  BY SMTT(30)
<1>2. p \in Int /\ d * p <= c + 1 /\ c + 1 < d * p + d
  BY SMTT(30)
<1> HIDE DEF q, p
<1>3. d * q \in Nat
  <2>1. q >= 0
    <3> SUFFICES ASSUME q < 0 PROVE FALSE
      BY <1>1
    <3>1. d * (q + 1) <= 0
      BY <1>1, SMTT(30)
    <3> QED
      BY <1>1, <3>1, SMTT(30)
  <2> QED
    BY <1>1, <2>1, SMTT(30)
<1>4. CASE c + 1 < d * q + d
  <2>1. p = q
    BY <1>1, <1>2, <1>4, SMTT(60)
  <2> QED
    BY <1>1, <1>3, <1>4, <2>1 DEF q, p
<1>5. CASE ~ (c + 1 < d * q + d)
  <2>1. p = q + 1
    BY <1>1, <1>2, <1>5, SMTT(60)
  <2>2. d * p = d * q + d
    BY <1>1, <2>1, SMTT(30)
  <2> QED
    BY <1>1, <1>3, <1>5, <2>2 DEF q, p
<1> QED
  BY <1>4, <1>5

LEMMA SumOfRealized ==
  ASSUME DayInv, NEW rows \in SUBSET ClosedTrades
  PROVE  MapThenSumSet(Realized, rows) = SumFunctionOnSet(Paid, rows)
<1> DEFINE W(g) == g = [s \in SUBSET rows |->
                          IF s = {} THEN 0
                          ELSE trade[Picked(s)].realized + g[s \ {Picked(s)}]]
           h == CHOOSE g : W(g)
<1>1. IsFiniteSet(rows) /\ \A t \in rows : Paid[t] \in Int /\ Paid[t] = trade[t].realized
  BY ClosedAreKnown, FS_Subset
<1>2. \A s \in SUBSET rows : s # {} => Paid[Picked(s)] = trade[Picked(s)].realized
  BY <1>1, PickedIsIn
<1>3. PICK g : Adds(Paid, g, rows)
  BY <1>1, AddsExists
<1>4. W(g)
  BY <1>2, <1>3 DEF Adds
<1>5. W(h)
  BY <1>4
<1>6. MapThenSumSet(Realized, rows) = h[rows]
  BY DEF MapThenSumSet, MapThenFoldSet, Realized, Picked
<1> HIDE DEF h
<1>7. Adds(Paid, h, rows)
  BY <1>2, <1>5 DEF Adds
<1> QED
  BY <1>1, <1>6, <1>7, SumOfSubset

LEMMA ClosesByDay ==
  ASSUME DayInv
  PROVE  /\ ClosedTrades = ClosedBefore \union ClosedToday /\ ClosedBefore \cap ClosedToday = {}
         /\ ClosedBefore \in SUBSET ClosedTrades /\ ClosedToday \in SUBSET ClosedTrades
<1>1. clock \in Nat /\ DayLength \in Nat \ {0}
  BY DayAssumption DEF DayInv
<1>2. TodayStart \in Nat /\ TodayStart <= clock /\ clock < TodayStart + DayLength
  BY <1>1, TodayHoldsNow DEF TodayStart
<1>3. Today = TodayStart .. TodayStart + DayLength - 1
  BY DEF Today, TodayStart
<1>4. \A t \in ClosedTrades : trade[t].closed \in 0..clock
  BY ClosedAreKnown
<1>5. ClosedToday = {t \in ClosedTrades : trade[t].closed \in Today}
  <2>1. \A t \in Positions : trade[t].stage # "closed" => trade[t].closed \notin Today
    BY <1>2, <1>3, DayAssumption DEF Positions, DayInv, CloseIsKnown
  <2> QED
    BY <2>1 DEF ClosedToday, Positions, ClosedTrades
<1> HIDE DEF ClosedTrades
<1>6. \A t \in ClosedTrades : trade[t].closed \in Today <=> ~ (trade[t].closed < TodayStart)
  BY <1>1, <1>2, <1>3, <1>4
<1> QED
  BY <1>5, <1>6 DEF ClosedBefore

LEMMA ReportIsBook ==
  ASSUME DayInv
  PROVE  Figures(EodReport) \in Books /\ Figures(EodReport) = Book(ClosedToday)
<1>1. ClosedToday \in SUBSET ClosedTrades
  BY ClosesByDay
<1>2. \A t \in ClosedToday : Realized(t) # Unknown
  BY <1>1, ClosedAreKnown DEF Realized
<1>3. Known(ClosedToday) = ClosedToday
  BY <1>2 DEF Known
<1>4. SumOf(ClosedToday, Realized) = SumFunctionOnSet(Paid, ClosedToday)
  <2>1. SumOf(ClosedToday, Realized) = MapThenSumSet(Realized, ClosedToday)
    BY <1>2 DEF SumOf, Realized
  <2> QED
    BY <1>1, <2>1, SumOfRealized
<1>5. Figures(EodReport) = [closed |-> Cardinality(ClosedToday),
                            realized |-> SumFunctionOnSet(Paid, ClosedToday),
                            wins |-> Cardinality(Winning(ClosedToday)),
                            losses |-> Cardinality(Losing(ClosedToday)),
                            flat |-> Cardinality(Flat(ClosedToday))]
  BY <1>3, <1>4 DEF Figures, EodReport, CountIfKnown
<1>6. Figures(EodReport) = Book(ClosedToday)
  BY <1>5 DEF Book, FigureNames
<1> QED
  BY <1>1, <1>6, BookIsBook

LEMMA FiledStart == DayInit => FiledInv
<1> SUFFICES ASSUME DayInit PROVE FiledInv
  OBVIOUS
<1>1. filed = <<>> /\ filed \in Seq(Books) /\ DOMAIN filed = {}
  BY DEF DayInit
<1>2. ClosedBefore = {}
  BY DEF ClosedBefore, ClosedTrades, DayInit, NoTrade
<1>3. Winning({}) = {} /\ Losing({}) = {} /\ Flat({}) = {} /\ Cardinality({}) = 0
  BY FS_EmptySet DEF Winning, Losing, Flat, Known
<1>4. \A k \in FigureNames : Filed(filed)[k] = 0
  BY <1>1, SumOfNone DEF Filed
<1>5. \A k \in FigureNames : Book({})[k] = 0
  BY <1>3, SumOfNone DEF Book, FigureNames
<1> QED
  BY <1>1, <1>2, <1>4, <1>5 DEF FiledInv, Filed, Book

(* What was closed before is told in the same way after a step.            *)
LEMMA BookStays ==
  ASSUME DayInv, DayInv', ClosesStay, NEW rows \in SUBSET ClosedTrades
  PROVE  Book(rows)' = Book(rows) /\ rows \in SUBSET ClosedTrades'
<1>1. /\ \A t \in rows : trade'[t].realized = trade[t].realized
      /\ rows \in SUBSET ClosedTrades' /\ rows \subseteq Trades
  BY DEF ClosesStay, ClosedTrades
<1>2. IsFiniteSet(rows) /\ \A t \in rows : Paid[t] \in Int /\ Paid'[t] = Paid[t]
  BY <1>1, ClosedAreKnown, FS_Subset DEF Paid
<1>3. SumFunctionOnSet(Paid', rows) = SumFunctionOnSet(Paid, rows)
  BY <1>2, SumOfSame
<1>4. Winning(rows)' = Winning(rows) /\ Losing(rows)' = Losing(rows) /\ Flat(rows)' = Flat(rows)
  BY <1>1 DEF Winning, Losing, Flat, Known, Realized
<1> QED
  BY <1>1, <1>3, <1>4 DEF Book

LEMMA FiledKept ==
  ASSUME DayInv, DayInv', ClosesStay, FiledInv, UNCHANGED <<clock, filed>>
  PROVE  FiledInv'
<1>1. ClosedBefore \in SUBSET ClosedTrades
  BY DEF ClosedBefore
<1>2. ClosedBefore' = ClosedBefore
  <2>1. clock \in Nat /\ TodayStart <= clock /\ TodayStart' = TodayStart /\ TodayStart \in Nat
    BY TodayHoldsNow, DayAssumption DEF TodayStart, DayInv
  <2> QED
    BY <2>1 DEF ClosedBefore, ClosedTrades, ClosesStay
<1>3. Book(ClosedBefore)' = Book(ClosedBefore)
  <2>1. PICK rows \in SUBSET ClosedTrades : rows = ClosedBefore
    BY <1>1
  <2>2. Book(rows)' = Book(rows)
    BY BookStays
  <2>3. Book(ClosedBefore)' = Book(rows)'
    BY <1>2, <2>1 DEF Book, Winning, Losing, Flat, Known, Realized
  <2> QED
    BY <2>1, <2>2, <2>3
<1>4. Filed(filed)' = Filed(filed)
  BY DEF Filed, FigureOf
<1> QED
  BY <1>3, <1>4 DEF FiledInv

(* At midnight the day is filed.                                           *)
LEMMA MidnightFiles ==
  ASSUME DayInv, DayInv', ClosesStay, FiledInv, TimePasses
  PROVE  FiledInv'
<1>1. /\ clock \in Nat /\ clock' = clock + 1 /\ DayLength \in Nat \ {0}
      /\ UNCHANGED <<trade, outcome>>
  BY DayAssumption DEF TimePasses, DayInv
<1>2. /\ TodayStart \in Nat /\ TodayStart <= clock /\ clock < TodayStart + DayLength
      /\ TodayStart' = IF clock + 1 < TodayStart + DayLength THEN TodayStart
                       ELSE TodayStart + DayLength
      /\ Today = TodayStart .. TodayStart + DayLength - 1
  BY <1>1, TodayHoldsNow DEF TodayStart, Today
<1>3. ClosedTrades' = ClosedTrades
  BY <1>1 DEF ClosedTrades
<1>4. ASSUME NEW rows PROVE Book(rows)' = Book(rows)
  BY <1>1 DEF Book, Paid, Winning, Losing, Flat, Known, Realized
<1>5. CASE clock' \in Today
  <2>1. filed' = filed /\ TodayStart' = TodayStart
    BY <1>1, <1>2, <1>5 DEF TimePasses
  <2>2. ClosedBefore' = ClosedBefore
    BY <1>1, <1>3, <2>1 DEF ClosedBefore
  <2>3. Book(ClosedBefore)' = Book(ClosedBefore)
    BY <1>1, <2>2 DEF Book, Paid, Winning, Losing, Flat, Known, Realized
  <2> QED
    BY <2>1, <2>3 DEF FiledInv, Filed, FigureOf
<1>6. CASE clock' \notin Today
  <2>1. /\ filed' = Append(filed, Figures(EodReport))
        /\ TodayStart' = TodayStart + DayLength
    BY <1>1, <1>2, <1>6 DEF TimePasses
  <2>2. /\ Figures(EodReport) \in Books /\ Figures(EodReport) = Book(ClosedToday)
        /\ filed \in Seq(Books)
    BY ReportIsBook DEF FiledInv
  <2>3. filed' \in Seq(Books) /\ Filed(filed') = Both(Filed(filed), Book(ClosedToday))
    BY <2>1, <2>2, OneMoreFiled
  <2>4. Both(Book(ClosedBefore), Book(ClosedToday)) = Book(ClosedTrades)
    BY ClosesByDay, BookOfParts
  <2>5. ClosedBefore' = ClosedTrades
    <3>1. \A t \in ClosedTrades : trade'[t].closed < TodayStart'
      BY <1>1, <1>2, <2>1, ClosedAreKnown
    <3> QED
      BY <1>3, <3>1 DEF ClosedBefore
  <2>6. Book(ClosedBefore)' = Book(ClosedTrades)
    BY <1>1, <2>5 DEF Book, Paid, Winning, Losing, Flat, Known, Realized
  <2> QED
    BY <2>3, <2>4, <2>6 DEF FiledInv
<1> QED
  BY <1>5, <1>6

LEMMA FiledInductive == DayInv /\ FiledInv /\ [DayNext]_dayVars => FiledInv'
<1> SUFFICES ASSUME DayInv, FiledInv, [DayNext]_dayVars PROVE FiledInv'
  OBVIOUS
<1>1. DayInv' /\ ClosesStay
  BY DayInductive
<1>2. TimePasses \/ UNCHANGED <<clock, filed>>
  <2>1. CASE \E t \in Trades : SubmitOrder(t) \/ FillOrder(t) \/ OpenByTrader(t)
    BY <2>1 DEF SubmitOrder, FillOrder, OpenByTrader
  <2>2. CASE \E t \in Trades, g \in Marks : MarkToMarket(t, g)
    BY <2>2 DEF MarkToMarket
  <2>3. CASE \E t \in Trades, g \in Moves : ClosePosition(t, g) \/ CloseExpired(t, g)
    BY <2>3 DEF ClosePosition, CloseExpired
  <2>4. CASE UNCHANGED dayVars
    BY <2>4 DEF dayVars
  <2> QED
    BY <2>1, <2>2, <2>3, <2>4 DEF DayNext
<1> QED
  BY <1>1, <1>2, FiledKept, MidnightFiles

(* The total of a figure as the property takes it.                         *)
LEMMA TotalIsFiled ==
  ASSUME NEW reports \in Seq(Books)
  PROVE  /\ MapThenSumSet(LAMBDA d : reports[d].closed, 1..Len(reports)) = Filed(reports).closed
         /\ MapThenSumSet(LAMBDA d : reports[d].realized, 1..Len(reports))
            = Filed(reports).realized
         /\ MapThenSumSet(LAMBDA d : reports[d].wins, 1..Len(reports)) = Filed(reports).wins
         /\ MapThenSumSet(LAMBDA d : reports[d].losses, 1..Len(reports)) = Filed(reports).losses
         /\ MapThenSumSet(LAMBDA d : reports[d].flat, 1..Len(reports)) = Filed(reports).flat
<1> DEFINE n == Len(reports)
<1>1. ASSUME NEW k \in FigureNames
      PROVE  MapThenSumSet(LAMBDA d : reports[d][k], 1..n) = Filed(reports)[k]
  <2> DEFINE f == FigureOf(reports, k)
             W(g) == g = [s \in SUBSET (1..n) |->
                            IF s = {} THEN 0 ELSE reports[Picked(s)][k] + g[s \ {Picked(s)}]]
             h == CHOOSE g : W(g)
  <2>1. /\ DOMAIN reports = 1..n /\ IsFiniteSet(1..n)
        /\ \A d \in 1..n : f[d] = reports[d][k] /\ f[d] \in Int
    BY FS_Interval DEF FigureOf, Books
  <2>2. \A s \in SUBSET (1..n) : s # {} => f[Picked(s)] = reports[Picked(s)][k]
    BY <2>1, PickedIsIn
  <2>3. PICK g : Adds(f, g, 1..n)
    BY <2>1, AddsExists
  <2>4. W(g)
    BY <2>2, <2>3 DEF Adds
  <2>5. W(h)
    BY <2>4
  <2>6. MapThenSumSet(LAMBDA d : reports[d][k], 1..n) = h[1..n]
    BY DEF MapThenSumSet, MapThenFoldSet, Picked
  <2> HIDE DEF h
  <2>7. Adds(f, h, 1..n)
    BY <2>2, <2>5 DEF Adds
  <2>8. SumFunctionOnSet(f, 1..n) = h[1..n]
    BY <2>1, <2>7, SumOfSubset
  <2> QED
    BY <2>1, <2>6, <2>8 DEF Filed
<1> QED
  BY <1>1 DEF FigureNames

(* The reports together are the book of all closed trades.                 *)
LEMMA ReportsAddUp ==
  ASSUME DayInv, FiledInv
  PROVE  /\ Reports \in Seq(Books)
         /\ Filed(Reports).closed = Cardinality(ClosedTrades)
         /\ Filed(Reports).realized = SumFunctionOnSet(Paid, ClosedTrades)
         /\ Filed(Reports).wins = Cardinality(Winning(ClosedTrades))
         /\ Filed(Reports).losses = Cardinality(Losing(ClosedTrades))
         /\ Filed(Reports).flat = Cardinality(Flat(ClosedTrades))
<1>1. /\ Reports \in Seq(Books)
      /\ Filed(Reports) = Both(Book(ClosedBefore), Book(ClosedToday))
  BY ReportIsBook, OneMoreFiled DEF FiledInv, Reports
<1>2. Filed(Reports) = Book(ClosedTrades)
  BY <1>1, ClosesByDay, BookOfParts
<1> QED
  BY <1>1, <1>2 DEF Book, FigureNames

LEMMA FiledOnce == DayInv /\ FiledInv => ClosesFiledOnce
<1> SUFFICES ASSUME DayInv, FiledInv PROVE ClosesFiledOnce
  OBVIOUS
<1> DEFINE reports == Reports
<1>1. ClosedRows = ClosedTrades
  BY ClosedAreKnown
<1>2. SumOf(ClosedRows, Realized) = SumFunctionOnSet(Paid, ClosedTrades)
  <2>1. \A t \in ClosedTrades : Realized(t) # Unknown
    BY ClosedAreKnown DEF Realized
  <2>2. SumOf(ClosedRows, Realized) = MapThenSumSet(Realized, ClosedTrades)
    BY <1>1, <2>1 DEF SumOf, Realized
  <2> QED
    BY <2>2, SumOfRealized
<1>3. /\ reports \in Seq(Books)
      /\ Filed(reports).closed = Cardinality(ClosedTrades)
      /\ Filed(reports).realized = SumFunctionOnSet(Paid, ClosedTrades)
      /\ Filed(reports).wins = Cardinality(Winning(ClosedTrades))
      /\ Filed(reports).losses = Cardinality(Losing(ClosedTrades))
      /\ Filed(reports).flat = Cardinality(Flat(ClosedTrades))
  BY ReportsAddUp
<1> HIDE DEF reports
<1>4. /\ MapThenSumSet(LAMBDA d : reports[d].closed, 1..Len(reports)) = Cardinality(ClosedTrades)
      /\ MapThenSumSet(LAMBDA d : reports[d].realized, 1..Len(reports))
         = SumFunctionOnSet(Paid, ClosedTrades)
      /\ MapThenSumSet(LAMBDA d : reports[d].wins, 1..Len(reports))
         = Cardinality(Winning(ClosedTrades))
      /\ MapThenSumSet(LAMBDA d : reports[d].losses, 1..Len(reports))
         = Cardinality(Losing(ClosedTrades))
      /\ MapThenSumSet(LAMBDA d : reports[d].flat, 1..Len(reports))
         = Cardinality(Flat(ClosedTrades))
  BY <1>3, TotalIsFiled
<1> QED
  BY <1>1, <1>2, <1>4 DEF ClosesFiledOnce, InAll, reports

LEMMA SmallerOfTwo ==
  ASSUME NEW a \in Nat, NEW b \in Nat
  PROVE  Min({a, b}) = IF a <= b THEN a ELSE b
BY DEF Min

(* What is on the page is cut from the closed trades, and only what is     *)
(* older than all that is on it is cut off.                                *)
LEMMA CutIsNewest ==
  ASSUME DayInv, NEW rows \in Explained
  PROVE  /\ rows \in SUBSET ClosedTrades /\ IsFiniteSet(rows)
         /\ Cardinality(ClosedTrades) <= MaxRows => rows = ClosedTrades
         /\ Cardinality(ClosedToday) <= MaxRows => ClosedToday \subseteq rows
<1>1. /\ ClosedRows = ClosedTrades /\ IsFiniteSet(ClosedTrades)
      /\ \A t \in ClosedTrades : trade[t].closed \in 0..clock
  BY ClosedAreKnown
<1>2. /\ rows \in SUBSET ClosedTrades
      /\ Cardinality(rows) = Min({MaxRows, Cardinality(ClosedTrades)})
      /\ \A t \in rows, u \in ClosedTrades \ rows : NotOlder(t, u)
  BY <1>1 DEF Explained, FirstRows
<1>3. /\ IsFiniteSet(rows) /\ Cardinality(rows) \in Nat
      /\ Cardinality(ClosedTrades) \in Nat /\ MaxRows \in Nat
      /\ Cardinality(rows) = Cardinality(ClosedTrades) => rows = ClosedTrades
  BY <1>1, <1>2, FS_Subset, FS_CardinalityType, DayAssumption
<1>4. Cardinality(rows) = IF MaxRows <= Cardinality(ClosedTrades)
                          THEN MaxRows ELSE Cardinality(ClosedTrades)
  BY <1>2, <1>3, SmallerOfTwo
<1>5. Cardinality(ClosedTrades) <= MaxRows => rows = ClosedTrades
  BY <1>3, <1>4
<1>6. ASSUME Cardinality(ClosedToday) <= MaxRows, NEW t \in ClosedToday, t \notin rows
      PROVE  FALSE
  <2>1. ClosedToday \in SUBSET ClosedTrades /\ t \in ClosedTrades \ rows
    BY <1>6, ClosesByDay
  <2>2. Cardinality(rows) = MaxRows
    BY <1>3, <1>4, <1>5, <2>1
  <2>3. \A r \in rows : trade[t].closed <= trade[r].closed /\ trade[r].closed <= clock
    BY <1>1, <1>2, <2>1, DayAssumption DEF NotOlder
  <2>4. rows \subseteq ClosedToday \ {t}
    <3>1. /\ clock \in Nat /\ TodayStart \in Nat /\ clock < TodayStart + DayLength
          /\ DayLength \in Nat
      BY TodayHoldsNow, DayAssumption DEF TodayStart, DayInv
    <3>2. Today = TodayStart .. TodayStart + DayLength - 1
      BY DEF Today, TodayStart
    <3>3. trade[t].closed \in Today
      BY DEF ClosedToday
    <3>4. \A r \in rows : trade[r].closed \in 0..clock
      BY <1>1, <1>2
    <3>5. \A r \in rows : trade[r].closed \in Today
      BY <2>3, <3>1, <3>2, <3>3, <3>4
    <3>6. \A r \in rows : r \in Positions
      BY <1>2 DEF ClosedTrades, Positions
    <3> QED
      BY <1>6, <3>5, <3>6 DEF ClosedToday
  <2>5. IsFiniteSet(ClosedToday)
    BY <1>1, <2>1, FS_Subset
  <2>6. /\ Cardinality(ClosedToday \ {t}) = Cardinality(ClosedToday) - 1
        /\ IsFiniteSet(ClosedToday \ {t}) /\ Cardinality(ClosedToday) \in Nat
    BY <1>6, <2>5, FS_RemoveElement, FS_CardinalityType
  <2>7. Cardinality(rows) <= Cardinality(ClosedToday \ {t})
    BY <2>4, <2>6, FS_Subset
  <2> QED
    BY <1>3, <1>6, <2>2, <2>6, <2>7
<1> QED
  BY <1>2, <1>3, <1>5, <1>6

(* The counts of the page are those of the reports, up to its cut.         *)
LEMMA PageReachesBack == DayInv /\ FiledInv => ExplainedReachBack
<1> SUFFICES ASSUME DayInv, FiledInv PROVE ExplainedReachBack
  OBVIOUS
<1> DEFINE reports == Reports
<1>1. /\ reports \in Seq(Books)
      /\ Filed(reports).closed = Cardinality(ClosedTrades)
      /\ Filed(reports).wins = Cardinality(Winning(ClosedTrades))
      /\ Filed(reports).losses = Cardinality(Losing(ClosedTrades))
      /\ Filed(reports).flat = Cardinality(Flat(ClosedTrades))
  BY ReportsAddUp
<1> HIDE DEF reports
<1>2. /\ MapThenSumSet(LAMBDA d : reports[d].closed, 1..Len(reports)) = Cardinality(ClosedTrades)
      /\ MapThenSumSet(LAMBDA d : reports[d].wins, 1..Len(reports))
         = Cardinality(Winning(ClosedTrades))
      /\ MapThenSumSet(LAMBDA d : reports[d].losses, 1..Len(reports))
         = Cardinality(Losing(ClosedTrades))
      /\ MapThenSumSet(LAMBDA d : reports[d].flat, 1..Len(reports))
         = Cardinality(Flat(ClosedTrades))
  BY <1>1, TotalIsFiled
<1>3. ASSUME NEW rows \in Explained
      PROVE  /\ Cardinality(ClosedTrades) <= MaxRows => rows = ClosedTrades
             /\ Cardinality(Winning(rows)) <= Cardinality(Winning(ClosedTrades))
             /\ Cardinality(Losing(rows)) <= Cardinality(Losing(ClosedTrades))
             /\ Cardinality(Flat(rows)) <= Cardinality(Flat(ClosedTrades))
             /\ Cardinality(ClosedToday) <= MaxRows => ClosedToday \subseteq rows
  <2>1. /\ rows \in SUBSET ClosedTrades
        /\ Cardinality(ClosedTrades) <= MaxRows => rows = ClosedTrades
        /\ Cardinality(ClosedToday) <= MaxRows => ClosedToday \subseteq rows
    BY CutIsNewest
  <2>2. /\ Winning(rows) \subseteq Winning(ClosedTrades) /\ Winning(ClosedTrades) \subseteq ClosedTrades
        /\ Losing(rows) \subseteq Losing(ClosedTrades) /\ Losing(ClosedTrades) \subseteq ClosedTrades
        /\ Flat(rows) \subseteq Flat(ClosedTrades) /\ Flat(ClosedTrades) \subseteq ClosedTrades
    BY <2>1 DEF Winning, Losing, Flat, Known
  <2>3. /\ IsFiniteSet(Winning(ClosedTrades)) /\ IsFiniteSet(Losing(ClosedTrades))
        /\ IsFiniteSet(Flat(ClosedTrades))
    BY <2>2, ClosedAreKnown, FS_Subset
  <2> QED
    BY <2>1, <2>2, <2>3, FS_Subset
<1>4. \A rows : /\ Explanations(rows).total = Cardinality(rows)
                /\ Explanations(rows).profitable = Cardinality(Winning(rows))
                /\ Explanations(rows).losing = Cardinality(Losing(rows))
                /\ Explanations(rows).flat = Cardinality(Flat(rows))
                /\ DOMAIN Explanations(rows).trades = rows
  BY DEF Explanations
<1> QED
  BY <1>2, <1>3, <1>4 DEF ExplainedReachBack, InAll, reports

LEMMA DayPagesFollow == DayInv /\ FiledInv => DayPagesTrue
BY FiledOnce, PageReachesBack, PagesAreAgreed, VerdictsAreRight DEF DayPagesTrue

-----------------------------------------------------------------------------

Standings == {"none", "open", "closed", "accepted", "filled", "rejected", "draft", "approved"}

Wares ==
    [kind : {"none", "position", "order", "recommendation"}, status : Standings, age : 0..3,
     pnl : {"unknown", "gain", "loss"}, missing : BOOLEAN, score : {"good", "unsure", "risky"}]

WatchInv ==
    /\ item \in [Items -> Wares]
    /\ \A i \in Items : item[i].kind # "none" => item[i].status \in Statuses[item[i].kind]
    /\ newest \in Seq(Items)
    /\ decision \in [Items -> {"none", "approved", "rejected"}]
    /\ notes \in Seq({"info", "warn"}) /\ Len(notes) <= NoteLimit

LEMMA WatchStart == WatchInit => WatchInv
<1> SUFFICES ASSUME WatchInit PROVE WatchInv
  OBVIOUS
<1>1. NoItem \in Wares /\ NoItem.kind = "none"
  BY DEF NoItem, Wares, Standings
<1>2. /\ item \in [Items -> Wares] /\ \A i \in Items : item[i] = NoItem
      /\ decision \in [Items -> {"none", "approved", "rejected"}]
  BY <1>1 DEF WatchInit
<1>3. newest = <<>> /\ notes = <<>>
  BY DEF WatchInit
<1>4. newest \in Seq(Items) /\ notes \in Seq({"info", "warn"}) /\ Len(notes) <= NoteLimit
  BY <1>3, WatchAssumption
<1> QED
  BY <1>1, <1>2, <1>4 DEF WatchInv

LEMMA StatusesAreNamed ==
  \A kind \in {"none", "position", "order", "recommendation"} : Statuses[kind] \subseteq Standings
BY DEF Statuses, Standings

LEMMA OneItemKeeps ==
  ASSUME WatchInv, NEW i \in Items, NEW x \in Wares, item' = [item EXCEPT ![i] = x],
         x.kind # "none" => x.status \in Statuses[x.kind],
         newest' \in Seq(Items), UNCHANGED <<decision, notes>>
  PROVE  WatchInv'
BY DEF WatchInv

LEMMA CreateKeeps ==
  ASSUME WatchInv, NEW i \in Items, NEW kind \in {"position", "order", "recommendation"},
         NEW status \in Statuses[kind], Create(i, kind, status)
  PROVE  WatchInv'
<1>1. PICK missing \in BOOLEAN :
         item' = [item EXCEPT ![i] = [NoItem EXCEPT !.kind = kind, !.status = status,
                                                    !.missing = missing]]
  BY DEF Create
<1> DEFINE x == [NoItem EXCEPT !.kind = kind, !.status = status, !.missing = missing]
<1>2. status \in Standings
  BY StatusesAreNamed
<1>3. x \in Wares /\ x.kind = kind /\ x.status = status
  <2> DEFINE named == [NoItem EXCEPT !.kind = kind]
             placed == [named EXCEPT !.status = status]
  <2>1. NoItem \in Wares
    BY DEF NoItem, Wares, Standings
  <2>2. named \in Wares /\ named.kind = kind
    BY <2>1 DEF Wares
  <2> HIDE DEF named
  <2>3. placed \in Wares /\ placed.kind = kind /\ placed.status = status
    BY <1>2, <2>2 DEF Wares
  <2> HIDE DEF placed
  <2>4. [placed EXCEPT !.missing = missing] \in Wares
        /\ [placed EXCEPT !.missing = missing].kind = kind
        /\ [placed EXCEPT !.missing = missing].status = status
    BY <2>3 DEF Wares
  <2> QED
    BY <2>4 DEF placed, named
<1>4. newest' \in Seq(Items) /\ UNCHANGED <<decision, notes>>
  BY DEF Create, WatchInv
<1>5. item' = [item EXCEPT ![i] = x]
  BY <1>1
<1> HIDE DEF x
<1> QED
  BY <1>3, <1>4, <1>5, OneItemKeeps

LEMMA MoveKeeps ==
  ASSUME WatchInv, NEW i \in Items, Move(i)
  PROVE  WatchInv'
<1>1. PICK status \in Statuses[item[i].kind] : item' = [item EXCEPT ![i].status = status]
  BY DEF Move
<1> DEFINE x == [item[i] EXCEPT !.status = status]
<1>2. item[i] \in Wares /\ item[i].kind \in {"none", "position", "order", "recommendation"}
  BY DEF WatchInv, Wares
<1>3. status \in Standings
  BY <1>2, StatusesAreNamed
<1>4. x \in Wares /\ x.kind = item[i].kind /\ x.status = status
  BY <1>2, <1>3 DEF Wares
<1>5. newest' \in Seq(Items) /\ UNCHANGED <<decision, notes>> /\ item' = [item EXCEPT ![i] = x]
  BY <1>1 DEF Move, WatchInv
<1> HIDE DEF x
<1> QED
  BY <1>4, <1>5, OneItemKeeps

LEMMA AgeKeeps ==
  ASSUME WatchInv, NEW i \in Items, Age(i)
  PROVE  WatchInv'
<1> DEFINE x == [item[i] EXCEPT !.age = @ + 1]
<1>1. x \in Wares /\ x.kind = item[i].kind /\ x.status = item[i].status
  <2>1. item[i] \in Wares /\ item[i].age + 1 \in 0..3
    BY DEF Age, WatchInv, Wares
  <2> QED
    BY <2>1 DEF Wares
<1>2. newest' \in Seq(Items) /\ UNCHANGED <<decision, notes>> /\ item' = [item EXCEPT ![i] = x]
  BY DEF Age, WatchInv
<1>3. x.kind # "none" => x.status \in Statuses[x.kind]
  BY <1>1 DEF WatchInv
<1> HIDE DEF x
<1> QED
  BY <1>1, <1>2, <1>3, OneItemKeeps

LEMMA AssessKeeps ==
  ASSUME WatchInv, NEW i \in Items, Assess(i)
  PROVE  WatchInv'
<1>1. PICK x \in Wares : /\ item' = [item EXCEPT ![i] = x]
                         /\ x.kind = item[i].kind /\ x.status = item[i].status
  <2>1. ASSUME NEW pnl \in {"gain", "loss"}, item' = [item EXCEPT ![i].pnl = pnl]
        PROVE  \E x \in Wares : /\ item' = [item EXCEPT ![i] = x]
                                /\ x.kind = item[i].kind /\ x.status = item[i].status
    <3> DEFINE x == [item[i] EXCEPT !.pnl = pnl]
    <3>1. x \in Wares /\ x.kind = item[i].kind /\ x.status = item[i].status
      BY DEF WatchInv, Wares
    <3> QED
      BY <2>1, <3>1
  <2>2. ASSUME NEW score \in {"unsure", "risky"}, item' = [item EXCEPT ![i].score = score]
        PROVE  \E x \in Wares : /\ item' = [item EXCEPT ![i] = x]
                                /\ x.kind = item[i].kind /\ x.status = item[i].status
    <3> DEFINE x == [item[i] EXCEPT !.score = score]
    <3>1. x \in Wares /\ x.kind = item[i].kind /\ x.status = item[i].status
      BY DEF WatchInv, Wares
    <3> QED
      BY <2>2, <3>1
  <2> QED
    BY <2>1, <2>2 DEF Assess
<1>2. newest' \in Seq(Items) /\ UNCHANGED <<decision, notes>>
  BY DEF Assess, WatchInv
<1>3. x.kind # "none" => x.status \in Statuses[x.kind]
  BY <1>1 DEF WatchInv
<1> QED
  BY <1>1, <1>2, <1>3, OneItemKeeps

LEMMA WatchInductive == WatchInv /\ [WatchNext]_watchVars => WatchInv'
<1> SUFFICES ASSUME WatchInv, [WatchNext]_watchVars PROVE WatchInv'
  OBVIOUS
<1>1. "open" \in Statuses["position"] /\ "accepted" \in Statuses["order"]
      /\ "draft" \in Statuses["recommendation"]
  BY DEF Statuses
<1>2. ASSUME NEW i \in Items, Create(i, "position", "open") \/ Create(i, "order", "accepted")
                              \/ Create(i, "recommendation", "draft")
      PROVE  WatchInv'
  BY <1>1, <1>2, CreateKeeps
<1>3. ASSUME NEW i \in Items, DecideRisk(i) PROVE WatchInv'
  BY <1>3 DEF DecideRisk, WatchInv
<1>4. CASE RecordMonitor
  <2>1. PICK severity \in {"info", "warn"} :
           notes' = SubSeq(<<severity>> \o notes, 1,
                           IF Len(notes) < NoteLimit THEN Len(notes) + 1 ELSE NoteLimit)
    BY <1>4 DEF RecordMonitor
  <2> DEFINE more == <<severity>> \o notes
             n == IF Len(notes) < NoteLimit THEN Len(notes) + 1 ELSE NoteLimit
  <2>2. more \in Seq({"info", "warn"}) /\ Len(more) = Len(notes) + 1 /\ Len(notes) \in Nat
    BY DEF WatchInv
  <2>3. n \in Nat /\ n >= 1 /\ n <= Len(more) /\ n <= NoteLimit
    BY <2>2, WatchAssumption DEF WatchInv
  <2> HIDE DEF more, n
  <2>4. SubSeq(more, 1, n) \in Seq({"info", "warn"}) /\ Len(SubSeq(more, 1, n)) = n
    BY <2>2, <2>3
  <2>5. notes' = SubSeq(more, 1, n)
    BY <2>1 DEF more, n
  <2> QED
    BY <1>4, <2>3, <2>4, <2>5 DEF RecordMonitor, WatchInv
<1>5. CASE SwitchHalt \/ ConfigureLimits \/ UNCHANGED watchVars
  BY <1>5 DEF SwitchHalt, ConfigureLimits, watchVars, WatchInv
<1> QED
  BY <1>2, <1>3, <1>4, <1>5, MoveKeeps, AgeKeeps, AssessKeeps DEF WatchNext

LEMMA LastLabelOverrides ==
  ASSUME NEW labels, NEW n \in Nat \ {0}, DOMAIN labels = 1..n
  PROVE  /\ labels[n] # "none" => Overridden(labels) = labels[n]
         /\ (\E k \in 1..n : labels[k] # "none") =>
               \E k \in 1..n : labels[k] # "none" /\ Overridden(labels) = labels[k]
<1> DEFINE given == {k \in DOMAIN labels : labels[k] # "none"}
<1>1. Overridden(labels) = IF given = {} THEN "watch_only" ELSE labels[Max(given)]
  BY DEF Overridden
<1>2. given \subseteq 0..n
  OBVIOUS
<1>3. given # {} => Max(given) \in given /\ (n \in given => Max(given) = n)
  <2> HIDE DEF given
  <2> QED
    BY <1>2, GreatestIs
<1>4. n \in given <=> labels[n] # "none"
  OBVIOUS
<1>5. \A k \in given : k \in 1..n /\ labels[k] # "none"
  OBVIOUS
<1>6. given = {} <=> ~ \E k \in 1..n : labels[k] # "none"
  OBVIOUS
<1> HIDE DEF given
<1> QED
  BY <1>1, <1>3, <1>4, <1>5, <1>6

LEMMA NothingIsHidden == NothingHiddenSilently
BY DEF NothingHiddenSilently, AttentionPage, Listed

LEMMA StaleAreShown == WatchInv => StaleOnBothPages
<1> SUFFICES ASSUME WatchInv, NEW i \in StaleOrders
             PROVE  i \in InFlight /\ AttentionLevel(i) \in {"medium", "high"}
  BY DEF StaleOnBothPages
<1>1. PICK n \in DOMAIN newest : /\ i = newest[n] /\ item[i].kind = "order"
                                 /\ item[i].status \in StaleStatuses /\ item[i].age >= 2
  BY DEF StaleOrders
<1>2. i \in Items /\ item[i].status = "accepted" /\ item[i].age >= 1
  <2>1. i \in Items /\ item[i] \in Wares
    BY <1>1 DEF WatchInv
  <2>2. item[i].status \in Statuses["order"]
    BY <1>1, <2>1 DEF WatchInv
  <2>3. item[i].status = "accepted"
    BY <1>1, <2>2 DEF Statuses, StaleStatuses
  <2> QED
    BY <1>1, <2>1, <2>3 DEF Wares
<1>3. i \in InFlight
  BY <1>1, <1>2 DEF InFlight, ActiveStatuses
<1> DEFINE labels == <<When(item[i].age >= 1, "stale_data"), When(Lacks(i), "missing_context"),
                       When(Rejected(i), "risk_attention")>>
<1>4. /\ DOMAIN labels = 1..3 /\ labels[1] = "stale_data" /\ 3 \in Nat \ {0} /\ 1 \in 1..3
      /\ \A k \in 1..3 : labels[k] \in {"none", "stale_data", "missing_context", "risk_attention"}
  BY <1>2 DEF When
<1>5. Label(i) = Overridden(labels)
  BY <1>1 DEF Label, OrderLabel
<1> HIDE DEF labels
<1>6. Label(i) \in {"stale_data", "missing_context", "risk_attention"}
  BY <1>4, <1>5, LastLabelOverrides
<1> QED
  BY <1>3, <1>6 DEF AttentionLevel

LEMMA RejectionsAreHigh == WatchInv => RejectedIsHigh
<1> SUFFICES ASSUME WatchInv, NEW i \in InFlight, Rejected(i)
             PROVE  AttentionLevel(i) = "high"
  BY DEF RejectedIsHigh
<1>1. i \in Items /\ item[i].kind \in {"position", "order", "recommendation"}
  BY DEF InFlight, WatchInv, Wares, ActiveStatuses
<1>2. Label(i) = "risk_attention"
  <2>1. CASE item[i].kind = "order"
    <3> DEFINE labels == <<When(item[i].age >= 1, "stale_data"),
                           When(Lacks(i), "missing_context"),
                           When(Rejected(i), "risk_attention")>>
    <3>1. DOMAIN labels = 1..3 /\ labels[3] = "risk_attention"
          /\ labels[3] # "none" /\ 3 \in Nat \ {0}
      BY DEF When
    <3>2. Label(i) = Overridden(labels)
      BY <2>1 DEF Label, OrderLabel
    <3> HIDE DEF labels
    <3> QED
      BY <3>1, <3>2, LastLabelOverrides
  <2>2. CASE item[i].kind = "position"
    <3>1. PICK own : Label(i) = Overridden(<<own, When(MonitorAlert, "monitor_issue"),
                                             When(Rejected(i), "risk_attention")>>)
      BY <2>2 DEF Label, PositionLabel
    <3> DEFINE labels == <<own, When(MonitorAlert, "monitor_issue"),
                           When(Rejected(i), "risk_attention")>>
    <3>2. DOMAIN labels = 1..3 /\ labels[3] = "risk_attention"
          /\ labels[3] # "none" /\ 3 \in Nat \ {0}
      BY DEF When
    <3>3. Label(i) = Overridden(labels)
      BY <3>1
    <3> HIDE DEF labels
    <3> QED
      BY <3>2, <3>3, LastLabelOverrides
  <2>3. CASE item[i].kind = "recommendation"
    <3> DEFINE labels == <<When(item[i].age >= 2, "stale_data"),
                           When(item[i].score = "unsure", "review_required"),
                           When(item[i].score = "risky", "risk_attention"),
                           When(Rejected(i), "risk_attention")>>
    <3>1. DOMAIN labels = 1..4 /\ labels[4] = "risk_attention"
          /\ labels[4] # "none" /\ 4 \in Nat \ {0}
      BY DEF When
    <3>2. Label(i) = OrMissing(Overridden(labels), i)
      BY <2>3 DEF Label, RecommendationLabel
    <3> HIDE DEF labels
    <3> QED
      BY <3>1, <3>2, LastLabelOverrides DEF OrMissing
  <2> QED
    BY <1>1, <2>1, <2>2, <2>3
<1> QED
  BY <1>2 DEF AttentionLevel

LEMMA TroubleIsShown == WatchInv => TroubleShown
BY NothingIsHidden, StaleAreShown, RejectionsAreHigh DEF TroubleShown

-----------------------------------------------------------------------------

(* What holds a run back.                                                  *)
LEMMA GateOpens ==
  ASSUME NEW failing
  PROVE  LET gates == RunGates(failing) IN
         \/ BlockingGate(failing) = "none"
         \/ \E n \in 1..11 : gates[n].blocks /\ BlockingGate(failing) = gates[n].gate
<1> DEFINE gates == RunGates(failing)
           blocking == {n \in DOMAIN gates : gates[n].blocks}
<1>1. DOMAIN gates = 1..11
  BY DEF RunGates
<1>2. CASE blocking = {}
  BY <1>2 DEF BlockingGate
<1>3. CASE blocking # {}
  <2>1. Min(blocking) \in blocking
    BY <1>1, <1>3, LeastOf
  <2>2. BlockingGate(failing) = gates[Min(blocking)].gate
    BY <1>3 DEF BlockingGate
  <2> QED
    BY <1>1, <2>1, <2>2
<1> QED
  BY <1>2, <1>3

LEMMA SettingsOpen ==
  ASSUME NormalMode, env.enabled, env.perRun \in Int, env.perDay \in Int
  PROVE  BlockingGate("none") \in SettingGates
<1> SUFFICES ASSUME BlockingGate("none") # "none"
             PROVE  BlockingGate("none") \in {"kill_switch", "max_orders_per_day"}
  BY DEF SettingGates
<1>1. PICK n \in 1..11 : /\ RunGates("none")[n].blocks
                         /\ BlockingGate("none") = RunGates("none")[n].gate
  BY GateOpens
<1>2. n \in {1,2,3,4,5,6,7,8,9,10,11}
  BY <1>1
<1>3. ~ RunGates("none")[1].blocks /\ ~ RunGates("none")[2].blocks /\ ~ RunGates("none")[3].blocks
      /\ ~ RunGates("none")[4].blocks /\ ~ RunGates("none")[5].blocks /\ ~ RunGates("none")[6].blocks
      /\ ~ RunGates("none")[7].blocks
  BY DEF RunGates, NormalMode
<1>4. ~ RunGates("none")[8].blocks
  <2>1. env.perRun \in 1..3
    BY DEF NormalMode, WithinCaps, RunCap
  <2>2. ~ (env.perRun <= 0)
    BY <2>1
  <2> QED
    BY <2>2 DEF RunGates
<1>5. RunGates("none")[9].gate = "max_orders_per_day" /\ RunGates("none")[10].gate = "kill_switch"
      /\ RunGates("none")[11].gate = "max_orders_per_day"
  BY DEF RunGates
<1> QED
  BY <1>1, <1>2, <1>3, <1>4, <1>5 DEF SettingGates

LEMMA GatesDoAgree ==
  ASSUME env \in Environments
  PROVE  GatesAgree
<1>1. env.perRun \in Int /\ env.perDay \in Int /\ env.notional \in Int
  BY ControlsAssumption
<1>2. ASSUME NEW symbol \in env.allowlist, ControlledAutoAllowed(symbol, TRUE)
      PROVE  NormalMode /\ OrderGateAllows(symbol, 1) /\ BlockingGate("none") \in SettingGates
  <2>1. NormalMode /\ env.enabled
    BY <1>2 DEF ControlledAutoAllowed, NormalMode
  <2>2. OrderGateAllows(symbol, 1)
    BY <1>1, <1>2 DEF ControlledAutoAllowed, OrderGateAllows, WithinCaps
  <2> QED
    BY <1>1, <2>1, <2>2, SettingsOpen
<1>3. ASSUME NormalMode /\ env.enabled /\ env.account = "paper" /\ kill = "off",
             NEW symbol \in env.allowlist
      PROVE  ControlledAutoAllowed(symbol, TRUE)
             <=> symbol \in EquitySymbols /\ env.paperTrading
  BY <1>3 DEF NormalMode, ControlledAutoAllowed
<1> QED
  BY <1>2, <1>3 DEF GatesAgree

(* The advice that is given applies, and none before it does.              *)
LEMMA FirstApplies ==
  ASSUME NEW N \in Nat \ {0}, NEW advice, DOMAIN advice = 1..N, advice[N][1]
  PROVE  \E m \in 1..N : /\ advice[m][1] /\ First(advice) = advice[m][2]
                         /\ \A n \in 1..N : n < m => ~ advice[n][1]
<1> DEFINE true == {n \in DOMAIN advice : advice[n][1]}
<1>1. true \in SUBSET Nat /\ N \in true
  OBVIOUS
<1>2. Min(true) \in true /\ \A n \in true : Min(true) <= n
  <2> HIDE DEF true
  <2> QED
    BY <1>1, LeastOf
<1>3. First(advice) = advice[Min(true)][2]
  BY DEF First
<1> DEFINE m == Min(true)
<1>4. m \in true /\ (\A n \in true : m <= n) /\ First(advice) = advice[m][2]
  BY <1>2, <1>3
<1> HIDE DEF m
<1>5. m \in 1..N /\ advice[m][1] /\ \A n \in 1..N : n < m => ~ advice[n][1]
  BY <1>4
<1> QED
  BY <1>4, <1>5

(* What the guidance for the next run rests on.                            *)
LEMMA SuggestionRests ==
  ASSUME NEW failing, auto.open \in Nat, MaxOpen \in Nat
  PROVE  /\ Suggestion(failing) \in {"scheduler_runs", "run_one_cycle"} =>
               /\ failing = "none" /\ BlockingGate(failing) = "none"
               /\ OpenPositions(failing) < MaxOpen /\ auto.candidates
         /\ Suggestion(failing) = "wait_for_positions" => OpenPositions(failing) >= MaxOpen
<1> DEFINE gate == BlockingGate(failing)
           full == OpenPositions(failing) >= MaxOpen
           waits == ~ EligibleCandidates(failing)
           goes == gate = "none"
           scheduled == env.background /\ gate = "none" /\ NormalMode
           twsBlocks == TwsBlocks(gate)
           advice == <<<<env.live, "keep_live_disabled">>,
                       <<env.mode # "paper", "set_paper">>,
                       <<twsBlocks, "verify_tws">>,
                       <<gate = "max_orders_per_day", "wait_for_day">>,
                       <<gate = "kill_switch", "deactivate_kill_switch">>,
                       <<full, "wait_for_positions">>,
                       <<waits, "refresh_candidates">>,
                       <<scheduled, "scheduler_runs">>,
                       <<goes, "run_one_cycle">>,
                       <<TRUE, "resolve_gate">>>>
<1>1. Suggestion(failing) = First(advice)
  BY DEF Suggestion
<1>2. waits \in BOOLEAN /\ full \in BOOLEAN /\ (scheduled => goes)
  BY DEF EligibleCandidates
<1> HIDE DEF full, waits, goes, scheduled, twsBlocks
<1>3. 10 \in Nat \ {0} /\ DOMAIN advice = 1..10 /\ advice[10][1]
  OBVIOUS
<1>4. PICK m \in 1..10 : /\ advice[m][1] /\ First(advice) = advice[m][2]
                         /\ \A n \in 1..10 : n < m => ~ advice[n][1]
  <2> HIDE DEF advice
  <2> QED
    BY <1>3, FirstApplies
<1>5. m \in {1, 2, 3, 4, 5, 6, 7, 8, 9, 10}
  BY <1>4
<1>6. ASSUME First(advice) \in {"scheduler_runs", "run_one_cycle"}
      PROVE  ~ full /\ ~ waits /\ goes
  <2>1. m \in {8, 9}
    BY <1>4, <1>5, <1>6
  <2>2. ~ advice[6][1] /\ ~ advice[7][1]
    BY <1>4, <2>1
  <2>3. goes
    BY <1>2, <1>4, <2>1
  <2> QED
    BY <2>2, <2>3
<1>7. ASSUME First(advice) = "wait_for_positions"
      PROVE  full
  BY <1>4, <1>5, <1>7
<1>8. OpenPositions(failing) \in Nat
  BY DEF OpenPositions
<1>9. ~ waits => failing = "none" /\ auto.candidates
  BY DEF waits, EligibleCandidates
<1> QED
  BY <1>1, <1>6, <1>7, <1>8, <1>9 DEF full, goes

LEMMA ControlIs ==
  /\ Control.stop = FALSE /\ Control.live = FALSE
  /\ Control.paper = (ConfiguredMode = "paper")
  /\ Control.paper => Control.mode = "paper"
BY DEF Control

LEMMA ActionWaits ==
  ASSUME NEW failing
  PROVE  /\ NextAction(failing) # "clear_stop"
         /\ NextAction(failing) = "wait_for_positions" => OpenPositions(failing) >= MaxOpen
         /\ OpenPositions(failing) >= MaxOpen =>
               NextAction(failing) \in {"wait_for_positions", "review_control"}
<1> DEFINE full == OpenPositions(failing) >= MaxOpen
           blocked == LastDecision = "blocked" /\ LastBlockReason(failing) # "none"
           errored == LastDecision = "errored"
           paper == Control.paper
           stop == Control.stop
           other == selected # "auto_paper"
           advice == <<<<stop, "clear_stop">>,
                       <<~ paper, "review_control">>,
                       <<full, "wait_for_positions">>,
                       <<blocked, "review_block">>,
                       <<errored, "inspect_run">>,
                       <<other, "select_mode">>,
                       <<TRUE, "monitor">>>>
<1>1. NextAction(failing) = First(advice)
  BY DEF NextAction
<1>2. stop = FALSE /\ full \in BOOLEAN
  BY ControlIs
<1> HIDE DEF full, blocked, errored, paper, stop, other
<1>3. 7 \in Nat \ {0} /\ DOMAIN advice = 1..7 /\ advice[7][1]
  OBVIOUS
<1>4. PICK m \in 1..7 : /\ advice[m][1] /\ First(advice) = advice[m][2]
                        /\ \A n \in 1..7 : n < m => ~ advice[n][1]
  <2> HIDE DEF advice
  <2> QED
    BY <1>3, FirstApplies
<1>5. m \in {1, 2, 3, 4, 5, 6, 7}
  BY <1>4
<1>6. m # 1
  BY <1>2, <1>4
<1>7. full => m \in {2, 3}
  <2> SUFFICES ASSUME full, m \notin {2, 3} PROVE FALSE
    OBVIOUS
  <2>1. 3 < m
    BY <1>5, <1>6
  <2>2. ~ advice[3][1]
    BY <1>4, <2>1
  <2> QED
    BY <2>2
<1>8. First(advice) # "clear_stop" /\ (First(advice) = "wait_for_positions" => full)
      /\ (m \in {2, 3} => First(advice) \in {"wait_for_positions", "review_control"})
  BY <1>4, <1>5, <1>6
<1> QED
  BY <1>1, <1>7, <1>8 DEF full

LEMMA PostureWarns ==
  Posture \in {"ok", "warning"} /\
  (Posture = "warning" => Control.mode # "paper" \/ ~ Control.paper \/ runLog.crowded
                          \/ runLog.last = "error")
<1> DEFINE off == Control.stop \/ Control.live
           odd == Control.mode # "paper" \/ ~ Control.paper \/ runLog.crowded
           failed == runLog.last = "error"
           advice == <<<<off, "blocked">>, <<odd, "warning">>, <<failed, "warning">>,
                       <<TRUE, "ok">>>>
<1>1. Posture = First(advice)
  BY DEF Posture
<1>2. off = FALSE
  BY ControlIs
<1> HIDE DEF off, odd, failed
<1>3. 4 \in Nat \ {0} /\ DOMAIN advice = 1..4 /\ advice[4][1]
  OBVIOUS
<1>4. PICK m \in 1..4 : /\ advice[m][1] /\ First(advice) = advice[m][2]
                        /\ \A n \in 1..4 : n < m => ~ advice[n][1]
  <2> HIDE DEF advice
  <2> QED
    BY <1>3, FirstApplies
<1>5. m \in {1, 2, 3, 4}
  BY <1>4
<1>6. m # 1
  BY <1>2, <1>4
<1>7. First(advice) \in {"ok", "warning"} /\ (First(advice) = "warning" => odd \/ failed)
  BY <1>4, <1>5, <1>6
<1> QED
  BY <1>1, <1>7 DEF odd, failed

(* What the settings are, and the positions that the gates count.          *)
ControlsInv == env \in Environments /\ auto.open \in 0..MaxOpen
               /\ auto = [today |-> auto.today, ever |-> auto.ever, open |-> auto.open,
                          candidates |-> auto.candidates]

LEMMA OpenRunsOnly ==
  ASSUME ControlsInv
  PROVE  SuggestsOnlyOpenRuns
<1>1. auto.open \in Nat /\ MaxOpen \in Nat
  BY ControlsAssumption DEF ControlsInv
<1> QED
  BY <1>1, SuggestionRests DEF SuggestsOnlyOpenRuns, OpenPositions

LEMMA CardDoesAgree ==
  ASSUME ControlsInv
  PROVE  CardAgrees
<1> SUFFICES ASSUME NEW failing \in Failures
             PROVE  LET card == StatusCard(failing)
                    IN  /\ card.suggestion \in {"scheduler_runs", "run_one_cycle"} =>
                              card.runnable /\ card.action \notin {"clear_stop", "wait_for_positions"}
                        /\ card.suggestion = "wait_for_positions" =>
                              card.action \in {"wait_for_positions", "review_control"}
                        /\ Checklist(failing) = "green" =>
                              card.posture = "ok" \/ runLog.crowded \/ card.decision = "errored"
  BY DEF CardAgrees
<1>1. auto.open \in Nat /\ MaxOpen \in Nat
  BY ControlsAssumption DEF ControlsInv
<1>2. OpenPositions(failing) \in Nat
  BY <1>1 DEF OpenPositions
<1> DEFINE card == StatusCard(failing)
<1>3. /\ card.suggestion = Suggestion(failing) /\ card.action = NextAction(failing)
      /\ card.runnable = (BlockingGate(failing) = "none")
      /\ card.posture = Posture /\ card.decision = LastDecision
  BY DEF StatusCard
<1> HIDE DEF card
<1>4. /\ Suggestion(failing) \in {"scheduler_runs", "run_one_cycle"} =>
            BlockingGate(failing) = "none" /\ OpenPositions(failing) < MaxOpen
      /\ Suggestion(failing) = "wait_for_positions" => OpenPositions(failing) >= MaxOpen
  BY <1>1, SuggestionRests
<1>5. ~ (OpenPositions(failing) < MaxOpen /\ OpenPositions(failing) >= MaxOpen)
  BY <1>1, <1>2
<1>6. ASSUME Checklist(failing) = "green"
      PROVE  Posture = "ok" \/ runLog.crowded \/ LastDecision = "errored"
  <2>1. Control.paper
    BY <1>6 DEF Checklist, ChecklistRed
  <2>2. runLog.last = "error" => LastDecision = "errored"
    BY DEF LastDecision
  <2> QED
    BY <2>1, <2>2, ControlIs, PostureWarns
<1> QED
  BY <1>3, <1>4, <1>5, <1>6, ActionWaits DEF card

LEMMA GreenDoesMeanOpen ==
  ASSUME ControlsInv
  PROVE  GreenMeansOpen
<1>1. env.perRun \in Int /\ env.perDay \in Int
  BY ControlsAssumption DEF ControlsInv
<1>2. ASSUME NEW failing \in Failures, Checklist(failing) = "green"
      PROVE  /\ PaperRouteOpen /\ ManualAllowed("paper")
             /\ BlockingGate("none") \in SettingGates
  <2>1. ~ ChecklistRed /\ ~ ChecklistYellow(failing)
    BY <1>2 DEF Checklist
  <2>2. NormalMode /\ env.enabled
    BY <2>1 DEF ChecklistYellow
  <2>3. ModeMetadata.paper
    BY <2>1 DEF ChecklistRed
  <2>4. ConfiguredMode = "paper"
    BY <2>3 DEF ModeMetadata
  <2> QED
    BY <1>1, <2>2, <2>3, <2>4, SettingsOpen DEF PaperRouteOpen, ManualAllowed
<1>3. ASSUME EnablementStatus = "ready"
      PROVE  ReadinessBlockers = {} /\ ReadinessWarnings = {} /\ PaperRouteOpen
  <2>1. EnablementBlockers = {} /\ EnablementWarnings = {}
    BY <1>3 DEF EnablementStatus
  <2>2. /\ Control.paper /\ Control.auto /\ ConfiguredMode # "misconfigured"
        /\ broker.gateway /\ env.accountId # "live" /\ Preflight # "blocking"
    BY <2>1 DEF EnablementBlockers, CodeIf
  <2>3. /\ job = "running" /\ Preflight \notin {"would_block", "advisory"}
        /\ ~ runLog.crowded /\ runLog.last # "none"
    BY <2>1 DEF EnablementWarnings, CodeIf
  <2>4. ReadinessBlockers = {}
    BY <2>2, <2>3 DEF ReadinessBlockers, CodeIf
  <2>5. ReadinessWarnings = {}
    BY <2>2, <2>3 DEF ReadinessWarnings, CodeIf
  <2>6. PaperRouteOpen
    BY <2>2, ControlIs DEF PaperRouteOpen, ModeMetadata
  <2> QED
    BY <2>4, <2>5, <2>6
<1> QED
  BY <1>2, <1>3 DEF GreenMeansOpen

LEMMA ControlsDoAgree == ControlsInv => ControlsAgree
BY GatesDoAgree, OpenRunsOnly, CardDoesAgree, GreenDoesMeanOpen DEF ControlsAgree, ControlsInv

LEMMA ControlsStart == ControlsInit => ControlsInv
BY ControlsAssumption DEF ControlsInit, ControlsInv

LEMMA ControlsInductive == ControlsInv /\ [ControlsNext]_controlVars => ControlsInv'
<1> SUFFICES ASSUME ControlsInv, [ControlsNext]_controlVars PROVE ControlsInv'
  OBVIOUS
<1>1. MaxOpen \in Nat
  BY ControlsAssumption
<1>2. CASE Restart
  BY <1>2 DEF Restart, ControlsInv
<1>3. ASSUME UNCHANGED <<env, auto>> PROVE ControlsInv'
  BY <1>3 DEF ControlsInv
<1>4. CASE RunOnce
  <2>1. /\ env' = env
        /\ \/ auto' = auto
           \/ /\ auto.open < MaxOpen
              /\ auto' = [today |-> auto.today + 1, ever |-> TRUE, open |-> auto.open + 1,
                          candidates |-> FALSE]
    BY <1>4 DEF RunOnce
  <2> QED
    BY <1>1, <2>1 DEF ControlsInv
<1>5. ASSUME SignalsSwept \/ PositionCloses \/ Midnight PROVE ControlsInv'
  <2>1. PICK open \in 0..MaxOpen, candidates \in {TRUE, auto.candidates},
              today \in {0, auto.today} :
          /\ auto' = [today |-> today, ever |-> auto.ever, open |-> open, candidates |-> candidates]
          /\ env' = env
    BY <1>1, <1>5 DEF SignalsSwept, PositionCloses, Midnight, ControlsInv
  <2> QED
    BY <2>1 DEF ControlsInv
<1> QED
  BY <1>2, <1>3, <1>4, <1>5
     DEF ControlsNext, controlVars, SelectMode, PauseScheduler, ResumeScheduler, CreateProfile,
         ActivateKillSwitch, DeactivateKillSwitch, SwitchGlobalHalt, ChangeBroker

-----------------------------------------------------------------------------

PagesInv == DayInv /\ FiledInv /\ WatchInv /\ ControlsInv

LEMMA PagesStart == MCInit => PagesInv
BY DayStart, FiledStart, WatchStart, ControlsStart DEF MCInit, PagesInv, RiskInit, ArmInit

LEMMA PagesInductive == PagesInv /\ [MCNext]_pagesVars => PagesInv'
<1> SUFFICES ASSUME PagesInv, [MCNext]_pagesVars PROVE PagesInv'
  OBVIOUS
<1>1. [DayNext]_dayVars
  BY DEF MCNext, pagesVars, DayStep, RiskStep, RiskNext, SampleContext, GiveZeros, Evaluate
<1>2. [WatchNext]_watchVars
  BY DEF MCNext, pagesVars, WatchStep
<1>3. [ControlsNext]_controlVars
  <2>1. ArmNext => [ControlsNext]_controlVars
    BY DEF ArmNext, ReadEnablement, StartArm, CheckArm, StartDisarm, LoadRow, CommitRow,
           ClockTicks, Others
  <2> QED
    BY <2>1 DEF MCNext, pagesVars, ControlsStep, ArmingStep
<1> QED
  BY <1>1, <1>2, <1>3, DayInductive, FiledInductive, WatchInductive, ControlsInductive
     DEF PagesInv

THEOREM PagesAlwaysTellTruth == MCSpec => []PagesTellTruth
<1>1. PagesInv => PagesTellTruth
  BY DayPagesFollow, TroubleIsShown, ControlsDoAgree
     DEF PagesInv, PagesTellTruth, WatchedControlsAgree
<1> QED
  BY <1>1, PagesStart, PagesInductive, PTL DEF MCSpec

-----------------------------------------------------------------------------
(* What the shapes of the pages need beside it: how many days were filed,  *)
(* whose outcomes are kept, and which rules the older service names.       *)
PagesShapes ==
    /\ clock <= MaxClock /\ Len(filed) = clock \div DayLength
    /\ \A t \in Trades : outcome[t] # Unknown => trade[t].worker
    /\ \A e \in Evaluations : /\ evaluation[e].rule \in ToSet(Rules) \union {"none"}
                              /\ evaluation[e].reasons \subseteq ToSet(Rules)
    /\ ControlsTypeOK /\ now <= MaxNow

PagesAll == PagesInv /\ RiskInv /\ ArmInv /\ PagesShapes

LEMMA ShapesStart == MCInit => PagesShapes
<1> SUFFICES ASSUME MCInit PROVE PagesShapes
  OBVIOUS
<1>1. /\ clock = 0 /\ filed = <<>> /\ now = 0 /\ \A t \in Trades : outcome[t] = Unknown
      /\ \A e \in Evaluations : evaluation[e] = NotEvaluated
      /\ ControlsInit
  BY DEF MCInit, RiskInit, DayInit, ArmInit
<1>2. Len(<<>>) = 0 /\ 0 \div DayLength = 0 /\ 0 <= MaxClock /\ 0 <= MaxNow
  BY DayAssumption, ArmingAssumption, Z3
<1>3. ControlsTypeOK
  <2>1. 0 \in 0..MaxOrders /\ 0 \in 0..MaxOpen
    BY ControlsAssumption
  <2>2. /\ env \in Environments /\ selected = "learning" /\ job = "running" /\ kill = "missing"
        /\ halted = FALSE
    BY <1>1 DEF ControlsInit
  <2>3. auto.today = 0 /\ auto.open = 0 /\ runLog.last = "none"
    BY <1>1 DEF ControlsInit
  <2>4. auto.today \in 0..MaxOrders /\ auto.open \in 0..MaxOpen /\ ~ (auto.open > 0)
    BY <2>1, <2>3
  <2> QED
    BY <2>2, <2>3, <2>4 DEF ControlsTypeOK
<1> QED
  BY <1>1, <1>2, <1>3 DEF PagesShapes, NotEvaluated

(* The days that are over.                                                 *)
LEMMA DaysOver ==
  ASSUME NEW c \in Nat, NEW d \in Nat \ {0}
  PROVE  /\ c \div d \in Nat
         /\ (c + 1) \div d = IF c + 1 \in d * (c \div d) .. d * (c \div d) + d - 1
                             THEN c \div d ELSE (c \div d) + 1
<1>1. PICK q \in Nat : q = c \div d
  BY Z3
<1>2. d * q <= c /\ c < d * q + d /\ d * q \in Nat
  BY <1>1, SMTT(60)
<1>3. CASE c + 1 < d * q + d
  <2>1. (c + 1) \div d = q
    BY <1>2, <1>3, SMTT(60)
  <2> QED
    BY <1>1, <1>2, <1>3, <2>1
<1>4. CASE ~ (c + 1 < d * q + d)
  <2>1. c + 1 = d * (q + 1)
    <3>1. d * (q + 1) = d * q + d
      BY <1>1, SMTT(60)
    <3> QED
      BY <1>2, <1>4, <3>1
  <2>2. (c + 1) \div d = q + 1
    BY <2>1, SMTT(60)
  <2> QED
    BY <1>1, <1>2, <1>4, <2>2
<1> QED
  BY <1>3, <1>4

LEMMA ShapesOfDay ==
  PagesAll /\ [DayNext]_dayVars =>
      /\ clock' <= MaxClock /\ Len(filed') = clock' \div DayLength
      /\ \A t \in Trades : outcome'[t] # Unknown => trade'[t].worker
<1> SUFFICES ASSUME PagesAll, [DayNext]_dayVars
             PROVE  /\ clock' <= MaxClock /\ Len(filed') = clock' \div DayLength
                    /\ \A t \in Trades : outcome'[t] # Unknown => trade'[t].worker
  OBVIOUS
<1>1. /\ clock \in Nat /\ clock <= MaxClock /\ Len(filed) = clock \div DayLength
      /\ filed \in Seq(Books) /\ trade \in [Trades -> TradeRows]
      /\ outcome \in [Trades -> Outcomes \union {Unknown}]
      /\ \A t \in Trades : outcome[t] # Unknown => trade[t].worker
      /\ \A t \in Trades : trade[t].stage # "closed" => outcome[t] = Unknown
  BY DEF PagesAll, PagesShapes, PagesInv, DayInv, FiledInv, CloseIsKnown
<1>2. CASE TimePasses
  <2>1. /\ clock < MaxClock /\ clock' = clock + 1 /\ UNCHANGED <<trade, outcome>>
        /\ filed' = IF clock' \in Today THEN filed ELSE Append(filed, Figures(EodReport))
    BY <1>2 DEF TimePasses
  <2>2. Today = DayLength * (clock \div DayLength)
                .. DayLength * (clock \div DayLength) + DayLength - 1
    BY DEF Today
  <2>3. clock + 1 <= MaxClock
    BY <1>1, <2>1, DayAssumption
  <2>4. Len(Append(filed, Figures(EodReport))) = Len(filed) + 1
    <3>1. Figures(EodReport) \in Books
      BY ReportIsBook DEF PagesAll, PagesInv
    <3> QED
      BY <1>1, <3>1
  <2>5. Len(filed') = clock' \div DayLength
    BY <1>1, <2>1, <2>2, <2>4, DaysOver, DayAssumption
  <2> QED
    BY <1>1, <2>1, <2>3, <2>5
<1>3. CASE UNCHANGED dayVars
  BY <1>1, <1>3 DEF dayVars
<1>4. ASSUME NEW t \in Trades, UNCHANGED <<clock, filed>>,
             NEW x, trade' = [trade EXCEPT ![t] = x],
             outcome' = outcome \/ (x.worker /\ \A u \in Trades \ {t} : outcome'[u] = outcome[u]),
             outcome[t] # Unknown => x.worker
      PROVE  /\ clock' <= MaxClock /\ Len(filed') = clock' \div DayLength
             /\ \A u \in Trades : outcome'[u] # Unknown => trade'[u].worker
  BY <1>1, <1>4
<1>5. ASSUME NEW t \in Trades, SubmitOrder(t) \/ FillOrder(t) \/ OpenByTrader(t)
      PROVE  /\ clock' <= MaxClock /\ Len(filed') = clock' \div DayLength
             /\ \A u \in Trades : outcome'[u] # Unknown => trade'[u].worker
  <2>1. PICK x : trade' = [trade EXCEPT ![t] = x]
    BY <1>5 DEF SubmitOrder, FillOrder, OpenByTrader
  <2>2. trade[t].stage # "closed" /\ outcome' = outcome /\ UNCHANGED <<clock, filed>>
    BY <1>5 DEF SubmitOrder, FillOrder, OpenByTrader
  <2> QED
    BY <1>1, <1>4, <2>1, <2>2
<1>6. ASSUME NEW t \in Trades, NEW g, MarkToMarket(t, g) \/ ClosePosition(t, g)
      PROVE  /\ clock' <= MaxClock /\ Len(filed') = clock' \div DayLength
             /\ \A u \in Trades : outcome'[u] # Unknown => trade'[u].worker
  <2>1. PICK x : trade' = [trade EXCEPT ![t] = x]
    BY <1>6 DEF MarkToMarket, ClosePosition
  <2>2. trade[t].stage # "closed" /\ outcome' = outcome /\ UNCHANGED <<clock, filed>>
    BY <1>6 DEF MarkToMarket, ClosePosition
  <2> QED
    BY <1>1, <1>4, <2>1, <2>2
<1>7. ASSUME NEW t \in Trades, NEW g, CloseExpired(t, g)
      PROVE  /\ clock' <= MaxClock /\ Len(filed') = clock' \div DayLength
             /\ \A u \in Trades : outcome'[u] # Unknown => trade'[u].worker
  <2>1. trade' = [trade EXCEPT ![t] = [trade[t] EXCEPT !.stage = "closed", !.closed = clock,
                                          !.gain = g, !.reason = "horizon_expired", !.realized = g]]
    BY <1>7 DEF CloseExpired
  <2>2. /\ trade[t].worker /\ UNCHANGED <<clock, filed>>
        /\ outcome' = [outcome EXCEPT ![t] = [correct |-> DirectionCorrect(g), pnl |-> g,
                                              closed |-> clock]]
    BY <1>7 DEF CloseExpired
  <2>3. [trade[t] EXCEPT !.stage = "closed", !.closed = clock, !.gain = g,
                         !.reason = "horizon_expired", !.realized = g].worker = trade[t].worker
    BY <1>1 DEF TradeRows
  <2>4. \A u \in Trades \ {t} : outcome'[u] = outcome[u]
    BY <1>1, <2>2
  <2> QED
    BY <1>4, <2>1, <2>2, <2>3, <2>4
<1> QED
  BY <1>2, <1>3, <1>5, <1>6, <1>7 DEF DayNext

LEMMA ShapesOfControls ==
  ControlsInv /\ ControlsTypeOK /\ [ControlsNext]_controlVars => ControlsTypeOK'
<1> SUFFICES ASSUME ControlsInv, ControlsTypeOK, [ControlsNext]_controlVars PROVE ControlsTypeOK'
  OBVIOUS
<1>1. MaxOpen \in Nat /\ MaxOrders \in Nat
  BY ControlsAssumption
<1>2. CASE Restart \/ SelectMode \/ PauseScheduler \/ ResumeScheduler
  BY <1>2 DEF Restart, SelectMode, PauseScheduler, ResumeScheduler, ControlsTypeOK
<1>3. CASE CreateProfile \/ ActivateKillSwitch \/ DeactivateKillSwitch
  BY <1>3 DEF CreateProfile, ActivateKillSwitch, DeactivateKillSwitch, ControlsTypeOK
<1>4. CASE SwitchGlobalHalt \/ ChangeBroker \/ UNCHANGED controlVars
  BY <1>4 DEF SwitchGlobalHalt, ChangeBroker, controlVars, ControlsTypeOK
<1>5. CASE RunOnce
  <2>1. UNCHANGED <<env, selected, job, kill, halted>>
    BY <1>5 DEF RunOnce
  <2>2. runLog'.last \in {"none", "accepted", "blocked", "skipped", "error"}
    <3>1. \E last \in {"skipped", "accepted", "blocked", "error"}, crowded \in BOOLEAN :
             runLog' = [last |-> last, crowded |-> crowded]
      BY <1>5, Zenon DEF RunOnce
    <3> QED
      BY <3>1
  <2>3. \/ auto' = auto
        \/ /\ auto.open < MaxOpen /\ auto.today < MaxOrders
           /\ auto' = [today |-> auto.today + 1, ever |-> TRUE, open |-> auto.open + 1,
                       candidates |-> FALSE]
    BY <1>5 DEF RunOnce
  <2>4. CASE auto' = auto
    BY <2>1, <2>2, <2>4 DEF ControlsTypeOK
  <2>5. CASE auto' # auto
    <3>1. /\ auto'.today = auto.today + 1 /\ auto'.open = auto.open + 1 /\ auto'.ever = TRUE
          /\ auto.open < MaxOpen /\ auto.today < MaxOrders
      BY <2>3, <2>5
    <3>2. auto'.today \in 0..MaxOrders /\ auto'.open \in 0..MaxOpen
      BY <1>1, <3>1 DEF ControlsTypeOK
    <3> QED
      BY <2>1, <2>2, <3>1, <3>2 DEF ControlsTypeOK
  <2> QED
    BY <2>4, <2>5
<1>6. ASSUME SignalsSwept \/ PositionCloses \/ Midnight PROVE ControlsTypeOK'
  <2>1. UNCHANGED <<env, selected, job, kill, halted, runLog>>
    BY <1>6 DEF SignalsSwept, PositionCloses, Midnight
  <2>2. auto'.today \in {0, auto.today} /\ auto'.ever = auto.ever
        /\ (auto'.open = auto.open \/ (auto.open > 0 /\ auto'.open = auto.open - 1))
    BY <1>6 DEF SignalsSwept, PositionCloses, Midnight, ControlsInv
  <2>3. auto'.today \in 0..MaxOrders /\ auto'.open \in 0..MaxOpen /\ (auto'.open > 0 => auto.open > 0)
    BY <1>1, <2>2 DEF ControlsTypeOK
  <2> QED
    BY <2>1, <2>2, <2>3 DEF ControlsTypeOK
<1> QED
  BY <1>2, <1>3, <1>4, <1>5, <1>6 DEF ControlsNext

(* The rules that a judgement names.                                       *)
LEMMA RulesAreNamed ==
  ASSUME NEW fault, NEW c
  PROVE  /\ BlockingRule(fault, c) \in ToSet(Rules) \union {"none"}
         /\ BlockedReasons(fault, c) \subseteq ToSet(Rules)
<1>1. BlockingRule(fault, c) \in ToSet(Rules) \union {"none"}
  BY BlockingRuleIsBroken
<1>2. BlockedReasons(fault, c) \subseteq ToSet(Rules)
  BY DEF BlockedReasons
<1> QED
  BY <1>1, <1>2

NamesRules(x) == x.rule \in ToSet(Rules) \union {"none"} /\ x.reasons \subseteq ToSet(Rules)

LEMMA ShapesOfRules ==
  ASSUME RiskInv, \A e \in Evaluations : NamesRules(evaluation[e]), RiskNext \/ UNCHANGED riskVars
  PROVE  \A e \in Evaluations : NamesRules(evaluation'[e])
<1>0. /\ evaluation = [e \in Evaluations |-> evaluation[e]]
      /\ \A e \in Evaluations : Shaped(evaluation[e])
  BY DEF RiskInv
<1>1. CASE UNCHANGED riskVars
  BY <1>1 DEF riskVars
<1>2. ASSUME NEW e \in Evaluations, NEW fault, NEW context,
             evaluation' = [evaluation EXCEPT ![e].stage = "sampled", ![e].fault = fault,
                                              ![e].context = context]
      PROVE  \A f \in Evaluations : NamesRules(evaluation'[f])
  <2>1. evaluation'[e].rule = evaluation[e].rule /\ evaluation'[e].reasons = evaluation[e].reasons
    BY <1>0, <1>2 DEF Shaped
  <2>2. \A f \in Evaluations \ {e} : evaluation'[f] = evaluation[f]
    BY <1>0, <1>2
  <2>3. NamesRules(evaluation'[e])
    BY <2>1 DEF NamesRules
  <2> QED
    BY <2>2, <2>3
<1>3. ASSUME NEW e \in Evaluations, GiveZeros(e)
      PROVE  \A f \in Evaluations : NamesRules(evaluation'[f])
  <2>1. evaluation' = [evaluation EXCEPT ![e].stage = "sampled"]
    BY <1>3 DEF GiveZeros
  <2>2. evaluation'[e].rule = evaluation[e].rule /\ evaluation'[e].reasons = evaluation[e].reasons
    BY <1>0, <2>1 DEF Shaped
  <2>3. \A f \in Evaluations \ {e} : evaluation'[f] = evaluation[f]
    BY <1>0, <2>1
  <2>4. NamesRules(evaluation'[e])
    BY <2>2 DEF NamesRules
  <2> QED
    BY <2>3, <2>4
<1>4. ASSUME NEW e \in Evaluations, Evaluate(e)
      PROVE  \A f \in Evaluations : NamesRules(evaluation'[f])
  <2> DEFINE blocked == BlockingRule(evaluation[e].fault, evaluation[e].context)
             reasons == BlockedReasons(evaluation[e].fault, evaluation[e].context)
  <2>1. evaluation' = [evaluation EXCEPT ![e].stage = "decided", ![e].at = clock,
                                         ![e].rule = blocked, ![e].reasons = reasons]
    BY <1>4 DEF Evaluate
  <2>2. blocked \in ToSet(Rules) \union {"none"} /\ reasons \subseteq ToSet(Rules)
    BY RulesAreNamed
  <2> HIDE DEF blocked, reasons
  <2>3. evaluation'[e].rule = blocked /\ evaluation'[e].reasons = reasons
    BY <1>0, <2>1 DEF Shaped
  <2>4. \A f \in Evaluations \ {e} : evaluation'[f] = evaluation[f]
    BY <1>0, <2>1
  <2>5. NamesRules(evaluation'[e])
    BY <2>2, <2>3 DEF NamesRules
  <2> QED
    BY <2>4, <2>5
<1>5. ASSUME NEW e \in Evaluations, SampleContext(e)
      PROVE  \A f \in Evaluations : NamesRules(evaluation'[f])
  BY <1>2, <1>5 DEF SampleContext
<1> QED
  BY <1>1, <1>3, <1>4, <1>5 DEF RiskNext

LEMMA ShapesInductive == PagesAll /\ [MCNext]_pagesVars => PagesAll'
<1> SUFFICES ASSUME PagesAll, [MCNext]_pagesVars PROVE PagesAll'
  OBVIOUS
<1>1. /\ PagesInv /\ RiskInv /\ ArmInv /\ MaxNow \in Nat
      /\ ControlsInv /\ ControlsTypeOK /\ now <= MaxNow
      /\ \A e \in Evaluations : NamesRules(evaluation[e])
  BY ArmingAssumption DEF PagesAll, PagesShapes, NamesRules, PagesInv
<1>2. [DayNext]_dayVars
  BY DEF MCNext, pagesVars, DayStep, RiskStep, RiskNext, SampleContext, GiveZeros, Evaluate
<1>3. RiskNext \/ UNCHANGED riskVars
  BY DEF MCNext, pagesVars, DayStep, RiskStep
<1>4. [ArmNext]_<<controlVars, armVars>>
  BY DEF MCNext, pagesVars, ControlsStep, ArmingStep, ArmNext
<1>5. [ControlsNext]_controlVars
  BY <1>4 DEF ArmNext, ReadEnablement, StartArm, CheckArm, StartDisarm, LoadRow, CommitRow,
              ClockTicks, Others
<1>6. now' <= MaxNow
  <2>1. now \in Nat
    BY <1>1 DEF ArmInv, Shapes
  <2>2. now' = now \/ (now < MaxNow /\ now' = now + 1)
    BY <1>4 DEF ArmNext, ReadEnablement, StartArm, CheckArm, StartDisarm, LoadRow, CommitRow,
                ClockTicks, Others, armVars
  <2> QED
    BY <1>1, <2>1, <2>2
<1>7. ControlsTypeOK'
  BY <1>1, <1>5, ShapesOfControls
<1>8. \A e \in Evaluations : NamesRules(evaluation'[e])
  BY <1>1, <1>3, ShapesOfRules
<1>9. PagesShapes'
  BY <1>2, <1>6, <1>7, <1>8, ShapesOfDay DEF PagesShapes, NamesRules
<1> QED
  BY <1>1, <1>4, <1>9, PagesInductive, RiskStepKeeps, ArmStep DEF PagesAll

(* Whatever happens on the pages and in whichever order, every variable    *)
(* keeps its shape: a position is closed exactly when it has the time of   *)
(* its close, one report is filed per day, and no column of the row that   *)
(* arms contradicts another.                                               *)
THEOREM PagesKeepShapes == MCSpec => []PagesTypeOK
<1>1. MCInit => PagesAll
  BY PagesStart, RiskStart, ArmStart, ShapesStart DEF MCInit, PagesAll
<1>2. PagesAll => PagesTypeOK
  <2> SUFFICES ASSUME PagesAll PROVE PagesTypeOK
    OBVIOUS
  <2>1. /\ DayInv /\ FiledInv /\ WatchInv /\ RiskInv /\ ArmInv /\ PagesShapes
    BY DEF PagesAll, PagesInv
  <2>2. DayTypeOK
    <3>1. clock \in 0..MaxClock /\ Len(filed) = clock \div DayLength
      BY <2>1, DayAssumption DEF DayInv, PagesShapes
    <3>2. ASSUME NEW t \in Trades
          PROVE  /\ trade[t].stage \in {"none", "ordered", "filled", "open", "closed"}
                 /\ trade[t].realized \in Amounts /\ trade[t].unrealized \in Amounts
                 /\ (trade[t].stage = "closed") = (trade[t].closed # Unknown)
                 /\ outcome[t] # Unknown => trade[t].stage = "closed" /\ trade[t].worker
      <4>1. /\ trade[t].stage \in {"none", "ordered", "filled", "open", "closed"}
            /\ trade[t].realized \in Amounts /\ trade[t].unrealized \in Amounts
        BY <2>1 DEF DayInv, TradeRows
      <4>2. (trade[t].stage = "closed") = (trade[t].closed # Unknown)
        BY <2>1, DayAssumption DEF DayInv, CloseIsKnown
      <4>3. outcome[t] # Unknown => trade[t].stage = "closed" /\ trade[t].worker
        BY <2>1 DEF DayInv, CloseIsKnown, PagesShapes
      <4> QED
        BY <4>1, <4>2, <4>3
    <3> QED
      BY <3>1, <3>2 DEF DayTypeOK
  <2>3. RiskTypeOK
    BY <2>1, <2>2 DEF RiskTypeOK, RiskInv, Shaped, PagesShapes
  <2>4. WatchTypeOK
    BY <2>1 DEF WatchTypeOK, WatchInv, Wares
  <2>5. ArmTypeOK
    <3>1. now \in 0..MaxNow
      BY <2>1, ArmingAssumption DEF ArmInv, Shapes, PagesShapes
    <3>2. row.state \in {"armed", "disarmed"} /\ RowConstraints(row)
      BY <2>1 DEF ArmInv, Shapes, Rows
    <3>3. ASSUME NEW r \in ArmRequests
          PROVE  /\ request[r].stage \in {"idle", "looked", "awaiting", "accepted", "loaded",
                                          "answered", "rejected"}
                 /\ request[r].kind \in {"none", "arm", "disarm"}
                 /\ request[r].stage \in {"loaded", "answered"} => RowConstraints(request[r].loaded)
      BY <2>1 DEF ArmInv, Shapes, Handled, Progress
    <3> QED
      BY <2>1, <3>1, <3>2, <3>3 DEF ArmTypeOK, PagesShapes
  <2> QED
    BY <2>3, <2>4, <2>5 DEF PagesTypeOK
<1> QED
  BY <1>1, <1>2, ShapesInductive, PTL DEF MCSpec

=============================================================================
