------------------------------- MODULE MCPages -------------------------------
(***************************************************************************)
(* The pages and the controls of the operator and the risk rules over the  *)
(* day, for TLC.  They share no rows in these models, so a behaviour       *)
(* watches the steps of one of them, its focus.                            *)
(***************************************************************************)
EXTENDS RiskContext, Watchlists, Arming

CONSTANTS
    Beside,     \* an item that may only be an order
    Alone       \* a trade of a signal of its own; the others share theirs

VARIABLE focus

pagesVars == <<focus, dayVars, riskVars, watchVars, controlVars, armVars>>

MCMoves == {-2, 0, 2}

MCSignalOf == [t \in Trades |-> IF t = Alone THEN "s2" ELSE "s1"]

MCProfiles == {[drawdown |-> 0, cooldown |-> 2, positions |-> 0],
               [drawdown |-> 4, cooldown |-> 1, positions |-> 2]}

Normal == [enabled |-> TRUE, live |-> FALSE, mode |-> "paper", account |-> "paper",
           accountId |-> "own",
           provider |-> "tws", tws |-> TRUE, requireTws |-> TRUE, orderType |-> "LIMIT",
           perRun |-> 1, perDay |-> 1, notional |-> 10, allowlist |-> {"A"},
           background |-> FALSE, paperTrading |-> TRUE]

(* Normal mode, and one or a few settings that are not. *)
MCEnvironments ==
    {Normal,
     [Normal EXCEPT !.background = TRUE],
     [Normal EXCEPT !.enabled = FALSE],
     [Normal EXCEPT !.live = TRUE, !.mode = "live", !.account = "live"],
     [Normal EXCEPT !.account = "live"],
     [Normal EXCEPT !.accountId = "paper"],
     [Normal EXCEPT !.accountId = "live"],
     [Normal EXCEPT !.mode = "live"],
     [Normal EXCEPT !.live = TRUE],
     [Normal EXCEPT !.requireTws = FALSE, !.tws = FALSE],
     [Normal EXCEPT !.tws = FALSE],
     [Normal EXCEPT !.provider = "gateway"],
     [Normal EXCEPT !.orderType = "MARKET"],
     [Normal EXCEPT !.perRun = 4],
     [Normal EXCEPT !.perRun = 0],
     [Normal EXCEPT !.perDay = 26],
     [Normal EXCEPT !.perDay = 0],
     [Normal EXCEPT !.notional = 1001],
     [Normal EXCEPT !.allowlist = {}],
     [Normal EXCEPT !.allowlist = {"A", "BRK.B"}],
     [Normal EXCEPT !.allowlist = {"BRK.B"}],
     [Normal EXCEPT !.paperTrading = FALSE]}

MCSymmetry == Permutations(ArmRequests)

MCInit ==
    /\ focus \in {"day", "risk", "watch", "controls", "arming"}
    /\ RiskInit /\ WatchInit /\ ArmInit
    /\ focus # "risk" => profile = [drawdown |-> 0, cooldown |-> 2, positions |-> 0]
    /\ focus # "controls" => env = Normal

Made == {t \in Trades : trade'[t].stage # "none"}

(* The pages of the days; no evaluation.  Two trades are made. *)
DayStep == DayNext /\ UNCHANGED riskVars /\ Cardinality(Made) <= 2

(* The evaluations: a tick more, and the trader or the requests, without   *)
(* orders that wait or marks; a trade begins on the first day, and gains   *)
(* or loses.                                                               *)
RiskStep ==
    /\ RiskNext /\ Alone \notin Made
    /\ \A t \in Trades : /\ trade'[t].stage # "ordered" /\ trade'[t].realized # 0
                          /\ trade'[t].ordered \in {Unknown, 0, 1}
                          /\ trade'[t].unrealized \in {Unknown, 0}

(* An item that may be anything, beside an order; a halt is only tried     *)
(* without risk limits.                                                    *)
WatchStep ==
    /\ WatchNext
    /\ item'[Beside].kind \in {"none", "order"} /\ ~ item'[Beside].missing
    /\ item'[Beside].status \in {"none", "accepted", "closed"}
    /\ decision'[Beside] = "none"
    /\ haltActive' => limits' = "none"

(* Other settings are only tried from one of two modes, the job paused,    *)
(* and the kill switch off; a behaviour may begin with any of them.        *)
ControlsStep ==
    /\ ControlsNext /\ UNCHANGED armVars
    /\ selected' # "manual"
    /\ env' # env => selected = "learning" /\ job = "paused" /\ kill = "off"

(* The requests that arm and disarm, in normal mode, while the halts and   *)
(* the findings of the broker change.                                      *)
ArmingStep ==
    /\ ArmNext
    /\ UNCHANGED <<env, selected, job, kill, auto>>
    /\ ~ runLog'.crowded
    /\ broker' \in {broker, [gateway |-> TRUE, findings |-> "clear", limits |-> TRUE]}

MCNext ==
    /\ UNCHANGED focus
    /\ focus \notin {"day", "risk"} => UNCHANGED <<dayVars, riskVars>>
    /\ focus # "watch" => UNCHANGED watchVars
    /\ focus \notin {"controls", "arming"} => UNCHANGED <<controlVars, armVars>>
    /\ \/ focus = "day" /\ DayStep
       \/ focus = "risk" /\ RiskStep
       \/ focus = "watch" /\ WatchStep
       \/ focus = "controls" /\ ControlsStep
       \/ focus = "arming" /\ ArmingStep

MCSpec == MCInit /\ [][MCNext]_pagesVars

(* Every variable keeps its shape. *)
PagesTypeOK == RiskTypeOK /\ WatchTypeOK /\ ArmTypeOK

(* ControlsAgree where the controls are watched: in the other behaviours   *)
(* nothing that it judges changes but what the requests that arm need.     *)
WatchedControlsAgree == focus = "controls" => ControlsAgree

(* What the operator reads is so: the reports of the day add up to what    *)
(* the trades made, the lists of what is in flight and needs attention     *)
(* hide nothing silently, and the controls are shown as they are judged.   *)
PagesTellTruth == DayPagesTrue /\ TroubleShown /\ WatchedControlsAgree

=============================================================================
