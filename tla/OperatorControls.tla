-------------------------- MODULE OperatorControls --------------------------
(***************************************************************************)
(* What decides whether auto-paper trading may run, and what the operator  *)
(* is told of it.  Six pieces of code judge the same settings and rows:    *)
(* the mode guard, the gate of a run, the gate of a submission, the status *)
(* card, the readiness and enablement pages and the broker's checklist.    *)
(***************************************************************************)
EXTENDS Integers, Sequences, FiniteSetsExt

CONSTANTS
    Environments,       \* settings that the process may be started with
    EquitySymbols,      \* one to five letters: symbols that _EQUITY_SYMBOL_RE matches
    MaxOpen,            \* auto_paper_max_open_positions
    MaxOrders,          \* bound: orders of one day
    AutoTradingAllowed  \* what get_trading_mode says in paper mode: FALSE in
                        \* this build, TRUE as the tests of the routes set it

(* paperTrading is the variable PAPER_TRADING_ENABLED, which is no field   *)
(* of Settings; unset, it is TRUE.  accountId: "own" is the id that the    *)
(* checklist knows, "paper" another paper account or none, "live" any      *)
(* other.                                                                  *)
Fields == {"enabled", "live", "mode", "account", "accountId", "provider", "tws",
           "requireTws", "orderType", "perRun", "perDay", "notional", "allowlist", "background",
           "paperTrading"}

ASSUME ControlsAssumption ==
    /\ AutoTradingAllowed \in BOOLEAN /\ MaxOpen \in Nat /\ MaxOrders \in Nat
    /\ \A e \in Environments :
          /\ DOMAIN e = Fields /\ IsFiniteSet(e.allowlist)
          /\ {e.perRun, e.perDay, e.notional} \subseteq Int /\ e.paperTrading \in BOOLEAN

VARIABLES
    env,        \* the settings in force
    selected,   \* the cockpit mode, in memory
    job,        \* the scheduler's auto_paper_trader job, in memory
    kill,       \* kill switch of the active risk profile, "missing" if there is none
    halted,     \* a global halt is active
    auto,       \* auto-paper rows: [today, ever, open, candidates]
    runLog,     \* worker runs: [last, crowded]
    broker      \* the broker's surroundings: [gateway, findings, limits]

controlVars == <<env, selected, job, kill, halted, auto, runLog, broker>>

ControlsInit ==
    /\ env \in Environments
    /\ selected = "learning"
    /\ job = "running"
    /\ kill = "missing"
    /\ halted = FALSE
    /\ auto = [today |-> 0, ever |-> FALSE, open |-> 0, candidates |-> FALSE]
    /\ runLog = [last |-> "none", crowded |-> FALSE]
    /\ broker = [gateway |-> FALSE, findings |-> "clear", limits |-> FALSE]

-----------------------------------------------------------------------------

(* assert_mode_configuration_consistent *)
ConfiguredMode ==
    CASE ~ env.live /\ env.mode = "paper" /\ env.account = "paper" -> "paper"
      [] env.live /\ env.mode = "live" /\ env.account = "live" -> "live"
      [] OTHER -> "misconfigured"

(* get_trading_mode: the emergency stop is never active. *)
Control ==
    [mode |-> IF ConfiguredMode = "misconfigured" THEN env.mode ELSE ConfiguredMode,
     arming |-> IF ConfiguredMode = "paper" THEN "armed" ELSE "disarmed",
     paper |-> ConfiguredMode = "paper", live |-> FALSE,
     auto |-> ConfiguredMode = "paper" /\ AutoTradingAllowed, stop |-> FALSE]

(* get_broker_mode_metadata *)
ModeMetadata ==
    [mode |-> IF ConfiguredMode = "live" THEN "live" ELSE env.mode,
     live |-> env.live, paper |-> ConfiguredMode = "paper"]

RunCap == 3
DayCap == 25
NotionalCap == 1000

(* is_controlled_auto_paper_allowed, for a LIMIT order of the scheduled    *)
(* trader; a profile that is missing or unreadable has no kill switch.     *)
WithinCaps ==
    /\ env.perRun \in 1..RunCap /\ env.perDay \in 1..DayCap
    /\ env.notional \in 1..NotionalCap

ControlledAnyOrderType(symbol, readable) ==
    /\ env.enabled /\ ~ env.live /\ env.mode = "paper" /\ env.account = "paper"
    /\ env.provider = "tws" /\ env.tws /\ env.requireTws /\ WithinCaps
    /\ symbol \in EquitySymbols /\ symbol \in env.allowlist
    /\ ~ (readable /\ kill = "on") /\ env.paperTrading

ControlledAutoAllowed(symbol, readable) ==
    /\ env.enabled /\ ~ env.live /\ env.mode = "paper" /\ env.account = "paper"
    /\ env.provider = "tws" /\ env.tws /\ env.requireTws /\ env.orderType = "LIMIT"
    /\ WithinCaps
    /\ symbol \in EquitySymbols /\ symbol \in env.allowlist
    /\ ~ (readable /\ kill = "on") /\ env.paperTrading

(* assert_manual_trading_allowed: a submission, not a dry run. *)
ManualAllowed(mode) == ConfiguredMode # "misconfigured" /\ mode = "paper"

(* A statement that the database refuses takes the ones after it along:    *)
(* "all" is refused from the positions on, "count" from the orders of the  *)
(* day on, "kill" from the risk profile on.                                *)
Failures == {"none", "kill", "count", "all"}

KillSwitchActive(failing) == failing = "none" /\ kill # "off"
OrdersToday(failing) == IF failing \in {"none", "kill"} THEN auto.today ELSE 0
OpenPositions(failing) == IF failing = "all" THEN 0 ELSE auto.open
AnyCandidates(failing) == auto.candidates \/ auto.ever
EligibleCandidates(failing) == failing = "none" /\ auto.candidates

(* evaluate_run: the first gate that blocks, in the order of the code. *)
RunGates(failing) ==
    <<[gate |-> "auto_paper_enabled", blocks |-> ~ env.enabled],
      [gate |-> "live_execution_enabled", blocks |-> env.live],
      [gate |-> "broker_mode", blocks |-> env.mode # "paper"],
      [gate |-> "broker_provider", blocks |-> env.requireTws /\ env.provider # "tws"],
      [gate |-> "tws_enabled", blocks |-> env.requireTws /\ ~ env.tws],
      [gate |-> "order_type", blocks |-> env.orderType # "LIMIT"],
      [gate |-> "symbol_allowlist", blocks |-> env.allowlist = {}],
      [gate |-> "max_orders_per_run", blocks |-> env.perRun <= 0],
      [gate |-> "max_orders_per_day", blocks |-> env.perDay <= 0],
      [gate |-> "kill_switch", blocks |-> KillSwitchActive(failing)],
      [gate |-> "max_orders_per_day", blocks |-> OrdersToday(failing) >= env.perDay]>>

BlockingGate(failing) ==
    LET gates == RunGates(failing)
        blocking == {n \in DOMAIN gates : gates[n].blocks}
    IN  IF blocking = {} THEN "none" ELSE gates[Min(blocking)].gate

(* evaluate_order, for a LIMIT order. *)
OrderGateAllows(symbol, notional) ==
    (env.allowlist = {} \/ symbol \in env.allowlist) /\ notional <= env.notional

-----------------------------------------------------------------------------

(* The advice of the first <<condition, advice>> that applies.             *)
First(advice) == advice[Min({n \in DOMAIN advice : advice[n][1]})][2]

(* _derive_last_decision *)
LastDecision ==
    CASE runLog.last = "error" -> "errored"
      [] runLog.last \in {"accepted", "blocked", "skipped"} -> runLog.last
      [] OTHER -> "unknown"

(* _derive_last_block_reason *)
LastBlockReason(failing) ==
    First(<<<<Control.stop, "stop">>,
            <<~ Control.paper, "control">>,
            <<OpenPositions(failing) >= MaxOpen, "cap">>,
            <<runLog.last \in {"blocked", "skipped", "error"}, runLog.last>>,
            <<TRUE, "none">>>>)

(* _derive_operator_next_action *)
NextAction(failing) ==
    First(<<<<Control.stop, "clear_stop">>,
            <<~ Control.paper, "review_control">>,
            <<OpenPositions(failing) >= MaxOpen, "wait_for_positions">>,
            <<LastDecision = "blocked" /\ LastBlockReason(failing) # "none", "review_block">>,
            <<LastDecision = "errored", "inspect_run">>,
            <<selected # "auto_paper", "select_mode">>,
            <<TRUE, "monitor">>>>)

(* _derive_posture *)
Posture ==
    First(<<<<Control.stop \/ Control.live, "blocked">>,
            <<Control.mode # "paper" \/ ~ Control.paper \/ runLog.crowded, "warning">>,
            <<runLog.last = "error", "warning">>,
            <<TRUE, "ok">>>>)

NormalModeAnySymbol ==
    /\ env.mode = "paper" /\ env.provider = "tws" /\ ~ env.live
    /\ env.tws /\ env.requireTws /\ env.orderType = "LIMIT" /\ WithinCaps

NormalMode ==
    /\ env.mode = "paper" /\ env.provider = "tws" /\ ~ env.live
    /\ env.tws /\ env.requireTws /\ env.orderType = "LIMIT" /\ env.allowlist # {}
    /\ WithinCaps

(* _build_next_run_guidance: the first suggestion that applies. *)
TwsBlocks(gate) ==
    \/ gate \in {"tws_enabled", "broker_provider"}
    \/ env.requireTws /\ (env.provider # "tws" \/ ~ env.tws)

Suggestion(failing) ==
    LET gate == BlockingGate(failing)
    IN  First(<<<<env.live, "keep_live_disabled">>,
                <<env.mode # "paper", "set_paper">>,
                <<TwsBlocks(gate), "verify_tws">>,
                <<gate = "max_orders_per_day", "wait_for_day">>,
                <<gate = "kill_switch", "deactivate_kill_switch">>,
                <<OpenPositions(failing) >= MaxOpen, "wait_for_positions">>,
                <<~ EligibleCandidates(failing), "refresh_candidates">>,
                <<env.background /\ gate = "none" /\ NormalMode, "scheduler_runs">>,
                <<gate = "none", "run_one_cycle">>,
                <<TRUE, "resolve_gate">>>>)

(* Orders of auto-paper, and no run in the log. *)
Unlogged(failing) == failing # "all" /\ auto.ever /\ runLog.last = "none"

(* get_auto_paper_status_card *)
StatusCard(failing) ==
    [posture |-> Posture, decision |-> LastDecision, reason |-> LastBlockReason(failing),
     action |-> NextAction(failing),
     runnable |-> BlockingGate(failing) = "none", suggestion |-> Suggestion(failing),
     normal |-> NormalMode, armed |-> selected = "auto_paper" /\ Control.arming = "armed",
     unlogged |-> Unlogged(failing)]

-----------------------------------------------------------------------------

(* SeriousPaperRoutingService.resolve_route *)
PaperRouteOpen == ModeMetadata.paper

(* The preflight of a sample order: what blocks it blocks readiness. *)
Preflight ==
    IF halted \/ ConfiguredMode = "misconfigured" THEN "blocking" ELSE broker.findings

CodeIf(condition, code) == IF condition THEN {code} ELSE {}

(* _build_auto_paper_readiness_findings *)
ReadinessBlockers ==
    CodeIf(~ Control.auto, "auto_trading_disabled_by_trading_control")
    \union CodeIf(ConfiguredMode = "misconfigured", "broker_mode_misconfigured")
    \union CodeIf(ConfiguredMode # "misconfigured" /\ ~ broker.gateway, "broker_gateway_unreachable")
    \union CodeIf(env.accountId = "live", "ibkr_account_not_paper")
    \union CodeIf(job = "paused", "auto_paper_scheduler_paused")
    \union CodeIf(Preflight = "blocking", "shared_paper_preflight_blocking_findings")

ReadinessWarnings ==
    CodeIf(Preflight = "would_block", "shared_paper_preflight_would_block_findings")
    \union CodeIf(runLog.crowded, "history_retention_near_capacity")
    \union CodeIf(runLog.last = "none", "no_recent_auto_paper_history")

(* _build_auto_paper_enablement_findings *)
EnablementBlockers ==
    CodeIf(Control.mode # "paper", "trading_mode_not_paper")
    \union CodeIf(~ Control.paper, "paper_order_submission_disabled")
    \union CodeIf(~ Control.auto, "auto_trading_disabled_by_trading_control")
    \union CodeIf(Control.live \/ ModeMetadata.live, "live_trading_enabled")
    \union CodeIf(ConfiguredMode = "misconfigured", "broker_mode_misconfigured")
    \union CodeIf(~ broker.gateway, "broker_gateway_unreachable")
    \union CodeIf(env.accountId = "live", "ibkr_account_not_paper")
    \union CodeIf(halted, "active_trading_halt")
    \union CodeIf(Preflight = "blocking", "shared_paper_preflight_blocking_findings")

EnablementWarnings ==
    CodeIf(~ broker.limits, "risk_limits_not_configured")
    \union CodeIf(job # "running", "auto_paper_scheduler_paused")
    \union CodeIf(Preflight \in {"would_block", "advisory"}, "shared_paper_preflight_findings")
    \union CodeIf(runLog.crowded, "history_retention_near_capacity")
    \union CodeIf(runLog.last = "none", "no_recent_auto_paper_history")

EnablementStatus ==
    IF EnablementBlockers # {} THEN "blocked"
    ELSE IF EnablementWarnings # {} THEN "warning" ELSE "ready"

(* The broker's readiness checklist: what is not green there.  The probes  *)
(* of the account fall back in paper mode and are green then; that another *)
(* program holds the TWS client id, red there, is left out.                *)
ChecklistRed ==
    \/ env.provider # "tws" \/ ModeMetadata.mode # "paper" \/ ModeMetadata.live
    \/ Control.live \/ ~ ModeMetadata.paper \/ ~ Control.paper \/ ~ env.tws
    \/ env.accountId # "own"

ChecklistYellow(failing) ==
    ~ broker.gateway \/ ~ env.enabled \/ ~ NormalMode \/ Unlogged(failing)

Checklist(failing) ==
    IF ChecklistRed THEN "red" ELSE IF ChecklistYellow(failing) THEN "yellow" ELSE "green"

-----------------------------------------------------------------------------

(* A restart reads the settings again; the cockpit mode and a pause of the *)
(* job were only in memory.                                                *)
Restart ==
    /\ env' \in Environments
    /\ selected' = "learning" /\ job' = "running"
    /\ UNCHANGED <<kill, halted, auto, runLog, broker>>

(* set_cockpit_mode: the other modes are locked. *)
SelectMode ==
    /\ selected' \in {"learning", "manual", "auto_paper"}
    /\ UNCHANGED <<env, job, kill, halted, auto, runLog, broker>>

PauseScheduler ==
    /\ job' = "paused"
    /\ UNCHANGED <<env, selected, kill, halted, auto, runLog, broker>>

ResumeScheduler ==
    /\ job' = "running"
    /\ UNCHANGED <<env, selected, kill, halted, auto, runLog, broker>>

CreateProfile ==
    /\ kill = "missing" /\ kill' = "off"
    /\ UNCHANGED <<env, selected, job, halted, auto, runLog, broker>>

(* 404 without an active profile. *)
ActivateKillSwitch ==
    /\ kill # "missing" /\ kill' = "on"
    /\ UNCHANGED <<env, selected, job, halted, auto, runLog, broker>>

DeactivateKillSwitch ==
    /\ kill # "missing" /\ kill' = "off"
    /\ UNCHANGED <<env, selected, job, halted, auto, runLog, broker>>

SwitchGlobalHalt ==
    /\ halted' = ~ halted
    /\ UNCHANGED <<env, selected, job, kill, auto, runLog, broker>>

ChangeBroker ==
    /\ broker' \in [gateway : BOOLEAN, findings : {"clear", "advisory", "would_block"},
                    limits : {TRUE}]
    /\ UNCHANGED <<env, selected, job, kill, halted, auto, runLog>>

SignalsSwept ==
    /\ auto' = [auto EXCEPT !.candidates = TRUE]
    /\ UNCHANGED <<env, selected, job, kill, halted, runLog, broker>>

(* A run, from the gate to its entry in the log: an order uses the         *)
(* candidate up, and where it is accepted a position is open.  The broker  *)
(* is only asked for a symbol that the gate of a submission lets through.  *)
RunOnce ==
    /\ \E crowded \in BOOLEAN :
          \/ /\ BlockingGate("none") # "none" \/ ~ auto.candidates
             /\ runLog' = [last |-> "skipped", crowded |-> crowded]
             /\ UNCHANGED auto
          \/ /\ BlockingGate("none") = "none" /\ auto.candidates
             /\ auto.open < MaxOpen /\ auto.today < MaxOrders
             /\ \E outcome \in {"accepted", "blocked", "error"} :
                   /\ outcome = "accepted" =>
                         \E symbol \in env.allowlist : ControlledAutoAllowed(symbol, TRUE)
                   /\ runLog' = [last |-> outcome, crowded |-> crowded]
                   /\ auto' = IF outcome = "accepted"
                              THEN [today |-> auto.today + 1, ever |-> TRUE,
                                    open |-> auto.open + 1, candidates |-> FALSE]
                              ELSE auto
    /\ UNCHANGED <<env, selected, job, kill, halted, broker>>

PositionClosesTwice ==
    /\ auto' = [auto EXCEPT !.open = @ - 1]
    /\ UNCHANGED <<env, selected, job, kill, halted, runLog, broker>>

PositionCloses ==
    /\ auto.open > 0
    /\ auto' = [auto EXCEPT !.open = @ - 1]
    /\ UNCHANGED <<env, selected, job, kill, halted, runLog, broker>>

Midnight ==
    /\ auto' = [auto EXCEPT !.today = 0]
    /\ UNCHANGED <<env, selected, job, kill, halted, runLog, broker>>

ControlsNext ==
    \/ Restart \/ SelectMode \/ PauseScheduler \/ ResumeScheduler
    \/ CreateProfile \/ ActivateKillSwitch \/ DeactivateKillSwitch \/ SwitchGlobalHalt
    \/ ChangeBroker \/ SignalsSwept \/ RunOnce \/ PositionCloses \/ Midnight

ControlsSpec == ControlsInit /\ [][ControlsNext]_controlVars

-----------------------------------------------------------------------------

ControlsTypeOK ==
    /\ env \in Environments
    /\ selected \in {"learning", "manual", "auto_paper"}
    /\ job \in {"running", "paused"}
    /\ kill \in {"missing", "off", "on"}
    /\ halted \in BOOLEAN
    /\ auto.today \in 0..MaxOrders /\ auto.open \in 0..MaxOpen
    /\ auto.open > 0 => auto.ever
    /\ runLog.last \in {"none", "accepted", "blocked", "skipped", "error"}

(* What may hold a run back beside the settings.                           *)
SettingGates == {"none", "kill_switch", "max_orders_per_day"}

(* The lists of conditions kept in four services name the same settings    *)
(* but for two: what the gate of a submission lets through, the gate of a  *)
(* run does not hold back for a setting, and the card calls it normal      *)
(* mode; in normal mode, enabled, with a paper account and the kill switch *)
(* off, the gate of a submission lets just those symbols of the allowlist  *)
(* through that are equity symbols, and none where PAPER_TRADING_ENABLED   *)
(* is switched off, of which the card knows neither.                       *)
GatesAgree ==
    /\ \A symbol \in env.allowlist :
          ControlledAutoAllowed(symbol, TRUE) =>
              NormalMode /\ OrderGateAllows(symbol, 1)
              /\ BlockingGate("none") \in SettingGates
    /\ NormalMode /\ env.enabled /\ env.account = "paper" /\ kill = "off" =>
          \A symbol \in env.allowlist :
              ControlledAutoAllowed(symbol, TRUE)
              <=> symbol \in EquitySymbols /\ env.paperTrading

(* The card tells the operator to run a cycle, or that the scheduler does, *)
(* only where a run would get past its gate with a candidate and room for  *)
(* a position - whichever of the card's statements the database refuses.   *)
SuggestsOnlyOpenRuns ==
    \A failing \in Failures :
        Suggestion(failing) \in {"scheduler_runs", "run_one_cycle"} =>
            BlockingGate("none") = "none" /\ auto.open < MaxOpen /\ auto.candidates

(* The card does not contradict itself: it does not tell the operator to   *)
(* run a cycle and to wait for positions, its next action and its guidance *)
(* for the next run wait together, and the broker's checklist is green     *)
(* only where the card warns of nothing but the log of the runs.           *)
CardAgrees ==
    \A failing \in Failures :
        LET card == StatusCard(failing)
        IN  /\ card.suggestion \in {"scheduler_runs", "run_one_cycle"} =>
                  card.runnable /\ card.action \notin {"clear_stop", "wait_for_positions"}
            /\ card.suggestion = "wait_for_positions" =>
                  card.action \in {"wait_for_positions", "review_control"}
            /\ Checklist(failing) = "green" =>
                  card.posture = "ok" \/ runLog.crowded \/ card.decision = "errored"

(* Green is true: where the broker's checklist is green a paper order may  *)
(* be routed and submitted, and no setting holds a run back; where the     *)
(* enablement page is ready so is the readiness page.                      *)
GreenMeansOpen ==
    /\ \A failing \in Failures : Checklist(failing) = "green" =>
          /\ PaperRouteOpen /\ ManualAllowed("paper")
          /\ BlockingGate("none") \in SettingGates
    /\ EnablementStatus = "ready" =>
          ReadinessBlockers = {} /\ ReadinessWarnings = {} /\ PaperRouteOpen

(* What judges whether auto-paper runs, and what is said of it, agree.     *)
ControlsAgree == GatesAgree /\ SuggestsOnlyOpenRuns /\ CardAgrees /\ GreenMeansOpen

=============================================================================
