------------------------ MODULE AutoPaperTraderProofs ------------------------
(***************************************************************************)
(* Theorems about AutoPaperTrader, for every value of its constants.       *)
(***************************************************************************)
EXTENDS AutoPaperTrader, FiniteSetTheorems, FunctionTheorems, TLAPS

USE ParametersAssumption DEF Events

(* An opportunity is being processed between the order gate and the        *)
(* outcome, and only an adapter's answer to the current submission waits.  *)
CurrentOK ==
    \A r \in Runs :
        /\ pc[r] \in {"risk"} \union Submitting => run[r].current \in Signals
        /\ run[r].answer # "none" => pc[r] = "wait"

TypeInv == TypeOK /\ CurrentOK

LEMMA InitTypeInv == Init => TypeInv
<1> SUFFICES ASSUME Init PROVE TypeInv
  OBVIOUS
<1>1. NewRun \in Locals
  BY DEF NewRun, Locals
<1>2. NewSession \in Sessions
  BY DEF NewSession, Sessions
<1>3. TypeOK
  BY <1>1, <1>2 DEF Init, TypeOK, SignalStatus, PositionStatus, Places
<1>4. CurrentOK
  BY DEF Init, CurrentOK, NewRun, Submitting
<1> QED
  BY <1>3, <1>4 DEF TypeInv

LEMMA CurrentCallType ==
  ASSUME TypeInv, NEW r \in Runs, pc[r] \in {"risk"} \union Submitting
  PROVE  CurrentCall(r) \in Calls
  BY DEF TypeInv, CurrentOK, CurrentCall, Calls

ControlOK == pc \in [Runs -> Places] /\ run \in [Runs -> Locals] /\ CurrentOK

LEMMA NextOpportunityControl ==
  ASSUME TypeInv, NEW r \in Runs, pc[r] # "wait", NextOpportunity(r)
  PROVE  ControlOK'
<1>1. run' \in [Runs -> Locals]
  BY DEF TypeInv, TypeOK, NextOpportunity, Locals
<1>2. pc' \in [Runs -> Places]
  BY DEF TypeInv, TypeOK, NextOpportunity, Continue, Places, Looping
<1>3. CurrentOK'
  <2>1. ASSUME NEW q \in Runs
        PROVE  /\ pc'[q] \in {"risk"} \union Submitting => run'[q].current \in Signals
               /\ run'[q].answer # "none" => pc'[q] = "wait"
    <3>1. CASE q = r
      BY <3>1 DEF TypeInv, TypeOK, CurrentOK, NextOpportunity, Continue, Submitting,
                  Locals
    <3>2. CASE q # r
      BY <3>2 DEF TypeInv, TypeOK, CurrentOK, NextOpportunity, Continue
    <3> QED
      BY <3>1, <3>2
  <2> QED
    BY <2>1 DEF CurrentOK
<1> QED
  BY <1>1, <1>2, <1>3 DEF ControlOK

LEMMA CountErrorControl ==
  ASSUME TypeInv, NEW r \in Runs, CountError(r)
  PROVE  ControlOK' /\ session' \in [Runs -> Sessions]
<1>1. run' \in [Runs -> Locals]
  <2> DEFINE new == [run[r] EXCEPT !.errors = @ + 1, !.current = NoSignal,
                                   !.answer = "none"]
  <2>1. run[r] \in Locals
    BY DEF TypeInv, TypeOK
  <2>4. run[r].errors + 1 \in Nat
    BY <2>1 DEF Locals
  <2>2. new \in Locals
    BY <2>1, <2>4 DEF Locals
  <2>3. run' = [run EXCEPT ![r] = new]
    BY DEF CountError
  <2> QED
    BY <2>2, <2>3 DEF TypeInv, TypeOK
<1>2. pc' \in [Runs -> Places]
  BY DEF TypeInv, TypeOK, CountError, Continue, Places, Looping
<1>3. session' \in [Runs -> Sessions]
  BY DEF TypeInv, TypeOK, CountError, Sessions
<1>4. CurrentOK'
  BY DEF TypeInv, TypeOK, CurrentOK, CountError, Continue, Submitting, Locals
<1> QED
  BY <1>1, <1>2, <1>3, <1>4 DEF ControlOK

LEMMA ApplyWritesType ==
  ASSUME TypeInv, NEW r \in Runs, ApplyWrites(r)
  PROVE  /\ signal' \in [Signals -> SignalStatus]
         /\ orders' \subseteq Orders
         /\ position' \in [Calls -> PositionStatus]
         /\ session' \in [Runs -> Sessions]
  BY DEF TypeInv, TypeOK, ApplyWrites, NewSession, Sessions, SignalStatus,
         PositionStatus

LEMMA NextTypeInv == TypeInv /\ [Next]_vars => TypeInv'
<1> SUFFICES ASSUME TypeInv, [Next]_vars PROVE TypeInv'
  OBVIOUS
<1> USE DEF TypeInv, TypeOK, CurrentOK, Continue, Places, Looping, Submitting,
            BrokerStatus, Locals, Sessions, database, operator, broker, history
<1>1. ASSUME NEW r \in Runs, RunGate(r) PROVE TypeInv'
  BY <1>1 DEF RunGate
<1>2. ASSUME NEW r \in Runs, Rank(r) PROVE TypeInv'
  <2>1. PICK Q \in SUBSET Candidates :
           \/ Return(r)
           \/ run' = [run EXCEPT ![r].queue = Q] /\ Continue(r, "loop")
    BY <1>2 DEF Rank
  <2>2. CASE Return(r)
    BY <1>2, <2>2 DEF Rank, Return, NewRun
  <2>3. CASE run' = [run EXCEPT ![r].queue = Q] /\ Continue(r, "loop")
    BY <1>2, <2>3 DEF Rank, Candidates
  <2> QED
    BY <2>1, <2>2, <2>3
<1>3. ASSUME NEW r \in Runs, StopLoop(r) PROVE TypeInv'
  BY <1>3 DEF StopLoop
<1>4. ASSUME NEW r \in Runs, SkipAtCap(r) PROVE TypeInv'
  BY <1>4 DEF SkipAtCap
<1>5. ASSUME NEW r \in Runs, GateOrder(r) PROVE TypeInv'
  <2>1. PICK s \in run[r].queue :
           \/ run' = [run EXCEPT ![r].queue = @ \ {s}] /\ UNCHANGED pc
           \/ /\ run' = [run EXCEPT ![r].queue = @ \ {s}, ![r].current = s]
              /\ Continue(r, "risk")
    BY <1>5 DEF GateOrder
  <2>2. CASE run' = [run EXCEPT ![r].queue = @ \ {s}] /\ UNCHANGED pc
    BY <1>5, <2>2 DEF GateOrder
  <2>3. CASE /\ run' = [run EXCEPT ![r].queue = @ \ {s}, ![r].current = s]
             /\ Continue(r, "risk")
    BY <1>5, <2>3 DEF GateOrder
  <2> QED
    BY <2>1, <2>2, <2>3
<1>6. ASSUME NEW r \in Runs, EvaluateRisk(r) PROVE TypeInv'
  <2>1. PICK verdict \in {"approved", "rejected"} :
           \/ run' = [run EXCEPT ![r].attempts = @ + 1] /\ Continue(r, "submit")
           \/ NextOpportunity(r)
    BY <1>6 DEF EvaluateRisk
  <2>2. approved' \subseteq Calls
    BY <1>6, CurrentCallType DEF EvaluateRisk
  <2>3. ControlOK'
    <3>1. CASE run' = [run EXCEPT ![r].attempts = @ + 1] /\ Continue(r, "submit")
      BY <1>6, <3>1 DEF EvaluateRisk, ControlOK
    <3>2. CASE NextOpportunity(r)
      BY <1>6, <3>2, NextOpportunityControl DEF EvaluateRisk
    <3> QED
      BY <2>1, <3>1, <3>2
  <2> QED
    BY <1>6, <2>2, <2>3, ApplyWritesType DEF EvaluateRisk, ControlOK
<1>7. ASSUME NEW r \in Runs, AssertSubmissionAllowed(r) PROVE TypeInv'
  <2>1. CASE NextOpportunity(r)
    BY <1>7, <2>1, NextOpportunityControl DEF AssertSubmissionAllowed, ControlOK
  <2>2. CASE Continue(r, "preflight") /\ UNCHANGED run
    BY <1>7, <2>2 DEF AssertSubmissionAllowed
  <2> QED
    BY <1>7, <2>1, <2>2 DEF AssertSubmissionAllowed
<1>8. ASSUME NEW r \in Runs, Preflight(r) PROVE TypeInv'
  <2>1. CASE NextOpportunity(r)
    BY <1>8, <2>1, NextOpportunityControl DEF Preflight, ControlOK
  <2>2. CASE Continue(r, "send") /\ UNCHANGED run
    BY <1>8, <2>2 DEF Preflight
  <2> QED
    BY <1>8, <2>1, <2>2 DEF Preflight
<1>9. ASSUME NEW r \in Runs, SendOrder(r) PROVE TypeInv'
  BY <1>9, CurrentCallType DEF SendOrder
<1>10. ASSUME NEW c \in Calls, AdapterAnswers(c) PROVE TypeInv'
  BY <1>10 DEF AdapterAnswers, Calls, CurrentCall
<1>11. ASSUME NEW r \in Runs, SubmitError(r) PROVE TypeInv'
  BY <1>11, CountErrorControl DEF SubmitError, ControlOK
<1>12. ASSUME NEW r \in Runs, RecordAccepted(r) PROVE TypeInv'
  BY <1>12, CurrentCallType DEF RecordAccepted, Orders
<1>13. ASSUME NEW r \in Runs, RecordRefused(r) PROVE TypeInv'
  BY <1>13, CurrentCallType DEF RecordRefused, Orders, RefusedStatuses
<1>14. ASSUME NEW r \in Runs, RecordUnsupported(r) PROVE TypeInv'
  BY <1>14, CountErrorControl DEF RecordUnsupported, ControlOK
<1>15. ASSUME NEW r \in Runs, Commit(r) PROVE TypeInv'
  BY <1>15, ApplyWritesType DEF Commit, Return, NewRun
<1>16. ASSUME NEW r \in Runs, Fatal(r) PROVE TypeInv'
  BY <1>16 DEF Fatal, Return, NewRun, NewSession
<1>17. CASE Crash
  BY <1>17 DEF Crash, Active, NewRun, NewSession
<1>18. CASE CloseExpired
  BY <1>18 DEF CloseExpired, OpenPositions, SignalStatus, PositionStatus
<1>19. CASE Operator
  <2>1. CASE ActivateKillSwitch
    BY <2>1 DEF ActivateKillSwitch
  <2>2. CASE DeactivateKillSwitch
    BY <2>2 DEF DeactivateKillSwitch
  <2>3. CASE CreateHalt
    BY <2>3 DEF CreateHalt
  <2>4. CASE ResolveHalt
    BY <2>4 DEF ResolveHalt
  <2> QED
    BY <1>19, <2>1, <2>2, <2>3, <2>4 DEF Operator
<1>20. CASE UNCHANGED vars
  BY <1>20 DEF vars
<1> HIDE DEF TypeInv
<1> QED
  BY <1>1, <1>2, <1>3, <1>4, <1>5, <1>6, <1>7, <1>8, <1>9, <1>10, <1>11, <1>12,
     <1>13, <1>14, <1>15, <1>16, <1>17, <1>18, <1>19, <1>20 DEF Next, RunStep

LEMMA TypeCorrect == Spec => []TypeInv
  BY InitTypeInv, NextTypeInv, PTL DEF Spec

(* Every variable keeps its shape, whatever the runs, the adapter, the     *)
(* operator and the close worker do.                                       *)
THEOREM TraderTypeCorrect == Spec => []TypeOK
<1>1. TypeInv => TypeOK
  BY DEF TypeInv
<1> QED
  BY <1>1, TypeCorrect, PTL

-----------------------------------------------------------------------------
(***************************************************************************)
(* The kill switch.  A run past the check has sent nothing under the       *)
(* present switch, and the count is of the present switch only.            *)
(***************************************************************************)

KillInv ==
    /\ KillStops
    /\ \A r \in Runs :
          /\ sinceKill[r] > 0 => killSwitch
          /\ pc[r] \in {"preflight", "send"} => sinceKill[r] = 0

LEMMA NextKillInv == TypeInv /\ KillInv /\ [Next]_vars => KillInv'
<1> SUFFICES ASSUME TypeInv, KillInv, [Next]_vars PROVE KillInv'
  OBVIOUS
<1> USE DEF TypeInv, TypeOK, Locals, Continue, database, operator, broker, history, KillInv, KillStops
<1>1. ASSUME NEW r \in Runs, RunGate(r) PROVE KillInv'
  BY <1>1 DEF RunGate
<1>2. ASSUME NEW r \in Runs, Rank(r) PROVE KillInv'
  BY <1>2 DEF Rank, Return, NewRun
<1>3. ASSUME NEW r \in Runs, StopLoop(r) PROVE KillInv'
  BY <1>3 DEF StopLoop
<1>4. ASSUME NEW r \in Runs, SkipAtCap(r) PROVE KillInv'
  BY <1>4 DEF SkipAtCap
<1>5. ASSUME NEW r \in Runs, GateOrder(r) PROVE KillInv'
  BY <1>5 DEF GateOrder
<1>6. ASSUME NEW r \in Runs, EvaluateRisk(r) PROVE KillInv'
  BY <1>6 DEF EvaluateRisk, ApplyWrites, NextOpportunity
<1>7. ASSUME NEW r \in Runs, AssertSubmissionAllowed(r) PROVE KillInv'
  BY <1>7 DEF AssertSubmissionAllowed, NextOpportunity, SubmissionAllowed
<1>8. ASSUME NEW r \in Runs, Preflight(r) PROVE KillInv'
  BY <1>8 DEF Preflight, NextOpportunity
<1>9. ASSUME NEW r \in Runs, SendOrder(r) PROVE KillInv'
  BY <1>9 DEF SendOrder
<1>10. ASSUME NEW c \in Calls, AdapterAnswers(c) PROVE KillInv'
  BY <1>10 DEF AdapterAnswers, Calls
<1>11. ASSUME NEW r \in Runs, SubmitError(r) PROVE KillInv'
  BY <1>11 DEF SubmitError, CountError
<1>12. ASSUME NEW r \in Runs, RecordAccepted(r) PROVE KillInv'
  BY <1>12 DEF RecordAccepted
<1>13. ASSUME NEW r \in Runs, RecordRefused(r) PROVE KillInv'
  BY <1>13 DEF RecordRefused
<1>14. ASSUME NEW r \in Runs, RecordUnsupported(r) PROVE KillInv'
  BY <1>14 DEF RecordUnsupported, CountError
<1>15. ASSUME NEW r \in Runs, Commit(r) PROVE KillInv'
  BY <1>15 DEF Commit, ApplyWrites, Return, NewRun
<1>16. ASSUME NEW r \in Runs, Fatal(r) PROVE KillInv'
  BY <1>16 DEF Fatal, Return, NewRun
<1>17. CASE Crash
  BY <1>17 DEF Crash, Active, NewRun
<1>18. CASE CloseExpired
  BY <1>18 DEF CloseExpired
<1>19. CASE ActivateKillSwitch
  BY <1>19 DEF ActivateKillSwitch
<1>20. CASE DeactivateKillSwitch
  BY <1>20 DEF DeactivateKillSwitch
<1>21. CASE CreateHalt
  BY <1>21 DEF CreateHalt
<1>22. CASE ResolveHalt
  BY <1>22 DEF ResolveHalt
<1>23. CASE UNCHANGED vars
  BY <1>23 DEF vars
<1> HIDE DEF KillInv
<1> QED
  BY <1>1, <1>2, <1>3, <1>4, <1>5, <1>6, <1>7, <1>8, <1>9, <1>10, <1>11,
     <1>12, <1>13, <1>14, <1>15, <1>16, <1>17, <1>18, <1>19, <1>20, <1>21,
     <1>22, <1>23
     DEF Next, RunStep, Operator

(* Once the kill switch is on, no run sends more than the one order that   *)
(* was past the check, whatever it and the other runs are doing.           *)
THEOREM KillSwitchStopsRuns == Spec => []KillStops
<1>1. Init => KillInv
  BY DEF Init, KillInv, KillStops
<1>2. KillInv => KillStops
  BY DEF KillInv
<1> QED
  BY <1>1, <1>2, TypeCorrect, NextKillInv, PTL DEF Spec

-----------------------------------------------------------------------------
(***************************************************************************)
(* The trading halt, which the preflight reads just before sending.        *)
(***************************************************************************)

HaltInv ==
    /\ HaltStops
    /\ \A r \in Runs :
          /\ sinceHalt[r] > 0 => halted
          /\ pc[r] = "send" => sinceHalt[r] = 0

LEMMA NextHaltInv == TypeInv /\ HaltInv /\ [Next]_vars => HaltInv'
<1> SUFFICES ASSUME TypeInv, HaltInv, [Next]_vars PROVE HaltInv'
  OBVIOUS
<1> USE DEF TypeInv, TypeOK, Locals, Continue, database, operator, broker, history, HaltInv, HaltStops
<1>1. ASSUME NEW r \in Runs, RunGate(r) PROVE HaltInv'
  BY <1>1 DEF RunGate
<1>2. ASSUME NEW r \in Runs, Rank(r) PROVE HaltInv'
  BY <1>2 DEF Rank, Return, NewRun
<1>3. ASSUME NEW r \in Runs, StopLoop(r) PROVE HaltInv'
  BY <1>3 DEF StopLoop
<1>4. ASSUME NEW r \in Runs, SkipAtCap(r) PROVE HaltInv'
  BY <1>4 DEF SkipAtCap
<1>5. ASSUME NEW r \in Runs, GateOrder(r) PROVE HaltInv'
  BY <1>5 DEF GateOrder
<1>6. ASSUME NEW r \in Runs, EvaluateRisk(r) PROVE HaltInv'
  BY <1>6 DEF EvaluateRisk, ApplyWrites, NextOpportunity
<1>7. ASSUME NEW r \in Runs, AssertSubmissionAllowed(r) PROVE HaltInv'
  BY <1>7 DEF AssertSubmissionAllowed, NextOpportunity
<1>8. ASSUME NEW r \in Runs, Preflight(r) PROVE HaltInv'
  BY <1>8 DEF Preflight, NextOpportunity, HaltBlocks
<1>9. ASSUME NEW r \in Runs, SendOrder(r) PROVE HaltInv'
  BY <1>9 DEF SendOrder
<1>10. ASSUME NEW c \in Calls, AdapterAnswers(c) PROVE HaltInv'
  BY <1>10 DEF AdapterAnswers, Calls
<1>11. ASSUME NEW r \in Runs, SubmitError(r) PROVE HaltInv'
  BY <1>11 DEF SubmitError, CountError
<1>12. ASSUME NEW r \in Runs, RecordAccepted(r) PROVE HaltInv'
  BY <1>12 DEF RecordAccepted
<1>13. ASSUME NEW r \in Runs, RecordRefused(r) PROVE HaltInv'
  BY <1>13 DEF RecordRefused
<1>14. ASSUME NEW r \in Runs, RecordUnsupported(r) PROVE HaltInv'
  BY <1>14 DEF RecordUnsupported, CountError
<1>15. ASSUME NEW r \in Runs, Commit(r) PROVE HaltInv'
  BY <1>15 DEF Commit, ApplyWrites, Return, NewRun
<1>16. ASSUME NEW r \in Runs, Fatal(r) PROVE HaltInv'
  BY <1>16 DEF Fatal, Return, NewRun
<1>17. CASE Crash
  BY <1>17 DEF Crash, Active, NewRun
<1>18. CASE CloseExpired
  BY <1>18 DEF CloseExpired
<1>19. CASE ActivateKillSwitch
  BY <1>19 DEF ActivateKillSwitch
<1>20. CASE DeactivateKillSwitch
  BY <1>20 DEF DeactivateKillSwitch
<1>21. CASE CreateHalt
  BY <1>21 DEF CreateHalt
<1>22. CASE ResolveHalt
  BY <1>22 DEF ResolveHalt
<1>23. CASE UNCHANGED vars
  BY <1>23 DEF vars
<1> HIDE DEF HaltInv
<1> QED
  BY <1>1, <1>2, <1>3, <1>4, <1>5, <1>6, <1>7, <1>8, <1>9, <1>10, <1>11,
     <1>12, <1>13, <1>14, <1>15, <1>16, <1>17, <1>18, <1>19, <1>20, <1>21,
     <1>22, <1>23
     DEF Next, RunStep, Operator

(* Once a halt is active, no run sends more than the one order whose       *)
(* preflight was over.                                                     *)
THEOREM HaltStopsRuns == Spec => []HaltStops
<1>1. Init => HaltInv
  BY DEF Init, HaltInv, HaltStops
<1>2. HaltInv => HaltStops
  BY DEF HaltInv
<1> QED
  BY <1>1, <1>2, TypeCorrect, NextHaltInv, PTL DEF Spec

(* The operator stops a run in the middle of its loop, whichever of the    *)
(* two switches it is.                                                     *)
THEOREM OperatorStopsRuns == Spec => []OperatorStops
<1>1. KillStops /\ HaltStops => OperatorStops
  BY DEF OperatorStops
<1> QED
  BY <1>1, KillSwitchStopsRuns, HaltStopsRuns, PTL

-----------------------------------------------------------------------------
(***************************************************************************)
(* Risk approval.  A run that submits has its approval committed.          *)
(***************************************************************************)

ApprovalInv ==
    /\ RiskBeforeBroker
    /\ \A r \in Runs : pc[r] \in Submitting => CurrentCall(r) \in approved

LEMMA NextApprovalInv == TypeInv /\ ApprovalInv /\ [Next]_vars => ApprovalInv'
<1> SUFFICES ASSUME TypeInv, ApprovalInv, [Next]_vars PROVE ApprovalInv'
  OBVIOUS
<1> USE DEF TypeInv, TypeOK, Locals, Sessions, Continue, database, operator, broker, history, ApprovalInv, RiskBeforeBroker, Submitting, CurrentCall
<1>1. ASSUME NEW r \in Runs, RunGate(r) PROVE ApprovalInv'
  BY <1>1 DEF RunGate
<1>2. ASSUME NEW r \in Runs, Rank(r) PROVE ApprovalInv'
  BY <1>2 DEF Rank, Return, NewRun
<1>3. ASSUME NEW r \in Runs, StopLoop(r) PROVE ApprovalInv'
  BY <1>3 DEF StopLoop
<1>4. ASSUME NEW r \in Runs, SkipAtCap(r) PROVE ApprovalInv'
  BY <1>4 DEF SkipAtCap
<1>5. ASSUME NEW r \in Runs, GateOrder(r) PROVE ApprovalInv'
  BY <1>5 DEF GateOrder
<1>6. ASSUME NEW r \in Runs, EvaluateRisk(r) PROVE ApprovalInv'
  BY <1>6 DEF EvaluateRisk, ApplyWrites, NextOpportunity, Proceeds
<1>7. ASSUME NEW r \in Runs, AssertSubmissionAllowed(r) PROVE ApprovalInv'
  BY <1>7 DEF AssertSubmissionAllowed, NextOpportunity
<1>8. ASSUME NEW r \in Runs, Preflight(r) PROVE ApprovalInv'
  BY <1>8 DEF Preflight, NextOpportunity
<1>9. ASSUME NEW r \in Runs, SendOrder(r) PROVE ApprovalInv'
  BY <1>9 DEF SendOrder
<1>10. ASSUME NEW c \in Calls, AdapterAnswers(c) PROVE ApprovalInv'
  BY <1>10 DEF AdapterAnswers, Calls
<1>11. ASSUME NEW r \in Runs, SubmitError(r) PROVE ApprovalInv'
  BY <1>11 DEF SubmitError, CountError
<1>12. ASSUME NEW r \in Runs, RecordAccepted(r) PROVE ApprovalInv'
  BY <1>12 DEF RecordAccepted
<1>13. ASSUME NEW r \in Runs, RecordRefused(r) PROVE ApprovalInv'
  BY <1>13 DEF RecordRefused
<1>14. ASSUME NEW r \in Runs, RecordUnsupported(r) PROVE ApprovalInv'
  BY <1>14 DEF RecordUnsupported, CountError
<1>15. ASSUME NEW r \in Runs, Commit(r) PROVE ApprovalInv'
  BY <1>15 DEF Commit, ApplyWrites, Return, NewRun
<1>16. ASSUME NEW r \in Runs, Fatal(r) PROVE ApprovalInv'
  BY <1>16 DEF Fatal, Return, NewRun
<1>17. CASE Crash
  BY <1>17 DEF Crash, Active, NewRun
<1>18. CASE CloseExpired
  BY <1>18 DEF CloseExpired
<1>19. CASE ActivateKillSwitch
  BY <1>19 DEF ActivateKillSwitch
<1>20. CASE DeactivateKillSwitch
  BY <1>20 DEF DeactivateKillSwitch
<1>21. CASE CreateHalt
  BY <1>21 DEF CreateHalt
<1>22. CASE ResolveHalt
  BY <1>22 DEF ResolveHalt
<1>23. CASE UNCHANGED vars
  BY <1>23 DEF vars
<1> HIDE DEF ApprovalInv
<1> QED
  BY <1>1, <1>2, <1>3, <1>4, <1>5, <1>6, <1>7, <1>8, <1>9, <1>10, <1>11,
     <1>12, <1>13, <1>14, <1>15, <1>16, <1>17, <1>18, <1>19, <1>20, <1>21,
     <1>22, <1>23
     DEF Next, RunStep, Operator

(* No order reaches the adapter or the broker without a committed risk     *)
(* approval, even when the run that asked for it timed out or died.        *)
THEOREM RiskApprovalPrecedesBroker == Spec => []RiskBeforeBroker
<1>1. Init => ApprovalInv
  BY DEF Init, ApprovalInv, RiskBeforeBroker, Submitting
<1>2. ApprovalInv => RiskBeforeBroker
  BY DEF ApprovalInv
<1> QED
  BY <1>1, <1>2, TypeCorrect, NextApprovalInv, PTL DEF Spec

-----------------------------------------------------------------------------
(***************************************************************************)
(* Positions.  An accepted answer comes from a placed order, and so does   *)
(* every position a session has yet to commit.                             *)
(***************************************************************************)

BackingInv ==
    /\ PositionsBacked
    /\ \A r \in Runs : run[r].answer = "accepted" => CurrentCall(r) \in placed
    /\ \A r \in Runs : \A c \in PositionRows(session[r].orders) : c \in placed

LEMMA PositionRowsMember ==
  ASSUME NEW O \in SUBSET Orders, NEW c
  PROVE  c \in PositionRows(O) <=> [call |-> c, status |-> "accepted"] \in O
  BY DEF PositionRows, Orders

LEMMA ApplyWritesBacked ==
  ASSUME TypeInv, BackingInv, NEW r \in Runs, ApplyWrites(r)
  PROVE  /\ \A c \in Calls : position'[c] # "none" =>
               c \in placed /\ [call |-> c, status |-> "accepted"] \in orders'
         /\ \A q \in Runs : \A c \in PositionRows(session'[q].orders) : c \in placed
<1>1. session[r].orders \subseteq Orders
  BY DEF TypeInv, TypeOK, Sessions
<1>2. ASSUME NEW c \in Calls, position'[c] # "none"
      PROVE  c \in placed /\ [call |-> c, status |-> "accepted"] \in orders'
  <2>1. CASE c \in PositionRows(session[r].orders)
    BY <1>1, <2>1, PositionRowsMember DEF BackingInv, ApplyWrites
  <2>2. CASE c \notin PositionRows(session[r].orders)
    BY <1>2, <2>2 DEF BackingInv, PositionsBacked, ApplyWrites
  <2> QED
    BY <2>1, <2>2
<1>3. ASSUME NEW q \in Runs, NEW c \in PositionRows(session'[q].orders)
      PROVE  c \in placed
  <2>1. CASE q = r
    BY <1>3, <2>1 DEF TypeInv, TypeOK, ApplyWrites, NewSession, PositionRows
  <2>2. CASE q # r
    BY <1>3, <2>2 DEF TypeInv, TypeOK, ApplyWrites, BackingInv
  <2> QED
    BY <2>1, <2>2
<1> QED
  BY <1>2, <1>3

LEMMA NextOpportunityAnswers ==
  ASSUME TypeInv, BackingInv, NEW r \in Runs, pc[r] # "wait", NextOpportunity(r),
         NEW q \in Runs, run'[q].answer = "accepted"
  PROVE  CurrentCall(q)' \in placed
<1>1. q # r
  BY DEF TypeInv, TypeOK, CurrentOK, Locals, NextOpportunity
<1>2. run'[q] = run[q]
  BY <1>1 DEF TypeInv, TypeOK, NextOpportunity
<1> QED
  BY <1>2 DEF BackingInv, CurrentCall

LEMMA NextBackingInv == TypeInv /\ BackingInv /\ [Next]_vars => BackingInv'
<1> SUFFICES ASSUME TypeInv, BackingInv, [Next]_vars PROVE BackingInv'
  OBVIOUS
<1> USE DEF TypeInv, TypeOK, Locals, Sessions, Continue, database, operator, broker, history, BackingInv, PositionsBacked, CurrentCall, CurrentOK
<1>1. ASSUME NEW r \in Runs, RunGate(r) PROVE BackingInv'
  BY <1>1 DEF RunGate
<1>2. ASSUME NEW r \in Runs, Rank(r) PROVE BackingInv'
  <2>1. \A q \in Runs : run'[q].answer = "accepted" => CurrentCall(q)' \in placed
    <3>1. CASE Return(r)
      BY <1>2, <3>1 DEF Return, NewRun
    <3>2. ASSUME NEW Q \in SUBSET Candidates, run' = [run EXCEPT ![r].queue = Q]
          PROVE  \A q \in Runs : run'[q].answer = "accepted" =>
                   CurrentCall(q)' \in placed
      BY <3>2
    <3> QED
      BY <1>2, <3>1, <3>2 DEF Rank
  <2> QED
    BY <1>2, <2>1 DEF Rank
<1>3. ASSUME NEW r \in Runs, StopLoop(r) PROVE BackingInv'
  BY <1>3 DEF StopLoop
<1>4. ASSUME NEW r \in Runs, SkipAtCap(r) PROVE BackingInv'
  BY <1>4 DEF SkipAtCap
<1>5. ASSUME NEW r \in Runs, GateOrder(r) PROVE BackingInv'
  BY <1>5 DEF GateOrder, Submitting
<1>6. ASSUME NEW r \in Runs, EvaluateRisk(r) PROVE BackingInv'
  <2>1. \A q \in Runs : run'[q].answer = "accepted" => CurrentCall(q)' \in placed
    <3>1. CASE NextOpportunity(r)
      BY <1>6, <3>1, NextOpportunityAnswers DEF EvaluateRisk
    <3>2. CASE run' = [run EXCEPT ![r].attempts = @ + 1]
      BY <3>2
    <3> QED
      BY <1>6, <3>1, <3>2 DEF EvaluateRisk
  <2> QED
    BY <1>6, <2>1, ApplyWritesBacked DEF EvaluateRisk
<1>7. ASSUME NEW r \in Runs, AssertSubmissionAllowed(r) PROVE BackingInv'
  <2>1. CASE NextOpportunity(r)
    BY <1>7, <2>1, NextOpportunityAnswers DEF AssertSubmissionAllowed
  <2>2. CASE UNCHANGED run
    BY <1>7, <2>2 DEF AssertSubmissionAllowed
  <2> QED
    BY <1>7, <2>1, <2>2 DEF AssertSubmissionAllowed
<1>8. ASSUME NEW r \in Runs, Preflight(r) PROVE BackingInv'
  <2>1. CASE NextOpportunity(r)
    BY <1>8, <2>1, NextOpportunityAnswers DEF Preflight
  <2>2. CASE UNCHANGED run
    BY <1>8, <2>2 DEF Preflight
  <2> QED
    BY <1>8, <2>1, <2>2 DEF Preflight
<1>9. ASSUME NEW r \in Runs, SendOrder(r) PROVE BackingInv'
  BY <1>9 DEF SendOrder, Submitting
<1>10. ASSUME NEW c \in Calls, AdapterAnswers(c) PROVE BackingInv'
  BY <1>10 DEF AdapterAnswers, Calls
<1>11. ASSUME NEW r \in Runs, SubmitError(r) PROVE BackingInv'
  BY <1>11 DEF SubmitError, CountError
<1>12. ASSUME NEW r \in Runs, RecordAccepted(r) PROVE BackingInv'
  <2>1. \A q \in Runs : \A c \in PositionRows(session'[q].orders) : c \in placed'
    BY <1>12, PositionRowsMember, CurrentCallType DEF RecordAccepted, Orders, Submitting
  <2> QED
    BY <1>12, <2>1 DEF RecordAccepted
<1>13. ASSUME NEW r \in Runs, RecordRefused(r) PROVE BackingInv'
  <2>1. \A q \in Runs : \A c \in PositionRows(session'[q].orders) : c \in placed'
    BY <1>13, PositionRowsMember, CurrentCallType
       DEF RecordRefused, RefusedStatuses, Orders, Submitting
  <2>2. \A q \in Runs : run'[q].answer = "accepted" => CurrentCall(q)' \in placed
    <3>1. PICK n : run' = [run EXCEPT ![r].rejects = n, ![r].answer = "none",
                                      ![r].current = NoSignal]
      BY <1>13 DEF RecordRefused
    <3> QED
      BY <3>1
  <2> QED
    BY <1>13, <2>1, <2>2 DEF RecordRefused
<1>14. ASSUME NEW r \in Runs, RecordUnsupported(r) PROVE BackingInv'
  BY <1>14 DEF RecordUnsupported, CountError
<1>15. ASSUME NEW r \in Runs, Commit(r) PROVE BackingInv'
  BY <1>15, ApplyWritesBacked DEF Commit, Return, NewRun
<1>16. ASSUME NEW r \in Runs, Fatal(r) PROVE BackingInv'
  BY <1>16 DEF Fatal, Return, NewRun, NewSession, PositionRows
<1>17. CASE Crash
  BY <1>17 DEF Crash, Active, NewRun, NewSession, PositionRows
<1>18. CASE CloseExpired
  BY <1>18 DEF CloseExpired, OpenPositions
<1>19. CASE ActivateKillSwitch
  BY <1>19 DEF ActivateKillSwitch
<1>20. CASE DeactivateKillSwitch
  BY <1>20 DEF DeactivateKillSwitch
<1>21. CASE CreateHalt
  BY <1>21 DEF CreateHalt
<1>22. CASE ResolveHalt
  BY <1>22 DEF ResolveHalt
<1>23. CASE UNCHANGED vars
  BY <1>23 DEF vars
<1> HIDE DEF BackingInv
<1> QED
  BY <1>1, <1>2, <1>3, <1>4, <1>5, <1>6, <1>7, <1>8, <1>9, <1>10, <1>11,
     <1>12, <1>13, <1>14, <1>15, <1>16, <1>17, <1>18, <1>19, <1>20, <1>21,
     <1>22, <1>23
     DEF Next, RunStep, Operator

(* A position stands for an order the broker was given and an accepted     *)
(* order row, through late answers, rollbacks and crashes.                 *)
THEOREM NoPhantomPosition == Spec => []PositionsBacked
<1>1. Init => BackingInv
  BY DEF Init, BackingInv, PositionsBacked, NewRun, NewSession, PositionRows
<1>2. BackingInv => PositionsBacked
  BY DEF BackingInv
<1> QED
  BY <1>1, <1>2, TypeCorrect, NextBackingInv, PTL DEF Spec

-----------------------------------------------------------------------------
(***************************************************************************)
(* What the steps of a run do to its counters, field by field.             *)
(***************************************************************************)

Others(r) == \A q \in Runs \ {r} : run'[q] = run[q] /\ pc'[q] = pc[q]

Counters(r) ==
    /\ run'[r].errors = run[r].errors
    /\ run'[r].rejects = run[r].rejects
    /\ run'[r].attempts = run[r].attempts

LEMMA CounterTypes ==
  ASSUME TypeInv, NEW r \in Runs
  PROVE  run[r].errors \in Nat /\ run[r].rejects \in Nat /\ run[r].attempts \in Nat
  BY DEF TypeInv, TypeOK, Locals

LEMMA NextOpportunityEffect ==
  ASSUME TypeInv, NEW r \in Runs, NextOpportunity(r)
  PROVE  Others(r) /\ Counters(r) /\ pc'[r] = "loop"
  BY DEF TypeInv, TypeOK, Locals, NextOpportunity, Continue, Others, Counters

LEMMA ReturnEffect ==
  ASSUME TypeInv, NEW r \in Runs, Return(r)
  PROVE  Others(r) /\ pc'[r] = "done"
  BY DEF TypeInv, TypeOK, Return, Others

LEMMA RankEffect ==
  ASSUME TypeInv, NEW r \in Runs, Rank(r)
  PROVE  /\ Others(r) /\ pc[r] = "rank"
         /\ pc'[r] = "done" \/ (pc'[r] = "loop" /\ Counters(r))
<1>1. CASE Return(r)
  BY <1>1, ReturnEffect DEF Rank
<1>2. ASSUME NEW Q, run' = [run EXCEPT ![r].queue = Q], Continue(r, "loop")
      PROVE  Others(r) /\ Counters(r) /\ pc'[r] = "loop"
  BY <1>2 DEF TypeInv, TypeOK, Locals, Continue, Others, Counters
<1> QED
  BY <1>1, <1>2 DEF Rank

LEMMA GateOrderEffect ==
  ASSUME TypeInv, NEW r \in Runs, GateOrder(r)
  PROVE  /\ Others(r) /\ Counters(r)
         /\ pc[r] = "loop" /\ ~PerRunCapReached(r) /\ pc'[r] \in {"loop", "risk"}
<1>1. ASSUME NEW s, run' = [run EXCEPT ![r].queue = @ \ {s}], UNCHANGED pc
      PROVE  Others(r) /\ Counters(r) /\ pc'[r] = pc[r]
  BY <1>1 DEF TypeInv, TypeOK, Locals, Others, Counters
<1>2. ASSUME NEW s, run' = [run EXCEPT ![r].queue = @ \ {s}, ![r].current = s],
             Continue(r, "risk")
      PROVE  Others(r) /\ Counters(r) /\ pc'[r] = "risk"
  BY <1>2 DEF TypeInv, TypeOK, Locals, Continue, Others, Counters
<1> QED
  BY <1>1, <1>2 DEF GateOrder

LEMMA EvaluateRiskEffect ==
  ASSUME TypeInv, NEW r \in Runs, EvaluateRisk(r)
  PROVE  /\ Others(r) /\ pc[r] = "risk"
         /\ \/ UNCHANGED approved /\ Counters(r) /\ pc'[r] = "loop"
            \/ /\ approved' = approved \union {CurrentCall(r)}
               /\ pc'[r] = "submit"
               /\ run'[r].errors = run[r].errors
               /\ run'[r].rejects = run[r].rejects
               /\ run'[r].attempts = run[r].attempts + 1
<1>1. ASSUME run' = [run EXCEPT ![r].attempts = @ + 1], Continue(r, "submit")
      PROVE  /\ Others(r) /\ pc'[r] = "submit"
             /\ run'[r].errors = run[r].errors
             /\ run'[r].rejects = run[r].rejects
             /\ run'[r].attempts = run[r].attempts + 1
  BY <1>1 DEF TypeInv, TypeOK, Locals, Continue, Others
<1>2. \/ /\ approved' = approved \union {CurrentCall(r)}
         /\ run' = [run EXCEPT ![r].attempts = @ + 1] /\ Continue(r, "submit")
      \/ UNCHANGED approved /\ NextOpportunity(r)
  BY DEF EvaluateRisk, Proceeds
<1> QED
  BY <1>1, <1>2, NextOpportunityEffect DEF EvaluateRisk

LEMMA AdapterAnswersEffect ==
  ASSUME TypeInv, NEW c \in Calls, AdapterAnswers(c), NEW r \in Runs
  PROVE  Counters(r) /\ UNCHANGED <<pc, approved>>
  BY DEF TypeInv, TypeOK, Locals, Calls, AdapterAnswers, Counters, database

LEMMA CountErrorEffect ==
  ASSUME TypeInv, NEW r \in Runs, CountError(r)
  PROVE  /\ Others(r)
         /\ run'[r].errors = run[r].errors + 1
         /\ run'[r].rejects = run[r].rejects
         /\ run'[r].attempts = run[r].attempts
         /\ pc'[r] = IF WatchdogErrorTrip(run[r].errors + 1) THEN "commit" ELSE "loop"
<1> DEFINE new == [run[r] EXCEPT !.errors = @ + 1, !.current = NoSignal,
                                 !.answer = "none"]
<1>1. run[r] \in Locals
  BY DEF TypeInv, TypeOK
<1>2. /\ new.errors = run[r].errors + 1
      /\ new.rejects = run[r].rejects
      /\ new.attempts = run[r].attempts
  BY <1>1 DEF Locals
<1>3. run' = [run EXCEPT ![r] = new]
  BY DEF CountError
<1>4. run'[r] = new /\ \A q \in Runs \ {r} : run'[q] = run[q]
  BY <1>3 DEF TypeInv, TypeOK
<1>5. \A q \in Runs \ {r} : pc'[q] = pc[q]
  BY DEF TypeInv, TypeOK, CountError, Continue
<1>6. pc'[r] = IF WatchdogErrorTrip(run[r].errors + 1) THEN "commit" ELSE "loop"
  BY DEF TypeInv, TypeOK, CountError, Continue
<1> HIDE DEF new
<1> QED
  BY <1>2, <1>4, <1>5, <1>6 DEF Others

LEMMA AssertSubmissionAllowedEffect ==
  ASSUME TypeInv, NEW r \in Runs, AssertSubmissionAllowed(r)
  PROVE  /\ Others(r) /\ Counters(r) /\ UNCHANGED approved
         /\ pc[r] = "submit" /\ pc'[r] \in {"loop", "preflight"}
<1>1. CASE NextOpportunity(r)
  BY <1>1, NextOpportunityEffect DEF AssertSubmissionAllowed, database
<1>2. CASE Continue(r, "preflight") /\ UNCHANGED run
  BY <1>2 DEF AssertSubmissionAllowed, database, TypeInv, TypeOK, Continue, Others, Counters
<1> QED
  BY <1>1, <1>2 DEF AssertSubmissionAllowed

LEMMA PreflightEffect ==
  ASSUME TypeInv, NEW r \in Runs, Preflight(r)
  PROVE  /\ Others(r) /\ Counters(r) /\ UNCHANGED approved
         /\ pc[r] = "preflight" /\ pc'[r] \in {"loop", "send"}
<1>1. CASE NextOpportunity(r)
  BY <1>1, NextOpportunityEffect DEF Preflight, database
<1>2. CASE Continue(r, "send") /\ UNCHANGED run
  BY <1>2 DEF Preflight, database, TypeInv, TypeOK, Continue, Others, Counters
<1> QED
  BY <1>1, <1>2 DEF Preflight

-----------------------------------------------------------------------------
(***************************************************************************)
(* The watchdogs.  A run enters its loop with nothing counted.             *)
(***************************************************************************)

WatchInv ==
    /\ WatchdogHolds
    /\ \A r \in Runs : pc[r] \in {"idle", "rank"} =>
          run[r].errors = 0 /\ run[r].rejects = 0

LEMMA MoreAttempts ==
  ASSUME NEW a \in Nat, NEW b \in Nat, b < RejectNum * a
  PROVE  b < RejectNum * (a + 1)
<1>1. RejectNum * (a + 1) = RejectNum * a + RejectNum
  OBVIOUS
<1>2. RejectNum * a \in Nat
  OBVIOUS
<1> QED
  BY <1>1, <1>2

LEMMA NextWatchInv == TypeInv /\ WatchInv /\ [Next]_vars => WatchInv'
<1> SUFFICES ASSUME TypeInv, WatchInv, [Next]_vars PROVE WatchInv'
  OBVIOUS
<1> USE DEF TypeInv, TypeOK, Locals, Sessions, Continue, Looping, Submitting, database, operator, broker, history, WatchInv, WatchdogHolds
<1>1. ASSUME NEW r \in Runs, RunGate(r) PROVE WatchInv'
  BY <1>1 DEF RunGate
<1>2. ASSUME NEW r \in Runs, Rank(r) PROVE WatchInv'
  <2> HIDE DEF TypeInv
  <2> QED
    BY <1>2, RankEffect DEF Others, Counters
<1>3. ASSUME NEW r \in Runs, StopLoop(r) PROVE WatchInv'
  BY <1>3 DEF StopLoop
<1>4. ASSUME NEW r \in Runs, SkipAtCap(r) PROVE WatchInv'
  BY <1>4 DEF SkipAtCap
<1>5. ASSUME NEW r \in Runs, GateOrder(r) PROVE WatchInv'
  <2> HIDE DEF TypeInv
  <2> QED
    BY <1>5, GateOrderEffect DEF Others, Counters
<1>6. ASSUME NEW r \in Runs, EvaluateRisk(r) PROVE WatchInv'
  <2> HIDE DEF TypeInv
  <2>1. Others(r) /\ pc[r] = "risk"
    BY <1>6, EvaluateRiskEffect
  <2>2. CASE Counters(r)
    BY <2>1, <2>2, <1>6, EvaluateRiskEffect DEF Others, Counters
  <2>3. CASE /\ pc'[r] = "submit"
             /\ run'[r].errors = run[r].errors
             /\ run'[r].rejects = run[r].rejects
             /\ run'[r].attempts = run[r].attempts + 1
    <3>1. run[r].rejects > 0 =>
             run[r].rejects * RejectDen < RejectNum * (run[r].attempts + 1)
      <4>1. run[r].rejects * RejectDen \in Nat
        BY CounterTypes
      <4> QED
        BY <2>1, <4>1, CounterTypes, MoreAttempts
    <3> QED
      BY <2>1, <2>3, <3>1 DEF Others
  <2> QED
    BY <1>6, <2>2, <2>3, EvaluateRiskEffect
<1>7. ASSUME NEW r \in Runs, AssertSubmissionAllowed(r) PROVE WatchInv'
  <2> HIDE DEF TypeInv
  <2> QED
    BY <1>7, AssertSubmissionAllowedEffect DEF Others, Counters
<1>8. ASSUME NEW r \in Runs, Preflight(r) PROVE WatchInv'
  <2> HIDE DEF TypeInv
  <2> QED
    BY <1>8, PreflightEffect DEF Others, Counters
<1>9. ASSUME NEW r \in Runs, SendOrder(r) PROVE WatchInv'
  BY <1>9 DEF SendOrder
<1>10. ASSUME NEW c \in Calls, AdapterAnswers(c) PROVE WatchInv'
  <2> HIDE DEF TypeInv
  <2> QED
    BY <1>10, AdapterAnswersEffect DEF Counters
<1>11. ASSUME NEW r \in Runs, SubmitError(r) PROVE WatchInv'
  <2> HIDE DEF TypeInv
  <2> QED
    BY <1>11, CountErrorEffect, CounterTypes DEF SubmitError, MayFail, Others, WatchdogErrorTrip
<1>12. ASSUME NEW r \in Runs, RecordAccepted(r) PROVE WatchInv'
  BY <1>12 DEF RecordAccepted
<1>13. ASSUME NEW r \in Runs, RecordRefused(r) PROVE WatchInv'
  BY <1>13 DEF RecordRefused, WatchdogRejectTrip
<1>14. ASSUME NEW r \in Runs, RecordUnsupported(r) PROVE WatchInv'
  <2> HIDE DEF TypeInv
  <2> QED
    BY <1>14, CountErrorEffect, CounterTypes DEF RecordUnsupported, Others, WatchdogErrorTrip
<1>15. ASSUME NEW r \in Runs, Commit(r) PROVE WatchInv'
  BY <1>15 DEF Commit, ApplyWrites, Return, NewRun
<1>16. ASSUME NEW r \in Runs, Fatal(r) PROVE WatchInv'
  BY <1>16 DEF Fatal, Return, NewRun
<1>17. CASE Crash
  BY <1>17 DEF Crash, Active, NewRun
<1>18. CASE CloseExpired
  BY <1>18 DEF CloseExpired
<1>19. CASE ActivateKillSwitch
  BY <1>19 DEF ActivateKillSwitch
<1>20. CASE DeactivateKillSwitch
  BY <1>20 DEF DeactivateKillSwitch
<1>21. CASE CreateHalt
  BY <1>21 DEF CreateHalt
<1>22. CASE ResolveHalt
  BY <1>22 DEF ResolveHalt
<1>23. CASE UNCHANGED vars
  BY <1>23 DEF vars
<1> HIDE DEF WatchInv
<1> QED
  BY <1>1, <1>2, <1>3, <1>4, <1>5, <1>6, <1>7, <1>8, <1>9, <1>10, <1>11,
     <1>12, <1>13, <1>14, <1>15, <1>16, <1>17, <1>18, <1>19, <1>20, <1>21,
     <1>22, <1>23
     DEF Next, RunStep, Operator

(* A run that goes on has tripped neither watchdog.                        *)
THEOREM WatchdogsStopRuns == Spec => []WatchdogHolds
<1>1. Init => WatchInv
  BY DEF Init, WatchInv, WatchdogHolds, NewRun, Looping, Submitting
<1>2. WatchInv => WatchdogHolds
  BY DEF WatchInv
<1> QED
  BY <1>1, <1>2, TypeCorrect, NextWatchInv, PTL DEF Spec

-----------------------------------------------------------------------------
(***************************************************************************)
(* The per-run cap.  A run's approvals are at most its attempts, and what  *)
(* reaches the broker is approved.                                         *)
(***************************************************************************)

ApprovalsOf(r) == {c \in approved : c.run = r}

CapInv ==
    /\ IsFiniteSet(approved)
    /\ \A r \in Runs :
          /\ Cardinality(ApprovalsOf(r)) <= MaxPerRun
          /\ pc[r] \in {"idle", "rank"} =>
                ApprovalsOf(r) = {} /\ run[r].attempts = 0
          /\ pc[r] \in Looping =>
                /\ Cardinality(ApprovalsOf(r)) <= run[r].attempts
                /\ run[r].attempts <= MaxPerRun
          /\ pc[r] = "risk" => run[r].attempts < MaxPerRun

LEMMA NoApprovals == Cardinality({}) = 0
  BY FS_EmptySet

LEMMA ApproveOne ==
  ASSUME IsFiniteSet(approved), NEW r \in Runs,
         approved' = approved \union {CurrentCall(r)}
  PROVE  /\ IsFiniteSet(approved')
         /\ ApprovalsOf(r)' = ApprovalsOf(r) \union {CurrentCall(r)}
         /\ Cardinality(ApprovalsOf(r)) \in Nat
         /\ Cardinality(ApprovalsOf(r)') \in Nat
         /\ Cardinality(ApprovalsOf(r)') <= Cardinality(ApprovalsOf(r)) + 1
         /\ \A q \in Runs \ {r} : ApprovalsOf(q)' = ApprovalsOf(q)
<1>1. IsFiniteSet(approved')
  BY FS_AddElement
<1>2. ApprovalsOf(r)' = ApprovalsOf(r) \union {CurrentCall(r)}
  BY DEF ApprovalsOf, CurrentCall
<1>3. IsFiniteSet(ApprovalsOf(r))
  BY FS_Subset DEF ApprovalsOf
<1>4. Cardinality(ApprovalsOf(r)) \in Nat
  BY <1>3, FS_CardinalityType
<1>5. Cardinality(ApprovalsOf(r) \union {CurrentCall(r)}) =
         IF CurrentCall(r) \in ApprovalsOf(r) THEN Cardinality(ApprovalsOf(r))
         ELSE Cardinality(ApprovalsOf(r)) + 1
  BY <1>3, FS_AddElement
<1>6. \A q \in Runs \ {r} : ApprovalsOf(q)' = ApprovalsOf(q)
  BY DEF ApprovalsOf, CurrentCall
<1> QED
  BY <1>1, <1>2, <1>4, <1>5, <1>6

LEMMA NextCapInv == TypeInv /\ CapInv /\ [Next]_vars => CapInv'
<1> SUFFICES ASSUME TypeInv, CapInv, [Next]_vars PROVE CapInv'
  OBVIOUS
<1> USE DEF TypeInv, TypeOK, Locals, Sessions, Continue, Looping, Submitting, database, operator, broker, history, CapInv
<1>1. ASSUME NEW r \in Runs, RunGate(r) PROVE CapInv'
  BY <1>1 DEF RunGate, ApprovalsOf
<1>2. ASSUME NEW r \in Runs, Rank(r) PROVE CapInv'
  <2>1. UNCHANGED approved /\ \A q \in Runs : ApprovalsOf(q)' = ApprovalsOf(q)
    BY <1>2 DEF Rank, ApprovalsOf
  <2> HIDE DEF TypeInv
  <2>2. Others(r) /\ pc[r] = "rank"
    BY <1>2, RankEffect
  <2>3. CASE pc'[r] = "done"
    BY <2>1, <2>2, <2>3 DEF Others
  <2>4. CASE pc'[r] = "loop" /\ Counters(r)
    <3>1. Cardinality(ApprovalsOf(r)) = 0 /\ run'[r].attempts = 0
      BY <2>2, <2>4, NoApprovals DEF Counters
    <3> QED
      BY <2>1, <2>2, <2>4, <3>1 DEF Others
  <2> QED
    BY <1>2, <2>3, <2>4, RankEffect
<1>3. ASSUME NEW r \in Runs, StopLoop(r) PROVE CapInv'
  BY <1>3 DEF StopLoop, ApprovalsOf
<1>4. ASSUME NEW r \in Runs, SkipAtCap(r) PROVE CapInv'
  <2>1. UNCHANGED approved /\ \A q \in Runs : ApprovalsOf(q)' = ApprovalsOf(q)
    BY <1>4 DEF SkipAtCap, ApprovalsOf
  <2>2. \A q \in Runs : run'[q].attempts = run[q].attempts
    BY <1>4 DEF SkipAtCap
  <2> HIDE DEF TypeInv
  <2> QED
    BY <1>4, <2>1, <2>2 DEF SkipAtCap
<1>5. ASSUME NEW r \in Runs, GateOrder(r) PROVE CapInv'
  <2>1. UNCHANGED approved /\ \A q \in Runs : ApprovalsOf(q)' = ApprovalsOf(q)
    BY <1>5 DEF GateOrder, ApprovalsOf
  <2> HIDE DEF TypeInv
  <2> QED
    BY <1>5, <2>1, GateOrderEffect, CounterTypes
       DEF Others, Counters, PerRunCapReached
<1>6. ASSUME NEW r \in Runs, EvaluateRisk(r) PROVE CapInv'
  <2> HIDE DEF TypeInv
  <2>1. CASE UNCHANGED approved /\ Counters(r) /\ pc'[r] = "loop"
    BY <1>6, <2>1, EvaluateRiskEffect DEF Others, Counters, ApprovalsOf
  <2>2. CASE /\ approved' = approved \union {CurrentCall(r)}
             /\ pc'[r] = "submit"
             /\ run'[r].attempts = run[r].attempts + 1
    <3>1. Others(r) /\ pc[r] = "risk"
      BY <1>6, EvaluateRiskEffect
    <3>2. /\ Cardinality(ApprovalsOf(r)) <= run[r].attempts
          /\ run[r].attempts < MaxPerRun
      BY <3>1
    <3>3. /\ Cardinality(ApprovalsOf(r)') <= run'[r].attempts
          /\ run'[r].attempts <= MaxPerRun
          /\ Cardinality(ApprovalsOf(r)') <= MaxPerRun
      <4>1. Cardinality(ApprovalsOf(r)) \in Nat /\ Cardinality(ApprovalsOf(r)') \in Nat
        BY <2>2, ApproveOne
      <4> QED
        BY <2>2, <3>2, <4>1, ApproveOne, CounterTypes
    <3>4. \A q \in Runs \ {r} : ApprovalsOf(q)' = ApprovalsOf(q)
      BY <2>2, ApproveOne
    <3>5. IsFiniteSet(approved')
      BY <2>2, ApproveOne
    <3> QED
      BY <2>2, <3>1, <3>3, <3>4, <3>5 DEF Others
  <2> QED
    BY <1>6, <2>1, <2>2, EvaluateRiskEffect
<1>7. ASSUME NEW r \in Runs, AssertSubmissionAllowed(r) PROVE CapInv'
  <2> HIDE DEF TypeInv
  <2> QED
    BY <1>7, AssertSubmissionAllowedEffect DEF Others, Counters, ApprovalsOf
<1>8. ASSUME NEW r \in Runs, Preflight(r) PROVE CapInv'
  <2> HIDE DEF TypeInv
  <2> QED
    BY <1>8, PreflightEffect DEF Others, Counters, ApprovalsOf
<1>9. ASSUME NEW r \in Runs, SendOrder(r) PROVE CapInv'
  BY <1>9 DEF SendOrder, ApprovalsOf
<1>10. ASSUME NEW c \in Calls, AdapterAnswers(c) PROVE CapInv'
  <2>1. UNCHANGED approved /\ \A q \in Runs : ApprovalsOf(q)' = ApprovalsOf(q)
    BY <1>10 DEF AdapterAnswers, ApprovalsOf
  <2> HIDE DEF TypeInv
  <2>2. \A q \in Runs : run'[q].attempts = run[q].attempts /\ pc'[q] = pc[q]
    BY <1>10, AdapterAnswersEffect DEF Counters
  <2> QED
    BY <2>1, <2>2
<1>11. ASSUME NEW r \in Runs, SubmitError(r) PROVE CapInv'
  <2> HIDE DEF TypeInv
  <2> QED
    BY <1>11, CountErrorEffect DEF SubmitError, MayFail, Others, ApprovalsOf
<1>12. ASSUME NEW r \in Runs, RecordAccepted(r) PROVE CapInv'
  <2>1. UNCHANGED approved /\ \A q \in Runs : ApprovalsOf(q)' = ApprovalsOf(q)
    BY <1>12 DEF RecordAccepted, ApprovalsOf
  <2>2. \A q \in Runs : run'[q].attempts = run[q].attempts
    BY <1>12 DEF RecordAccepted
  <2>3. /\ \A q \in Runs \ {r} : pc'[q] = pc[q]
        /\ pc[r] = "wait" /\ pc'[r] = "loop"
    BY <1>12 DEF RecordAccepted
  <2> HIDE DEF TypeInv
  <2> QED
    BY <2>1, <2>2, <2>3
<1>13. ASSUME NEW r \in Runs, RecordRefused(r) PROVE CapInv'
  BY <1>13 DEF RecordRefused, ApprovalsOf
<1>14. ASSUME NEW r \in Runs, RecordUnsupported(r) PROVE CapInv'
  <2> HIDE DEF TypeInv
  <2> QED
    BY <1>14, CountErrorEffect DEF RecordUnsupported, Others, ApprovalsOf
<1>15. ASSUME NEW r \in Runs, Commit(r) PROVE CapInv'
  BY <1>15 DEF Commit, ApplyWrites, Return, NewRun, ApprovalsOf
<1>16. ASSUME NEW r \in Runs, Fatal(r) PROVE CapInv'
  BY <1>16 DEF Fatal, Return, NewRun, ApprovalsOf
<1>17. CASE Crash
  BY <1>17 DEF Crash, Active, NewRun, ApprovalsOf
<1>18. CASE CloseExpired
  BY <1>18 DEF CloseExpired, ApprovalsOf
<1>19. CASE ActivateKillSwitch
  BY <1>19 DEF ActivateKillSwitch, ApprovalsOf
<1>20. CASE DeactivateKillSwitch
  BY <1>20 DEF DeactivateKillSwitch, ApprovalsOf
<1>21. CASE CreateHalt
  BY <1>21 DEF CreateHalt, ApprovalsOf
<1>22. CASE ResolveHalt
  BY <1>22 DEF ResolveHalt, ApprovalsOf
<1>23. CASE UNCHANGED vars
  BY <1>23 DEF vars, ApprovalsOf
<1> HIDE DEF CapInv
<1> QED
  BY <1>1, <1>2, <1>3, <1>4, <1>5, <1>6, <1>7, <1>8, <1>9, <1>10, <1>11,
     <1>12, <1>13, <1>14, <1>15, <1>16, <1>17, <1>18, <1>19, <1>20, <1>21,
     <1>22, <1>23
     DEF Next, RunStep, Operator

(* At most MaxPerRun orders of a run reach the adapter or the broker.      *)
THEOREM PerRunCapHolds == Spec => []RunCap
<1>1. Init => CapInv
  BY FS_EmptySet DEF Init, CapInv, ApprovalsOf, NewRun, Looping, Submitting
<1>2. CapInv /\ RiskBeforeBroker => RunCap
  <2> SUFFICES ASSUME CapInv, RiskBeforeBroker, NEW r \in Runs
               PROVE  Cardinality({c \in inflight \union placed : c.run = r}) <= MaxPerRun
    BY DEF RunCap
  <2> DEFINE sent == {c \in inflight \union placed : c.run = r}
  <2>1. sent \subseteq ApprovalsOf(r)
    BY DEF RiskBeforeBroker, ApprovalsOf
  <2>2. IsFiniteSet(ApprovalsOf(r))
    BY FS_Subset DEF CapInv, ApprovalsOf
  <2>3. Cardinality(sent) <= Cardinality(ApprovalsOf(r)) /\ IsFiniteSet(sent)
    BY <2>1, <2>2, FS_Subset
  <2>4. Cardinality(sent) \in Nat /\ Cardinality(ApprovalsOf(r)) \in Nat
    BY <2>2, <2>3, FS_CardinalityType
  <2> QED
    BY <2>3, <2>4 DEF CapInv
<1> QED
  BY <1>1, <1>2, TypeCorrect, NextCapInv, RiskApprovalPrecedesBroker, PTL DEF Spec

-----------------------------------------------------------------------------
(***************************************************************************)
(* Counting.                                                               *)
(***************************************************************************)

(* A set of which every element belongs to one of S, and none of S has     *)
(* more than n of them, has at most n elements for each of S.              *)
LEMMA BoundedShares ==
  ASSUME NEW S, IsFiniteSet(S), NEW T, NEW owner \in [T -> S], NEW n \in Nat,
         \A s \in S : /\ IsFiniteSet({t \in T : owner[t] = s})
                      /\ Cardinality({t \in T : owner[t] = s}) <= n
  PROVE  IsFiniteSet(T) /\ Cardinality(T) <= n * Cardinality(S)
<1> DEFINE share(s) == {t \in T : owner[t] = s}
           place(s) == CHOOSE f : f \in Injection(share(s), 1..n)
           slot == [t \in T |-> <<owner[t], place(owner[t])[t]>>]
<1>1. ASSUME NEW s \in S PROVE place(s) \in Injection(share(s), 1..n)
  <2>1. IsFiniteSet(share(s)) /\ Cardinality(share(s)) <= n
    OBVIOUS
  <2>2. PICK m \in Nat : m <= n /\ ExistsBijection(1..m, share(s))
    BY <2>1, FS_CardinalityType
  <2>3. ExistsBijection(share(s), 1..m)
    BY <2>2, Fun_ExistsBijSymmetric
  <2>4. PICK f : f \in Bijection(share(s), 1..m)
    BY <2>3 DEF ExistsBijection
  <2>5. f \in Injection(share(s), 1..n)
    BY <2>2, <2>4 DEF Bijection, Injection, IsInjective
  <2> QED
    BY <2>5
<1>2. slot \in [T -> S \X (1..n)]
  <2>1. ASSUME NEW t \in T PROVE slot[t] \in S \X (1..n)
    <3>1. owner[t] \in S /\ t \in share(owner[t])
      OBVIOUS
    <3>2. place(owner[t]) \in [share(owner[t]) -> 1..n]
      BY <1>1, <3>1 DEF Injection
    <3>3. place(owner[t])[t] \in 1..n
      BY <3>1, <3>2
    <3> HIDE DEF place
    <3> QED
      BY <3>1, <3>3
  <2> QED
    BY <2>1
<1>3. ASSUME NEW t \in T, NEW u \in T, slot[t] = slot[u] PROVE t = u
  <2>1. owner[t] = owner[u] /\ place(owner[t])[t] = place(owner[t])[u]
    <3> HIDE DEF place
    <3>1. <<owner[t], place(owner[t])[t]>> = <<owner[u], place(owner[u])[u]>>
      BY <1>3
    <3> QED
      BY <3>1
  <2>2. t \in share(owner[t]) /\ u \in share(owner[t]) /\ owner[t] \in S
    BY <2>1
  <2> QED
    BY <1>1, <2>1, <2>2 DEF Injection, IsInjective
<1>4. slot \in Injection(T, S \X (1..n))
  BY <1>2, <1>3 DEF Injection, IsInjective
<1>5. IsFiniteSet(1..n) /\ Cardinality(1..n) = n
  BY FS_Interval
<1>6. IsFiniteSet(S \X (1..n)) /\ Cardinality(S \X (1..n)) = Cardinality(S) * n
  BY <1>5, FS_Product
<1>7. IsFiniteSet(T) /\ Cardinality(T) <= Cardinality(S) * n
  BY <1>4, <1>6, FS_Injection
<1>8. Cardinality(S) \in Nat
  BY FS_CardinalityType
<1> QED
  BY <1>7, <1>8

-----------------------------------------------------------------------------
(***************************************************************************)
(* What the steps of a run do to its rows, by kind.                        *)
(***************************************************************************)

InFlight(r) == pc[r] \in {"risk"} \union Submitting

ActiveRuns == {r \in Runs : Active(r)}

Frame(r) ==
    \A q \in Runs \ {r} :
        run'[q] = run[q] /\ pc'[q] = pc[q] /\ session'[q] = session[q]

RowsKept(r) ==
    /\ UNCHANGED <<signal, orders, position, approved>>
    /\ session'[r].orders = session[r].orders
    /\ session'[r].signals = session[r].signals

Starts(r) ==
    /\ pc[r] = "idle"
    /\ RowsKept(r)
    /\ run'[r] = run[r]
    /\ Cardinality(ActiveRuns) < MaxOverlap
    /\ pc'[r] = "done" \/ (pc'[r] = "rank" /\ Cardinality(orders) < MaxPerDay)

(* Nothing is written, and no further call gets under way.                 *)
Goes(r) ==
    /\ pc[r] \in {"rank", "loop"} \union Submitting
    /\ RowsKept(r)
    /\ pc'[r] \in {"loop", "commit", "done"} \union Submitting
    /\ pc[r] = "loop" => pc'[r] \in {"loop", "commit"}
    /\ run'[r].queue \subseteq (IF pc[r] = "rank" THEN Candidates ELSE run[r].queue)
    /\ pc'[r] = "done" => pc[r] = "rank" /\ run'[r].queue = {}
    /\ InFlight(r)' => InFlight(r) /\ run'[r].current = run[r].current

(* An opportunity passes the order gate.                                   *)
Gates(r) ==
    /\ pc[r] = "loop"
    /\ RowsKept(r)
    /\ OpenCount(r) < MaxOpen
    /\ pc'[r] = "risk"
    /\ run'[r].current \in run[r].queue
    /\ run'[r].queue = run[r].queue \ {run'[r].current}

(* The session's rows are committed.                                       *)
Writes(r) ==
    /\ orders' = orders \union session[r].orders
    /\ position' = [c \in Calls |-> IF c \in PositionRows(session[r].orders)
                                    THEN "open" ELSE position[c]]
    /\ signal' = [s \in Signals |-> IF s \in session[r].signals
                                    THEN "paper_submitted" ELSE signal[s]]
    /\ session'[r].orders = {} /\ session'[r].signals = {}
    /\ \/ /\ pc[r] = "risk"
          /\ pc'[r] \in {"loop", "submit"}
          /\ run'[r].queue = run[r].queue
          /\ approved \subseteq approved'
          /\ pc'[r] = "submit" => /\ run'[r].current = run[r].current
                                  /\ CurrentCall(r) \in approved'
       \/ /\ pc[r] = "commit" /\ pc'[r] = "done"
          /\ run'[r].queue = {}
          /\ UNCHANGED approved

(* The answer to the submission becomes a row of the session.              *)
Records(r) ==
    /\ pc[r] = "wait" /\ pc'[r] \in {"loop", "commit"}
    /\ UNCHANGED <<signal, orders, position, approved>>
    /\ run'[r].queue = run[r].queue
    /\ \E status \in BrokerStatus \ {"unsupported"} :
          /\ session'[r].orders = session[r].orders \union
                                  {[call |-> CurrentCall(r), status |-> status]}
          /\ session'[r].signals = IF \/ status # "accepted"
                                      \/ signal[run[r].current] = "paper_submitted"
                                   THEN session[r].signals
                                   ELSE session[r].signals \union {run[r].current}

Drops(r) ==
    /\ Active(r) /\ pc'[r] = "done"
    /\ UNCHANGED <<signal, orders, position, approved>>
    /\ run'[r].queue = {}
    /\ session'[r].orders = {} /\ session'[r].signals = {}

StepKinds(r) ==
    Frame(r) /\ (Starts(r) \/ Goes(r) \/ Gates(r) \/ Writes(r) \/ Records(r) \/ Drops(r))

LEMMA NextOpportunityGoes ==
  ASSUME TypeInv, NEW r \in Runs, NextOpportunity(r)
  PROVE  /\ \A q \in Runs \ {r} : run'[q] = run[q] /\ pc'[q] = pc[q]
         /\ pc'[r] = "loop" /\ run'[r].queue = run[r].queue
  BY DEF TypeInv, TypeOK, Locals, NextOpportunity, Continue

LEMMA CountErrorGoes ==
  ASSUME TypeInv, NEW r \in Runs, CountError(r), UNCHANGED <<signal, orders, position, approved>>,
         pc[r] \in Submitting
  PROVE  StepKinds(r)
<1>1. Frame(r)
  BY DEF TypeInv, TypeOK, CountError, Continue, Frame
<1>2. pc'[r] \in {"loop", "commit"}
  BY DEF TypeInv, TypeOK, CountError, Continue
<1>3. run'[r].queue = run[r].queue
  BY DEF TypeInv, TypeOK, Locals, CountError
<1>4. session'[r].orders = session[r].orders /\ session'[r].signals = session[r].signals
  BY DEF TypeInv, TypeOK, Sessions, CountError
<1>5. Goes(r)
  BY <1>2, <1>3, <1>4 DEF Goes, RowsKept, InFlight, Submitting
<1> QED
  BY <1>1, <1>5 DEF StepKinds

LEMMA CallsFinite == IsFiniteSet(Calls)
<1> DEFINE f == [c \in Calls |-> <<c.run, c.sig>>]
<1>1. f \in Injection(Calls, Runs \X Signals)
  BY DEF Calls, Injection, IsInjective
<1>2. IsFiniteSet(Runs \X Signals)
  BY FS_Product
<1> QED
  BY <1>1, <1>2, FS_Injection

LEMMA OrdersFinite == IsFiniteSet(Orders)
<1> DEFINE statuses == {"accepted", "rejected", "cancelled"}
           f == [o \in Orders |-> <<o.call, o.status>>]
<1>1. f \in Injection(Orders, Calls \X statuses)
  BY DEF Orders, BrokerStatus, Injection, IsInjective
<1>2. IsFiniteSet(statuses)
  <2>1. IsFiniteSet({"accepted"})
    BY FS_Singleton
  <2>2. IsFiniteSet({"accepted"} \union {"rejected"})
    BY <2>1, FS_AddElement
  <2>3. IsFiniteSet(({"accepted"} \union {"rejected"}) \union {"cancelled"})
    BY <2>2, FS_AddElement
  <2>4. statuses = ({"accepted"} \union {"rejected"}) \union {"cancelled"}
    OBVIOUS
  <2> QED
    BY <2>3, <2>4
<1>3. IsFiniteSet(Calls \X statuses)
  BY <1>2, CallsFinite, FS_Product
<1> QED
  BY <1>1, <1>3, FS_Injection

LEMMA RowCounts ==
  ASSUME TypeInv, NEW O \in SUBSET orders
  PROVE  IsFiniteSet(O) /\ Cardinality(O) \in Nat
  BY OrdersFinite, FS_Subset, FS_CardinalityType DEF TypeInv, TypeOK

LEMMA StepsOfARun ==
  ASSUME TypeInv, NEW r \in Runs, RunStep(r) \/ Fatal(r)
  PROVE  StepKinds(r)
<1> USE DEF database, Continue
<1>1. CASE RunGate(r)
  <2>1. /\ pc[r] = "idle" /\ Cardinality(ActiveRuns) < MaxOverlap
        /\ UNCHANGED <<signal, orders, position, approved, run, session>>
    BY <1>1 DEF RunGate, ActiveRuns
  <2>2. pc' = [pc EXCEPT ![r] = IF killSwitch \/ DailyCapReached THEN "done" ELSE "rank"]
    BY <1>1 DEF RunGate
  <2>3. /\ pc'[r] = "done" \/ (pc'[r] = "rank" /\ ~DailyCapReached)
        /\ \A q \in Runs \ {r} : pc'[q] = pc[q]
    BY <2>2 DEF TypeInv, TypeOK
  <2>4. ~DailyCapReached => Cardinality(orders) < MaxPerDay
    BY RowCounts DEF DailyCapReached
  <2> QED
    BY <2>1, <2>3, <2>4 DEF StepKinds, Frame, Starts, RowsKept
<1>2. CASE Rank(r)
  <2>1. UNCHANGED <<signal, orders, position, approved, session>> /\ pc[r] = "rank"
    BY <1>2 DEF Rank
  <2>2. CASE Return(r)
    BY <2>1, <2>2 DEF TypeInv, TypeOK, Return, StepKinds, Frame, Goes, RowsKept,
                      InFlight, Submitting, NewRun
  <2>3. ASSUME NEW Q \in SUBSET Candidates, run' = [run EXCEPT ![r].queue = Q],
               Continue(r, "loop")
        PROVE  StepKinds(r)
    BY <2>1, <2>3 DEF TypeInv, TypeOK, StepKinds, Frame, Goes, RowsKept,
                      InFlight, Submitting, Locals
  <2> QED
    BY <1>2, <2>2, <2>3 DEF Rank
<1>3. CASE StopLoop(r)
  BY <1>3 DEF TypeInv, TypeOK, StopLoop, StepKinds, Frame, Goes, RowsKept, InFlight,
              Submitting
<1>4. CASE SkipAtCap(r)
  BY <1>4 DEF TypeInv, TypeOK, Locals, SkipAtCap, StepKinds, Frame, Goes, RowsKept, InFlight,
              Submitting
<1>5. CASE GateOrder(r)
  <2>1. /\ UNCHANGED <<signal, orders, position, approved, session>>
        /\ pc[r] = "loop" /\ OpenCount(r) < MaxOpen
    BY <1>5 DEF GateOrder
  <2>2. ASSUME NEW s \in run[r].queue,
               run' = [run EXCEPT ![r].queue = @ \ {s}], UNCHANGED pc
        PROVE  StepKinds(r)
    BY <2>1, <2>2 DEF TypeInv, TypeOK, Locals, StepKinds, Frame, Goes, RowsKept,
                      InFlight, Submitting
  <2>3. ASSUME NEW s \in run[r].queue,
               run' = [run EXCEPT ![r].queue = @ \ {s}, ![r].current = s],
               Continue(r, "risk")
        PROVE  StepKinds(r)
    <3>1. run'[r].current = s /\ run'[r].queue = run[r].queue \ {s}
      BY <2>3 DEF TypeInv, TypeOK, Locals
    <3>2. Frame(r) /\ pc'[r] = "risk"
      BY <2>1, <2>3 DEF TypeInv, TypeOK, Frame
    <3> QED
      BY <2>1, <2>3, <3>1, <3>2 DEF StepKinds, Gates, RowsKept
  <2> QED
    BY <1>5, <2>2, <2>3 DEF GateOrder
<1>6. CASE EvaluateRisk(r)
  <2>1. /\ orders' = orders \union session[r].orders
        /\ position' = [c \in Calls |-> IF c \in PositionRows(session[r].orders)
                                        THEN "open" ELSE position[c]]
        /\ signal' = [s \in Signals |-> IF s \in session[r].signals
                                        THEN "paper_submitted" ELSE signal[s]]
        /\ pc[r] = "risk"
    BY <1>6 DEF EvaluateRisk, ApplyWrites
  <2>2. session' = [session EXCEPT ![r] = NewSession]
    BY <1>6 DEF EvaluateRisk, ApplyWrites
  <2>3. /\ session'[r].orders = {} /\ session'[r].signals = {}
        /\ \A q \in Runs \ {r} : session'[q] = session[q]
    BY <2>2 DEF TypeInv, TypeOK, NewSession
  <2>4. CASE NextOpportunity(r) /\ approved \subseteq approved'
    BY <2>1, <2>3, <2>4, NextOpportunityGoes DEF StepKinds, Frame, Writes
  <2>5. CASE /\ run' = [run EXCEPT ![r].attempts = @ + 1] /\ Continue(r, "submit")
             /\ approved' = approved \union {CurrentCall(r)}
    <3>1. run'[r].queue = run[r].queue /\ run'[r].current = run[r].current
      BY <2>5 DEF TypeInv, TypeOK, Locals
    <3>2. \A q \in Runs \ {r} : run'[q] = run[q] /\ pc'[q] = pc[q]
      BY <2>5 DEF TypeInv, TypeOK
    <3>3. pc'[r] = "submit"
      BY <2>5 DEF TypeInv, TypeOK
    <3> QED
      BY <2>1, <2>3, <2>5, <3>1, <3>2, <3>3 DEF StepKinds, Frame, Writes
  <2> QED
    BY <1>6, <2>4, <2>5 DEF EvaluateRisk, Proceeds
<1>7. CASE AssertSubmissionAllowed(r)
  <2>1. UNCHANGED <<signal, orders, position, approved, session>> /\ pc[r] = "submit"
    BY <1>7 DEF AssertSubmissionAllowed
  <2>2. CASE NextOpportunity(r)
    BY <2>1, <2>2, NextOpportunityGoes DEF StepKinds, Frame, Goes, RowsKept, InFlight,
       Submitting
  <2>3. CASE Continue(r, "preflight") /\ UNCHANGED run
    BY <2>1, <2>3 DEF TypeInv, TypeOK, StepKinds, Frame, Goes, RowsKept, InFlight,
       Submitting
  <2> QED
    BY <1>7, <2>2, <2>3 DEF AssertSubmissionAllowed
<1>8. CASE Preflight(r)
  <2>1. UNCHANGED <<signal, orders, position, approved, session>> /\ pc[r] = "preflight"
    BY <1>8 DEF Preflight
  <2>2. CASE NextOpportunity(r)
    BY <2>1, <2>2, NextOpportunityGoes DEF StepKinds, Frame, Goes, RowsKept, InFlight,
       Submitting
  <2>3. CASE Continue(r, "send") /\ UNCHANGED run
    BY <2>1, <2>3 DEF TypeInv, TypeOK, StepKinds, Frame, Goes, RowsKept, InFlight,
       Submitting
  <2> QED
    BY <1>8, <2>2, <2>3 DEF Preflight
<1>9. CASE SendOrder(r)
  BY <1>9 DEF TypeInv, TypeOK, SendOrder, StepKinds, Frame, Goes, RowsKept, InFlight,
     Submitting
<1>10. CASE SubmitError(r)
  BY <1>10, CountErrorGoes DEF SubmitError, MayFail
<1>11. CASE RecordAccepted(r)
  <2>1. UNCHANGED <<signal, orders, position, approved>> /\ pc[r] = "wait"
    BY <1>11 DEF RecordAccepted
  <2>2. pc'[r] = "loop" /\ Frame(r) /\ run'[r].queue = run[r].queue
    BY <1>11 DEF TypeInv, TypeOK, Locals, RecordAccepted, Frame
  <2>3. session'[r].orders =
           session[r].orders \union {[call |-> CurrentCall(r), status |-> "accepted"]}
    BY <1>11 DEF TypeInv, TypeOK, Sessions, RecordAccepted
  <2>4. session'[r].signals = IF signal[run[r].current] = "paper_submitted"
                              THEN session[r].signals
                              ELSE session[r].signals \union {run[r].current}
    BY <1>11 DEF TypeInv, TypeOK, Sessions, RecordAccepted
  <2>5. Records(r)
    BY <2>1, <2>2, <2>3, <2>4 DEF Records, BrokerStatus
  <2> QED
    BY <2>2, <2>5 DEF StepKinds
<1>12. CASE RecordRefused(r)
  <2>1. /\ UNCHANGED <<signal, orders, position, approved>> /\ pc[r] = "wait"
        /\ run[r].answer \in BrokerStatus \ {"unsupported"}
        /\ run[r].answer # "accepted"
    BY <1>12 DEF RecordRefused, RefusedStatuses, BrokerStatus
  <2>2. PICK n : run' = [run EXCEPT ![r].rejects = n, ![r].answer = "none",
                                    ![r].current = NoSignal]
    BY <1>12 DEF RecordRefused
  <2>3. run'[r].queue = run[r].queue /\ \A q \in Runs \ {r} : run'[q] = run[q]
    BY <2>2 DEF TypeInv, TypeOK, Locals
  <2>4. pc'[r] \in {"loop", "commit"} /\ \A q \in Runs \ {r} : pc'[q] = pc[q]
    BY <1>12 DEF TypeInv, TypeOK, RecordRefused
  <2>5. /\ session'[r].orders = session[r].orders \union
                     {[call |-> CurrentCall(r), status |-> run[r].answer]}
        /\ session'[r].signals = session[r].signals
        /\ \A q \in Runs \ {r} : session'[q] = session[q]
    BY <1>12 DEF TypeInv, TypeOK, Sessions, RecordRefused
  <2> QED
    BY <2>1, <2>3, <2>4, <2>5 DEF StepKinds, Frame, Records
<1>13. CASE RecordUnsupported(r)
  BY <1>13, CountErrorGoes DEF RecordUnsupported, Submitting
<1>14. CASE Commit(r)
  <2>1. /\ orders' = orders \union session[r].orders
        /\ position' = [c \in Calls |-> IF c \in PositionRows(session[r].orders)
                                        THEN "open" ELSE position[c]]
        /\ signal' = [s \in Signals |-> IF s \in session[r].signals
                                        THEN "paper_submitted" ELSE signal[s]]
        /\ session' = [session EXCEPT ![r] = NewSession]
        /\ pc[r] = "commit" /\ UNCHANGED approved
    BY <1>14 DEF Commit, ApplyWrites
  <2>2. pc' = [pc EXCEPT ![r] = "done"] /\ run' = [run EXCEPT ![r] = NewRun]
    BY <1>14 DEF Commit, Return
  <2> QED
    BY <2>1, <2>2 DEF TypeInv, TypeOK, StepKinds, Frame, Writes, NewSession, NewRun
<1>15. CASE Fatal(r)
  BY <1>15 DEF TypeInv, TypeOK, Fatal, Return, StepKinds, Frame, Drops, NewSession, NewRun
<1> QED
  BY <1>1, <1>2, <1>3, <1>4, <1>5, <1>6, <1>7, <1>8, <1>9, <1>10, <1>11, <1>12,
     <1>13, <1>14, <1>15 DEF RunStep

-----------------------------------------------------------------------------
(***************************************************************************)
(* The rows of a run, committed or pending: one row for a call, of an      *)
(* approved call, and none for what the run has yet to process.            *)
(***************************************************************************)

Unrecorded(c, O) == \A o \in O : o.call # c

RowInvOf(r) ==
    /\ \A o \in session[r].orders : o.call.run = r /\ o.call \in approved
    /\ \A o, p \in session[r].orders : o = p
    /\ session[r].orders # {} => pc[r] \in {"loop", "risk", "commit"}
    /\ \A o, p \in orders \union session[r].orders :
          o.call = p.call /\ o.call.run = r => o = p
    /\ \A s \in run[r].queue :
          Unrecorded([run |-> r, sig |-> s], orders \union session[r].orders)
    /\ InFlight(r) =>
          /\ run[r].current \notin run[r].queue
          /\ Unrecorded(CurrentCall(r), orders \union session[r].orders)
    /\ pc[r] \in Submitting => CurrentCall(r) \in approved
    /\ pc[r] \in {"idle", "rank"} => \A o \in orders : o.call.run # r

RowInv ==
    /\ \A o \in orders : o.call \in approved
    /\ \A r \in Runs : RowInvOf(r)

LEMMA OthersRows ==
  ASSUME TypeInv, RowInv, NEW r \in Runs, Frame(r), approved \subseteq approved',
         orders \subseteq orders', \A o \in orders' \ orders : o.call.run = r,
         NEW q \in Runs \ {r}
  PROVE  RowInvOf(q)'
<1>1. RowInvOf(q) /\ run'[q] = run[q] /\ pc'[q] = pc[q] /\ session'[q] = session[q]
  BY DEF RowInv, Frame
<1>2. \A o \in orders' \union session'[q].orders :
         o.call.run = q => o \in orders \union session[q].orders
  BY <1>1
<1>3. CurrentCall(q)' = CurrentCall(q) /\ CurrentCall(q).run = q
  BY <1>1 DEF CurrentCall
<1>4. ASSUME NEW c, c.run = q, Unrecorded(c, orders \union session[q].orders)
      PROVE  Unrecorded(c, orders' \union session'[q].orders)
  BY <1>2, <1>4 DEF Unrecorded
<1>5. \A s : [run |-> q, sig |-> s].run = q
  OBVIOUS
<1>6. /\ \A o \in session'[q].orders : o.call.run = q /\ o.call \in approved'
      /\ \A o, p \in session'[q].orders : o = p
      /\ session'[q].orders # {} => pc'[q] \in {"loop", "risk", "commit"}
      /\ \A o, p \in orders' \union session'[q].orders :
            o.call = p.call /\ o.call.run = q => o = p
      /\ pc'[q] \in Submitting => CurrentCall(q)' \in approved'
      /\ pc'[q] \in {"idle", "rank"} => \A o \in orders' : o.call.run # q
  BY <1>1, <1>2, <1>3 DEF RowInvOf
<1>7. \A s \in run'[q].queue :
         Unrecorded([run |-> q, sig |-> s], orders' \union session'[q].orders)
  BY <1>1, <1>4, <1>5 DEF RowInvOf
<1>8. InFlight(q)' =>
         /\ run'[q].current \notin run'[q].queue
         /\ Unrecorded(CurrentCall(q)', orders' \union session'[q].orders)
  BY <1>1, <1>3, <1>4 DEF RowInvOf, InFlight
<1> QED
  BY <1>6, <1>7, <1>8 DEF RowInvOf, Unrecorded, InFlight

LEMMA StepRowInv ==
  ASSUME TypeInv, RowInv, NEW r \in Runs, StepKinds(r)
  PROVE  RowInv'
<1>1. RowInvOf(r) /\ Frame(r)
  BY DEF RowInv, StepKinds
<1>2. /\ approved \subseteq approved' /\ orders \subseteq orders'
      /\ \A o \in orders' \ orders : o.call.run = r /\ o.call \in approved
  BY <1>1 DEF StepKinds, Starts, Goes, Gates, Writes, Records, Drops, RowsKept, RowInvOf
<1>3. \A o \in orders' : o.call \in approved'
  BY <1>2 DEF RowInv
<1>4. \A q \in Runs \ {r} : RowInvOf(q)'
  BY <1>1, <1>2, OthersRows
<1>5. RowInvOf(r)'
  <2> USE DEF RowInvOf, Submitting, InFlight, Unrecorded
  <2>1. CASE Starts(r)
    BY <1>1, <2>1 DEF Starts, RowsKept
  <2>2. CASE Goes(r)
    <3>1. pc[r] = "rank" => session[r].orders = {}
      BY <1>1
    <3>2. \A s \in run'[r].queue :
         Unrecorded([run |-> r, sig |-> s], orders' \union session'[r].orders)
      BY <1>1, <2>2, <3>1 DEF Goes, RowsKept
    <3>3. InFlight(r)' =>
            /\ run'[r].current \notin run'[r].queue
            /\ Unrecorded(CurrentCall(r)', orders' \union session'[r].orders)
      BY <1>1, <2>2, <3>1 DEF Goes, RowsKept, CurrentCall
    <3> QED
      BY <1>1, <2>2, <3>1, <3>2, <3>3 DEF Goes, RowsKept, CurrentCall
  <2>3. CASE Gates(r)
    BY <1>1, <2>3 DEF Gates, RowsKept, CurrentCall
  <2>4. CASE Writes(r)
    BY <1>1, <2>4 DEF Writes, CurrentCall
  <2>5. CASE Records(r)
    <3>1. PICK status : session'[r].orders =
             session[r].orders \union {[call |-> CurrentCall(r), status |-> status]}
      BY <2>5 DEF Records
    <3> DEFINE row == [call |-> CurrentCall(r), status |-> status]
    <3>2. row.call = CurrentCall(r) /\ row.call.run = r /\ row.call.sig = run[r].current
      BY DEF CurrentCall
    <3>3. session[r].orders = {} /\ session'[r].orders = {row}
      BY <1>1, <2>5, <3>1 DEF Records
    <3>4. \A o \in orders : o.call # row.call
      BY <1>1, <2>5, <3>2 DEF Records
    <3>5. \A s \in run[r].queue : row.call # [run |-> r, sig |-> s]
      BY <1>1, <2>5, <3>2 DEF Records
    <3>6. row.call \in approved
      BY <1>1, <2>5, <3>2 DEF Records
    <3> HIDE DEF row
    <3> QED
      BY <1>1, <2>5, <3>2, <3>3, <3>4, <3>5, <3>6 DEF Records
  <2>6. CASE Drops(r)
    BY <1>1, <2>6 DEF Drops
  <2> QED
    BY <2>1, <2>2, <2>3, <2>4, <2>5, <2>6 DEF StepKinds
<1> QED
  BY <1>3, <1>4, <1>5 DEF RowInv

LEMMA NextRowInv == TypeInv /\ RowInv /\ [Next]_vars => RowInv'
<1> SUFFICES ASSUME TypeInv, RowInv, [Next]_vars PROVE RowInv'
  OBVIOUS
<1> USE DEF database, operator, broker, history
<1>1. ASSUME NEW r \in Runs, RunStep(r) \/ Fatal(r) PROVE RowInv'
  BY <1>1, StepsOfARun, StepRowInv
<1>2. ASSUME NEW c \in Calls, AdapterAnswers(c) PROVE RowInv'
  <2>1. UNCHANGED <<orders, approved, pc, session>>
    BY <1>2 DEF AdapterAnswers
  <2>2. \A q \in Runs : run'[q].queue = run[q].queue /\ run'[q].current = run[q].current
    BY <1>2 DEF TypeInv, TypeOK, Locals, Calls, AdapterAnswers
  <2> QED
    BY <2>1, <2>2 DEF RowInv, RowInvOf, InFlight, CurrentCall, Unrecorded
<1>3. CASE Crash
  <2>1. UNCHANGED <<orders, approved>>
    BY <1>3 DEF Crash
  <2>2. ASSUME NEW q \in Runs
        PROVE  /\ session'[q].orders = {} /\ run'[q].queue = {}
               /\ pc'[q] = "done" \/ (pc'[q] = "idle" /\ pc[q] = "idle")
    BY <1>3 DEF TypeInv, TypeOK, Crash, Active, NewRun, NewSession
  <2> QED
    BY <2>1, <2>2 DEF RowInv, RowInvOf, InFlight, Unrecorded, Submitting
<1>4. CASE UNCHANGED <<orders, approved, pc, session, run>>
  BY <1>4 DEF RowInv, RowInvOf, InFlight, CurrentCall, Unrecorded
<1>5. CASE CloseExpired
  BY <1>4, <1>5 DEF CloseExpired
<1>6. CASE Operator
  BY <1>4, <1>6 DEF Operator, ActivateKillSwitch, DeactivateKillSwitch, CreateHalt,
                    ResolveHalt
<1>7. CASE UNCHANGED vars
  BY <1>4, <1>7 DEF vars
<1> QED
  BY <1>1, <1>2, <1>3, <1>5, <1>6, <1>7 DEF Next

LEMMA RowsOfRuns == Spec => [](RowInv /\ CapInv /\ TypeInv)
<1>1. Init => RowInv
  BY DEF Init, RowInv, RowInvOf, NewRun, NewSession, InFlight, Submitting
<1>2. Init => CapInv
  BY FS_EmptySet DEF Init, CapInv, ApprovalsOf, NewRun, Looping, Submitting
<1> QED
  BY <1>1, <1>2, TypeCorrect, NextRowInv, NextCapInv, PTL DEF Spec

-----------------------------------------------------------------------------
(***************************************************************************)
(* The cap of the day.  A run that is active may still use its whole cap,  *)
(* so the rows of the runs that ended and the caps of the active ones are  *)
(* counted together.                                                       *)
(***************************************************************************)

RowsOfRunsIn(A) == {o \in orders : o.call.run \in A}

Settled == RowsOfRunsIn(Runs \ ActiveRuns)

DailyInv ==
    /\ Cardinality(ActiveRuns) <= MaxOverlap
    /\ Cardinality(Settled) + MaxPerRun * Cardinality(ActiveRuns)
          <= MaxPerDay - 1 + MaxPerRun * MaxOverlap

LEMMA RunsFinite ==
  ASSUME NEW A \in SUBSET Runs
  PROVE  IsFiniteSet(A) /\ Cardinality(A) \in Nat
  BY FS_Subset, FS_CardinalityType

(* One row a call of at most MaxPerRun calls a run.                        *)
LEMMA RowsWithinCaps ==
  ASSUME NEW O, NEW P \in SUBSET Calls, NEW A \in SUBSET Runs,
         \A r \in Runs : Cardinality({c \in P : c.run = r}) <= MaxPerRun,
         \A o \in O : o.call \in P,
         \A o, p \in O : o.call = p.call => o = p
  PROVE  Cardinality({o \in O : o.call.run \in A}) <= MaxPerRun * Cardinality(A)
<1> DEFINE T == {o \in O : o.call.run \in A}
           owner == [o \in T |-> o.call.run]
<1>1. owner \in [T -> A]
  OBVIOUS
<1>2. ASSUME NEW r \in A
      PROVE  /\ IsFiniteSet({o \in T : owner[o] = r})
             /\ Cardinality({o \in T : owner[o] = r}) <= MaxPerRun
  <2> DEFINE mine == {o \in T : owner[o] = r}
             allowed == {c \in P : c.run = r}
             f == [o \in mine |-> o.call]
  <2>1. \A o \in mine : o \in O /\ o.call.run = r
    OBVIOUS
  <2>2. f \in Injection(mine, allowed)
    <3> HIDE DEF mine
    <3>1. \A o \in mine : f[o] = o.call
      OBVIOUS
    <3>2. f \in [mine -> allowed]
      BY <2>1
    <3>3. \A o, p \in mine : f[o] = f[p] => o = p
      BY <2>1, <3>1
    <3> HIDE DEF f
    <3> QED
      BY <3>2, <3>3 DEF Injection, IsInjective
  <2>3. IsFiniteSet(allowed) /\ Cardinality(allowed) <= MaxPerRun
    BY CallsFinite, FS_Subset
  <2>4. IsFiniteSet(mine) /\ Cardinality(mine) <= Cardinality(allowed)
    BY <2>2, <2>3, FS_Injection
  <2>5. Cardinality(mine) \in Nat /\ Cardinality(allowed) \in Nat
    BY <2>3, <2>4, FS_CardinalityType
  <2> QED
    BY <2>3, <2>4, <2>5
<1> HIDE DEF owner, T
<1>3. Cardinality(T) <= MaxPerRun * Cardinality(A)
  BY <1>1, <1>2, RunsFinite, BoundedShares
<1> QED
  BY <1>3 DEF T

LEMMA CapTimes ==
  ASSUME NEW a \in Nat, NEW g \in Nat, g <= a
  PROVE  /\ MaxPerRun * (a - g) = MaxPerRun * a - MaxPerRun * g
         /\ MaxPerRun * a \in Nat /\ MaxPerRun * g \in Nat
<1>1. \A m, x \in Nat : m * x \in Nat
  OBVIOUS
<1> QED
  BY <1>1

(* Runs end, and what they wrote becomes settled.                          *)
LEMMA EndedRunsSettle ==
  ASSUME TypeInv, DailyInv, TypeInv', RowInv', CapInv',
         ActiveRuns' \subseteq ActiveRuns,
         \A o \in orders' \ orders : o.call.run \in ActiveRuns
  PROVE  DailyInv'
<1> DEFINE G == ActiveRuns \ ActiveRuns'
           late == {o \in orders' : o.call.run \in G}
<1>1. ActiveRuns \subseteq Runs /\ G \subseteq Runs /\ ActiveRuns' \subseteq Runs
  BY DEF ActiveRuns
<1>2. /\ IsFiniteSet(ActiveRuns)
      /\ Cardinality(ActiveRuns) \in Nat /\ Cardinality(G) \in Nat
      /\ Cardinality(ActiveRuns') \in Nat
  BY <1>1, RunsFinite
<1>3. Cardinality(G) = Cardinality(ActiveRuns) - Cardinality(ActiveRuns')
  <2>1. ActiveRuns \intersect ActiveRuns' = ActiveRuns'
    OBVIOUS
  <2> QED
    BY <1>2, <2>1, FS_Difference
<1>4. Settled' \subseteq Settled \union late
  BY DEF Settled, RowsOfRunsIn, TypeInv, TypeOK, Orders, Calls
<1>5. /\ IsFiniteSet(Settled) /\ IsFiniteSet(Settled') /\ IsFiniteSet(late)
      /\ Cardinality(Settled) \in Nat /\ Cardinality(Settled') \in Nat
      /\ Cardinality(late) \in Nat
  BY RowCounts, OrdersFinite, FS_Subset, FS_CardinalityType
     DEF Settled, RowsOfRunsIn, TypeInv, TypeOK
<1>6. Cardinality(late) <= MaxPerRun * Cardinality(G)
  <2>1. \A o \in orders' : o.call \in approved' /\ o.call.run \in Runs
    BY DEF RowInv, TypeInv, TypeOK, Orders, Calls
  <2>4. ASSUME NEW o \in orders', NEW p \in orders', o.call = p.call
        PROVE  o = p
    <3>1. \A r \in Runs : \A x, y \in orders' : x.call = y.call /\ x.call.run = r => x = y
      <4> SUFFICES ASSUME NEW r \in Runs, NEW x \in orders', NEW y \in orders',
                          x.call = y.call, x.call.run = r
                   PROVE  x = y
        OBVIOUS
      <4>1. RowInvOf(r)'
        BY DEF RowInv
      <4> QED
        BY <4>1 DEF RowInvOf
    <3> QED
      BY <2>1, <2>4, <3>1
  <2>2. \A r \in Runs : Cardinality({c \in approved' : c.run = r}) <= MaxPerRun
    BY DEF CapInv, ApprovalsOf
  <2>3. approved' \subseteq Calls
    BY DEF TypeInv, TypeOK
  <2> QED
    BY <1>1, <2>1, <2>2, <2>3, <2>4, RowsWithinCaps
<1>7. Cardinality(Settled') <= Cardinality(Settled) + MaxPerRun * Cardinality(G)
  <2>1. /\ IsFiniteSet(Settled \union late)
        /\ Cardinality(Settled \union late) \in Nat
    BY <1>5, FS_Union, FS_CardinalityType
  <2>2. Cardinality(Settled') <= Cardinality(Settled \union late)
    BY <1>4, <2>1, FS_Subset
  <2>3. IsFiniteSet(Settled \intersect late) /\ Cardinality(Settled \intersect late) \in Nat
    BY <1>5, FS_Intersection, FS_CardinalityType
  <2>4. Cardinality(Settled \union late) <= Cardinality(Settled) + Cardinality(late)
    <3>1. Cardinality(Settled \union late) = Cardinality(Settled) + Cardinality(late)
                                             - Cardinality(Settled \intersect late)
      BY <1>5, FS_Union
    <3> QED
      BY <1>5, <2>3, <3>1
  <2>5. MaxPerRun * Cardinality(G) \in Nat
    BY <1>2, CapTimes
  <2> QED
    BY <1>5, <1>6, <2>1, <2>2, <2>4, <2>5
<1>8. MaxPerRun * Cardinality(ActiveRuns) =
         MaxPerRun * Cardinality(G) + MaxPerRun * Cardinality(ActiveRuns')
  <2>1. Cardinality(G) <= Cardinality(ActiveRuns)
        /\ Cardinality(ActiveRuns') = Cardinality(ActiveRuns) - Cardinality(G)
    BY <1>2, <1>3
  <2> HIDE DEF G
  <2> QED
    BY <1>2, <2>1, CapTimes
<1>9. /\ MaxPerRun * Cardinality(G) \in Nat /\ MaxPerRun * MaxOverlap \in Nat
      /\ MaxPerRun * Cardinality(ActiveRuns') \in Nat
  BY <1>2, CapTimes
<1>10. Cardinality(ActiveRuns') <= Cardinality(ActiveRuns)
  BY <1>2, <1>3
<1> HIDE DEF G
<1> QED
  BY <1>2, <1>5, <1>7, <1>8, <1>9, <1>10 DEF DailyInv

LEMMA RunBegins ==
  ASSUME TypeInv, DailyInv, TypeInv', NEW r \in Runs, Frame(r), Starts(r)
  PROVE  DailyInv'
<1>1. ActiveRuns' \subseteq ActiveRuns \union {r} /\ r \notin ActiveRuns /\ orders' = orders
  BY DEF ActiveRuns, Active, Frame, Starts, RowsKept
<1>2. CASE pc'[r] = "done"
  <2>1. ActiveRuns' = ActiveRuns
    BY <1>2 DEF ActiveRuns, Active, Frame, Starts
  <2>2. Settled' = Settled
    BY <1>1, <2>1 DEF Settled, RowsOfRunsIn
  <2> QED
    BY <2>1, <2>2 DEF DailyInv
<1>3. CASE Cardinality(orders) < MaxPerDay
  <2>1. /\ IsFiniteSet(ActiveRuns \union {r})
        /\ Cardinality(ActiveRuns \union {r}) = Cardinality(ActiveRuns) + 1
        /\ Cardinality(ActiveRuns) \in Nat
    BY <1>1, RunsFinite, FS_AddElement DEF ActiveRuns
  <2>2. Cardinality(ActiveRuns') <= Cardinality(ActiveRuns \union {r})
        /\ Cardinality(ActiveRuns') \in Nat
    BY <1>1, <2>1, FS_Subset, FS_CardinalityType
  <2>3. Cardinality(ActiveRuns') <= MaxOverlap
    BY <2>1, <2>2 DEF Starts
  <2>4. /\ Cardinality(orders) \in Nat /\ Cardinality(Settled') \in Nat
        /\ Cardinality(Settled') <= Cardinality(orders)
    BY <1>1, RowCounts, FS_Subset DEF Settled, RowsOfRunsIn
  <2>5. MaxPerRun * Cardinality(ActiveRuns') <= MaxPerRun * MaxOverlap
    <3>1. /\ MaxPerRun * (MaxOverlap - Cardinality(ActiveRuns')) =
                MaxPerRun * MaxOverlap - MaxPerRun * Cardinality(ActiveRuns')
          /\ MaxPerRun * MaxOverlap \in Nat
          /\ MaxPerRun * Cardinality(ActiveRuns') \in Nat
      BY <2>2, <2>3, CapTimes
    <3>2. MaxOverlap - Cardinality(ActiveRuns') \in Nat
      BY <2>2, <2>3
    <3>3. MaxPerRun * (MaxOverlap - Cardinality(ActiveRuns')) \in Nat
      BY <3>2, CapTimes
    <3> QED
      BY <3>1, <3>3
  <2>6. MaxPerRun * Cardinality(ActiveRuns') \in Nat /\ MaxPerRun * MaxOverlap \in Nat
    BY <2>2, CapTimes
  <2> QED
    BY <1>3, <2>3, <2>4, <2>5, <2>6 DEF DailyInv
<1> QED
  BY <1>2, <1>3 DEF Starts

LEMMA NextDailyInv ==
  TypeInv /\ DailyInv /\ [Next]_vars /\ (TypeInv /\ RowInv /\ CapInv)' /\ RowInv => DailyInv'
<1> SUFFICES ASSUME TypeInv, DailyInv, [Next]_vars, TypeInv', RowInv', CapInv', RowInv
             PROVE  DailyInv'
  OBVIOUS
<1> USE DEF database, operator, broker, history
<1>1. ASSUME NEW r \in Runs, RunStep(r) \/ Fatal(r) PROVE DailyInv'
  <2>1. StepKinds(r)
    BY <1>1, StepsOfARun
  <2>2. CASE Starts(r)
    BY <2>1, <2>2, RunBegins DEF StepKinds
  <2>3. CASE ~Starts(r)
    <3>1. pc[r] \notin {"idle", "done"}
      BY <2>1, <2>3
         DEF StepKinds, Goes, Gates, Writes, Records, Drops, Active, Submitting
    <3>2. ActiveRuns' \subseteq ActiveRuns /\ r \in ActiveRuns
      BY <2>1, <3>1 DEF StepKinds, Frame, ActiveRuns, Active
    <3>3. \A o \in orders' \ orders : o.call.run = r
      <4>1. \A o \in session[r].orders : o.call.run = r
        BY DEF RowInv, RowInvOf
      <4> QED
        BY <2>1, <2>3, <4>1 DEF StepKinds, Goes, Gates, Writes, Records, Drops, RowsKept
    <3> QED
      BY <3>2, <3>3, EndedRunsSettle
  <2> QED
    BY <2>2, <2>3
<1>2. CASE ActiveRuns' \subseteq ActiveRuns /\ UNCHANGED orders
  BY <1>2, EndedRunsSettle
<1>3. CASE UNCHANGED <<orders, pc>>
  BY <1>2, <1>3 DEF ActiveRuns, Active
<1>4. ASSUME NEW c \in Calls, AdapterAnswers(c) PROVE DailyInv'
  BY <1>3, <1>4 DEF AdapterAnswers
<1>5. CASE Crash
  BY <1>2, <1>5 DEF Crash, ActiveRuns, Active, TypeInv, TypeOK
<1>6. CASE CloseExpired
  BY <1>3, <1>6 DEF CloseExpired
<1>7. CASE Operator
  BY <1>3, <1>7 DEF Operator, ActivateKillSwitch, DeactivateKillSwitch, CreateHalt,
                    ResolveHalt
<1>8. CASE UNCHANGED vars
  BY <1>3, <1>8 DEF vars
<1> QED
  BY <1>1, <1>4, <1>5, <1>6, <1>7, <1>8 DEF Next

LEMMA DailyAccounts == Spec => []DailyInv
<1>1. Init => DailyInv
  <2> SUFFICES ASSUME Init PROVE DailyInv
    OBVIOUS
  <2>1. ActiveRuns = {} /\ Settled = {}
    BY DEF Init, ActiveRuns, Active, Settled, RowsOfRunsIn
  <2>2. MaxPerRun * 0 = 0 /\ MaxPerRun * MaxOverlap \in Nat
    BY CapTimes
  <2> QED
    BY <2>1, <2>2, FS_EmptySet DEF DailyInv
<1> QED
  BY <1>1, RowsOfRuns, NextDailyInv, PTL DEF Spec

(* However the runs overlap, end and crash, the order rows of the day pass *)
(* the cap by no more than the caps of the runs that may be active at once.*)
THEOREM DailyCapIsPassedByRunsInProgressOnly == Spec => []DailyOvershootBounded
<1>1. TypeInv /\ RowInv /\ CapInv /\ DailyInv => DailyOvershootBounded
  <2> SUFFICES ASSUME TypeInv, RowInv, CapInv, DailyInv PROVE DailyOvershootBounded
    OBVIOUS
  <2> DEFINE open == {o \in orders : o.call.run \in ActiveRuns}
  <2>1. orders = Settled \union open
    BY DEF Settled, RowsOfRunsIn, TypeInv, TypeOK, Orders, Calls
  <2>2. Cardinality(open) <= MaxPerRun * Cardinality(ActiveRuns)
    <3>1. \A o \in orders : o.call \in approved /\ o.call.run \in Runs
      BY DEF RowInv, TypeInv, TypeOK, Orders, Calls
    <3>4. ASSUME NEW o \in orders, NEW p \in orders, o.call = p.call
          PROVE  o = p
      <4>1. RowInvOf(o.call.run)
        BY <3>1 DEF RowInv
      <4> QED
        BY <3>4, <4>1 DEF RowInvOf
    <3>2. \A r \in Runs : Cardinality({c \in approved : c.run = r}) <= MaxPerRun
      BY DEF CapInv, ApprovalsOf
    <3>3. approved \subseteq Calls /\ ActiveRuns \subseteq Runs
      BY DEF TypeInv, TypeOK, ActiveRuns
    <3> QED
      BY <3>1, <3>2, <3>3, <3>4, RowsWithinCaps
  <2>3. /\ IsFiniteSet(Settled) /\ IsFiniteSet(open)
        /\ Cardinality(Settled) \in Nat /\ Cardinality(open) \in Nat
    BY RowCounts DEF Settled, RowsOfRunsIn
  <2>4. IsFiniteSet(Settled \intersect open) /\ Cardinality(Settled \intersect open) \in Nat
    BY <2>3, FS_Intersection, FS_CardinalityType
  <2>5. Cardinality(orders) = Cardinality(Settled) + Cardinality(open)
                              - Cardinality(Settled \intersect open)
    BY <2>1, <2>3, FS_Union
  <2>6. MaxPerRun * Cardinality(ActiveRuns) \in Nat /\ MaxPerRun * MaxOverlap \in Nat
    BY RunsFinite, CapTimes DEF ActiveRuns
  <2> HIDE DEF open
  <2> QED
    BY <2>2, <2>3, <2>4, <2>5, <2>6 DEF DailyInv, DailyOvershootBounded
<1> QED
  BY <1>1, RowsOfRuns, DailyAccounts, PTL

-----------------------------------------------------------------------------
(***************************************************************************)
(* The cap of the open positions.  A call that may still open a position   *)
(* without passing the order gate again is accepted and not committed, or  *)
(* in flight: at most one of each a run.                                   *)
(***************************************************************************)

Pending(r) ==
    PositionRows(session[r].orders) \union {c \in Calls : InFlight(r) /\ c = CurrentCall(r)}

Underway == UNION {Pending(r) : r \in Runs}

Potential == OpenPositions \union Underway

UnderwayIsBounded == Cardinality(Underway) <= 2 * MaxOverlap

PotentialInv ==
    Cardinality(Potential) <= (IF MaxOpen = 0 THEN 0 ELSE MaxOpen - 1 + 2 * MaxOverlap)

LEMMA SomeCalls ==
  ASSUME NEW C \in SUBSET Calls
  PROVE  IsFiniteSet(C) /\ Cardinality(C) \in Nat
  BY CallsFinite, FS_Subset, FS_CardinalityType

LEMMA PendingCalls ==
  ASSUME TypeInv, RowInv, NEW r \in Runs
  PROVE  /\ Pending(r) \subseteq Calls
         /\ \A c \in Pending(r) : c.run = r
         /\ Pending(r) # {} => r \in ActiveRuns
<1>1. /\ session[r].orders \subseteq Orders
      /\ \A o \in session[r].orders : o.call.run = r /\ o.call \in Calls
      /\ session[r].orders # {} => pc[r] \in {"loop", "risk", "commit"}
  BY DEF TypeInv, TypeOK, Sessions, Orders, RowInv, RowInvOf
<1>2. PositionRows(session[r].orders) \subseteq {o.call : o \in session[r].orders}
  BY DEF PositionRows
<1> QED
  BY <1>1, <1>2 DEF Pending, InFlight, CurrentCall, ActiveRuns, Active, Submitting

LEMMA TwoPendingARun ==
  ASSUME TypeInv, RowInv, NEW r \in Runs
  PROVE  Cardinality(Pending(r)) <= 2
<1> DEFINE rows == PositionRows(session[r].orders)
           current == {c \in Calls : InFlight(r) /\ c = CurrentCall(r)}
<1>1. \A c, d \in rows : c = d
  <2>1. \A o, p \in session[r].orders : o = p
    BY DEF RowInv, RowInvOf
  <2> QED
    BY <2>1 DEF PositionRows
<1>2. \E c : rows \subseteq {c}
  BY <1>1
<1>3. \E c : current \subseteq {c}
  OBVIOUS
<1>4. PICK c, d : rows \union current \subseteq {c} \union {d}
  BY <1>2, <1>3
<1>5. IsFiniteSet({c}) /\ Cardinality({c}) = 1
  BY FS_Singleton
<1>6. /\ IsFiniteSet({c} \union {d})
      /\ Cardinality({c} \union {d}) \in Nat
      /\ Cardinality({c} \union {d}) <= 2
  <2>1. Cardinality({c} \union {d}) = IF d \in {c} THEN 1 ELSE 1 + 1
    BY <1>5, FS_AddElement
  <2>2. IsFiniteSet({c} \union {d})
    BY <1>5, FS_AddElement
  <2> QED
    BY <2>1, <2>2
<1>7. Pending(r) \in SUBSET ({c} \union {d})
  BY <1>4 DEF Pending
<1>8. Cardinality(Pending(r)) <= Cardinality({c} \union {d}) /\ IsFiniteSet(Pending(r))
  BY <1>6, <1>7, FS_Subset
<1>9. Cardinality(Pending(r)) \in Nat
  BY <1>8, FS_CardinalityType
<1> QED
  BY <1>6, <1>8, <1>9

LEMMA FewUnderway ==
  TypeInv /\ RowInv /\ DailyInv => UnderwayIsBounded
<1> SUFFICES ASSUME TypeInv, RowInv, DailyInv PROVE UnderwayIsBounded
  OBVIOUS
<1> DEFINE owner == [c \in Underway |-> c.run]
<1>1. /\ Underway \subseteq Calls
      /\ \A c \in Underway : c.run \in ActiveRuns /\ c \in Pending(c.run)
  BY PendingCalls DEF Underway
<1>2. owner \in [Underway -> ActiveRuns]
  BY <1>1
<1>3. ASSUME NEW r \in ActiveRuns
      PROVE  /\ IsFiniteSet({c \in Underway : owner[c] = r})
             /\ Cardinality({c \in Underway : owner[c] = r}) <= 2
  <2> DEFINE mine == {c \in Underway : owner[c] = r}
  <2>1. mine \subseteq Pending(r) /\ r \in Runs
    BY <1>1 DEF ActiveRuns
  <2>2. Pending(r) \in SUBSET Calls /\ mine \in SUBSET Calls
    BY <1>1, <2>1, PendingCalls
  <2>3. /\ IsFiniteSet(Pending(r)) /\ IsFiniteSet(mine)
        /\ Cardinality(Pending(r)) \in Nat /\ Cardinality(mine) \in Nat
    BY <2>2, SomeCalls
  <2>4. Cardinality(mine) <= Cardinality(Pending(r))
    BY <2>1, <2>3, FS_Subset
  <2> QED
    BY <2>1, <2>3, <2>4, TwoPendingARun
<1> HIDE DEF owner
<1>4. IsFiniteSet(ActiveRuns) /\ Cardinality(ActiveRuns) \in Nat
  BY RunsFinite DEF ActiveRuns
<1>5. Cardinality(Underway) <= 2 * Cardinality(ActiveRuns)
  BY <1>2, <1>3, <1>4, BoundedShares
<1>6. Cardinality(Underway) \in Nat
  BY <1>1, SomeCalls
<1> QED
  BY <1>4, <1>5, <1>6 DEF DailyInv, UnderwayIsBounded

LEMMA FewerPotential ==
  ASSUME TypeInv, RowInv, PotentialInv, Potential' \subseteq Potential
  PROVE  PotentialInv'
<1>1. Potential \in SUBSET Calls
  BY PendingCalls DEF Potential, Underway, OpenPositions
<1>2. Potential' \in SUBSET Calls
  BY <1>1
<1>3. Cardinality(Potential') <= Cardinality(Potential)
  BY <1>1, SomeCalls, FS_Subset
<1>4. Cardinality(Potential') \in Nat /\ Cardinality(Potential) \in Nat
  BY <1>1, <1>2, SomeCalls
<1> QED
  BY <1>3, <1>4 DEF PotentialInv

(* The order gate counts the positions that are open.                      *)
LEMMA GatedPotential ==
  ASSUME TypeInv, RowInv, TypeInv', RowInv', UnderwayIsBounded', NEW r \in Runs, Gates(r)
  PROVE  PotentialInv'
<1>1. OpenPositions' = OpenPositions
  BY DEF Gates, RowsKept, OpenPositions
<1>2. Cardinality(OpenPositions) < MaxOpen /\ Cardinality(OpenPositions) \in Nat
  <2> DEFINE counted == OpenPositions \union PositionRows(session[r].flushed)
  <2>1. OpenPositions \subseteq counted /\ counted \subseteq Calls
    BY DEF OpenPositions, PositionRows, TypeInv, TypeOK, Sessions, Orders
  <2>2. /\ IsFiniteSet(counted) /\ Cardinality(counted) \in Nat
        /\ Cardinality(OpenPositions) \in Nat
    BY <2>1, SomeCalls DEF OpenPositions
  <2>3. Cardinality(OpenPositions) <= Cardinality(counted)
    BY <2>1, <2>2, FS_Subset
  <2>4. Cardinality(counted) < MaxOpen
    BY DEF Gates, OpenCount
  <2> HIDE DEF counted
  <2> QED
    BY <2>2, <2>3, <2>4
<1>3. Underway' \subseteq Calls
  <2> SUFFICES ASSUME NEW q \in Runs PROVE Pending(q)' \subseteq Calls
    BY DEF Underway
  <2> QED
    BY DEF Pending, PositionRows, TypeInv, TypeOK, Sessions, Orders
<1>4. /\ IsFiniteSet(Underway') /\ IsFiniteSet(OpenPositions)
      /\ Cardinality(Underway') \in Nat
  BY <1>3, SomeCalls DEF OpenPositions
<1>5. /\ IsFiniteSet(OpenPositions \intersect Underway')
      /\ Cardinality(OpenPositions \intersect Underway') \in Nat
  BY <1>4, FS_Intersection, FS_CardinalityType
<1>6. Cardinality(OpenPositions \union Underway') =
         Cardinality(OpenPositions) + Cardinality(Underway')
         - Cardinality(OpenPositions \intersect Underway')
  BY <1>4, FS_Union
<1>7. Potential' = OpenPositions \union Underway'
  BY <1>1 DEF Potential
<1>8. Cardinality(Underway') <= 2 * MaxOverlap
  BY DEF UnderwayIsBounded
<1> QED
  BY <1>2, <1>4, <1>5, <1>6, <1>7, <1>8 DEF PotentialInv

LEMMA StepPotential ==
  ASSUME TypeInv, RowInv, NEW r \in Runs, Frame(r), 
         Starts(r) \/ Goes(r) \/ Writes(r) \/ Records(r) \/ Drops(r)
  PROVE  Potential' \subseteq Potential
<1>1. \A q \in Runs \ {r} : Pending(q)' = Pending(q)
  BY DEF Frame, Pending, InFlight, CurrentCall
<1>2. OpenPositions' \union Pending(r)' \subseteq OpenPositions \union Pending(r)
  <2>1. CASE Starts(r)
    BY <2>1 DEF Starts, RowsKept, OpenPositions, Pending, InFlight, Submitting
  <2>2. CASE Goes(r)
    BY <2>2 DEF Goes, RowsKept, OpenPositions, Pending, InFlight, CurrentCall
  <2>3. CASE Writes(r)
    <3>1. OpenPositions' \subseteq OpenPositions \union PositionRows(session[r].orders)
      BY <2>3 DEF Writes, OpenPositions
    <3>2. PositionRows(session'[r].orders) = {}
      BY <2>3 DEF Writes, PositionRows
    <3>3. InFlight(r)' => InFlight(r) /\ CurrentCall(r)' = CurrentCall(r)
      BY <2>3 DEF Writes, InFlight, Submitting, CurrentCall
    <3> QED
      BY <3>1, <3>2, <3>3 DEF Pending
  <2>4. CASE Records(r)
    <3>1. PICK status : session'[r].orders =
             session[r].orders \union {[call |-> CurrentCall(r), status |-> status]}
      BY <2>4 DEF Records
    <3>2. PositionRows(session'[r].orders)
             \subseteq PositionRows(session[r].orders) \union {CurrentCall(r)}
      BY <3>1 DEF PositionRows
    <3>3. CurrentCall(r) \in Calls /\ InFlight(r) /\ ~InFlight(r)'
      BY <2>4, CurrentCallType DEF Records, InFlight, Submitting
    <3>4. OpenPositions' = OpenPositions
      BY <2>4 DEF Records, OpenPositions
    <3> QED
      BY <3>2, <3>3, <3>4 DEF Pending
  <2>5. CASE Drops(r)
    BY <2>5 DEF Drops, OpenPositions, Pending, PositionRows, InFlight, Submitting
  <2> QED
    BY <2>1, <2>2, <2>3, <2>4, <2>5
<1> QED
  BY <1>1, <1>2 DEF Potential, Underway

LEMMA NextPotentialInv ==
  TypeInv /\ RowInv /\ PotentialInv /\ [Next]_vars /\ (TypeInv /\ RowInv /\ UnderwayIsBounded)'
    => PotentialInv'
<1> SUFFICES ASSUME TypeInv, RowInv, PotentialInv, [Next]_vars,
                    TypeInv', RowInv', UnderwayIsBounded'
             PROVE  PotentialInv'
  OBVIOUS
<1> USE DEF database, operator, broker, history
<1>1. ASSUME NEW r \in Runs, RunStep(r) \/ Fatal(r) PROVE PotentialInv'
  BY <1>1, StepsOfARun, StepPotential, FewerPotential, GatedPotential DEF StepKinds
<1>2. CASE UNCHANGED <<position, pc, session, run>>
  BY <1>2, FewerPotential
     DEF Potential, Underway, OpenPositions, Pending, InFlight, CurrentCall
<1>3. ASSUME NEW c \in Calls, AdapterAnswers(c) PROVE PotentialInv'
  <2>1. UNCHANGED <<position, pc, session>>
    BY <1>3 DEF AdapterAnswers
  <2>2. \A q \in Runs : run'[q].current = run[q].current
    BY <1>3 DEF TypeInv, TypeOK, Locals, Calls, AdapterAnswers
  <2>3. Potential' = Potential
    BY <2>1, <2>2 DEF Potential, Underway, OpenPositions, Pending, InFlight, CurrentCall
  <2> QED
    BY <2>3, FewerPotential
<1>4. CASE Crash
  <2>1. OpenPositions' = OpenPositions
    BY <1>4 DEF Crash, OpenPositions
  <2>2. ASSUME NEW q \in Runs
        PROVE  session'[q].orders = {} /\ pc'[q] \in {"idle", "done"}
    BY <1>4 DEF TypeInv, TypeOK, Crash, Active, NewSession
  <2>3. Underway' = {}
    BY <2>2 DEF Underway, Pending, PositionRows, InFlight, Submitting
  <2> QED
    BY <2>1, <2>3, FewerPotential DEF Potential
<1>5. CASE CloseExpired
  <2>1. OpenPositions' \subseteq OpenPositions /\ UNCHANGED <<pc, session, run>>
    BY <1>5 DEF CloseExpired, OpenPositions
  <2> QED
    BY <2>1, FewerPotential DEF Potential, Underway, Pending, InFlight, CurrentCall
<1>6. CASE Operator
  BY <1>2, <1>6 DEF Operator, ActivateKillSwitch, DeactivateKillSwitch, CreateHalt,
                    ResolveHalt
<1>7. CASE UNCHANGED vars
  BY <1>2, <1>7 DEF vars
<1> QED
  BY <1>1, <1>3, <1>4, <1>5, <1>6, <1>7 DEF Next

(* However the runs overlap, the open positions pass their cap by no more  *)
(* than two a run.                                                         *)
THEOREM PositionCapIsPassedByTwoARun == Spec => []PositionOvershootBounded
<1>1. Init => PotentialInv
  <2> SUFFICES ASSUME Init PROVE PotentialInv
    OBVIOUS
  <2>1. Potential = {}
    BY DEF Init, Potential, OpenPositions, Underway, Pending, PositionRows, NewSession,
           InFlight, Submitting
  <2> QED
    BY <2>1, FS_EmptySet DEF PotentialInv
<1>2. TypeInv /\ RowInv /\ PotentialInv => PositionOvershootBounded
  <2> SUFFICES ASSUME TypeInv, RowInv, PotentialInv PROVE PositionOvershootBounded
    OBVIOUS
  <2>1. Potential \in SUBSET Calls /\ OpenPositions \in SUBSET Potential
    BY PendingCalls DEF Potential, Underway, OpenPositions
  <2>2. /\ Cardinality(OpenPositions) <= Cardinality(Potential)
        /\ Cardinality(OpenPositions) \in Nat /\ Cardinality(Potential) \in Nat
    BY <2>1, SomeCalls, FS_Subset
  <2> QED
    BY <2>2 DEF PotentialInv, PositionOvershootBounded
<1> QED
  BY <1>1, <1>2, RowsOfRuns, DailyAccounts, FewUnderway, NextPotentialInv, PTL DEF Spec

-----------------------------------------------------------------------------
(***************************************************************************)
(* One run at a time trades a signal at most once.  What the active run    *)
(* has ranked, is processing or is about to commit is still a candidate,   *)
(* and only a submitted signal has an open position, exactly one.          *)
(***************************************************************************)

OpenOf(s) == {c \in OpenPositions : c.sig = s}

Holding == [s \in Signals |-> Cardinality(OpenOf(s))]

SignalsHold ==
    \A s \in Signals :
        IF signal[s] = "paper_submitted" THEN \E c \in Calls : OpenOf(s) = {c}
        ELSE OpenOf(s) = {}

CandidatesOnly(r) ==
    /\ \A s \in run[r].queue : signal[s] = "candidate"
    /\ InFlight(r) => signal[run[r].current] = "candidate"
    /\ \A s \in session[r].signals : signal[s] = "candidate"
    /\ session[r].signals = {c.sig : c \in PositionRows(session[r].orders)}
    /\ ~Active(r) => session[r].signals = {} /\ run[r].queue = {}

OneAtATime == \A q, r \in ActiveRuns : q = r

SoloInv ==
    /\ OneAtATime
    /\ SignalsHold
    /\ \A r \in Runs : CandidatesOnly(r)

LEMMA OneActiveRun ==
  ASSUME MaxOverlap = 1
  PROVE  DailyInv => OneAtATime
<1> SUFFICES ASSUME DailyInv, NEW q \in ActiveRuns, NEW r \in ActiveRuns, q # r
             PROVE  FALSE
  BY DEF OneAtATime
<1>1. IsFiniteSet({q}) /\ Cardinality({q}) = 1
  BY FS_Singleton
<1>2. Cardinality({q} \union {r}) = 1 + 1
  BY <1>1, FS_AddElement
<1>3. ({q} \union {r}) \in SUBSET ActiveRuns /\ IsFiniteSet(ActiveRuns)
      /\ Cardinality(ActiveRuns) \in Nat
  BY RunsFinite DEF ActiveRuns
<1>4. Cardinality({q} \union {r}) <= Cardinality(ActiveRuns)
  BY <1>3, FS_Subset
<1> QED
  BY <1>2, <1>3, <1>4 DEF DailyInv

LEMMA SameHolding ==
  ASSUME OpenPositions' = OpenPositions
  PROVE  /\ Holding' = Holding /\ \A s \in Signals : OpenOf(s)' = OpenOf(s)
  BY DEF Holding, OpenOf

(* A run commits the row of an accepted submission, or none.               *)
LEMMA WriteEnters ==
  ASSUME TypeInv, RowInv, SoloInv, NEW r \in Runs, Writes(r)
  PROVE  \/ UNCHANGED signal /\ OpenPositions' = OpenPositions /\ session[r].signals = {}
         \/ \E c \in Calls :
               /\ c.run = r /\ c \in PositionRows(session[r].orders)
               /\ signal[c.sig] = "candidate"
               /\ session[r].signals = {c.sig}
               /\ signal' = [signal EXCEPT ![c.sig] = "paper_submitted"]
               /\ OpenPositions' = OpenPositions \union {c}
<1> DEFINE rows == PositionRows(session[r].orders)
<1>1. /\ \A c, d \in rows : c = d
      /\ rows \subseteq Calls /\ \A c \in rows : c.run = r
  <2>1. /\ \A o, p \in session[r].orders : o = p
        /\ \A o \in session[r].orders : o.call \in Calls /\ o.call.run = r
    BY DEF RowInv, RowInvOf, TypeInv, TypeOK, Sessions, Orders
  <2> QED
    BY <2>1 DEF PositionRows
<1>2. session[r].signals = {c.sig : c \in rows} /\ \A s \in session[r].signals : signal[s] = "candidate"
  BY DEF SoloInv, CandidatesOnly
<1>3. OpenPositions' = OpenPositions \union rows
  BY <1>1 DEF Writes, OpenPositions
<1> HIDE DEF rows
<1>4. CASE rows = {}
  <2>1. session[r].signals = {}
    BY <1>2, <1>4
  <2>2. signal' = signal
    BY <2>1 DEF Writes, TypeInv, TypeOK
  <2> QED
    BY <1>3, <1>4, <2>1, <2>2
<1>5. CASE rows # {}
  <2>1. PICK c \in rows : rows = {c}
    BY <1>1, <1>5
  <2>2. c \in Calls /\ c.run = r /\ c.sig \in Signals
    BY <1>1 DEF Calls
  <2>3. session[r].signals = {c.sig} /\ signal[c.sig] = "candidate"
    BY <1>2, <2>1
  <2>4. signal' = [signal EXCEPT ![c.sig] = "paper_submitted"]
    BY <2>3 DEF Writes, TypeInv, TypeOK
  <2> QED
    BY <1>3, <2>1, <2>2, <2>3, <2>4 DEF rows
<1> QED
  BY <1>4, <1>5

LEMMA EnterHolds ==
  ASSUME TypeInv, SignalsHold, NEW c \in Calls, signal[c.sig] = "candidate",
         signal' = [signal EXCEPT ![c.sig] = "paper_submitted"],
         OpenPositions' = OpenPositions \union {c}
  PROVE  /\ SignalsHold' /\ c.sig \in Signals
         /\ Holding' = [Holding EXCEPT ![c.sig] = 1]
<1>1. c.sig \in Signals
  BY DEF Calls
<1>2. OpenOf(c.sig) = {}
  BY <1>1 DEF SignalsHold
<1>3. OpenOf(c.sig)' = {c}
  BY <1>2 DEF OpenOf
<1>4. \A s \in Signals \ {c.sig} : OpenOf(s)' = OpenOf(s) /\ signal'[s] = signal[s]
  BY DEF OpenOf, TypeInv, TypeOK
<1>5. signal'[c.sig] = "paper_submitted"
  BY <1>1 DEF TypeInv, TypeOK
<1>6. SignalsHold'
  <2> SUFFICES ASSUME NEW s \in Signals
               PROVE  IF signal'[s] = "paper_submitted" THEN \E d \in Calls : OpenOf(s)' = {d}
                      ELSE OpenOf(s)' = {}
    BY DEF SignalsHold
  <2>1. CASE s = c.sig
    BY <1>3, <1>5, <2>1
  <2>2. CASE s # c.sig
    BY <1>4, <2>2 DEF SignalsHold
  <2> QED
    BY <2>1, <2>2
<1>7. Cardinality({c}) = 1
  BY FS_Singleton
<1>8. Holding' = [Holding EXCEPT ![c.sig] = 1]
  <2>1. \A s \in Signals : Holding'[s] = IF s = c.sig THEN 1 ELSE Holding[s]
    BY <1>3, <1>4, <1>7 DEF Holding
  <2>2. Holding' = [s \in Signals |-> Holding'[s]]
    BY DEF Holding
  <2>3. Holding = [s \in Signals |-> Holding[s]]
    BY DEF Holding
  <2> HIDE DEF Holding
  <2> QED
    BY <2>1, <2>2, <2>3
<1> QED
  BY <1>1, <1>6, <1>8

(* The close worker closes positions and their signals together.           *)
LEMMA CloseExits ==
  ASSUME TypeInv, SignalsHold, CloseExpired
  PROVE  /\ SignalsHold'
         /\ \E S \in (SUBSET Signals) \ {{}} :
               /\ \A s \in S : signal[s] = "paper_submitted"
               /\ signal' = [s \in Signals |-> IF s \in S THEN "closed" ELSE signal[s]]
               /\ Holding' = [s \in Signals |-> IF s \in S THEN 0 ELSE Holding[s]]
<1>1. PICK C \in (SUBSET OpenPositions) \ {{}} :
         /\ position' = [c \in Calls |-> IF c \in C THEN "closed" ELSE position[c]]
         /\ signal' = [s \in Signals |-> IF \E c \in C : c.sig = s
                                         THEN "closed" ELSE signal[s]]
  BY DEF CloseExpired
<1> DEFINE S == {s \in Signals : \E c \in C : c.sig = s}
<1>2. OpenPositions' = OpenPositions \ C
  BY <1>1 DEF OpenPositions
<1>3. S # {}
  BY <1>1 DEF OpenPositions, Calls
<1>4. ASSUME NEW s \in S
      PROVE  signal[s] = "paper_submitted" /\ OpenOf(s)' = {}
  <2>1. PICK c \in C : c.sig = s
    OBVIOUS
  <2>2. c \in OpenOf(s)
    BY <1>1, <2>1 DEF OpenOf
  <2>3. signal[s] = "paper_submitted" /\ OpenOf(s) = {c}
    BY <2>2 DEF SignalsHold
  <2> QED
    BY <1>2, <2>3 DEF OpenOf
<1>5. ASSUME NEW s \in Signals \ S PROVE OpenOf(s)' = OpenOf(s) /\ signal'[s] = signal[s]
  BY <1>1, <1>2 DEF OpenOf
<1>6. signal' = [s \in Signals |-> IF s \in S THEN "closed" ELSE signal[s]]
  BY <1>1
<1>7. S \in SUBSET Signals
  OBVIOUS
<1> HIDE DEF S
<1>8. Holding' = [s \in Signals |-> IF s \in S THEN 0 ELSE Holding[s]]
  BY <1>4, <1>5, FS_EmptySet DEF Holding
<1>9. SignalsHold'
  <2> SUFFICES ASSUME NEW s \in Signals
               PROVE  IF signal'[s] = "paper_submitted" THEN \E d \in Calls : OpenOf(s)' = {d}
                      ELSE OpenOf(s)' = {}
    BY DEF SignalsHold
  <2>1. CASE s \in S
    BY <1>4, <1>6, <2>1
  <2>2. CASE s \notin S
    BY <1>5, <2>2 DEF SignalsHold
  <2> QED
    BY <2>1, <2>2
<1> QED
  BY <1>3, <1>4, <1>6, <1>7, <1>8, <1>9

(* A step of the lifecycle of the signals.                                 *)
Traded ==
    \/ \E s \in Signals :
          /\ signal[s] = "candidate"
          /\ signal' = [signal EXCEPT ![s] = "paper_submitted"]
          /\ Holding' = [Holding EXCEPT ![s] = 1]
    \/ \E S \in (SUBSET Signals) \ {{}} :
          /\ \A s \in S : signal[s] = "paper_submitted"
          /\ signal' = [s \in Signals |-> IF s \in S THEN "closed" ELSE signal[s]]
          /\ Holding' = [s \in Signals |-> IF s \in S THEN 0 ELSE Holding[s]]
    \/ UNCHANGED <<signal, Holding>>

LEMMA SignalsAreKept ==
  ASSUME SignalsHold, UNCHANGED signal, OpenPositions' = OpenPositions
  PROVE  SignalsHold' /\ Traded
  BY SameHolding DEF SignalsHold, Traded

LEMMA InactiveRun ==
  ASSUME NEW q \in Runs, CandidatesOnly(q), ~Active(q),
         run'[q] = run[q], pc'[q] = pc[q], session'[q] = session[q]
  PROVE  CandidatesOnly(q)'
<1>1. ~Active(q)' /\ ~InFlight(q)'
  BY DEF Active, InFlight, Submitting
<1> QED
  BY <1>1 DEF CandidatesOnly

LEMMA StepSolo ==
  ASSUME TypeInv, RowInv, SoloInv, NEW r \in Runs, StepKinds(r)
  PROVE  /\ SignalsHold' /\ Traded
         /\ \A q \in Runs : CandidatesOnly(q)'
<1>1. /\ SignalsHold /\ Frame(r) /\ RowInvOf(r)
      /\ \A q \in Runs : CandidatesOnly(q)
  BY DEF SoloInv, StepKinds, RowInv
<1>2. CASE Starts(r)
  <2>1. UNCHANGED signal /\ OpenPositions' = OpenPositions
    BY <1>2 DEF Starts, RowsKept, OpenPositions
  <2>2. ASSUME NEW q \in Runs PROVE CandidatesOnly(q)'
    <3>1. CASE q = r
      BY <1>1, <1>2, <3>1 DEF CandidatesOnly, Starts, RowsKept, Active, InFlight, Submitting
    <3>2. CASE q # r
      BY <1>1, <2>1, <3>2 DEF CandidatesOnly, Frame, Active, InFlight
    <3> QED
      BY <3>1, <3>2
  <2> QED
    BY <1>1, <2>1, <2>2, SignalsAreKept
<1>3. CASE ~Starts(r)
  <2>1. Active(r)
    BY <1>3 DEF StepKinds, Goes, Gates, Writes, Records, Drops, Active, Submitting
  <2>2. ASSUME NEW q \in Runs \ {r} PROVE CandidatesOnly(q)'
    <3>1. ~Active(q)
      BY <2>1 DEF SoloInv, OneAtATime, ActiveRuns
    <3> QED
      BY <1>1, <3>1, InactiveRun DEF Frame
  <2>3. CASE Goes(r)
    <3>1. UNCHANGED signal /\ OpenPositions' = OpenPositions
      BY <2>3 DEF Goes, RowsKept, OpenPositions
    <3>2. pc[r] # "loop" => session[r].orders = {}
      BY <1>1, <2>3 DEF Goes, RowInvOf, Submitting
    <3>3. pc[r] # "loop" => session[r].signals = {}
      BY <1>1, <3>2 DEF CandidatesOnly, PositionRows
    <3>4. ~Active(r)' => pc'[r] = "done" /\ pc[r] # "loop"
      BY <2>3 DEF Goes, Active, Submitting
    <3>5. \A s \in run'[r].queue : signal[s] = "candidate"
      BY <1>1, <2>3 DEF Goes, Candidates, CandidatesOnly
    <3>6. ~Active(r)' => run'[r].queue = {}
      BY <2>3, <3>4 DEF Goes
    <3> QED
      BY <1>1, <2>2, <2>3, <3>1, <3>3, <3>4, <3>5, <3>6, SignalsAreKept
         DEF CandidatesOnly, Goes, RowsKept
  <2>4. CASE Gates(r)
    <3>1. UNCHANGED signal /\ OpenPositions' = OpenPositions
      BY <2>4 DEF Gates, RowsKept, OpenPositions
    <3>2. CandidatesOnly(r)'
      BY <1>1, <2>4, <3>1 DEF CandidatesOnly, Gates, RowsKept, Active, InFlight
    <3> QED
      BY <1>1, <2>2, <3>1, <3>2, SignalsAreKept
  <2>5. CASE Writes(r)
    <3>1. CASE UNCHANGED signal /\ OpenPositions' = OpenPositions
      <4>1. CandidatesOnly(r)'
        BY <1>1, <2>5, <3>1
           DEF CandidatesOnly, Writes, PositionRows, Active, InFlight, Submitting
      <4> QED
        BY <1>1, <2>2, <3>1, <4>1, SignalsAreKept
    <3>2. ASSUME NEW c \in Calls, c.run = r, c \in PositionRows(session[r].orders),
                 signal[c.sig] = "candidate",
                 signal' = [signal EXCEPT ![c.sig] = "paper_submitted"],
                 OpenPositions' = OpenPositions \union {c}
          PROVE  SignalsHold' /\ Traded /\ CandidatesOnly(r)'
      <4>1. /\ SignalsHold' /\ c.sig \in Signals
            /\ Holding' = [Holding EXCEPT ![c.sig] = 1]
        BY <1>1, <3>2, EnterHolds
      <4>2. Traded
        BY <3>2, <4>1 DEF Traded
      <4>3. PICK o \in session[r].orders : o.call = c
        BY <3>2 DEF PositionRows
      <4>4. c = [run |-> r, sig |-> c.sig]
        BY <3>2 DEF Calls
      <4>5. c.sig \notin run[r].queue
        BY <1>1, <4>3, <4>4 DEF RowInvOf, Unrecorded
      <4>6. InFlight(r) => run[r].current # c.sig
        BY <1>1, <4>3, <4>4 DEF RowInvOf, Unrecorded, CurrentCall
      <4>7. \A s : s # c.sig /\ signal[s] = "candidate" /\ s \in Signals => signal'[s] = "candidate"
        BY <3>2 DEF TypeInv, TypeOK
      <4>8. run[r].queue \subseteq Signals /\ (InFlight(r) => run[r].current \in Signals)
        BY DEF TypeInv, TypeOK, Locals, CurrentOK, InFlight
      <4>9. CandidatesOnly(r)'
        BY <1>1, <2>5, <4>5, <4>6, <4>7, <4>8
           DEF CandidatesOnly, Writes, PositionRows, Active, InFlight, Submitting
      <4> QED
        BY <4>1, <4>2, <4>9
    <3> QED
      BY <2>2, <2>5, <3>1, <3>2, WriteEnters
  <2>6. CASE Records(r)
    <3>1. UNCHANGED signal /\ OpenPositions' = OpenPositions
      BY <2>6 DEF Records, OpenPositions
    <3>2. PICK status \in BrokerStatus \ {"unsupported"} :
             /\ session'[r].orders = session[r].orders \union
                                     {[call |-> CurrentCall(r), status |-> status]}
             /\ session'[r].signals = IF \/ status # "accepted"
                                         \/ signal[run[r].current] = "paper_submitted"
                                      THEN session[r].signals
                                      ELSE session[r].signals \union {run[r].current}
      BY <2>6 DEF Records
    <3>3. session[r].orders = {} /\ session[r].signals = {}
      BY <1>1, <2>6 DEF Records, RowInvOf, CandidatesOnly, PositionRows
    <3>4. signal[run[r].current] = "candidate"
      BY <1>1, <2>6 DEF Records, CandidatesOnly, InFlight, Submitting
    <3> DEFINE row == [call |-> CurrentCall(r), status |-> status]
    <3>5. session'[r].orders = {row} /\ row.call.sig = run[r].current /\ row.status = status
      BY <3>2, <3>3 DEF CurrentCall
    <3> HIDE DEF row
    <3>6. session'[r].signals = {c.sig : c \in PositionRows(session'[r].orders)}
      <4>1. CASE status = "accepted"
        BY <3>2, <3>3, <3>4, <3>5, <4>1 DEF PositionRows
      <4>2. CASE status # "accepted"
        BY <3>2, <3>3, <3>5, <4>2 DEF PositionRows
      <4> QED
        BY <4>1, <4>2
    <3>7. Active(r)' /\ ~InFlight(r)'
      BY <2>6 DEF Records, Active, InFlight, Submitting
    <3>8. \A s \in run'[r].queue : signal'[s] = "candidate"
      BY <1>1, <2>6, <3>1 DEF CandidatesOnly, Records
    <3>9. \A s \in session'[r].signals : signal'[s] = "candidate"
      BY <3>1, <3>2, <3>3, <3>4
    <3>10. CandidatesOnly(r)'
      BY <3>6, <3>7, <3>8, <3>9 DEF CandidatesOnly
    <3> QED
      BY <1>1, <2>2, <3>1, <3>10, SignalsAreKept
  <2>7. CASE Drops(r)
    <3>1. UNCHANGED signal /\ OpenPositions' = OpenPositions
      BY <2>7 DEF Drops, OpenPositions
    <3>2. CandidatesOnly(r)'
      BY <2>7 DEF CandidatesOnly, Drops, PositionRows, InFlight, Submitting
    <3> QED
      BY <1>1, <2>2, <3>1, <3>2, SignalsAreKept
  <2> QED
    BY <1>3, <2>3, <2>4, <2>5, <2>6, <2>7 DEF StepKinds
<1> QED
  BY <1>2, <1>3

LEMMA NextSolo ==
  TypeInv /\ RowInv /\ SoloInv /\ [Next]_vars /\ OneAtATime' => SoloInv' /\ Traded
<1> SUFFICES ASSUME TypeInv, RowInv, SoloInv, [Next]_vars, OneAtATime'
             PROVE  SignalsHold' /\ Traded /\ \A q \in Runs : CandidatesOnly(q)'
  BY DEF SoloInv
<1> USE DEF database, operator, broker, history
<1>0. SignalsHold /\ \A q \in Runs : CandidatesOnly(q)
  BY DEF SoloInv
<1>1. ASSUME NEW r \in Runs, RunStep(r) \/ Fatal(r)
      PROVE  SignalsHold' /\ Traded /\ \A q \in Runs : CandidatesOnly(q)'
  BY <1>1, StepsOfARun, StepSolo
<1>2. CASE UNCHANGED <<signal, position, pc, session, run>>
  <2>1. OpenPositions' = OpenPositions
    BY <1>2 DEF OpenPositions
  <2> QED
    BY <1>0, <1>2, <2>1, SignalsAreKept DEF CandidatesOnly, Active, InFlight
<1>3. ASSUME NEW c \in Calls, AdapterAnswers(c)
      PROVE  SignalsHold' /\ Traded /\ \A q \in Runs : CandidatesOnly(q)'
  <2>1. UNCHANGED <<signal, position, pc, session>>
    BY <1>3 DEF AdapterAnswers
  <2>2. \A q \in Runs : run'[q].current = run[q].current /\ run'[q].queue = run[q].queue
    BY <1>3 DEF TypeInv, TypeOK, Locals, Calls, AdapterAnswers
  <2>3. OpenPositions' = OpenPositions
    BY <2>1 DEF OpenPositions
  <2> QED
    BY <1>0, <2>1, <2>2, <2>3, SignalsAreKept DEF CandidatesOnly, Active, InFlight
<1>4. CASE Crash
  <2>1. UNCHANGED signal /\ OpenPositions' = OpenPositions
    BY <1>4 DEF Crash, OpenPositions
  <2>2. ASSUME NEW q \in Runs
        PROVE  CandidatesOnly(q)'
    <3>1. /\ session'[q].orders = {} /\ session'[q].signals = {} /\ run'[q].queue = {}
          /\ pc'[q] \in {"idle", "done"}
      BY <1>4 DEF TypeInv, TypeOK, Crash, Active, NewSession, NewRun
    <3> QED
      BY <3>1 DEF CandidatesOnly, PositionRows, InFlight, Submitting
  <2> QED
    BY <1>0, <2>1, <2>2, SignalsAreKept
<1>5. CASE CloseExpired
  <2>1. UNCHANGED <<pc, session, run>>
    BY <1>5 DEF CloseExpired
  <2>2. /\ SignalsHold' /\ Traded
        /\ \A s \in Signals : signal[s] = "candidate" => signal'[s] = "candidate"
    <3>1. PICK S \in (SUBSET Signals) \ {{}} :
               /\ \A s \in S : signal[s] = "paper_submitted"
               /\ signal' = [s \in Signals |-> IF s \in S THEN "closed" ELSE signal[s]]
               /\ Holding' = [s \in Signals |-> IF s \in S THEN 0 ELSE Holding[s]]
      BY <1>0, <1>5, CloseExits
    <3>2. SignalsHold'
      BY <1>0, <1>5, CloseExits
    <3>3. Traded
      BY <3>1 DEF Traded
    <3> QED
      BY <3>1, <3>2, <3>3
  <2>3. ASSUME NEW q \in Runs PROVE CandidatesOnly(q)'
    <3>1. /\ run[q].queue \subseteq Signals /\ session[q].signals \subseteq Signals
          /\ InFlight(q) => run[q].current \in Signals
      BY DEF TypeInv, TypeOK, Locals, Sessions, CurrentOK, InFlight
    <3> QED
      BY <1>0, <2>1, <2>2, <3>1 DEF CandidatesOnly, Active, InFlight
  <2> QED
    BY <2>2, <2>3
<1>6. CASE Operator
  BY <1>2, <1>6 DEF Operator, ActivateKillSwitch, DeactivateKillSwitch, CreateHalt,
                    ResolveHalt
<1>7. CASE UNCHANGED vars
  BY <1>2, <1>7 DEF vars
<1> QED
  BY <1>1, <1>3, <1>4, <1>5, <1>6, <1>7 DEF Next

LEMMA InitSolo == Init => SoloInv /\ Holding = [s \in Signals |-> 0]
<1> SUFFICES ASSUME Init PROVE SoloInv /\ Holding = [s \in Signals |-> 0]
  OBVIOUS
<1>1. OpenPositions = {} /\ ActiveRuns = {}
  BY DEF Init, OpenPositions, ActiveRuns, Active
<1>2. \A s \in Signals : OpenOf(s) = {}
  BY <1>1 DEF OpenOf
<1>3. SignalsHold
  BY <1>2 DEF Init, SignalsHold
<1>4. \A r \in Runs : CandidatesOnly(r)
  BY DEF Init, CandidatesOnly, InFlight, Submitting, NewRun, NewSession, PositionRows
<1>5. Holding = [s \in Signals |-> 0]
  BY <1>2, FS_EmptySet DEF Holding
<1> QED
  BY <1>1, <1>3, <1>4, <1>5 DEF SoloInv, OneAtATime

(* With one run at a time, the trader implements the lifecycle of a        *)
(* signal: traded at most once, its status and its position together.      *)
THEOREM OneRunTradesSignalsOnce ==
  ASSUME MaxOverlap = 1
  PROVE  Spec => TradesSignalsOnce
<1>1. Init => Trade!Init
  BY InitSolo DEF Init, Trade!Init, Holding, OpenOf
<1>2. TypeInv /\ RowInv /\ SoloInv /\ [Next]_vars /\ OneAtATime' => SoloInv'
  BY NextSolo
<1>3. TypeInv /\ RowInv /\ SoloInv /\ [Next]_vars /\ OneAtATime' =>
         [Trade!Next]_(<<signal, [s \in Signals |-> Cardinality({c \in OpenPositions : c.sig = s})]>>)
  <2>1. Traded => [Trade!Next]_(<<signal, [s \in Signals |-> Cardinality({c \in OpenPositions : c.sig = s})]>>)
    BY DEF Traded, Holding, OpenOf, Trade!Next, Trade!Enter, Trade!Exit
  <2> QED
    BY <2>1, NextSolo
<1>4. Init => SoloInv
  BY InitSolo
<1>5. DailyInv => OneAtATime
  BY OneActiveRun
<1> QED
  BY <1>1, <1>2, <1>3, <1>4, <1>5, RowsOfRuns, DailyAccounts, PTL
     DEF Spec, TradesSignalsOnce, Trade!Spec

=============================================================================
