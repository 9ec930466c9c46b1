----------------------------- MODULE MCServices -----------------------------
(***************************************************************************)
(* The components that share no rows, side by side, for TLC.  An           *)
(* interleaving of two of them is the two of them apart, so a behaviour    *)
(* watches the steps of one, its focus, and the states of the run are      *)
(* those of the components added, not multiplied.                          *)
(***************************************************************************)
EXTENDS ModelGovernance, BrokerDesk, BrokerConnection, BrokerBooks, Idempotency,
        ResearchJobs, PaperValidation, CandidateQueue, LearningTrainer,
        IngestWorkers, TradeSimulator, BacktestReplay, WalkForward, AlertRules,
        FileStores

VARIABLE focus

servicesVars ==
    <<focus, vars, deskVars, connVars, booksVars, idemVars, jobVars, planVars, queueVars,
      trainerVars, ingestVars, simVars, backtestVars, walkVars, alertVars, fileVars>>

Services ==
    {"governance", "desk", "connection", "books", "keys", "jobs", "plans", "queue",
     "trainer", "ingest", "simulator", "backtest", "walk", "alerts", "files"}

MCAllowlist == <<"A", "A">>

MCConditions == {[equal |-> e, status |-> "filled"] : e \in BOOLEAN}

MCShapes ==
    {[low |-> p[1], close |-> p[2], high |-> p[3]] :
        p \in {<<1, 1, 2>>, <<2, 2, 2>>, <<2, 3, 3>>, <<1, 2, 4>>, <<3, 4, 4>>}}

MCPercentages == {<<60, 20, 20>>, <<50, 25, 25>>}

MCPnls == {-1, 3, 9}

(* A component that is not watched has no choice of its initial state.     *)
MCInit ==
    /\ focus \in Services
    /\ Init /\ DeskInit /\ ConnInit /\ BooksInit /\ IdemInit /\ JobsInit /\ PlansInit
    /\ QueueInit /\ TrainerInit /\ IngestInit /\ SimInit /\ BacktestInit /\ WalkInit
    /\ AlertInit /\ FileInit
    /\ focus # "keys" => \A s \in Submissions : call[s].key = CHOOSE k \in Keys : TRUE
    /\ focus # "connection" => tws = "up"
    /\ focus # "walk" => split = <<60, 20, 20>> /\ folds = 1

(* Evidence by hand is added to one of the plans.                          *)
PlansStep ==
    /\ PlansNext
    /\ \E p \in Plans : \A e \in Losses : evidence'[p][e] = "absent"

MCNext ==
    /\ UNCHANGED focus
    /\ focus # "governance" => UNCHANGED vars
    /\ focus # "desk" => UNCHANGED deskVars
    /\ focus # "connection" => UNCHANGED connVars
    /\ focus # "books" => UNCHANGED booksVars
    /\ focus # "keys" => UNCHANGED idemVars
    /\ focus # "jobs" => UNCHANGED jobVars
    /\ focus # "plans" => UNCHANGED planVars
    /\ focus # "queue" => UNCHANGED queueVars
    /\ focus # "trainer" => UNCHANGED trainerVars
    /\ focus # "ingest" => UNCHANGED ingestVars
    /\ focus # "simulator" => UNCHANGED simVars
    /\ focus # "backtest" => UNCHANGED backtestVars
    /\ focus # "walk" => UNCHANGED walkVars
    /\ focus # "alerts" => UNCHANGED alertVars
    /\ focus # "files" => UNCHANGED fileVars
    /\ \/ focus = "governance" /\ Next
       \/ focus = "desk" /\ DeskNext
       \/ focus = "connection" /\ ConnNext
       \/ focus = "books" /\ BooksNext
       \/ focus = "keys" /\ IdemNext
       \/ focus = "jobs" /\ JobsNext
       \/ focus = "plans" /\ PlansStep
       \/ focus = "queue" /\ QueueNext
       \/ focus = "trainer" /\ TrainerNext
       \/ focus = "ingest" /\ IngestNext
       \/ focus = "simulator" /\ SimNext
       \/ focus = "backtest" /\ BacktestNext
       \/ focus = "walk" /\ WalkNext
       \/ focus = "alerts" /\ AlertNext
       \/ focus = "files" /\ FileNext

(* The fairness is that of ConnSpec: time passes.                          *)
MCSpec == MCInit /\ [][MCNext]_servicesVars /\ WF_connVars(focus = "connection" /\ Tick)

(* Every variable of every component keeps its shape. *)
ServicesTypeOK ==
    /\ TypeOK /\ DeskTypeOK /\ ConnTypeOK /\ BooksTypeOK /\ IdemTypeOK /\ JobsTypeOK
    /\ PlansTypeOK /\ QueueTypeOK /\ TrainerTypeOK /\ IngestTypeOK /\ SimTypeOK
    /\ BacktestTypeOK /\ WalkTypeOK /\ AlertTypeOK /\ FileTypeOK
    /\ focus \in Services

(* What the simulator and the validation make of the past is what trading  *)
(* it would have made: targets are hit only if no stop may have been, and  *)
(* every trade counts in the one period of a fold that it belongs to.      *)
SimulationsJudgeFairly == TargetsAreEarned /\ FoldsJudgeFairly

(* What happened is told by what is kept of it: rules stand as their last  *)
(* change left them, the broker's fills that were acknowledged are staged, *)
(* and the journals keep what was written under their lock.                *)
EventsKept == LastChangeRules /\ AcknowledgedIsStaged /\ StoresKept

=============================================================================
