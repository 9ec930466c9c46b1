--------------------------- MODULE IngestWorkers ---------------------------
(***************************************************************************)
(* DataSyncWorker and SignalSweepWorker.  Each goes over the assets in one *)
(* session, catches what an asset raises, commits at the end and reports a *)
(* tally.  They write to the session differently: the sync executes its    *)
(* upserts, the sweep flushes objects, and the two leave the session in    *)
(* different states when the database refuses a statement.                 *)
(***************************************************************************)
EXTENDS Integers, FiniteSets

CONSTANTS
    Assets,
    MaxPasses   \* bound: the passes of each worker in a behaviour

ASSUME IngestAssumption ==
    /\ IsFiniteSet(Assets)
    /\ MaxPasses \in Nat

Workers == {"sync", "sweep"}

VARIABLES
    pass,       \* the pass each worker is on
    store,      \* history: what its last pass has left in the database
    tally       \* what its last pass has reported

ingestVars == <<pass, store, tally>>

(* written holds the assets whose rows are in the transaction.  The        *)
(* session is clean, aborted (the connection refuses statements and turns  *)
(* a COMMIT into a rollback) or invalid (it refuses everything).           *)
Passes ==
    [made : 0..MaxPasses, left : SUBSET Assets, running : BOOLEAN,
     written : SUBSET Assets, counted : SUBSET Assets,
     session : {"clean", "aborted", "invalid"}]

IngestInit ==
    /\ pass = [w \in Workers |->
                 [made |-> 0, left |-> {}, running |-> FALSE, written |-> {},
                  counted |-> {}, session |-> "clean"]]
    /\ store = [w \in Workers |-> {}]
    /\ tally = [w \in Workers |-> {}]

-----------------------------------------------------------------------------

(* Every asset of the sync that is not a test asset; the active ones of    *)
(* the sweep.                                                              *)
StartPass(w) ==
    /\ ~ pass[w].running /\ pass[w].made < MaxPasses
    /\ \E chosen \in SUBSET Assets :
          pass' = [pass EXCEPT ![w] =
                    [made |-> @.made + 1, left |-> chosen, running |-> TRUE,
                     written |-> {}, counted |-> {}, session |-> "clean"]]
    /\ UNCHANGED <<store, tally>>

(* Bars are upserted, or a signal is flushed.                              *)
AssetStored(w, a) ==
    /\ pass[w].running /\ a \in pass[w].left
    /\ pass[w].session = "clean"
    /\ pass' = [pass EXCEPT ![w].left = @ \ {a}, ![w].written = @ \union {a},
                            ![w].counted = @ \union {a}]
    /\ UNCHANGED <<store, tally>>

(* No bars, an answer that does not validate, or an exception of a client: *)
(* the session is not touched.  With a session that refuses, every asset   *)
(* that is left ends here.                                                 *)
AssetPassedOver(w, a) ==
    /\ pass[w].running /\ a \in pass[w].left
    /\ pass' = [pass EXCEPT ![w].left = @ \ {a}]
    /\ UNCHANGED <<store, tally>>

(* Rolls the session back to go on with the next asset. *)
AfterRefusalRollback(w, row) ==
    [row EXCEPT !.session = IF w = "sync" THEN "aborted" ELSE "clean",
                !.written = IF w = "sync" THEN @ ELSE {}]

AfterRefusal(w, row) ==
    [row EXCEPT !.session = IF w = "sync" THEN "aborted" ELSE "invalid"]

(* The database refuses the statement: a candle that comes twice in one    *)
(* upsert, a number out of range.  The exception is caught with the rest.  *)
DatabaseRefusesAsset(w, a) ==
    /\ pass[w].running /\ a \in pass[w].left
    /\ pass[w].session = "clean"
    /\ pass' = [pass EXCEPT ![w] = AfterRefusal(w, [pass[w] EXCEPT !.left = @ \ {a}])]
    /\ UNCHANGED <<store, tally>>

(* Committing an invalid session raises: rolled back, and reported as a    *)
(* fatal error.                                                            *)
EndPass(w) ==
    /\ pass[w].running /\ pass[w].left = {}
    /\ store' = [store EXCEPT ![w] = IF pass[w].session = "clean" THEN pass[w].written ELSE {}]
    /\ tally' = [tally EXCEPT ![w] = IF pass[w].session = "invalid" THEN {} ELSE pass[w].counted]
    /\ pass' = [pass EXCEPT ![w].running = FALSE, ![w].written = {}, ![w].counted = {}]

(* An exception outside the loop, or of the commit: fatal, rolled back.    *)
PassFails(w) ==
    /\ pass[w].running
    /\ store' = [store EXCEPT ![w] = {}]
    /\ tally' = [tally EXCEPT ![w] = {}]
    /\ pass' = [pass EXCEPT ![w].running = FALSE, ![w].left = {}, ![w].written = {},
                            ![w].counted = {}]

IngestNext ==
    \E w \in Workers :
        \/ StartPass(w) \/ EndPass(w) \/ PassFails(w)
        \/ \E a \in Assets :
              AssetStored(w, a) \/ AssetPassedOver(w, a) \/ DatabaseRefusesAsset(w, a)

IngestSpec == IngestInit /\ [][IngestNext]_ingestVars

-----------------------------------------------------------------------------

IngestTypeOK ==
    /\ pass \in [Workers -> Passes]
    /\ store \in [Workers -> SUBSET Assets]
    /\ tally \in [Workers -> SUBSET Assets]

(* The sweep reports the signals that it left in the database, whatever    *)
(* failed on the way.                                                      *)
SweepTallyTrue == ~ pass["sweep"].running => tally["sweep"] = store["sweep"]

=============================================================================
