-------------------------- MODULE BrokerConnection --------------------------
(***************************************************************************)
(* The socket of TwsBroker and its reconnection cooldown.  Every blocking  *)
(* call holds the adapter's lock, so calls follow one another; TWS may go  *)
(* away, or have the client id in use elsewhere, between any two of them   *)
(* and in the middle of one.                                               *)
(***************************************************************************)
EXTENDS Integers

CONSTANTS
    ContentionHold,     \* ticks of the cooldown after the client id was in use
    ShortHold           \* ticks after any other failure

ASSUME ConnectionAssumption ==
    /\ ContentionHold \in Nat \ {0}
    /\ ShortHold \in 1..ContentionHold

VARIABLES
    tws,        \* what the gateway would do with a connection
    socket,     \* the IB object: none, live, or dead since TWS went away
    report,     \* _connection_state, which diagnostics show
    errorKept,  \* whether _last_error_message is set
    hold        \* ticks until _reconnect_not_before_monotonic

connVars == <<tws, socket, report, errorKept, hold>>

Reports == {"not_initialized", "connecting", "connected", "unavailable", "disconnected"}

ConnInit ==
    /\ tws \in {"up", "busy", "down"}
    /\ socket = "none"
    /\ report = "not_initialized"
    /\ errorKept = FALSE
    /\ hold = 0

-----------------------------------------------------------------------------

CooldownAfter(kind) == IF kind = "busy" THEN ContentionHold ELSE ShortHold

(* A failure is remembered, and holds reconnection back for as long as it  *)
(* deserves, or as long as it already is.                                  *)
RecordFailure(kind) ==
    /\ report' = "unavailable"
    /\ errorKept' = TRUE
    /\ hold' = IF CooldownAfter(kind) > hold THEN CooldownAfter(kind) ELSE hold

(* Extends the cooldown at every refusal. *)
RecordRefusalAsFailure == RecordFailure("busy")

(* The adapter's own refusal is an unavailability error that is passed on: *)
(* it is recorded without a new cooldown.                                  *)
RecordRefusal ==
    /\ report' = "unavailable"
    /\ errorKept' = TRUE
    /\ UNCHANGED hold

Refused == socket # "live" /\ hold > 0 /\ errorKept

MayConnect == socket # "live" /\ ~ Refused

-----------------------------------------------------------------------------

(* An account or position read that goes through, on the live socket or on *)
(* a new one, which clears the error.                                      *)
ReadSucceeds ==
    /\ \/ /\ socket = "live"
          /\ UNCHANGED <<errorKept, hold>>
       \/ /\ MayConnect /\ tws = "up"
          /\ errorKept' = FALSE
          /\ hold' = 0
    /\ socket' = "live"
    /\ report' = "connected"
    /\ UNCHANGED tws

(* A read that fails on its socket disconnects it.  The wording of the     *)
(* error decides what it is taken for.                                     *)
ReadFails ==
    /\ \/ socket = "live"
       \/ MayConnect /\ tws = "up"
    /\ socket' = "none"
    /\ \E kind \in {"busy", "other"} : RecordFailure(kind)
    /\ UNCHANGED tws

ConnectFails ==
    /\ MayConnect
    /\ tws # "up"
    /\ socket' = "none"
    /\ RecordFailure(tws)
    /\ UNCHANGED tws

ReadRefused ==
    /\ Refused
    /\ socket' = "none"
    /\ RecordRefusal
    /\ UNCHANGED tws

(* An order connects as a read does.  One that fails on its socket leaves  *)
(* the socket and the report as they are; one that is refused leaves       *)
(* everything.                                                             *)
OrderFails ==
    /\ \/ socket = "live" /\ report' = "connected" /\ UNCHANGED <<socket, errorKept, hold>>
       \/ Refused /\ UNCHANGED <<socket, report, errorKept, hold>>
    /\ UNCHANGED tws

(* An operator's disconnect keeps the error and the cooldown. *)
Disconnect ==
    /\ socket' = "none"
    /\ report' = "disconnected"
    /\ UNCHANGED <<tws, errorKept, hold>>

-----------------------------------------------------------------------------

TwsChanges ==
    /\ tws' \in {"up", "busy", "down"} \ {tws}
    /\ socket' = IF socket = "live" /\ tws' = "down" THEN "dead" ELSE socket
    /\ UNCHANGED <<report, errorKept, hold>>

Tick ==
    /\ hold > 0
    /\ hold' = hold - 1
    /\ UNCHANGED <<tws, socket, report, errorKept>>

Reads == ReadSucceeds \/ ReadFails \/ ConnectFails \/ ReadRefused

ConnNext == Reads \/ OrderFails \/ Disconnect \/ TwsChanges \/ Tick

(* Time passes.  Nothing is assumed of the callers or of TWS.              *)
ConnSpec == ConnInit /\ [][ConnNext]_connVars /\ WF_connVars(Tick)

-----------------------------------------------------------------------------

ConnTypeOK ==
    /\ tws \in {"up", "busy", "down"}
    /\ socket \in {"none", "live", "dead"}
    /\ report \in Reports
    /\ errorKept \in BOOLEAN
    /\ hold \in 0..ContentionHold

(* Whatever the history of outages and contention, if TWS stays up and     *)
(* reads keep being made, and no more of them fail on their socket, the    *)
(* adapter is connected again: reads refused in the cooldown do not        *)
(* prolong it.                                                             *)
Recovers ==
    /\ <>[](tws = "up")
    /\ []<><<Reads>>_<<connVars>>
    /\ <>[][~ ReadFails /\ ~ Disconnect]_connVars
    => <>(socket = "live")

=============================================================================
