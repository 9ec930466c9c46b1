---------------------------- MODULE Idempotency ----------------------------
(***************************************************************************)
(* X-Idempotency-Key of POST /execution/paper.  The dependency that checks *)
(* a key runs in a threadpool thread on a dictionary of the process, with  *)
(* no lock: it lists the expired keys, deletes them one by one, looks for  *)
(* its own key and reserves it.  The route may then find the body invalid, *)
(* or fail and release the key.                                            *)
(***************************************************************************)
EXTENDS Integers, FiniteSets

CONSTANTS
    Keys,
    Submissions,    \* bound: the requests of a behaviour
    MaxTogether     \* bound: how many of them are in progress at once

ASSUME IdempotencyAssumption ==
    /\ IsFiniteSet(Submissions)
    /\ MaxTogether \in Nat \ {0}

VARIABLES
    cached,     \* _cache: a key is absent, live, or expired and not yet evicted
    call,       \* the thread of each request
    succeeded,  \* history: requests processed for a key since it was last free
                \* by right (never used, expired, or lost in a restart)
    contended   \* history: keys on which threads met, see Meets

idemVars == <<cached, call, succeeded, contended>>

Threads ==
    [stage : {"idle", "evicting", "checking", "absent", "reserved", "done"},
     key : Keys, stale : SUBSET Keys]

IdemInit ==
    /\ cached = [k \in Keys |-> "absent"]
    /\ \E k \in Keys :
          call = [s \in Submissions |-> [stage |-> "idle", key |-> k, stale |-> {}]]
    /\ succeeded = [k \in Keys |-> {}]
    /\ contended = {}

-----------------------------------------------------------------------------

Running(s) == call[s].stage \notin {"idle", "done"}

Advance(s, stage) == call' = [call EXCEPT ![s].stage = stage]

(* Releases the key although the request went through. *)
ReleasesAlways(outcome) == outcome \in {"processed", "raised"}

(* Only an exception of the service releases the key: a body that does not *)
(* validate leaves it reserved.                                            *)
Releases(outcome) == outcome = "raised"

-----------------------------------------------------------------------------

(* _evict_expired lists the expired keys. *)
ListExpired(s) ==
    /\ call[s].stage = "idle"
    /\ Cardinality({t \in Submissions : Running(t)}) < MaxTogether
    /\ \E k \in Keys :
          /\ call' = [call EXCEPT ![s] =
                        [stage |-> "evicting", key |-> k,
                         stale |-> {j \in Keys : cached[j] = "expired"}]]
          /\ contended' = IF \E t \in Submissions : Running(t) /\ call[t].key = k
                          THEN contended \union {k} ELSE contended
    /\ UNCHANGED <<cached, succeeded>>

(* It deletes them, whatever they are by now; a key that another thread    *)
(* has deleted is a KeyError, and the request fails.                       *)
EvictOne(s) ==
    /\ call[s].stage = "evicting"
    /\ \/ /\ call[s].stale = {}
          /\ Advance(s, "checking")
          /\ UNCHANGED cached
       \/ \E k \in call[s].stale :
             IF cached[k] = "absent"
             THEN Advance(s, "done") /\ UNCHANGED cached
             ELSE /\ cached' = [cached EXCEPT ![k] = "absent"]
                  /\ call' = [call EXCEPT ![s].stale = @ \ {k}]
    /\ UNCHANGED <<succeeded, contended>>

(* A key in the dictionary is a conflict. *)
CheckKey(s) ==
    /\ call[s].stage = "checking"
    /\ Advance(s, IF cached[call[s].key] = "absent" THEN "absent" ELSE "done")
    /\ UNCHANGED <<cached, succeeded, contended>>

(* The threads that would still delete the key just reserved.              *)
Meets(s) == \E t \in Submissions \ {s} :
                /\ call[t].stage = "evicting"
                /\ call[s].key \in call[t].stale

ReserveKey(s) ==
    /\ call[s].stage = "absent"
    /\ cached' = [cached EXCEPT ![call[s].key] = "live"]
    /\ Advance(s, "reserved")
    /\ contended' = IF Meets(s) THEN contended \union {call[s].key} ELSE contended
    /\ UNCHANGED succeeded

Answer(s) ==
    /\ call[s].stage = "reserved"
    /\ \E outcome \in {"processed", "raised", "invalid"} :
          /\ cached' = IF Releases(outcome)
                       THEN [cached EXCEPT ![call[s].key] = "absent"] ELSE cached
          /\ succeeded' = IF outcome = "processed"
                          THEN [succeeded EXCEPT ![call[s].key] = @ \union {s}]
                          ELSE succeeded
    /\ Advance(s, "done")
    /\ UNCHANGED contended

(* A day later.  The key is free by right, although it stays until a       *)
(* request evicts it.                                                      *)
KeyExpires(k) ==
    /\ cached[k] = "live"
    /\ \A s \in Submissions : Running(s) => call[s].key # k
    /\ cached' = [cached EXCEPT ![k] = "expired"]
    /\ succeeded' = [succeeded EXCEPT ![k] = {}]
    /\ contended' = contended \ {k}
    /\ UNCHANGED call

(* The dictionary and the threads are gone. *)
ProcessRestarts ==
    /\ \E s \in Submissions : call[s].stage # "idle"
    /\ cached' = [k \in Keys |-> "absent"]
    /\ call' = [s \in Submissions |->
                  IF Running(s) THEN [call[s] EXCEPT !.stage = "done"] ELSE call[s]]
    /\ succeeded' = [k \in Keys |-> {}]
    /\ contended' = {}

IdemNext ==
    \/ \E s \in Submissions : ListExpired(s) \/ EvictOne(s) \/ CheckKey(s)
                              \/ ReserveKey(s) \/ Answer(s)
    \/ \E k \in Keys : KeyExpires(k)
    \/ ProcessRestarts

IdemSpec == IdemInit /\ [][IdemNext]_idemVars

-----------------------------------------------------------------------------

IdemTypeOK ==
    /\ cached \in [Keys -> {"absent", "live", "expired"}]
    /\ call \in [Submissions -> Threads]
    /\ succeeded \in [Keys -> SUBSET Submissions]
    /\ contended \subseteq Keys

(* A key is processed once, unless two requests with it were in progress   *)
(* together or it was reserved while another request still had it on its   *)
(* list of keys to evict: failures, retries, evictions by requests with    *)
(* other keys and expiry do not let a second request through.              *)
ProcessedOncePerKey ==
    \A k \in Keys \ contended : \A s, t \in succeeded[k] : s = t

=============================================================================
