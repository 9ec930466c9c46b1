-------------------------- MODULE MCAutoPaperTrader --------------------------
(* Instances of AutoPaperTrader for TLC. *)
EXTENDS AutoPaperTrader, TLC

CONSTANTS r1, r2, r3, s1, s2, s3, s4

(* What decides the positions to come.  No action reads approvals, orders  *)
(* the broker was given, or the history, and a thread that its run gave up *)
(* on changes nothing else.                                                *)
DecidesPositions ==
    <<signal, orders, position, operator, pc, run, session,
      {c \in inflight : pc[c.run] = "wait" /\ CurrentCall(c.run) = c}>>

(* The signals of an instance differ only in whether the gate refuses them.*)
Symmetric == Permutations(Runs) \union Permutations(Signals \ Refused)

=============================================================================
