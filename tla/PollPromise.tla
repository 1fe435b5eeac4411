---------------------------- MODULE PollPromise ----------------------------
(***************************************************************************)
(* What poll_cluster promises its caller, whatever happens inside: it is   *)
(* polling; then, in one step, it either returns a dictionary with exactly *)
(* one entry for every distinct target, each an answer that a poll of that *)
(* very node may give, or it fails and returns nothing.  The caller never  *)
(* sees a partial dictionary.                                              *)
(***************************************************************************)
EXTENDS NodePoll

VARIABLES cmd,      \* the command polled for
          name,     \* the distinct target nodes of the call
          phase,    \* "polling", then "returned" or "failed"
          answer    \* what the caller holds

pvars == <<cmd, name, phase, answer>>

\* The caller holds nothing: the dictionary with no entry.
Nothing == [n \in {} |-> {}]

PInit == /\ phase = "polling"
         /\ answer = Nothing

Return == /\ phase = "polling"
          /\ phase' = "returned"
          /\ DOMAIN answer' = name
          /\ \A n \in name : answer'[n] \in PollResult(cmd, n)
          /\ UNCHANGED <<cmd, name>>

Fail == /\ phase = "polling"
        /\ phase' = "failed"
        /\ UNCHANGED <<cmd, name, answer>>

PNext == Return \/ Fail

PSpec == PInit /\ [][PNext]_pvars
=============================================================================
