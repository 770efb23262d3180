------------------------- MODULE MCRelayerSessions -------------------------
(***************************************************************************)
(* A session with a claim window of two blocks and a proof window of two.  *)
(***************************************************************************)
EXTENDS RelayerSessions

MCWindow ==
    [s \in Sessions |-> [claimOpen |-> 1, claimClose |-> 3, proofOpen |-> 3, proofClose |-> 5]]
=============================================================================
