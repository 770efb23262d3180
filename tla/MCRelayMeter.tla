---------------------------- MODULE MCRelayMeter ----------------------------
(***************************************************************************)
(* Small instances of RelayMeter: every configuration of the RelayMiner,   *)
(* and interchangeable requests.                                           *)
(***************************************************************************)
EXTENDS RelayMeter, TLC

RelayMinerModes == [eager : BOOLEAN, overServicing : BOOLEAN]

Requests == Permutations(HttpRelays)
=============================================================================
