----------------------------- MODULE MCConsole -----------------------------
(* Two workers and the Tk thread over a catalog of four triggers: a curl   *)
(* trigger, a reputation-feed trigger of two probes, a gated one and a     *)
(* plain one.                                                              *)
EXTENDS Console

MCOutcomes ==
  [id \in Triggers |-> IF id \in FeedTriggers THEN {"ratio", "error"}
                       ELSE {"blocked"}]

MCWire == [id \in Triggers |-> IF id \in CurlTriggers THEN 2 ELSE 1]
=============================================================================
