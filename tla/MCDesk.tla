------------------------------- MODULE MCDesk -------------------------------
(* Three cards: a plain trigger, a reputation feed whose run can raise,    *)
(* and an east-west probe nobody configured.                               *)
EXTENDS Desk

CONSTANTS beacon, feed, eastwest

MCCatalog  == <<beacon, feed, eastwest>>
MCProfiles == {<<feed, eastwest>>}
MCOutcomes == [id \in {beacon, feed, eastwest} |-> IF id = feed THEN {"ratio"} ELSE {"blocked"}]
=============================================================================
