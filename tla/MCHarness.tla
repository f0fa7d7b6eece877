----------------------------- MODULE MCHarness -----------------------------
(* A canary, two threats and two harmless probes; controls that stop both  *)
(* threats, one of them, everything, a harmless one, the canary.           *)
EXTENDS Harness

CONSTANTS canary, article, form, eicar, spring

MCCatalog == <<canary, article, eicar, form, spring>>

MCMarks == [p \in {canary, article, eicar, form, spring} |->
              CASE p = eicar -> {"EICAR", "payload"} [] p = spring -> {"classLoader", "payload"}
                [] p = form -> {"form", "payload"}   [] OTHER -> {"payload"}]

MCBodies == {{}, {form}}

Rule(mark, act) == [mark |-> mark, act |-> act]

MCPolicies ==
  {<<Rule("EICAR", "drop"), Rule("classLoader", "sanitize")>>,
   <<Rule("payload", "sanitize"), Rule("EICAR", "drop")>>,
   <<Rule("EICAR", "drop"), Rule("form", "drop")>>,
   <<Rule("payload", "drop")>>}
=============================================================================
