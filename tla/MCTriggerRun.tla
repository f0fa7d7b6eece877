---------------------------- MODULE MCTriggerRun ----------------------------
(* One trigger of every sort in the catalog: a payload over curl whose     *)
(* block page is known, one over IPv6 and one over HTTP/3, a DNS and a TCP *)
(* probe, two east-west ports, and a reputation feed.                      *)
EXTENDS TriggerRun

Kind(runner, requests, needs, onBlock) ==
  [runner |-> runner, requests |-> requests, needs |-> needs,
   onBlock |-> onBlock, onAllow |-> <<>>]

CurlPage(n) == [Kind("curl", n, {}, [body_contains |-> "denied"])
                  EXCEPT !.onAllow = [http_code |-> 200]]

MCKinds ==
  {CurlPage(2),
   Kind("curl", 1, {"ipv6"}, <<>>),
   Kind("curl", 1, {"http3"}, [http_code_in |-> {403, 451}]),
   Kind("tcp", 1, {"ipv6", "http3"}, <<>>),
   Kind("dns", 3, {}, <<>>),
   Kind("tcp", 1, {}, [rc_nonzero |-> TRUE]),
   Kind("ew", 3, {}, <<>>),
   Kind("iprep", 2, {}, <<>>)}

(* Those that rest on a cached answer, about the IPv6 route or of a feed,  *)
(* are run several times in a row.                                         *)
MCRepeated == {k \in MCKinds : "ipv6" \in k.needs \/ k.runner = "iprep"}

(* One with everything configured, one with nothing.                       *)
MCSites == {[alternate |-> all, http3 |-> all, ipv6Url |-> all,
             controls |-> IF all THEN <<"tcp", "dns">> ELSE <<>>] : all \in BOOLEAN}
=============================================================================
