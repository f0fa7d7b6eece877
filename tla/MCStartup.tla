----------------------------- MODULE MCStartup -----------------------------
(* A catalog of five triggers, one of each kind that loading and choosing  *)
(* tell apart, and its broken variants; settings with each of the faults.  *)
EXTENDS Startup

Plain == [id |-> "beacon", cls |-> "ns-ids", runner |-> "curl", of |-> NoName,
          suspect |-> FALSE, requests |-> 2, uses |-> {"devnull"}, declares |-> {},
          required |-> {}, fault |-> "none"]

Feed == [Plain EXCEPT !.id = "nodes", !.cls = "ns-webcc", !.runner = "iprep", !.requests = 1]
Zone == [Plain EXCEPT !.id = "zone", !.cls = "ew", !.runner = "ew", !.of = "servers",
                      !.requests = 1]
Live == [Plain EXCEPT !.id = "live", !.suspect = TRUE, !.requests = 1]
Asks == [Plain EXCEPT !.id = "asks", !.declares = {"host"}, !.uses = {"host"},
                      !.required = {"host"}]

Reviewed == <<Plain, Live, Feed, Zone>>

MCCatalogFiles ==
  {<<>>, Reviewed, <<Zone, Asks>>, <<Plain, Feed, Plain>>,
   <<Live, [Plain EXCEPT !.uses = {"host"}]>>,
   <<[Plain EXCEPT !.fault = "timeout_s"]>>, <<[Asks EXCEPT !.fault = "predicate"]>>}

MCSignedFiles == {<<>>, Reviewed}

Usual == [mapping |-> TRUE, strict |-> FALSE, live |-> FALSE, sample |-> 3,
          unreadable |-> {}, targets |-> <<>>, feeds |-> [tor |-> [sound |-> TRUE]],
          profiles |-> [story |-> [sound |-> TRUE,
                                   triggers |-> <<"zone", "live", "beacon", "zone">>]]]

Lab == [Usual EXCEPT !.live = TRUE, !.sample = 0,
                     !.targets = [servers |-> [sound |-> TRUE, ports |-> 2]]]

NoStory == [Usual EXCEPT !.profiles = <<>>]

MCSettingsFiles ==
  {Usual, Lab, NoStory,
   [Usual EXCEPT !.mapping = FALSE],
   [Lab EXCEPT !.targets.servers.sound = FALSE, !.strict = TRUE],
   [NoStory EXCEPT !.feeds = <<>>],
   [NoStory EXCEPT !.unreadable = {"min_interval_s"}],
   [NoStory EXCEPT !.unreadable = {"ip_rep_sample"}],
   [NoStory EXCEPT !.unreadable = {"default_timeout_s"}]}

Line == [flags |-> {}, strict |-> FALSE, export |-> FALSE, run |-> {"all"},
         profile |-> NoName]

MCCommandLines ==
       {[Line EXCEPT !.run = run, !.profile = profile, !.export = export] :
          run \in {{}, {"all"}, {"ns-ids"}, {"live"}, {"zone", "nodes"}, {"typo"}},
          profile \in {NoName, "story", "typo"}, export \in BOOLEAN}
  \cup {[Line EXCEPT !.flags = flags, !.profile = profile] :
          flags \in {{f} : f \in Flags} \cup {{"profiles", "list"}},
          profile \in {NoName, "story"}}
  \cup {[Line EXCEPT !.strict = TRUE]}
=============================================================================
