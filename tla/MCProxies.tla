------------------------------- MODULE MCProxies -------------------------------
(* A device with one or two daemons that answer, and Activities that require   *)
(* combinations of what they report.                                           *)
EXTENDS Proxies

Down == [state |-> "disconnected", network |-> "usable", onInternet |-> "no",
         networkConfidenceLevel |-> "none"]
Up(confidence) ==
  [state |-> "connected", network |-> "usable", onInternet |-> "yes",
   networkConfidenceLevel |-> confidence]

MCStatuses ==
  {[isInternetConnectionAvailable |-> TRUE, wifi |-> Up("excellent"), wan |-> Down],
   [isInternetConnectionAvailable |-> TRUE, wifi |-> Down, wan |-> Up("poor")],
   [isInternetConnectionAvailable |-> FALSE, wifi |-> NoNetwork,
    wan |-> [Up("fair") EXCEPT !.network = "unusable"]]}

MCSpecs ==
  {{<<"wan", 1>>, <<"internetConfidence", 2>>},
   {<<"internet", 1>>},
   {<<"battery", 20>>, <<"charging", 1>>},
   {<<"battery", 50>>, <<"docked", 1>>},
   {<<"telephony", 1>>},
   {<<"bootup", 1>>}}

MCUpSets == {{"connection manager"}, {"powerd"}, {"telephony"}, {"system manager"}}
=============================================================================
