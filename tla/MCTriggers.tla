------------------------------ MODULE MCTriggers -------------------------------
(* Triggers of every kind, on a service that reports a session and the changes *)
(* it has seen.                                                                *)
EXTENDS Triggers

Report(session, items) == Object([session |-> Number(session), list |-> ArrayOf(items)])
Item(n) == Object([n |-> Number(n)])

MCResponses ==
  {Report(0, << >>), Report(1, <<Item(1), Item(2)>>), Report(2, <<Item(1)>>),
   Object([fired |-> Number(1)])}

Where(clause) == [kind |-> "where", where |-> clause]

MCSpecs ==
  {[kind |-> "simple"],
   [kind |-> "key", key |-> "fired"],
   [kind |-> "compare", key |-> "session", value |-> Number(0)],
   Where(All(<<Key("session", ">=", Number(1)), Prop(<<"list", "n">>, "<", Number(2))>>)),
   Where(Or(All(<<Key("fired", "=", Number(1)), Prop(<<"list", "n">>, "=", Number(2))>>)))}

MCUpdates == {[kind |-> "compare", key |-> "session", value |-> Number(0)]}
=============================================================================
