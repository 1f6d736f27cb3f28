--------------------------- MODULE MCTokenGateway ---------------------------
(* One ordinary handoff, one group of two slots, one provider with one model and
   a session of each: the provider's budget is shared, so that a settlement and a
   partial release decide whether the next reservation fits. *)
EXTENDS TokenGateway

MCHandoffs == {"h1"}
MCGroups == {"g"}
MCSlotsOf == [g \in MCGroups |-> <<"a", "b">>]
MCKeys == {"provider", "model", "session h1", "session a", "session b"}
MCKinds == {{"provider"}, {"model"}, {"session h1", "session a", "session b"}}
MCKeysOf == [h1 |-> {"provider", "model", "session h1"},
             a |-> {"provider", "model", "session a"},
             b |-> {"provider", "model", "session b"}]
MCTotal == [h1 |-> 2, a |-> 1, b |-> 2]
MCHold == [a |-> 2, b |-> 2]
MCCap == [k \in MCKeys |-> IF k = "provider" THEN 6 ELSE IF k = "model" THEN 7 ELSE 4]
=============================================================================
