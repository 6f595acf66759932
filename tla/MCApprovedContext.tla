--------------------------- MODULE MCApprovedContext ---------------------------
(* A price that expires, with a row from before migration 0011, and a name   *)
(* under dispute; two queries with the same content and refused ones.        *)
EXTENDS ApprovedContext, TLC

MCFields == {"offer.price", "studio.name"}
MCTimeSensitive == {"offer.price"}

\* A review may leave a value that is no text, such as an object.
MCValuesOf == "offer.price" :> {"INR 499"} @@ "studio.name" :> {"Northstar", "object"}
MCTextValues == {"INR 499", "Northstar"}

MCSeedFacts ==
  <<[field |-> "offer.price", version |-> 1, value |-> "INR 499",
     governance |-> "available", uses |-> {"campaign_planning"}, verifiedAt |-> 0, expiresAt |-> Null],
    [field |-> "studio.name", version |-> 1, value |-> "Northstar",
     governance |-> "disputed", uses |-> UseCases, verifiedAt |-> 0, expiresAt |-> Null]>>

Asking(keys, useCase, allowed) ==
  [fieldKeys |-> keys, useCase |-> useCase, actorAllowed |-> allowed, sessionExpiresAt |-> 2]

Both == <<"offer.price", "studio.name">>
MCRequests ==
  {Asking(Both, "campaign_planning", TRUE),
   Asking(Both, "concierge_response", TRUE),
   Asking(Both, "campaign_planning", FALSE),
   Asking(<<"offer.price", "offer.price">>, "campaign_planning", TRUE)}

QuerySymmetry == Permutations(Queries)
=============================================================================
