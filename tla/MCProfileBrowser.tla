--------------------------- MODULE MCProfileBrowser ---------------------------
(* Two releases, the second without one of the fields; the clock may show a  *)
(* time before INITIAL_TIME.                                                 *)
EXTENDS ProfileBrowser, TLC

MCPlaybooks == {"yoga@1", "yoga@2"}
MCFieldsOf == "yoga@1" :> {"studio", "offer"} @@ "yoga@2" :> {"studio"}
MCSectionOf == "studio" :> "business" @@ "offer" :> "offer"
MCSections == {"business", "offer"}
MCValues == {"a"}
MCTimes == {0, 1, 2}
=============================================================================
