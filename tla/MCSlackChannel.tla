--------------------------- MODULE MCSlackChannel ---------------------------
(***************************************************************************)
(* An instance of SlackChannel for TLC. The events of one run are those of *)
(* a thread where the bot is mentioned again, which Slack sends as two     *)
(* events; of a thread another user answers in; of two asks and a /clear in*)
(* a channel; or of a direct message and a modal.                          *)
(***************************************************************************)
EXTENDS SlackChannel, TLC

CONSTANTS e1, e2, e3, e4, e5, e6, e7, e8, u1, u2, k1, k2, k3, c1

MCSource ==
  e1 :> "mention" @@ e2 :> "reply" @@ e3 :> "mention" @@ e4 :> "reply" @@
  e5 :> "ask" @@ e6 :> "ask" @@ e7 :> "dm" @@ e8 :> "modal"
MCPostOf == [e \in Tasks |-> IF e = e3 THEN e2 ELSE e]
MCUserOf == [e \in Tasks |-> IF e = e4 THEN u2 ELSE u1]
MCKeyOf == [e \in Tasks |-> IF e \in {e5, e6} THEN k2 ELSE IF e \in {e7, e8} THEN k3 ELSE k1]
MCScopeOf == c1 :> k2
MCTogether == {{e1, e2, e3}, {e1, e2, e4}, {e5, e6, c1}, {e7, e8}}
=============================================================================
