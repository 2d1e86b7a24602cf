-------------------------- MODULE MCDiscordChannel --------------------------
(***************************************************************************)
(* Instances of DiscordChannel for TLC.                                    *)
(***************************************************************************)
EXTENDS DiscordChannel, TLC

CONSTANTS t1, t2, t3, m1, m2, m3, k1, k2, c1

\* A post starts a thread; a reply in it is delivered twice; a /clear is given
\* there too.
ThreadSource == t1 :> "channel" @@ t2 :> "reply" @@ t3 :> "reply"
ThreadMessage == t1 :> m1 @@ t2 :> m2 @@ t3 :> m2
ThreadKey == [t \in Tasks |-> k1]
ThreadScope == [c \in Clears |-> k1]

\* A mention, then a reply, in a thread; an ask in another conversation.
MixedSource == t1 :> "mention" @@ t2 :> "reply" @@ t3 :> "ask"
MixedMessage == t1 :> m1 @@ t2 :> m2 @@ t3 :> m3
MixedKey == t1 :> k1 @@ t2 :> k1 @@ t3 :> k2
=============================================================================
