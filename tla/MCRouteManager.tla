--------------------------- MODULE MCRouteManager ---------------------------
(***************************************************************************)
(* Small instances of RouteManager for TLC: a lamp (awake), a lock (sleepy *)
(* and negotiating down), a plug that carries their routes.                *)
(***************************************************************************)
EXTENDS RouteManager, TLC

CONSTANTS lamp, lock, plug, ghost

Fact(node, rate, listening) ==
  [node |-> node, rate |-> rate, longRange |-> FALSE, failed |-> FALSE,
   routing |-> listening, listening |-> listening]

House == lamp :> Fact(2, 3, TRUE) @@ lock :> Fact(3, 2, FALSE)
           @@ plug :> Fact(4, 3, TRUE)

SpeedsOfHouse == 2 :> 3 @@ 3 :> 1 @@ 4 :> 3

Sleepers == {3}

Client(shape, names, speed) == [shape |-> shape, names |-> names, speed |-> speed]
Through(repeater, speed, clients) ==
  [shape |-> "mapping", repeater |-> repeater, speed |-> speed, clients |-> clients]
Via(speed, clients) == Through(plug, speed, clients)
Text(entries) == [read |-> "read", entries |-> entries]

\* Both through the plug: the lamp at a speed of its own, the lock at any.
Full == Text(<<Via(None, <<Client("entity", <<lamp>>, 2), Client("bare", <<lock>>, None)>>)>>)

\* The lamp's line is gone, and the lock is listed twice: its last line counts,
\* which takes it through the lamp.
Shorter == Text(<<Via(3, <<Client("bare", <<lock>>, None)>>),
                  Through(lamp, None, <<Client("entities", <<lock>>, None)>>)>>)

\* What does not parse, what does not resolve, and no file.
Typo    == Text(<<Via(Bad, <<Client("bare", <<lamp>>, None)>>)>>)
Unknown == Text(<<Via(None, <<Client("bare", <<lock, ghost>>, None)>>)>>)
Missing == [read |-> "missing", entries |-> <<>>]

OneFile  == {Full}
AllFiles == {Full, Shorter, Typo, Unknown}

NoRoutes == {}
ByHand   == {[via |-> 4, speed |-> 1]}

\* The file is edited, answers are partial or late, memory gets lost.
Losses == {"edit", "unread", "gone", "drop", "restart", "timeout", "mismatch",
           "refuse", "manual", "nack"}

\* Reconciles fail on the way, between people's own changes.
Failures == {"hand", "timeout", "reject", "cut", "reload", "calm"}
=============================================================================
