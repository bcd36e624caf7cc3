-------------------------- MODULE MCParameterPolicy --------------------------
(***************************************************************************)
(* Sample inputs for ParameterPolicyLaws: nodes with one parameter of      *)
(* every small range and labelling, policies that overlap.                 *)
(***************************************************************************)
EXTENDS ParameterPolicyLaws, TLC

Samples ==
  [sens |-> [type |-> "range", unit |-> None, scale |-> <<1, 5>>],
   led  |-> [type |-> "bool", unit |-> None, scale |-> None],
   wake |-> [type |-> "value", unit |-> "minutes", scale |-> None],
   step |-> [type |-> "value", unit |-> "%", scale |-> None],
   lost |-> [type |-> "bool", unit |-> None, scale |-> None]]

Where ==
  [sens |-> [labels |-> {"sensitivity"}, fixed |-> None],
   led  |-> [labels |-> {"led", "light"}, fixed |-> None],
   step |-> [labels |-> {"threshold"}, fixed |-> None],
   wake |-> [labels |-> {}, fixed |-> "wakeUpInterval"]]

Odd == <<"sens", "acme", "odd">> :> [invert |-> TRUE, off |-> None, on |-> None]
       @@ <<"led", "acme", "odd">> :> [invert |-> FALSE, off |-> 2, on |-> None]

Percent == "%" :> 1 @@ "0.1 %" :> 10
Seconds == "seconds" :> 1 @@ "minutes" :> 60 @@ "hours" :> 3600

Kinds == {"motion", "contact", "lock", "siren"}

Value(id, label, range, unit, states) ==
  [id |-> id, class |-> IF id = "wakeUpInterval" THEN "wake" ELSE "config",
   label |-> label, range |-> range, unit |-> unit, states |-> states]

Node(id, model, listening, entities, values) ==
  [id |-> id, registered |-> TRUE, maker |-> "acme", model |-> model,
   listening |-> listening, entities |-> entities, values |-> values]

Labels == {"off", "low", "high", "x"}

\* Raw values 0..n labelled in every way.
Labelled(n) ==
  {[i \in 1..(n + 1) |-> <<i - 1, l[i]>>] : l \in [1..(n + 1) -> Labels]}

Sensors ==
  {Node(2, m, FALSE, {<<"binary_sensor", "motion">>},
        {Value("7", "sensitivity", <<0, n>>, None, s)}) :
     <<m, n, s>> \in UNION {{"even", "odd"} \X {n} \X Labelled(n) : n \in 1..3}}

Lights ==
  {Node(3, m, TRUE, {},
        {Value("9", "led", r, None, [i \in DOMAIN s |-> <<i - 1, s[i]>>])}) :
     m \in {"even", "odd"}, r \in {<<0, 1>>, <<0, 2>>, <<0, Bad>>},
     s \in UNION {[1..k -> {"off", "on", "x"}] : k \in 0..2}}

Meters ==
  {Node(4, "even", FALSE, {}, {Value(v[1], v[2], r, v[3], <<>>)}) :
     v \in {"wakeUpInterval"} \X {"wake"} \X {None, "minutes", "hours"}
           \cup {"5"} \X {"threshold"} \X {"%", "0.1 %", "seconds"},
     r \in {<<0, 10>>, <<60, 600>>, <<Bad, 5>>}}

\* A house: a motion sensor with two values of one label, a door, a lock.
House ==
  {Node(5, "pir", FALSE, {<<"binary_sensor", "motion">>},
        {Value("1", "sensitivity", <<0, 8>>, None, <<<<0, "off">>>>),
         Value("2", "led", <<0, 1>>, None, <<>>),
         Value("3", "light", <<0, 1>>, None, <<>>),
         Value("wakeUpInterval", "wake", <<60, 600>>, None, <<>>)}),
   Node(6, "door", FALSE, {<<"binary_sensor", "garage_door">>},
        {Value("1", "led", <<0, 1>>, None, <<>>),
         Value("9", "sensitivity", <<0, 0>>, None, <<>>)}),
   Node(7, "bolt", TRUE, {<<"lock", None>>}, {})}

AllNodes == Sensors \cup Lights \cup Meters \cup House

Every == [maker |-> None, model |-> None, power |-> None, kind |-> None]

Policy(name, match, settings) ==
  [name |-> name, match |-> match, settings |-> settings, exclude |-> {}]

SomePolicies ==
  {Policy("all", [Every EXCEPT !.maker = "acme"], "wake" :> 600 @@ "led" :> Yes),
   Policy("motion", [Every EXCEPT !.kind = "motion"], "sens" :> 50 @@ "led" :> No),
   [Policy("battery", [Every EXCEPT !.power = "battery"], "led" :> No @@ "sens" :> 30)
      EXCEPT !.exclude = {[Every EXCEPT !.model = "pir"]}],
   Policy("nobody", [Every EXCEPT !.model = "none"], "lost" :> Yes)}
==============================================================================
