-------------------------------- MODULE MCLaws --------------------------------
(***************************************************************************)
(* Sample inputs for the laws of pure functions: those of the parameter    *)
(* policies, and small houses with the options of the watchdogs over them. *)
(***************************************************************************)
EXTENDS MCParameterPolicy, DeviceChecks

Diagnostics == [zwave |-> {"seen", "rssi"}, shelly |-> {"rssi"}]

Entry(id, domain, platform, device, name, diag, disabled) ==
  [id |-> id, domain |-> domain, platform |-> platform, device |-> device,
   name |-> name, diag |-> diag, disabled |-> disabled]

\* A Z-Wave lamp with an entity of another integration, a plug, a helper; two
\* entities of the lamp carry one recommended name.
Registry(seen, rssi) ==
  <<Entry("lamp", "light", "zwave", "lamp", "light", FALSE, FALSE),
    Entry("charge", "sensor", "zwave", "lamp", "battery", TRUE, FALSE),
    Entry("seen", "sensor", "zwave", "lamp", "seen", TRUE, seen),
    Entry("seen 2", "sensor", "zwave", "lamp", "seen", TRUE, TRUE),
    Entry("rssi", "sensor", "zwave", "lamp", "rssi", TRUE, rssi),
    Entry("extra", "switch", "mqtt", "lamp", "extra", FALSE, TRUE),
    Entry("plug", "switch", "shelly", "plug", "plug", FALSE, FALSE),
    Entry("plug rssi", "sensor", "shelly", "plug", "rssi", TRUE, rssi),
    Entry("helper", "switch", "template", Nothing, "helper", FALSE, FALSE)>>

State(state, reported) == [state |-> state, reported |-> reported]

SomeHouses ==
  {[names |-> [lamp |-> "Lamp", plug |-> "Plug"],
    registry |-> Registry(v[1], v[2]),
    states |-> "lamp" :> State("on", 3) @@ "charge" :> State("unknown", 0)
               @@ "plug" :> State(v[3], 0) @@ "helper" :> State("on", 0),
    now |-> 4,
    batteries |-> "charge" :> [name |-> "Lamp charge", state |-> <<"level", v[4]>>]
                  @@ "mouse" :> [name |-> "Mouse", state |-> <<"binary", TRUE>>]
                  @@ "helper" :> [name |-> "Helper", state |-> <<"text", Nothing>>]] :
     v \in BOOLEAN \X BOOLEAN \X {"on", "unavailable"} \X {20}
           \cup {TRUE} \X {FALSE} \X {"on"} \X {-1, 0, 21}}

\* A line that finds these texts as it is written, and one written in another case.
Line(texts)     == [any |-> texts, exact |-> texts]
Miswrote(texts) == [any |-> texts, exact |-> {}]

Platforms == {"zwave", "mqtt", "gone"}

SomeDwOptions ==
  [include : SUBSET (Platforms \ {"mqtt"}), exclude : SUBSET Platforms,
   names : SUBSET {Line({"Lamp"}), Line({})},
   ids : SUBSET {Line({"seen"}), Line({"extra", "charge"}), Miswrote({"plug rssi"})},
   domains : {{}, {"light", "switch"}}, threshold : {2},
   checks : {{"unavailable-entities", "device-updates"},
             {"unavailable-entities", "device-updates", "disabled-diagnostics"}}]

SomeBwOptions ==
  [include : SUBSET {"zwave", "gone"}, exclude : SUBSET Platforms,
   includeIds : SUBSET {"charge", "lamp"}, excludeIds : SUBSET {"charge", "lamp"},
   names : SUBSET {Line({"Lamp"}), Line({"Plug"})},
   ids : SUBSET {Line({"mouse"}), Miswrote({"plug"})},
   entityNames : SUBSET {Line({"Lamp charge"}), Line({})}, level : {20}]

Init == PolicySamples \/ CheckSamples

Spec == Init /\ [][Next]_sample
==============================================================================
