-------------------------- MODULE MCParameterManager --------------------------
(***************************************************************************)
(* Small instances of ParameterManager for TLC: a motion sensor, policy    *)
(* files that set its LED on, off, or name a policy twice.                 *)
(***************************************************************************)
EXTENDS ParameterManager, TLC

Samples == [led |-> [type |-> "bool", unit |-> None, scale |-> None]]
Where   == [led |-> [labels |-> {"led"}, fixed |-> None]]
NoQuirk == [k \in {} |-> None]
NoUnits == [u \in {} |-> 1]

Node(id, model, listening) ==
  [id |-> id, registered |-> TRUE, maker |-> "acme", model |-> model,
   listening |-> listening, entities |-> {},
   values |-> {[id |-> "1", class |-> "config", label |-> "led", range |-> <<1, 2>>,
                unit |-> None, states |-> <<>>]}]

Pir == {Node(2, "pir", FALSE)}

\* `model: null' asks for nothing, and is every device.
Match(model) == [maker |-> None, model |-> model, power |-> None, kind |-> None,
                 keys |-> {"model"}, extra |-> FALSE]

Raw1(name, model, value) ==
  [extra |-> FALSE, name |-> name, match |-> Match(model), settings |-> "led" :> value,
   exclude |-> <<>>]

Both  == <<Raw1("all", None, Yes)>>
Other == <<Raw1("pir", "pir", No), Raw1("gone", "gone", Yes)>>
Twice == <<Raw1("all", None, Yes), Raw1("all", "pir", No)>>

OneText  == {Both}
AllTexts == {Both, Other, Twice}

Changes == {"edit", "down", "hand", "ha", "kill", "fail", "mapping", "join"}
==============================================================================
