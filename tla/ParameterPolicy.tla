--------------------------- MODULE ParameterPolicy ---------------------------
(***************************************************************************)
(* What the Z-Wave Parameter Manager (ZPM) makes of its policy file and    *)
(* the devices there are, given a mapping table that parses: config.py,    *)
(* adapter.py and logic.py of zwave_parameter_manager.  A policy sets      *)
(* device-agnostic concepts on the devices its selector matches; resolving *)
(* a concept on a device finds the one parameter it stands for there and   *)
(* the raw value.                                                          *)
(* Text is compared casefolded: here every name is folded already.         *)
(***************************************************************************)
EXTENDS Integers, Sequences, FiniteSets

CONSTANTS
  Catalog,    \* per concept: type, unit, scale (CATALOG)
  Locators,   \* per located concept: labels, or the one value `fixed'
  Quirks,     \* per <<concept, maker, model>>: invert, off, on
  OnLabels, OffLabels,     \* labels of option states
  LowLabels, HighLabels,   \* labels that hold a low or a high token
  PercentUnits, TimeUnits, \* per unit: raw units per percent, seconds per unit
  DeviceTypes, \* DeviceType
  Yes, No,    \* true and false, as settings have them
  Bad,        \* a value of the wrong type or form
  None        \* Python's None

Concepts == DOMAIN Catalog

SetMin(S) == CHOOSE x \in S : \A y \in S : x <= y
SetMax(S) == CHOOSE x \in S : \A y \in S : x >= y
-----------------------------------------------------------------------------
(* The policy file.  A raw policy has the fields of _POLICY_KEYS, each     *)
(* None (absent), Bad or a value, and `extra' when it has others too; so   *)
(* has a raw selector, whose `keys' are those that stand there: with a     *)
(* value, or with none.                                                    *)

RawSelectorKeys == {"maker", "model", "power", "kind"}

\* _parse_selector: a mapping of known keys, one at least, every value good; a key
\* without a value counts, and asks for nothing.
BadSelector(raw) ==
  \/ raw = Bad
  \/ raw.extra
  \/ raw.keys = {}
  \/ raw.maker = Bad \/ raw.model = Bad
  \/ raw.power \notin {None, "battery", "mains"}
  \/ raw.kind \notin {None} \cup DeviceTypes

\* validate_value; numbers in tenths, for VALUE concepts take fractions.
BadValue(concept, v) ==
  CASE Catalog[concept].type = "bool"  -> v \notin {Yes, No}
    [] Catalog[concept].type = "range" ->
         \/ v \in {Yes, No, Bad}
         \/ v % 10 # 0
         \/ v < 10 * Catalog[concept].scale[1]
         \/ v > 10 * Catalog[concept].scale[2]
    [] OTHER -> v \in {Yes, No, Bad} \/ v < 0

\* _parse_settings.
BadSettings(raw) ==
  \/ raw \in {None, Bad}
  \/ DOMAIN raw = {}
  \/ \E c \in DOMAIN raw : c \notin Concepts \/ BadValue(c, raw[c])

\* _parse_policy, but for the name that another policy before it has.
BadPolicy(raw) ==
  \/ raw = Bad
  \/ raw.extra
  \/ raw.name \in {None, Bad}
  \/ raw.match = None \/ BadSelector(raw.match)
  \/ BadSettings(raw.settings)
  \/ raw.exclude = Bad
  \/ \E i \in DOMAIN raw.exclude : BadSelector(raw.exclude[i])

\* parse_policies: one error is enough for the reconcile to stop there.
ConfigErrors(raws) ==
  \/ \E i \in DOMAIN raws : BadPolicy(raws[i])
  \/ \E i, j \in DOMAIN raws : i < j /\ raws[i].name = raws[j].name

\* The Policy of a raw policy without error.
Selector(raw) == [k \in RawSelectorKeys |-> raw[k]]

ParsedPolicy(raw) ==
  [name     |-> raw.name,
   match    |-> Selector(raw.match),
   settings |-> raw.settings,
   exclude  |-> {Selector(raw.exclude[i]) : i \in DOMAIN raw.exclude}]

ParsedPolicies(raws) == {ParsedPolicy(raws[i]) : i \in DOMAIN raws}
-----------------------------------------------------------------------------
(* Devices: what adapter.py keeps of a node and its entities.              *)

\* Entity domains and device classes that make a device one of a type.
TypeOfEntity(domain, class) ==
  (IF domain \in {"lock", "siren"} THEN {domain} ELSE {})
  \cup (IF class \in {"window", "door", "garage_door"} THEN {"contact"}
        ELSE {class} \cap (DeviceTypes \ {"lock", "siren", "contact"}))

DerivedTypes(entities) == UNION {TypeOfEntity(e[1], e[2]) : e \in entities}

\* _is_settable_param.
Settable(value) == value.class = "config" \/ value.id = "wakeUpInterval"

\* node_param_metas: ranges only of two ints, states only of int keys.
ParamMetas(values) ==
  {[id     |-> v.id,
    label  |-> v.label,
    range  |-> IF Bad \in {v.range[1], v.range[2]} THEN None ELSE v.range,
    unit   |-> IF v.unit = None /\ v.id = "wakeUpInterval" THEN "seconds" ELSE v.unit,
    states |-> v.states] : v \in {w \in values : Settable(w)}}

\* build_device.  States are a sequence of <<raw value, label>>.
Device(node) ==
  [node      |-> node.id,
   known     |-> node.registered,
   maker     |-> node.maker,
   model     |-> node.model,
   listening |-> node.listening,
   types     |-> DerivedTypes(node.entities),
   params    |-> ParamMetas(node.values)]

\* _ci_eq, selector_matches.
SelectorMatches(sel, d) ==
  /\ sel.maker \in {None, d.maker}
  /\ sel.model \in {None, d.model}
  /\ sel.power = None \/ (sel.power = "battery") = ~d.listening
  /\ sel.kind = None \/ sel.kind \in d.types

PolicyMatches(p, d) ==
  /\ SelectorMatches(p.match, d)
  /\ \A x \in p.exclude : ~SelectorMatches(x, d)
-----------------------------------------------------------------------------
(* Resolving a concept on a device.                                        *)

MatchingParams(d, locator) ==
  {p \in d.params : IF locator.fixed # None THEN p.id = locator.fixed
                    ELSE p.label \in locator.labels}

LabelledValues(p, labels) ==
  {p.states[i][1] : i \in {j \in DOMAIN p.states : p.states[j][2] \in labels}}

\* round(): halves go to the even neighbour.
Rounded(num, den) ==
  LET below == num \div den
      twice == 2 * (num % den)
  IN IF twice < den \/ (twice = den /\ below % 2 = 0) THEN below ELSE below + 1

\* _resolve_bool: the quirk, the label, the end of the range.
BoolRaw(p, value, quirk) ==
  LET special == IF quirk = None THEN None
                 ELSE IF value THEN quirk.on ELSE quirk.off
      named == LabelledValues(p, IF value THEN OnLabels ELSE OffLabels)
  IN IF special # None THEN special
     ELSE IF named # {} THEN SetMin(named)
     ELSE IF p.range # None THEN p.range[IF value THEN 2 ELSE 1]
     ELSE None

\* The raw values of a range without the off values at its ends.
UsableMin(p) ==
  SetMin({r \in p.range[1]..p.range[2] : r \notin LabelledValues(p, OffLabels)}
         \cup {p.range[2] + 1})

\* Mutant: only the low end is cut.
UsableMaxUncut(p) == p.range[2]

UsableMax(p) ==
  SetMax({r \in UsableMin(p)..p.range[2] : r \notin LabelledValues(p, OffLabels)}
         \cup {UsableMin(p) - 1})

FirstLabelled(p, labels) ==
  LET at == {i \in DOMAIN p.states : p.states[i][2] \in labels}
  IN IF at = {} THEN None ELSE p.states[SetMin(at)][1]

\* _detect_descending, and the quirk that decides instead.
Descending(p, quirk) ==
  IF quirk # None THEN quirk.invert
  ELSE LET low  == FirstLabelled(p, LowLabels)
           high == FirstLabelled(p, HighLabels)
       IN low # None /\ high # None /\ high < low

\* _resolve_range.
RangeRaw(p, scale, value, quirk) ==
  IF \/ scale = None \/ p.range = None
     \/ UsableMax(p) <= UsableMin(p)
     \/ \E off \in LabelledValues(p, OffLabels) : UsableMin(p) < off /\ off < UsableMax(p)
  THEN None
  ELSE LET step == Rounded((value - scale[1]) * (UsableMax(p) - UsableMin(p)),
                           scale[2] - scale[1])
       IN IF Descending(p, quirk) THEN UsableMax(p) - step ELSE UsableMin(p) + step

\* _convert_quantity, of tenths.
Converted(tenths, unit, raw) ==
  IF {unit, raw} \cap DOMAIN PercentUnits # {}
  THEN IF raw \in DOMAIN PercentUnits THEN Rounded(tenths * PercentUnits[raw], 10)
       ELSE None
  ELSE IF unit \in DOMAIN TimeUnits /\ raw \in DOMAIN TimeUnits
       THEN Rounded(tenths * TimeUnits[unit], 10 * TimeUnits[raw])
       ELSE None

\* Mutant: not clamped.
ValueRawUnbounded(p, unit, tenths) == Converted(tenths, unit, p.unit)

\* _resolve_value.
ValueRaw(p, unit, tenths) ==
  LET raw == Converted(tenths, unit, p.unit)
  IN IF raw = None \/ p.range = None THEN raw
     ELSE SetMax({p.range[1], SetMin({raw, p.range[2]})})

Raw(p, concept, value, quirk) ==
  CASE Catalog[concept].type = "bool"  -> BoolRaw(p, value = Yes, quirk)
    [] Catalog[concept].type = "range" ->
         RangeRaw(p, Catalog[concept].scale, value \div 10, quirk)
    [] OTHER -> ValueRaw(p, Catalog[concept].unit, value)

Failed(status) == [status |-> status, id |-> None, value |-> None]

\* resolve.
Resolve(d, concept, value) ==
  IF concept \notin DOMAIN Locators THEN Failed("unmappable")
  ELSE LET found == MatchingParams(d, Locators[concept])
           key   == <<concept, d.maker, d.model>>
           quirk == IF key \in DOMAIN Quirks THEN Quirks[key] ELSE None
       IN IF found = {} THEN Failed("not_applicable")
          ELSE IF Cardinality(found) > 1 THEN Failed("ambiguous")
          ELSE LET p   == CHOOSE p \in found : TRUE
                   raw == Raw(p, concept, value, quirk)
               IN IF raw = None THEN Failed("unmappable")
                  ELSE [status |-> "resolved", id |-> p.id, value |-> raw]
-----------------------------------------------------------------------------
(* The plan.                                                               *)

\* A setting of a policy on a device it matches.
Asks(devices, policies) ==
  {a \in [device : devices, policy : policies, concept : Concepts] :
     /\ PolicyMatches(a.policy, a.device)
     /\ a.concept \in DOMAIN a.policy.settings}

\* Mutant: the first of two policies wins.
NeverContested(ask, asks) == FALSE

\* Two policies set the concept on the device.
Contested(ask, asks) ==
  \E other \in asks : /\ other.device = ask.device
                      /\ other.concept = ask.concept
                      /\ other.policy # ask.policy

\* Mutant: a setting that came to an error counts as unused.
UnusedUnlessResolved(policies, asks, resolved, blocked) ==
  {<<p.name, None>> : p \in {q \in policies : \A a \in asks : a.policy # q}}
  \cup {<<a.policy.name, a.concept>> : a \in
          {b \in asks : ~\E x \in resolved : x.policy = b.policy /\ x.concept = b.concept}}

\* _unused: policies that match nothing, settings that came to nothing.
UnusedSettings(policies, asks, resolved, blocked) ==
  {<<p.name, None>> : p \in {q \in policies : \A a \in asks : a.policy # q}}
  \cup {<<a.policy.name, a.concept>> : a \in
          {b \in asks : ~\E x \in resolved \cup blocked :
                           x.policy = b.policy /\ x.concept = b.concept}}

\* What is asked of a device is answered.
Answer(ask) == Resolve(ask.device, ask.concept, ask.policy.settings[ask.concept])

\* PlannedWrite, as _record makes it.
Write(ask) ==
  LET answer == Answer(ask)
  IN [device |-> ask.device, concept |-> ask.concept, policy |-> ask.policy.name,
      id |-> answer.id, value |-> answer.value]

\* The error of a contested ask names all who ask; that of another, the one.
ErrorOf(ask, asks) ==
  <<ask.device, ask.concept,
    {a.policy.name : a \in {x \in asks : x.device = ask.device /\ x.concept = ask.concept}}>>

\* evaluate_policies.
EvaluatePolicies(devices, policies) ==
  LET asks     == Asks(devices, policies)
      clashing == {a \in asks : Contested(a, asks)}
      With(S)  == {a \in asks \ clashing : Answer(a).status \in S}
      resolved == With({"resolved"})
      blocked  == clashing \cup With({"ambiguous", "unmappable"})
  IN [writes   |-> {Write(a) : a \in resolved},
      warnings |-> {<<a.device, a.concept>> : a \in With({"not_applicable"})},
      errors   |-> {ErrorOf(a, asks) : a \in blocked},
      unused   |-> UnusedSettings(policies, asks, resolved, blocked)]
==============================================================================
