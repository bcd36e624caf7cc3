------------------------- MODULE ParameterPolicyLaws -------------------------
(***************************************************************************)
(* What the resolver and the planner of the Z-Wave Parameter Manager       *)
(* promise, over sample inputs: every state is one sample.                 *)
(***************************************************************************)
EXTENDS ParameterPolicy, Samples

CONSTANTS
  Nodes,     \* sample nodes, each resolved alone
  Fleet,     \* sample nodes, planned for in every combination
  Policies   \* sample policies, in every combination

Ranges == {c \in DOMAIN Locators : Catalog[c].type = "range"}
Values == {c \in DOMAIN Locators : Catalog[c].type = "value"}

\* The policies are those of a file without errors; no parameter of the fleet
\* stands for two concepts.
ASSUME LawsAssumption ==
  /\ None \notin Concepts
  /\ \A p, q \in Policies : p.name = q.name => p = q
  /\ \A p \in Policies :
       /\ p = [name |-> p.name, match |-> p.match, settings |-> p.settings,
               exclude |-> p.exclude]
       /\ DOMAIN p.settings \subseteq Concepts
  /\ \A n \in Fleet : \A c, e \in DOMAIN Locators :
       (\E v \in MatchingParams(Device(n), Locators[c]),
           w \in MatchingParams(Device(n), Locators[e]) : v.id = w.id) => c = e

\* A catalog of scales and units; a node's parameters have an id of their own and
\* ranges of integers; what takes a time is not located where percents are.
ASSUME CatalogAssumption ==
  /\ None \notin Int
  /\ \A c \in Ranges : LET s == Catalog[c].scale IN s[1] \in Int /\ s[2] \in Int /\ s[1] < s[2]
  /\ \A u \in DOMAIN TimeUnits : TimeUnits[u] \in Nat \ {0}
  /\ \A u \in DOMAIN PercentUnits : PercentUnits[u] \in Nat \ {0}
  /\ \A n \in Nodes :
       /\ \A p, q \in Device(n).params : p.id = q.id => p = q
       /\ \A p \in Device(n).params : p.range # None =>
            p.range[1] \in Int /\ p.range[2] \in Int /\ p.range[1] <= p.range[2]
       /\ \A c \in Values : Catalog[c].unit \in DOMAIN TimeUnits =>
            \A p \in MatchingParams(Device(n), Locators[c]) :
              {Catalog[c].unit, p.unit} \cap DOMAIN PercentUnits = {}

PolicySamples ==
  \/ \E n \in Nodes : sample = [of |-> "device", input |-> Device(n)]
  \/ \E P \in SUBSET Policies, N \in SUBSET Fleet :
       sample = [of |-> "plan", input |-> <<{Device(n) : n \in N}, P>>]
-----------------------------------------------------------------------------
Scale(c) == Catalog[c].scale[1]..Catalog[c].scale[2]

ParamOf(d, id) == CHOOSE p \in d.params : p.id = id

\* A scale concept lands on values of the parameter that are not an "off", its
\* two ends on the first and the last of them, and more is never less: raw values
\* rise with the scale, or fall with it where the device counts backwards
\* (_resolve_range, with the off values trimmed at both ends and the rounding).
ScaleKeepsOrder ==
  sample.of = "device" =>
    LET d == sample.input
        R(c, v) == Resolve(d, c, 10 * v)
    IN \A c \in Ranges :
         (\E v \in Scale(c) : R(c, v).status = "resolved") =>
           LET p      == ParamOf(d, R(c, Catalog[c].scale[1]).id)
               usable == p.range[1]..p.range[2] \ LabelledValues(p, OffLabels)
               lowest == R(c, Catalog[c].scale[1]).value
               most   == R(c, Catalog[c].scale[2]).value
           IN /\ {lowest, most} = {SetMin(usable), SetMax(usable)}
              /\ \A v \in Scale(c) : R(c, v).value \in usable
              /\ \A v, w \in Scale(c) : v <= w =>
                   IF lowest < most THEN R(c, v).value <= R(c, w).value
                                    ELSE R(c, v).value >= R(c, w).value

\* A quantity becomes the nearest value the parameter can take: none is nearer
\* to it, in the unit of the parameter (_convert_quantity and the clamp).
QuantityIsNearest ==
  sample.of = "device" =>
    LET d == sample.input
        Unit(u) == IF u \in DOMAIN TimeUnits THEN TimeUnits[u] ELSE 1
        Abs(x)  == IF x < 0 THEN -x ELSE x
    IN \A c \in Values, tenths \in {0, 5, 10, 15, 200, 6000} :
         LET res == Resolve(d, c, tenths)
         IN res.status = "resolved" =>
              LET p == ParamOf(d, res.id)
                  Off(raw) == IF Catalog[c].unit \in DOMAIN TimeUnits
                              THEN Abs(10 * raw * Unit(p.unit) - tenths * Unit(Catalog[c].unit))
                              ELSE Abs(10 * raw - tenths * PercentUnits[p.unit])
              IN p.range # None =>
                   /\ res.value \in p.range[1]..p.range[2]
                   /\ \A raw \in p.range[1]..p.range[2] : Off(res.value) <= Off(raw)

\* Every setting of every policy on every device it matches is answered once:
\* a write, a warning or an error; and no parameter of a device is written two
\* values, whatever policies overlap (evaluate_policies leaves out both).
OneAnswer ==
  sample.of = "plan" =>
    LET plan == EvaluatePolicies(sample.input[1], sample.input[2])
        Wrote(a) == \E w \in plan.writes : w.device = a.device /\ w.concept = a.concept
    IN /\ \A a \in Asks(sample.input[1], sample.input[2]) :
            LET warned == <<a.device, a.concept>> \in plan.warnings
                failed == \E e \in plan.errors : e[1] = a.device /\ e[2] = a.concept
            IN Cardinality({x \in {<<"write", Wrote(a)>>, <<"warning", warned>>,
                                   <<"error", failed>>} : x[2]}) = 1
       /\ \A w, x \in plan.writes :
            w.device = x.device /\ w.id = x.id => w.value = x.value

\* The policy without one of its settings.
Without(p, c) ==
  [p EXCEPT !.settings = [x \in DOMAIN p.settings \ {c} |-> p.settings[x]]]

\* A setting is reported unused exactly when removing it would change neither a
\* write nor an error, and a policy when no device is its own (_unused).
UnusedIsUseless ==
  sample.of = "plan" =>
    LET devices  == sample.input[1]
        policies == sample.input[2]
        plan     == EvaluatePolicies(devices, policies)
        Useful(p, c) ==
          LET less == EvaluatePolicies(devices, (policies \ {p}) \cup {Without(p, c)})
          IN less.writes # plan.writes \/ less.errors # plan.errors
        Unused(p, c) == {<<p.name, None>>, <<p.name, c>>} \cap plan.unused # {}
    IN \A p \in policies : \A c \in DOMAIN p.settings : Unused(p, c) = ~Useful(p, c)
==============================================================================
