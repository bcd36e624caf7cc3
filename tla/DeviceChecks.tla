----------------------------- MODULE DeviceChecks -----------------------------
(***************************************************************************)
(* What the Device Watchdog and the Battery Watchdog find in a house, what *)
(* they say of the include / exclude directives they are given, and what   *)
(* the fix of disabled diagnostics does to the entity registry.            *)
(*                                                                         *)
(* A house h has a registry (a sequence of entries: id, domain, platform,  *)
(* device or None, name, diag, disabled), device names, the entities that  *)
(* have a state (per id: state, when it was last reported) and those that  *)
(* are batteries.  A regex line is the texts it finds: `any' ignoring case,*)
(* as exclusions are matched, and `exact' as written, as it is validated.  *)
(***************************************************************************)
EXTENDS Integers, FiniteSets, SequencesExt, Samples

CONSTANTS
  Recommended,  \* per integration: the diagnostics to have (RECOMMENDED_DIAGNOSTICS)
  Houses,       \* sample houses
  DwOptions,    \* sample options of a Device Watchdog
  BwOptions,    \* sample options of a Battery Watchdog
  Nothing       \* Python's None

\* Home Assistant's registries: an entity_id is there once, None is no device and
\* no integration.
ASSUME ChecksAssumption ==
  /\ \A h \in Houses :
       /\ DOMAIN h = {"names", "registry", "states", "now", "batteries"}
       /\ \A i \in DOMAIN h.registry :
            DOMAIN h.registry[i] = {"id", "domain", "platform", "device", "name", "diag", "disabled"}
       /\ \A i, j \in DOMAIN h.registry : h.registry[i].id = h.registry[j].id => i = j
       /\ Nothing \notin DOMAIN h.names
  /\ \A o \in DwOptions :
       DOMAIN o = {"include", "exclude", "names", "ids", "domains", "threshold", "checks"}
  /\ \A o \in BwOptions :
       /\ DOMAIN o = {"include", "exclude", "includeIds", "excludeIds", "names", "ids",
                     "entityNames", "level"}
       /\ Nothing \notin o.include \cup o.exclude

Entries(h) == ToSet(h.registry)

\* matches_pattern, for the lines of validate_and_join_regex_patterns.
Matched(text, lines) == \E l \in lines : text \in l.any

\* validate_directives_item, validate_directives_regex.
UnmatchedItems(field, directives, candidates) ==
  {<<field, x>> : x \in directives \ candidates}
UnmatchedLines(field, lines, candidates) ==
  {<<field, l>> : l \in {x \in lines : x.exact \cap candidates = {}}}
-----------------------------------------------------------------------------
(* The Device Watchdog.                                                    *)

\* all_integration_ids.
AllIntegrations(h) == {e.platform : e \in Entries(h)}

\* resolve_target_integrations.
Targets(h, o) == (IF o.include = {} THEN AllIntegrations(h) ELSE o.include) \ o.exclude

\* integration_device_ids: disabled entities count.
DevicesOf(h, integrations) ==
  {e.device : e \in {x \in Entries(h) : x.device # Nothing /\ x.platform \in integrations}}

DeviceExcluded(h, o, d) == d \in DevicesOf(h, o.exclude) \/ Matched(h.names[d], o.names)

\* _build_device_inputs: what has a state.
Inputs(h, o, d) ==
  {e \in Entries(h) : e.device = d /\ e.platform \in Targets(h, o) /\ e.id \in DOMAIN h.states}

\* _filter_entities.
Kept(h, o, d) ==
  {e \in Inputs(h, o, d) :
     (o.domains = {} \/ e.domain \in o.domains) /\ ~Matched(e.id, o.ids)}

\* _check_staleness: by the newest report; nothing to judge by is not stale.
Stale(h, o, d) ==
  LET kept == Kept(h, o, d)
  IN kept # {} /\ \A e \in kept : h.now - h.states[e.id].reported > o.threshold

\* _evaluate_device, for one that is not excluded.
DeviceFound(h, o, d) ==
  [unavailable |-> IF "unavailable-entities" \in o.checks
                   THEN {e.id : e \in {x \in Kept(h, o, d) :
                                         h.states[x.id].state \in {"unavailable", "unknown"}}}
                   ELSE {},
   stale |-> "device-updates" \in o.checks /\ Stale(h, o, d)]

\* An entity of a device that has a recommended name of an integration.
Recommends(e, d, i, name) == e.device = d /\ e.platform = i /\ e.diag /\ e.name = name

\* check_disabled_diagnostics: the first entity of a recommended name decides.
DisabledDiagnostics(h, o, d) ==
  {h.registry[j].id : j \in {k \in DOMAIN h.registry :
     /\ h.registry[k].disabled
     /\ \E i \in DOMAIN Recommended \cap Targets(h, o) : \E name \in Recommended[i] :
          /\ Recommends(h.registry[k], d, i, name)
          /\ \A m \in DOMAIN h.registry : m < k => ~Recommends(h.registry[m], d, i, name)}}

\* evaluate_diagnostics: the ids of a repair, or the lines of a notification.
DiagnosticsFound(h, o, d) ==
  IF "disabled-diagnostics" \notin o.checks THEN {}
  ELSE {id \in DisabledDiagnostics(h, o, d) : ~Matched(id, o.ids)}

\* run_evaluation: per device that is not excluded, what is wrong with it.
DwFound(h, o) ==
  [d \in {x \in DOMAIN h.names : ~DeviceExcluded(h, o, x)} |->
     <<DeviceFound(h, o, d), DiagnosticsFound(h, o, d)>>]

\* Mutant: the ids a diagnostics check alone reads are not among the candidates.
DwIdsOfStates(h, o) ==
  {e.id : e \in {x \in Entries(h) : o.domains = {} \/ x.domain \in o.domains}}

\* _async_service_layer: what the lines of exclude_entity_id_regex may find.
DwIdCandidates(h, o) ==
  {e.id : e \in {x \in Entries(h) :
     \/ o.domains = {} \/ x.domain \in o.domains
     \/ /\ "disabled-diagnostics" \in o.checks
        /\ x.device # Nothing /\ x.disabled /\ x.diag
        /\ x.platform \in DOMAIN Recommended /\ x.name \in Recommended[x.platform]}}

DwCandidates(h, o) ==
  [names |-> {h.names[d] : d \in DOMAIN h.names}, ids |-> DwIdCandidates(h, o)]

\* _validate_dw_directives, with the validation on.
DwUnmatched(h, o) ==
  UnmatchedItems("include", o.include, AllIntegrations(h))
    \cup UnmatchedItems("exclude", o.exclude, AllIntegrations(h))
    \cup UnmatchedLines("names", o.names, DwCandidates(h, o).names)
    \cup UnmatchedLines("ids", o.ids, DwCandidates(h, o).ids)

\* Mutant: a repair of which a part is done is taken for done.
FixUnlessPartlyDone(h, ids) ==
  IF \E e \in Entries(h) : e.id \in ids /\ ~e.disabled THEN h
  ELSE [h EXCEPT !.registry =
          [i \in DOMAIN h.registry |-> IF h.registry[i].id \in ids
                                       THEN [h.registry[i] EXCEPT !.disabled = FALSE]
                                       ELSE h.registry[i]]]

\* _fix_disabled_diagnostics: enables what is there and still disabled.
FixDisabledDiagnostics(h, ids) ==
  [h EXCEPT !.registry =
     [i \in DOMAIN h.registry |-> IF h.registry[i].id \in ids
                                  THEN [h.registry[i] EXCEPT !.disabled = FALSE]
                                  ELSE h.registry[i]]]
-----------------------------------------------------------------------------
(* The Battery Watchdog.                                                   *)

\* _battery_inputs: the integration is None for an entity without an entry, the
\* device's integrations are those of all its entries.
Batteries(h) ==
  {LET entry == {e \in Entries(h) : e.id = id}
       device == IF entry = {} THEN Nothing ELSE (CHOOSE e \in entry : TRUE).device
   IN [id |-> id, name |-> h.batteries[id].name, state |-> h.batteries[id].state,
       integration |-> IF entry = {} THEN Nothing ELSE (CHOOSE e \in entry : TRUE).platform,
       device |-> device,
       integrations |-> {e.platform : e \in {x \in Entries(h) :
                                               device # Nothing /\ x.device = device}}]
   : id \in DOMAIN h.batteries}

\* is_low: a binary battery is on or off; a level that is no number is not low.
IsLow(b, level) ==
  CASE b.state[1] = "binary" -> b.state[2]
    [] b.state[1] = "level"  -> 0 <= b.state[2] /\ b.state[2] <= level
    [] OTHER                 -> FALSE

\* is_excluded: a list of batteries is all there is to say.
IsExcluded(h, o, b) ==
  IF o.includeIds # {} THEN b.id \notin o.includeIds
  ELSE \/ o.include # {} /\ b.integration \notin o.include
       \/ b.integration \in o.exclude \/ b.id \in o.excludeIds
       \/ Matched(b.id, o.ids) \/ Matched(b.name, o.entityNames)
       \/ /\ b.device # Nothing
          /\ b.integrations \cap o.exclude # {} \/ Matched(h.names[b.device], o.names)

\* _async_argparse: include_entities is combined with nothing.
BwConflict(o) ==
  /\ o.includeIds # {}
  /\ \E k \in {"include", "exclude", "excludeIds", "names", "ids", "entityNames"} : o[k] # {}

\* run_evaluation: the batteries that are low.
BwFound(h, o) == {b.id : b \in {x \in Batteries(h) : ~IsExcluded(h, o, x) /\ IsLow(x, o.level)}}

\* What the regex lines may find.
BwCandidates(h) ==
  [names       |-> {h.names[b.device] : b \in {x \in Batteries(h) : x.device # Nothing}},
   ids         |-> {b.id : b \in Batteries(h)},
   entityNames |-> {b.name : b \in Batteries(h)}]

\* _validate_bw_directives, with the validation on.
BwUnmatched(h, o) ==
  LET all == Batteries(h)
      own == {b.integration : b \in all} \ {Nothing}
      ids == {b.id : b \in all}
  IN UnmatchedItems("include", o.include, own)
       \cup UnmatchedItems("exclude", o.exclude, own \cup UNION {b.integrations : b \in all})
       \cup UnmatchedItems("includeIds", o.includeIds, ids)
       \cup UnmatchedItems("excludeIds", o.excludeIds, ids)
       \cup UnmatchedLines("names", o.names, BwCandidates(h).names)
       \cup UnmatchedLines("ids", o.ids, BwCandidates(h).ids)
       \cup UnmatchedLines("entityNames", o.entityNames, BwCandidates(h).entityNames)
-----------------------------------------------------------------------------
(* What they promise.                                                      *)

CheckSamples ==
  \E h \in Houses :
    \/ \E o \in DwOptions : sample = [of |-> "dw", input |-> <<h, o>>]
    \/ \E o \in BwOptions : ~BwConflict(o) /\ sample = [of |-> "bw", input |-> <<h, o>>]

\* The options without one directive; the last include is not taken away: without
\* one, everything is included.
Loses(o, u) == [o EXCEPT ![u[1]] = @ \ {u[2]}]
LastInclude(o, u) == u[1] \in {"include", "includeIds"} /\ o[u[1]] = {u[2]}

\* The directive is a regex line that finds a candidate, in another case than it is
\* written in.
Miscased(u, candidates) ==
  u[1] \in DOMAIN candidates /\ candidates[u[1]] \cap (u[2].any \ u[2].exact) # {}

(* Whoever removes a directive that was reported as unmatched changes      *)
(* nothing of what the watchdog finds: the candidates of every validator   *)
(* hold what the exclusion of the same field reads ("flagged as unmatched  *)
(* precisely when it wouldn't filter anything", AUTOMATIONS.md:217).  The  *)
(* one exception is a line in the wrong case: exclusions ignore case       *)
(* (helpers_logic.py:613), their validation does not (:705).               *)
UnmatchedIsUseless ==
  LET h == sample.input[1]
      o == sample.input[2]
  IN /\ sample.of = "dw" =>
          \A u \in DwUnmatched(h, o) :
            \/ LastInclude(o, u) \/ Miscased(u, DwCandidates(h, o))
            \/ DwFound(h, Loses(o, u)) = DwFound(h, o)
     /\ sample.of = "bw" =>
          \A u \in BwUnmatched(h, o) :
            \/ LastInclude(o, u) \/ Miscased(u, BwCandidates(h))
            \/ BwFound(h, Loses(o, u)) = BwFound(h, o)

(* Submitting the repair of a device leaves none for the next scan, also   *)
(* where somebody enabled some of the entities by hand meanwhile, and what *)
(* is wrong with other devices stays as it was                             *)
(* (_fix_disabled_diagnostics against evaluate_diagnostics).               *)
FixLeavesNothing ==
  sample.of = "dw" =>
    LET h == sample.input[1]
        o == sample.input[2]
    IN \A d \in DOMAIN DwFound(h, o) : \A done \in SUBSET DwFound(h, o)[d][2] :
         LET fixed == FixDisabledDiagnostics(FixDisabledDiagnostics(h, done), DwFound(h, o)[d][2])
         IN /\ DwFound(fixed, o)[d][2] = {}
            /\ \A x \in DOMAIN DwFound(h, o) \ {d} : DwFound(fixed, o)[x] = DwFound(h, o)[x]
==============================================================================
