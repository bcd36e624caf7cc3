----------------------------- MODULE EntityDefaults -----------------------------
(***************************************************************************)
(* The Entity Defaults Watchdog and the entity registry: what a scan finds *)
(* (names and ids that differ from the defaults, stale cached names,       *)
(* aliased entities left visible, scripts under an older YAML key), and    *)
(* what the fix services do to the registry with the payloads of that      *)
(* scan, in whatever order somebody submits them.                          *)
(*                                                                         *)
(* A name is <<p, r>>: p says that it begins with the default name of the  *)
(* device (which carries another name by now), r is the rest.  An id is    *)
(* <<domain, name, n>>: the slug of the name, with a suffix from n = 2.    *)
(***************************************************************************)
EXTENDS Integers, FiniteSets, SequencesExt

CONSTANTS
  Device,     \* the entities of the device, in order
  Others,     \* the entities without a device, in the order of the registry
  Scripts,    \* those of them that are scripts
  Fleets,     \* sets of entities a registry may hold
  Rests,      \* what names are made of; None: nothing
  Checks,     \* drift_checks
  Env,        \* what the surroundings do in this instance
  MaxTrouble, \* bound: how often they do
  None

EnvKinds == {"id", "name", "cache", "unhide"}

Entities == ToSet(Device) \cup ToSet(Others)

\* The places of the entities in a scan.
Order == Device \o Others
Places == 1..Len(Order)

ASSUME DefaultsAssumption ==
  /\ Device \in Seq(Entities) /\ Others \in Seq(Entities)
  /\ \A i, j \in Places : Order[i] = Order[j] => i = j
  /\ Scripts \subseteq ToSet(Others)
  /\ Checks \subseteq {"device-entity-id", "device-entity-name", "entity-id",
                       "visible-aliased-entity", "script-yaml-key"}
  /\ Env \subseteq EnvKinds /\ MaxTrouble \in Nat
  /\ None \in Rests
  /\ Fleets \subseteq (SUBSET Entities) \ {{}}

VARIABLES
  reg,      \* per entity that exists: its id; has_entity_name; original name; name override
            \* or None; whether object_id_base is stale; whether it is aliased
            \* and visible; a script's YAML key (its unique_id)
  excluded, \* exclude_entity_ids
  repairs,  \* the payloads of the last scan, one per issue
  since,    \* history, since that scan: nothing, "fixes", "hands" on the registry
  seen,     \* history: the registry of that scan, while no hands were on it
  orphans,  \* ids of registry entries of scripts that are no more
  doubled,  \* keys that two blocks of scripts.yaml have: HA reads the later
  failed,   \* history: payloads that were fresh, and their fix service raised
  trouble   \* how often the surroundings still interfere

vars == <<reg, excluded, repairs, since, seen, orphans, doubled, failed, trouble>>

May(kind) == kind \in Env /\ trouble > 0

Interfere == trouble' = trouble - 1 /\ since' = "hands" /\ seen' = <<>>

Names == BOOLEAN \X Rests
Empty == <<FALSE, None>>
Domain(e) == IF e \in Scripts THEN "script" ELSE "light"

Ids == {"light", "script"} \X Names \X (Nat \ {0})

Present == DOMAIN reg

Slugs == Names \X (Nat \ {0})

Entry ==
  [id : Ids, has : BOOLEAN, original : Names, override : Names \cup {None},
   stale : BOOLEAN, aliased : BOOLEAN, key : Slugs \cup {None}]

\* The payload of a fix service: old and new ids per place of the scan; ids and
\* names; ids; one id; a script's id, its key and what it is to be.
PayloadOK(x) ==
  \/ /\ x.kind = "id"
     /\ DOMAIN x.renames \subseteq Places
     /\ \A i \in DOMAIN x.renames :
          x.renames[i] \in Ids \X Ids /\ x.renames[i][1][1] = x.renames[i][2][1]
  \/ x.kind = "name" /\ x.targets \subseteq Ids \X (Names \cup {None})
  \/ x.kind = "cached" /\ x.ids \subseteq Ids
  \/ x.kind = "aliased" /\ x.id \in Ids
  \/ /\ x.kind = "key" /\ x.id \in Ids /\ x.id[1] = "script"
     /\ {x.old, x.new} \subseteq Slugs /\ x.old # x.new

TypeOK ==
  /\ Present \subseteq Entities /\ reg \in [Present -> Entry]
  /\ \A e \in Present : reg[e].id[1] = Domain(e)
  /\ \A d, e \in Present : reg[d].id = reg[e].id => d = e
  /\ orphans \subseteq Ids /\ IsFiniteSet(orphans)
  /\ excluded \subseteq Ids
  /\ doubled \subseteq Slugs
  /\ \A x \in repairs \cup failed : PayloadOK(x)
  /\ since \in {"nothing", "fixes", "hands"}
  /\ seen = <<>> \/ seen \in [DOMAIN seen -> Entry]
  /\ trouble \in 0..MaxTrouble
-----------------------------------------------------------------------------
(* What a scan finds.                                                      *)

\* Registry: entity_name, the override if there is one.
Name(r) == IF r.override # None THEN r.override ELSE r.original

\* strip_device_prefix, for the default name of the device.
StripDevicePrefix(name) == IF name[1] THEN <<FALSE, name[2]>> ELSE None

\* _compute_recommended_override.
Recommended(e, r) ==
  IF e \notin ToSet(Device) \/ r.has \/ r.original = Empty THEN None
  ELSE StripDevicePrefix(r.original)

NamePending(e, r) ==
  Name(r) # Empty /\ Recommended(e, r) # None /\ Name(r) # Recommended(e, r)

IdTaken(R, e, id) == id \in orphans \/ \E d \in DOMAIN R \ {e} : R[d].id = id

\* One more than there are ids in use.
Numbers(R, reserved) ==
  1..(Cardinality(DOMAIN R) + Cardinality(orphans) + Cardinality(reserved) + 1)

\* Mutant: nothing is reserved for the entities before.
AvailableAlone(R, e, reserved) ==
  LET Free(n) == ~IdTaken(R, e, <<Domain(e), Name(R[e]), n>>) IN
  <<Domain(e), Name(R[e]),
    CHOOSE n \in Numbers(R, reserved) : Free(n) /\ \A m \in 1..(n - 1) : ~Free(m)>>

\* async_regenerate_entity_id and async_get_available_entity_id of HA: the
\* first suffix that no other entity has and this scan has not handed out.
Available(R, e, reserved) ==
  LET Free(n) == LET id == <<Domain(e), Name(R[e]), n>> IN ~IdTaken(R, e, id) /\ id \notin reserved IN
  <<Domain(e), Name(R[e]),
    CHOOSE n \in Numbers(R, reserved) : Free(n) /\ \A m \in 1..(n - 1) : ~Free(m)>>

\* _cached_name_drift: not where an override decides.
Stale(R, e) == R[e].stale /\ R[e].override = None

\* Nothing is built from a stale name; a script without a name keeps its id.
Keeps(R, e) == IF e \in Scripts THEN Name(R[e]) = Empty ELSE Stale(R, e)

\* The places at which a scan hands out an id.
Handing(R) == {i \in Places : Order[i] \in DOMAIN R /\ ~Keeps(R, Order[i])}

\* What the entity of the next place is to be called, given those before it.
Assign(R, ids) ==
  LET n == Len(ids) + 1
      e == Order[n]
  IN Append(ids,
       IF e \notin DOMAIN R THEN None
       ELSE IF Keeps(R, e) THEN R[e].id
       ELSE Available(R, e, {ids[i] : i \in Handing(R) \cap 1..Len(ids)}))

\* _build_device_inputs and _build_deviceless_inputs: what the entity of each
\* place is to be called.
Expected(R) ==
  LET ids[n \in 0..Len(Order)] == IF n = 0 THEN <<>> ELSE Assign(R, ids[n - 1])
  IN ids[Len(Order)]

Excluded(r) == r.id \in excluded

\* _check_entity_drift: the id; not while a name fix would change it.
IdDrifted(e, r, expected) ==
  /\ "device-entity-id" \in Checks /\ ~Excluded(r)
  /\ ~(NamePending(e, r) /\ "device-entity-name" \in Checks)
  /\ ~(r.stale /\ r.override = None) /\ r.id # expected

\* _check_entity_drift: the name.
NameDrifted(e, r) ==
  /\ "device-entity-name" \in Checks /\ ~Excluded(r)
  /\ Name(r) # Empty
  /\ IF Recommended(e, r) # None THEN NamePending(e, r)
     ELSE r.override # None /\ r.override # r.original

\* _evaluate_deviceless.
DevicelessDrifted(R, e, expected) ==
  "entity-id" \in Checks /\ ~Excluded(R[e]) /\ ~Stale(R, e) /\ R[e].id # expected

\* _evaluate_script_yaml_key_drift: the key is the slug of the id.
Slug(id) == <<id[2], id[3]>>
KeyDrifted(r) == "script-yaml-key" \in Checks /\ ~Excluded(r) /\ r.key # Slug(r.id)

\* An alias hides its source; this one shows (_extract_visible_aliased_candidates).
ShowsTwice(r) == r.aliased

\* The old and the new ids of the entities at these places.
IdRepair(R, expected, places) ==
  [kind |-> "id", renames |-> [i \in places |-> <<R[Order[i]].id, expected[i]>>]]

\* _evaluate_device: one issue for the ids of the device, one for its names.
DeviceRepairs(R, expected) ==
  LET drifted == {i \in 1..Len(Device) :
                    Order[i] \in DOMAIN R /\ IdDrifted(Order[i], R[Order[i]], expected[i])}
      named   == {e \in ToSet(Device) \cap DOMAIN R : NameDrifted(e, R[e])}
  IN {IdRepair(R, expected, places) : places \in {drifted} \ {{}}}
     \cup {x \in {[kind |-> "name", targets |-> {<<R[e].id, Recommended(e, R[e])>> : e \in named}]} :
             named # {}}

\* One for each entity without a device.
DevicelessRepairs(R, expected) ==
  {IdRepair(R, expected, {i}) : i \in
     {j \in Places \ 1..Len(Device) :
        Order[j] \in DOMAIN R /\ DevicelessDrifted(R, Order[j], expected[j])}}

\* _evaluate_cached_name_drift.
CachedFound(R) ==
  {e \in DOMAIN R :
     /\ (IF e \in ToSet(Device) THEN "device-entity-id" ELSE "entity-id") \in Checks
     /\ Stale(R, e) /\ ~Excluded(R[e])}

\* One for each integration; here there is one.
CachedRepairs(R) ==
  {x \in {[kind |-> "cached", ids |-> {R[e].id : e \in CachedFound(R)}]} : x.ids # {}}

\* _evaluate_visible_aliased_entities.
AliasedFound(R) ==
  {e \in DOMAIN R : "visible-aliased-entity" \in Checks /\ ShowsTwice(R[e]) /\ ~Excluded(R[e])}

\* One for each source of an alias.
AliasedRepairs(R) == {[kind |-> "aliased", id |-> R[e].id] : e \in AliasedFound(R)}

\* One for each script.
KeyRepairs(R) ==
  {[kind |-> "key", id |-> R[s].id, old |-> R[s].key, new |-> Slug(R[s].id)] :
     s \in {t \in Scripts \cap DOMAIN R : KeyDrifted(R[t])}}

\* run_evaluation, with create_repairs and no cap.
Scanned(R) ==
  LET expected == Expected(R)
  IN DeviceRepairs(R, expected) \cup DevicelessRepairs(R, expected) \cup CachedRepairs(R)
       \cup AliasedRepairs(R) \cup KeyRepairs(R)

\* _async_service_layer: one scan, and the payloads it keeps.
Scan ==
  /\ since # "nothing"
  /\ since' = "nothing"
  /\ seen' = reg
  /\ repairs' = Scanned(reg)
  /\ UNCHANGED <<reg, excluded, orphans, doubled, failed, trouble>>
-----------------------------------------------------------------------------
(* The fix services.  A Submit that succeeds takes its issue away.         *)

At(R, id) == {e \in DOMAIN R : R[e].id = id}

\* HA refuses an id that is taken, and no rename comes after.
RenameOne(acc, p) ==
  IF ~acc.ok \/ At(acc.reg, p[1]) = {} \/ p[1] = p[2] THEN acc
  ELSE LET e == CHOOSE d \in At(acc.reg, p[1]) : TRUE IN
       IF IdTaken(acc.reg, e, p[2]) THEN [acc EXCEPT !.ok = FALSE]
       ELSE [acc EXCEPT !.reg[e].id = p[2]]

\* One rename after the other.
Renamed(R, renames) ==
  LET acc[i \in 0..Len(Order)] ==
        IF i = 0 THEN [reg |-> R, ok |-> TRUE]
        ELSE IF i \in DOMAIN renames THEN RenameOne(acc[i - 1], renames[i]) ELSE acc[i - 1]
  IN acc[Len(Order)]

\* The issue of a Submit that raised stays.
Settle(x, ok) ==
  /\ repairs' = IF ok THEN repairs \ {x} ELSE repairs
  /\ failed' = IF ok \/ since = "hands" THEN failed ELSE failed \cup {x}
  /\ since' = IF since # "hands" /\ (ok \/ reg' # reg) THEN "fixes" ELSE since
  /\ UNCHANGED seen

\* _fix_id_drift.
FixIdDrift(x) ==
  /\ x.kind = "id"
  /\ LET done == Renamed(reg, x.renames)
     IN reg' = done.reg /\ Settle(x, done.ok)
  /\ UNCHANGED <<excluded, orphans, doubled, trouble>>

\* Mutant: nothing to recommend leaves the override.
FixNameDriftSet(x) ==
  /\ x.kind = "name"
  /\ reg' = [e \in Present |->
               LET t == {p \in x.targets : p[1] = reg[e].id /\ p[2] # None} IN
               IF t = {} THEN reg[e] ELSE [reg[e] EXCEPT !.override = (CHOOSE p \in t : TRUE)[2]]]
  /\ Settle(x, TRUE)
  /\ UNCHANGED <<excluded, orphans, doubled, trouble>>

\* _fix_name_drift.
FixNameDrift(x) ==
  /\ x.kind = "name"
  /\ reg' = [e \in Present |->
               LET t == {p \in x.targets : p[1] = reg[e].id} IN
               IF t = {} THEN reg[e] ELSE [reg[e] EXCEPT !.override = (CHOOSE p \in t : TRUE)[2]]]
  /\ Settle(x, TRUE)
  /\ UNCHANGED <<excluded, orphans, doubled, trouble>>

\* _fix_cached_name_drift, _refresh_cached_name.
FixCachedName(x) ==
  /\ x.kind = "cached"
  /\ reg' = [e \in Present |-> IF reg[e].id \in x.ids THEN [reg[e] EXCEPT !.stale = FALSE] ELSE reg[e]]
  /\ Settle(x, TRUE)
  /\ UNCHANGED <<excluded, orphans, doubled, trouble>>

\* _fix_visible_aliased.
FixVisibleAliased(x) ==
  /\ x.kind = "aliased"
  /\ reg' = [e \in Present |-> IF reg[e].id = x.id THEN [reg[e] EXCEPT !.aliased = FALSE] ELSE reg[e]]
  /\ Settle(x, TRUE)
  /\ UNCHANGED <<excluded, orphans, doubled, trouble>>

Keyed(key) == {s \in Scripts \cap Present : reg[s].key = key}

\* _fix_script_yaml_key, where scripts.yaml has no such block, or two.
FixScriptKeyFails(x) ==
  /\ x.kind = "key"
  /\ Cardinality(Keyed(x.old)) # 1 \/ x.old \in doubled
  /\ UNCHANGED <<reg, excluded, orphans, doubled, trouble>>
  /\ Settle(x, FALSE)

\* _rewrite finds the block, and once.  (Not here: an id that another script
\* took since.)
Rewrites(x, s) ==
  /\ x.kind = "key"
  /\ Keyed(x.old) = {s} /\ x.old \notin doubled
  /\ reg[s].id = x.id \/ At(reg, x.id) = {}

\* _fix_script_yaml_key: the block gets the key.  The registry entry of the id that
\* the scan saw goes, whosever it is; the script's own stays behind if its id was
\* fixed since; the script, loaded anew, gets the id of the payload.
FixScriptKey(x, s) ==
  /\ Rewrites(x, s)
  /\ Keyed(x.new) = {}
  /\ orphans' = (orphans \cup {reg[s].id}) \ {x.id}
  /\ reg' = [reg EXCEPT ![s].key = x.new, ![s].override = None, ![s].id = x.id]
  /\ Settle(x, TRUE)
  /\ UNCHANGED <<excluded, doubled, trouble>>

\* The same where the block of script t has that key: nothing looks for it.  HA
\* reads the later of the two blocks; that script, w, has the registry entry of t
\* from now on, under the id of the payload, and the other is lost.
FixScriptKeyLoses(x, s, t, w) ==
  /\ Rewrites(x, s)
  /\ t \in Keyed(x.new) /\ w \in {s, t}
  /\ orphans' = (orphans \cup {reg[s].id}) \ {x.id}
  /\ reg' = [e \in Present \ ({s, t} \ {w}) |->
               IF e = w THEN [reg[w] EXCEPT !.key = x.new, !.override = reg[t].override, !.id = x.id]
               ELSE reg[e]]
  /\ doubled' = doubled \cup {x.new}
  /\ Settle(x, TRUE)
  /\ UNCHANGED <<excluded, trouble>>

Submit(x) ==
  \/ FixIdDrift(x) \/ FixNameDrift(x) \/ FixCachedName(x) \/ FixVisibleAliased(x)
  \/ FixScriptKeyFails(x)
  \/ \E s \in Scripts : FixScriptKey(x, s) \/ \E t, w \in Scripts : FixScriptKeyLoses(x, s, t, w)
-----------------------------------------------------------------------------
(* What people and integrations do to the registry.                        *)

RenameId(e, id) ==
  /\ May("id")
  /\ id[1] = Domain(e) /\ ~IdTaken(reg, e, id) /\ id # reg[e].id
  /\ reg' = [reg EXCEPT ![e].id = id]
  /\ Interfere
  /\ UNCHANGED <<excluded, repairs, orphans, doubled, failed>>

Override(e, name) ==
  /\ May("name")
  /\ name # reg[e].override
  /\ reg' = [reg EXCEPT ![e].override = name]
  /\ Interfere
  /\ UNCHANGED <<excluded, repairs, orphans, doubled, failed>>

\* The integration names the entity otherwise from now on.
CacheGoesStale(e) ==
  /\ May("cache")
  /\ e \notin Scripts /\ ~reg[e].stale
  /\ reg' = [reg EXCEPT ![e].stale = TRUE]
  /\ Interfere
  /\ UNCHANGED <<excluded, repairs, orphans, doubled, failed>>

Unhide(e) ==
  /\ May("unhide")
  /\ e \notin Scripts /\ ~reg[e].aliased
  /\ reg' = [reg EXCEPT ![e].aliased = TRUE]
  /\ Interfere
  /\ UNCHANGED <<excluded, repairs, orphans, doubled, failed>>

FirstIds(e) == {Domain(e)} \X {<<FALSE, r>> : r \in Rests \ {None}} \X (1..2)

NewNames(e) ==
  IF e \in ToSet(Device)
  THEN {[has |-> TRUE, original |-> <<FALSE, r>>] : r \in Rests \ {None}}
         \cup {[has |-> FALSE, original |-> <<TRUE, r>>] : r \in Rests}
  ELSE {[has |-> TRUE, original |-> <<FALSE, r>>] : r \in Rests \ {None}}

\* Any distinct ids, keys and names: what earlier renames left.
Init ==
  \E fleet \in Fleets :
    \E ids \in {f \in [fleet -> UNION {FirstIds(e) : e \in fleet}] :
                 \A e \in fleet : f[e] \in FirstIds(e) /\ \A d \in fleet \ {e} : f[d] # f[e]},
       names \in {f \in [fleet -> UNION {NewNames(e) : e \in fleet}] :
                   \A e \in fleet : f[e] \in NewNames(e)},
       keys \in {f \in [fleet -> {Slug(id) : id \in UNION {FirstIds(e) : e \in fleet}} \cup {None}] :
                  \A e \in fleet : (f[e] = None) = (e \notin Scripts)} :
      /\ \A s, t \in fleet \cap Scripts : keys[s] = keys[t] => s = t
      /\ reg = [e \in fleet |-> [id |-> ids[e], has |-> names[e].has, original |-> names[e].original,
                                 override |-> None, stale |-> FALSE, aliased |-> FALSE,
                                 key |-> keys[e]]]
      /\ excluded \in {{}, {ids[CHOOSE e \in fleet : TRUE]}}
      /\ repairs = {} /\ since = "hands" /\ seen = <<>> /\ orphans = {}
      /\ doubled = {} /\ failed = {} /\ trouble = MaxTrouble

Next ==
  \/ Scan
  \/ \E x \in repairs : Submit(x)
  \/ \E e \in Present :
       \/ \E id \in FirstIds(e) : RenameId(e, id)
       \/ \E r \in Rests : Override(e, <<FALSE, r>>)
       \/ CacheGoesStale(e) \/ Unhide(e)

Spec == Init /\ [][Next]_vars
-----------------------------------------------------------------------------
(* Whatever is submitted first, no rename of a scan finds its target taken *)
(* by another, and no script its block gone, unless somebody touched the   *)
(* registry since ("Recreate reserves each ID it hands out",               *)
(* handler.py:569).  One thing does stand in the way: a script key that    *)
(* was given to a second block, since the fix counts the blocks of the old *)
(* key only (logic.py:1690): of the two scripts one is lost, and no fix    *)
(* gets past that key again.                                               *)
FixesDoNotClash == \A x \in failed : x.kind = "key" /\ x.old \in doubled

(* What is left to repair of an entity: its faults (a stale cache, a       *)
(* hidden source in sight, another override than the recommended one), an  *)
(* id made of another name, the suffix of its id, a key made of another id.*)
Count(b) == IF b THEN 1 ELSE 0

Cost(e, r) ==
  <<Count(r.stale) + Count(r.aliased) + Count(r.override # Recommended(e, r)),
    Count(r.id[2] # Name(r)), r.id[3], Count(e \in Scripts /\ r.key # Slug(r.id))>>

Lower(c, d) == \E i \in 1..4 : c[i] < d[i] /\ \A j \in 1..(i - 1) : c[j] = d[j]

(* R has fewer entities than S, or is another one in which none is worse.  *)
Better(R, S) ==
  /\ DOMAIN R \subseteq DOMAIN S /\ R # S
  /\ DOMAIN R = DOMAIN S =>
       \A e \in DOMAIN S : R[e] = S[e] \/ Lower(Cost(e, R[e]), Cost(e, S[e]))

(* Once something of a scan was submitted, a script is lost, or each entity*)
(* is as the scan saw it or has less left to repair, and one has: the first*)
(* difference counts, so that no fix pays for another's by what comes      *)
(* before it. Nothing falls for ever in such steps, so submitting ends, in *)
(* whatever order and with whatever scans in between: no repair brings     *)
(* another one back for ever (the fix services against run_evaluation).    *)
FixesEnd == since = "fixes" => Better(reg, seen)
=============================================================================
