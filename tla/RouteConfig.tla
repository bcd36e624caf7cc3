----------------------------- MODULE RouteConfig -----------------------------
(***************************************************************************)
(* What the Z-Wave Route Manager makes of its YAML file: parse_config and  *)
(* resolve_entities of zwave_route_manager/logic.py.  Any error aborts the *)
(* reconcile, so that only whether there is one is kept of the errors, and *)
(* what a file with errors would have resolved to does not matter.         *)
(***************************************************************************)
EXTENDS Naturals, Sequences

CONSTANTS
  Devices,         \* per entity_id of a Z-Wave device: its node and its facts
  ControllerSpeed, \* maxDataRate of node 1, or None: not one of the three
  DefaultSpeed,    \* default_route_speed; None is "auto"
  Files,           \* contents the configuration file can have
  Bad,             \* a value of the wrong type or form
  None             \* Python's None

\* RouteSpeed, by its number on the wire: 9600, 40k, 100k.
Speeds == 1..3

(* A file is what reading it gives: "missing", "garbage" (no YAML, or not  *)
(* a mapping with a list of routes) or "read" with its entries.  A speed   *)
(* is written as itself, as "auto" or not at all (both None), or Bad.      *)
RawSpeeds == Speeds \cup {None, Bad}

IsSequence(s) == Len(s) \in Nat /\ DOMAIN s = 1..Len(s)

ASSUME ConfigAssumption ==
  /\ \A e \in DOMAIN Devices : Devices[e].rate \in Speeds \cup {None}
  /\ {ControllerSpeed, DefaultSpeed} \subseteq Speeds \cup {None}
  /\ None \notin Speeds \cup {Bad}
  /\ \A file \in Files : IsSequence(file.entries) /\ \A i \in DOMAIN file.entries :
       file.entries[i].shape = "mapping" =>
         /\ file.entries[i].speed \in RawSpeeds
         /\ IsSequence(file.entries[i].clients)
         /\ \A j \in DOMAIN file.entries[i].clients :
              /\ IsSequence(file.entries[i].clients[j].names)
              /\ file.entries[i].clients[j].speed \in RawSpeeds

\* parse_route_speed_value: "auto" and absence inherit, anything else but a
\* speed is an error.
BadSpeed(raw) == raw = Bad

\* _parse_client: a bare entity, `entity' or a group `entities', each name a
\* domain and an object_id.  The speed of a mapping applies to all its names.
BadClient(client) ==
  \/ client.shape \notin {"bare", "entity", "entities"}
  \/ client.shape # "bare" /\ BadSpeed(client.speed)
  \/ \E k \in DOMAIN client.names : client.names[k] = Bad

ClientSpec(client, k) ==
  [entity |-> client.names[k],
   speed  |-> IF client.shape = "bare" THEN None ELSE client.speed]

BadEntry(entry) ==
  \/ entry.shape # "mapping"
  \/ entry.repeater = Bad
  \/ BadSpeed(entry.speed)
  \/ \E j \in DOMAIN entry.clients : BadClient(entry.clients[j])

\* parse_config, and the read before it.
ParseErrors(file) ==
  \/ file.read # "read"
  \/ \E i \in DOMAIN file.entries : BadEntry(file.entries[i])

\* The clients of an entry, each with its place in the file.
ClientsOf(entry, i) ==
  UNION {{[at |-> <<i, j, k>>, client |-> ClientSpec(entry.clients[j], k),
           repeater |-> entry.repeater, speed |-> entry.speed]
            : k \in DOMAIN entry.clients[j].names} : j \in DOMAIN entry.clients}

\* A Config: its repeaters, and a line for every client.
Parsed(file) ==
  [repeaters |-> {file.entries[i].repeater : i \in DOMAIN file.entries},
   lines     |-> UNION {ClientsOf(file.entries[i], i) : i \in DOMAIN file.entries}]
-----------------------------------------------------------------------------
(* Resolution.  `present' are the entities that have a node: registered,   *)
(* not disabled, and answered by getNodes (_build_entity_to_resolution).   *)

\* _min_speed: one hop that does not know its rate spoils the result.
MinSpeed(speeds) ==
  IF None \in speeds THEN None
  ELSE CHOOSE s \in speeds : \A r \in speeds : s <= r

AutoSpeed(line) ==
  MinSpeed({Devices[line.client.entity].rate, Devices[line.repeater].rate,
            ControllerSpeed})

\* From the most specific on.
Explicit(line) == <<line.client.speed, line.speed, DefaultSpeed>>

Given(line) == {k \in 1..3 : Explicit(line)[k] # None}

\* resolve_speed: the most specific explicit speed wins.
ResolvedSpeed(line) ==
  IF Given(line) = {} THEN AutoSpeed(line)
  ELSE Explicit(line)[CHOOSE k \in Given(line) : \A m \in Given(line) : k <= m]

\* What cannot carry a route for others, and what cannot have one.
BadRepeater(e, present) ==
  \/ e \notin present
  \/ Devices[e].longRange
  \/ Devices[e].failed
  \/ ~Devices[e].routing
  \/ ~Devices[e].listening

BadLine(line, present) ==
  \/ line.client.entity \notin present
  \/ Devices[line.client.entity].longRange
  \/ Devices[line.client.entity].failed
  \/ ResolvedSpeed(line) = None

\* The lines that resolve: those of a bad repeater go with it.
Resolved(config, present) ==
  {l \in config.lines : ~BadRepeater(l.repeater, present) /\ ~BadLine(l, present)}

\* Mutant: a repeater that cannot be used only loses its clients.
ResolveErrorsOfLines(config, present) ==
  \E l \in config.lines : ~BadRepeater(l.repeater, present) /\ BadLine(l, present)

\* A bad repeater is an error, its clients are not looked at.
ResolveErrors(config, present) ==
  \/ \E e \in config.repeaters : BadRepeater(e, present)
  \/ \E l \in config.lines : ~BadRepeater(l.repeater, present) /\ BadLine(l, present)

\* The order of the file.
Later(a, b) ==
  \/ a[1] > b[1]
  \/ a[1] = b[1] /\ a[2] > b[2]
  \/ a[1] = b[1] /\ a[2] = b[2] /\ a[3] > b[3]

Last(lines) == CHOOSE l \in lines : \A m \in lines : ~Later(m.at, l.at)

\* The route wanted for a node: of two lines for one node the later one
\* (diff_and_plan keeps them in a dict).
NodeOf(line) == Devices[line.client.entity].node

ResolvedRoute(line) ==
  [to   |-> [via |-> Devices[line.repeater].node, speed |-> ResolvedSpeed(line)],
   auto |-> Given(line) = {}]

Desired(lines) ==
  [n \in {NodeOf(l) : l \in lines} |->
     ResolvedRoute(Last({l \in lines : NodeOf(l) = n}))]
==============================================================================
