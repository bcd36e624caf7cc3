------------------------------- MODULE Installer -------------------------------
(***************************************************************************)
(* The setup of the config entry: the reconciler plans which symlinks into *)
(* the bundle the install roots need, the installer carries the plan out,  *)
(* conflicts and failures become Repairs issues whose Submit sets the      *)
(* entry up again, and the CLI token is provisioned.  HA stops at any      *)
(* point; people change the file system, the options and the entry.        *)
(*                                                                         *)
(* A path is a root (None: the blueprints under the configuration          *)
(* directory; else a CLI directory) and a file of the bundle.              *)
(***************************************************************************)
EXTENDS Integers, FiniteSets

CONSTANTS
  Blueprints,  \* bundled files installed under the configuration directory
  Tools,       \* bundled files installed in the CLI directory, if there is one
  Dirs,        \* directories the option may name
  Env,         \* what the surroundings do in this instance
  MaxTrouble,  \* bound: how often they do
  None

EnvKinds == {"hand", "break", "options", "upgrade", "ha", "submit", "remove",
             "revoke", "notoken"}

Paths == ({None} \X Blueprints) \cup (Dirs \X Tools)
Ours == {"link", "stale"}
Contents == Ours \cup {"none", "foreign", "file", "dir"}
Doings == {"install", "update", "link", "remove", "keep"}
Issue == {"conflicts", "failure"}
Options == [dir : Dirs \cup {None}, token : BOOLEAN]
Reasons == {"start", "options"} \cup Issue

\* A setup: what asked for it, the directory and the forced destinations it
\* read, its plan and what came of it; and a history of what people touched.
Works == [at : {"apply", "token", "write", "register"}, why : Reasons,
          dir : Dirs \cup {None}, token : BOOLEAN, force : SUBSET Paths,
          todo : [Paths -> Doings \cup {None}],
          conflicts : SUBSET Paths, errors : SUBSET Paths, touched : SUBSET Paths]

ASSUME InstallerAssumption ==
  /\ Env \subseteq EnvKinds /\ MaxTrouble \in Nat
  /\ None \notin Dirs \cup Blueprints \cup Tools \cup Doings \cup Works

VARIABLES
  disk,     \* per path: "none"; "link" (ours, as it should be), "stale" (ours,
            \* another target); "foreign" (a symlink), "file", "dir"
  stuck,    \* paths whose parent refuses writes
  bundle,   \* the files of this release
  options,  \* entry.options: the CLI directory or None; provision the token
  entry,    \* "waiting" to be set up, "loaded", "removed"
  work,     \* the setup under way, or None
  used,     \* history: the options of the last setup that ended
  pending,  \* hass.data: pending_force_destinations
  reloads,  \* setups requested: at start, by the listener, by an open flow
  issues,   \* Repairs: the conflicts and the failures they name ({}: no issue)
  token,    \* the refresh token (0: none), the one in the file (0: no file;
            \* None: an empty one), the last made; history: whether the last
            \* to write or delete the file failed or was cut
  trouble   \* how often the surroundings still interfere

vars == <<disk, stuck, bundle, options, entry, work, used, pending, reloads, issues, token, trouble>>

May(kind) == kind \in Env /\ trouble > 0

Interfere == trouble' = trouble - 1

TypeOK ==
  /\ disk \in [Paths -> Contents]
  /\ stuck \subseteq Paths
  /\ bundle \subseteq Blueprints \cup Tools
  /\ options \in Options /\ used \in Options
  /\ entry \in {"waiting", "loaded", "removed"}
  /\ work \in Works \cup {None}
  /\ pending \subseteq Paths
  /\ reloads \subseteq Reasons
  /\ issues \in [Issue -> SUBSET Paths]
  /\ token \in [live : Nat, file : Nat \cup {None}, made : Nat, failed : BOOLEAN]
  /\ token.live \in {0, token.made}
  /\ trouble \in Nat

Init ==
  /\ disk \in {[p \in Paths |-> IF p[1] = None THEN k ELSE "none"] : k \in {"none", "file", "stale"}}
  /\ stuck = {}
  /\ bundle = Blueprints \cup Tools
  /\ options \in Options
  /\ entry = "waiting"
  /\ work = None
  /\ used = options
  /\ pending = {}
  /\ reloads = {"start"}
  /\ issues = [i \in Issue |-> {}]
  /\ token = [live |-> 0, file |-> 0, made |-> 0, failed |-> FALSE]
  /\ trouble = MaxTrouble
-----------------------------------------------------------------------------
(* reconciler.plan                                                         *)

\* _destination_mapping.
Mapping(d) == {p \in Paths : p[2] \in bundle /\ p[1] \in {None, d}}

\* _install_roots and discover_ours_destinations.
Discovered(d) == {p \in Paths : p[1] \in {None, d} /\ disk[p] \in Ours}

\* Mutant: what stands at a destination is replaced once anything is forced.
ConflictAtOnceForced(p, force) == disk[p] \in {"foreign", "file", "dir"} /\ force = {}

\* _classify_destination: the code refuses to overwrite this.
ConflictAt(p, force) == disk[p] \in {"foreign", "file", "dir"} /\ p \notin force

\* _classify_destination: what to do with one it does not refuse.
Kind(p) == CASE disk[p] = "link" -> "keep" [] disk[p] = "none" -> "install" [] OTHER -> "update"

\* plan: every destination of the mapping without a conflict, then the links
\* of ours that no release asks for.
Plan(d, force) ==
  [p \in Paths |->
     IF p \in Mapping(d) THEN IF ConflictAt(p, force) THEN None ELSE Kind(p)
     ELSE IF p \in Discovered(d) THEN "remove"
     ELSE None]

\* async_setup_entry up to the plan.  The entry's lock lets one setup run.
Begin(why) ==
  /\ why \in reloads
  /\ work = None
  /\ entry \in {"waiting", "loaded"}
  /\ reloads' = reloads \ {why}
  /\ entry' = "waiting"
  /\ pending' = {}
  /\ work' = [at |-> "apply", why |-> why, dir |-> options.dir, token |-> FALSE, force |-> pending,
              todo |-> Plan(options.dir, pending),
              conflicts |-> {p \in Mapping(options.dir) : ConflictAt(p, pending)},
              errors |-> {}, touched |-> {}]
  /\ UNCHANGED <<disk, stuck, bundle, options, used, issues, token, trouble>>
-----------------------------------------------------------------------------
(* installer.apply, and the issues                                         *)

\* _apply_action raises OSError: no permission; unlink of a directory, or of
\* nothing; a symlink where there is something.
Refuses(p, kind) ==
  CASE kind = "keep" -> FALSE
    [] kind = "remove" -> p \in stuck \/ disk[p] = "dir"
    [] kind = "update" -> p \in stuck \/ disk[p] \in {"none", "dir"}
    [] OTHER -> p \in stuck \/ disk[p] # "none"

\* What _apply_action leaves.  An update unlinks, then links.
Left(p, kind) ==
  CASE kind \in {"remove", "update"} -> "none" [] kind = "keep" -> disk[p] [] OTHER -> "link"

\* Mutant: the first error ends the loop.
DoUntilError(p) ==
  /\ work # None /\ work.at = "apply"
  /\ LET kind == work.todo[p] IN
     /\ kind # None
     /\ IF Refuses(p, kind)
        THEN /\ work' = [work EXCEPT !.todo = [q \in Paths |-> None], !.errors = @ \cup {p}]
             /\ UNCHANGED disk
        ELSE /\ work' = [work EXCEPT !.todo[p] = IF kind = "update" THEN "link" ELSE None]
             /\ disk' = [disk EXCEPT ![p] = Left(p, kind)]
  /\ UNCHANGED <<stuck, bundle, options, entry, used, pending, reloads, issues, token, trouble>>

\* One action of the plan, or half an update; an error does not end the loop.
Do(p) ==
  /\ work # None /\ work.at = "apply"
  /\ LET kind == work.todo[p] IN
     /\ kind # None
     /\ IF Refuses(p, kind)
        THEN /\ work' = [work EXCEPT !.todo[p] = None, !.errors = @ \cup {p}]
             /\ UNCHANGED disk
        ELSE /\ work' = [work EXCEPT !.todo[p] = IF kind = "update" THEN "link" ELSE None]
             /\ disk' = [disk EXCEPT ![p] = Left(p, kind)]
  /\ UNCHANGED <<stuck, bundle, options, entry, used, pending, reloads, issues, token, trouble>>

\* _surface_conflicts and _surface_failure: shown, or deleted when empty.
Show == [i \in Issue |-> IF i = "conflicts" THEN work.conflicts ELSE work.errors]

Surface ==
  /\ work # None /\ work.at = "apply"
  /\ \A p \in Paths : work.todo[p] = None
  /\ issues' = Show
  /\ work' = [work EXCEPT !.at = "token"]
  /\ UNCHANGED <<disk, stuck, bundle, options, entry, used, pending, reloads, token, trouble>>
-----------------------------------------------------------------------------
(* cli_token.async_apply                                                   *)

NewToken == [token EXCEPT !.live = token.made + 1, !.made = token.made + 1]

NoToken == [token EXCEPT !.live = 0, !.file = 0, !.failed = FALSE]

\* Mutant: a file that exists is left alone.
TokenKeepsFile ==
  /\ work # None /\ work.at = "token"
  /\ IF ~options.token
     THEN token' = NoToken
     ELSE token' = IF token.live = 0 THEN NewToken ELSE token
  /\ work' = [work EXCEPT !.token = options.token,
                          !.at = IF ~options.token \/ token.file # 0 THEN "register" ELSE "write"]
  /\ UNCHANGED <<disk, stuck, bundle, options, entry, used, pending, reloads, issues, trouble>>

\* Off: revoked, and the file deleted.  On: nothing to do when a token and a
\* file exist, else a token (a new one if there is none) to be written.
Token ==
  /\ work # None /\ work.at = "token"
  /\ IF ~options.token
     THEN token' = NoToken
     ELSE token' = IF token.live = 0 THEN NewToken ELSE token
  /\ work' = [work EXCEPT !.token = options.token,
                          !.at = IF ~options.token \/ (token.live # 0 /\ token.file # 0)
                                 THEN "register" ELSE "write"]
  /\ UNCHANGED <<disk, stuck, bundle, options, entry, used, pending, reloads, issues, trouble>>

\* No owner to keep a token, or HA refuses to make one: nothing changes.  Off
\* and the file cannot be deleted: the token is revoked all the same.  The
\* setup logs it and goes on.
TokenFails ==
  /\ May("notoken")
  /\ work # None /\ work.at = "token"
  /\ \/ token.live = 0 /\ token' = [token EXCEPT !.failed = TRUE]
     \/ ~options.token /\ token.file # 0 /\ token' = [token EXCEPT !.live = 0, !.failed = TRUE]
  /\ work' = [work EXCEPT !.token = options.token, !.at = "register"]
  /\ Interfere
  /\ UNCHANGED <<disk, stuck, bundle, options, entry, used, pending, reloads, issues>>

\* _write_file; the option may be another by now, its listener asked for the
\* next setup.
Write ==
  /\ work # None /\ work.at = "write"
  /\ token' = [token EXCEPT !.file = token.made, !.failed = FALSE]
  /\ work' = [work EXCEPT !.at = "register"]
  /\ UNCHANGED <<disk, stuck, bundle, options, entry, used, pending, reloads, issues, trouble>>

\* It fails before the unlink, at the new file or at its text: logged too.
WriteFails ==
  /\ May("notoken")
  /\ work # None /\ work.at = "write"
  /\ \E text \in {token.file, 0, None} : token' = [token EXCEPT !.file = text, !.failed = TRUE]
  /\ work' = [work EXCEPT !.at = "register"]
  /\ Interfere
  /\ UNCHANGED <<disk, stuck, bundle, options, entry, used, pending, reloads, issues>>

\* The handlers are registered: async_setup_entry returns.  If a flow asked for
\* the setup, it returns too, and HA deletes its issue, even one that the setup
\* has just created.
Register ==
  /\ work # None /\ work.at = "register"
  /\ entry' = "loaded"
  /\ used' = [dir |-> work.dir, token |-> work.token]
  /\ issues' = [i \in Issue |-> IF i = work.why THEN {} ELSE issues[i]]
  /\ work' = None
  /\ UNCHANGED <<disk, stuck, bundle, options, pending, reloads, token, trouble>>
-----------------------------------------------------------------------------
(* The surroundings                                                        *)

\* InstallConflictsFlow and InstallFailureFlow, with _retry_setup.
Submit(i) ==
  /\ May("submit")
  /\ entry # "removed"
  /\ issues[i] # {} /\ i \notin reloads /\ (work # None => work.why # i)
  /\ pending' = IF i = "conflicts" THEN issues[i] ELSE pending
  /\ reloads' = reloads \cup {i}
  /\ Interfere
  /\ UNCHANGED <<disk, stuck, bundle, options, used, entry, work, issues, token>>

\* Mutant: the listener exists once a setup has ended.
SetOptionsUnheard(o) ==
  /\ May("options")
  /\ entry # "removed" /\ o # options
  /\ options' = o
  /\ reloads' = IF entry = "loaded" THEN reloads \cup {"options"} ELSE reloads
  /\ Interfere
  /\ UNCHANGED <<disk, stuck, bundle, entry, work, used, pending, issues, token>>

\* BlueprintToolkitOptionsFlow; the listener exists from the start of a setup.
SetOptions(o) ==
  /\ May("options")
  /\ entry # "removed" /\ o # options
  /\ options' = o
  /\ reloads' = IF entry = "loaded" \/ work # None THEN reloads \cup {"options"} ELSE reloads
  /\ Interfere
  /\ UNCHANGED <<disk, stuck, bundle, entry, work, used, pending, issues, token>>

\* The plan of async_remove_entry, applied.
Wipe ==
  [p \in Paths |-> IF p \in Discovered(options.dir) /\ ~Refuses(p, "remove") THEN "none" ELSE disk[p]]

\* async_unload_entry, async_remove_entry.
Remove ==
  /\ May("remove")
  /\ entry = "loaded" /\ work = None /\ reloads = {}
  /\ entry' = "removed"
  /\ \/ token' = NoToken
     \/ "notoken" \in Env /\ token' = [token EXCEPT !.live = 0, !.failed = TRUE]
  /\ disk' = Wipe
  /\ Interfere
  /\ UNCHANGED <<stuck, bundle, options, work, used, pending, reloads, issues>>

\* BlueprintToolkitConfigFlow: no second entry, and options of its own.
Add ==
  /\ May("remove")
  /\ entry = "removed"
  /\ entry' = "waiting"
  /\ reloads' = {"start"}
  /\ options' = [dir |-> None, token |-> FALSE]
  /\ Interfere
  /\ UNCHANGED <<disk, stuck, bundle, work, used, pending, issues, token>>

\* HA stops, at whatever point, and starts, with the same or another release.
HaRestarts(b) ==
  /\ May(IF b = bundle THEN "ha" ELSE "upgrade")
  /\ token' = [token EXCEPT !.failed = @ \/ (work # None /\ work.at = "write")]
  /\ bundle' = b
  /\ entry' = IF entry = "removed" THEN "removed" ELSE "waiting"
  /\ reloads' = IF entry = "removed" THEN {} ELSE {"start"}
  /\ work' = None /\ pending' = {} /\ issues' = [i \in Issue |-> {}]
  /\ Interfere
  /\ UNCHANGED <<disk, stuck, options, used>>

Touched(p) == work' = IF work = None THEN None ELSE [work EXCEPT !.touched = @ \cup {p}]

\* Somebody puts something at a path, or takes it away.
HandEdit(p, k) ==
  /\ May("hand")
  /\ p \notin stuck /\ disk[p] # k
  /\ disk' = [disk EXCEPT ![p] = k]
  /\ Touched(p)
  /\ Interfere
  /\ UNCHANGED <<stuck, bundle, options, entry, used, pending, reloads, issues, token>>

\* A parent becomes unwritable, or writable again.
Break(p) ==
  /\ May("break")
  /\ stuck' = IF p \in stuck THEN stuck \ {p} ELSE stuck \cup {p}
  /\ Interfere
  /\ UNCHANGED <<disk, bundle, options, entry, work, used, pending, reloads, issues, token>>

\* The token is revoked in the profile of the owner, or its file is deleted.
Revoke ==
  /\ May("revoke")
  /\ \/ token.live # 0 /\ token' = [token EXCEPT !.live = 0]
     \/ token.file # 0 /\ token' = [token EXCEPT !.file = 0]
  /\ Interfere
  /\ UNCHANGED <<disk, stuck, bundle, options, entry, work, used, pending, reloads, issues>>

System == \/ \E why \in reloads : Begin(why)
          \/ \E p \in Paths : Do(p)
          \/ Surface \/ Token \/ Write \/ Register

Surroundings ==
  \/ \E i \in Issue : Submit(i)
  \/ \E o \in Options : SetOptions(o)
  \/ Remove \/ Add
  \/ \E b \in {bundle, Blueprints \cup Tools} \cup {bundle \ {f} : f \in bundle} : HaRestarts(b)
  \/ \E p \in Paths : (\E k \in {"none", "foreign", "file", "dir"} : HandEdit(p, k)) \/ Break(p)
  \/ Revoke \/ TokenFails \/ WriteFails

Next == System \/ Surroundings

\* One setup of the entry at a time, which HA runs to its end.
Fairness == WF_vars(System)

Spec == Init /\ [][Next]_vars

FairSpec == Spec /\ Fairness
-----------------------------------------------------------------------------
(* "Destinations occupied by unexpected content are surfaced as Conflicts; *)
(* the installer refuses to overwrite them unless explicitly forced"       *)
(* (reconciler.py:6): the toolkit deletes what is not its own only where a *)
(* Submit said so, whatever is reloaded, removed, upgraded or cut in       *)
(* between, except for what was put there after the plan was made.         *)
NothingClobbered ==
  [][\A p \in Paths :
       disk[p] \in {"foreign", "file", "dir"} /\ disk'[p] # disk[p] /\ trouble' = trouble =>
         p \in work.force \cup work.touched]_vars

(* Once a setup has shown its issues, every destination of the release is  *)
(* linked or named by an issue, and no link of an earlier release is left  *)
(* that no issue names: across cut updates, forced overwrites and errors.  *)
Accounted ==
  work # None /\ work.at # "apply" =>
    /\ \A p \in Mapping(work.dir) \ work.touched :
         disk[p] = "link" \/ p \in issues["conflicts"] \cup issues["failure"]
    /\ Discovered(work.dir) \subseteq Mapping(work.dir) \cup work.touched \cup issues["failure"]
    /\ issues["conflicts"] = work.conflicts /\ issues["failure"] = work.errors

(* The token in the file is the one HA knows, from the end of a setup with *)
(* the option on until somebody revokes it, after any sequence of option   *)
(* changes, revocations and reloads, except since a setup was cut or       *)
(* failed between the token and its file: a file that is there is taken    *)
(* for the right one (cli_token.py:62), so no later setup mends that.      *)
TokenUsable ==
  entry = "loaded" /\ work = None /\ token.live # 0 /\ token.file # 0 =>
    token.file = token.live \/ token.failed

(* Setups end, and the last to end used the options that hold: no change   *)
(* of the options is lost, while HA starts, during a setup, or next to a   *)
(* Submit.  A token switched off is revoked whatever fails, and its file   *)
(* is gone unless deleting it did (_async_options_updated, cli_token.py).  *)
OptionsTakeEffect ==
  <>[](trouble = 0 =>
         entry = "removed" \/
         /\ entry = "loaded" /\ work = None /\ reloads = {}
         /\ used = options
         /\ options.token \/ (token.live = 0 /\ (token.file = 0 \/ token.failed)))
=============================================================================
