--------------------------- MODULE Configuration ---------------------------
(***************************************************************************)
(* Configurations: their validation (config/loader.rs), the stores that keep *)
(* them (config/store), and the reload through the admin API, which puts one *)
(* in force (admin/server.rs, bootstrap/state.rs).  The reload on SIGHUP      *)
(* would set the router and never AdminState.config, but waits before that    *)
(* for workers that do not end (Frontend, ReloadEnds): it puts nothing in     *)
(* force.                                                                  *)
(*                                                                         *)
(* Whoever saves, updates or reloads does so in the steps the code makes     *)
(* visible to others: the temporary file, its renaming, the lock, the watch  *)
(* channel.  A file that is being written is Torn.                          *)
(***************************************************************************)
EXTENDS Naturals

CONSTANTS
    Operators,         \* tasks that save, update or reload
    Configs,        \* names of configurations
    ConfigOf        \* name -> [listeners, clusters, routes]

Torn == "torn"
NoFile == "absent"
Down == "down"

ASSUME ConfigsAssumption == {Torn, NoFile, Down} \cap Configs = {}

VARIABLES
    backend,        \* which ConfigStore is in use: FileConfigStore or MemoryConfigStore
    file,           \* the configuration file
    temp,           \* the file of the same name with extension tmp
    stored,         \* MemoryConfigStore.config
    watched,        \* the value in its watch channel
    started,        \* the configuration of GatewayState.clusters, set by new and by nothing else
    router,         \* the configuration GatewayState.router was built from
    admin,          \* AdminState.config
    doing,          \* what each task does: [at, cfg]
    crossed         \* history: the kinds of work two tasks have done at once

cf_vars == <<backend, file, temp, stored, watched, started, router, admin, doing, crossed>>

NoWork == [at |-> "idle", cfg |-> NoFile]
Saving == {"write", "renamed", "replaced", "rename"}
Updating == {"send"}
Reloading == {"router", "config"}
---------------------------------------------------------------------------
Distinct(names) == \A i, j \in DOMAIN names : names[i] = names[j] => i = j
Names(c) == {c.clusters[i].name : i \in DOMAIN c.clusters}

\* The clusters a route names: as its target, in its split, to fall back on.
Targets(r) == (IF "cluster" \in DOMAIN r THEN {r.cluster} ELSE {})
                 \cup (IF "split" \in DOMAIN r THEN r.split ELSE {})
                 \cup (IF "fallback" \in DOMAIN r THEN r.fallback ELSE {})

\* Config::validate.
validate(name) ==
    LET c == ConfigOf[name] IN
    /\ c.listeners # <<>> /\ Distinct(c.listeners)
    /\ Distinct([i \in DOMAIN c.clusters |-> c.clusters[i].name])
    /\ \A i \in DOMAIN c.routes :
          /\ Targets(c.routes[i]) \subseteq Names(c)
          /\ ("cluster" \in DOMAIN c.routes[i]) # ("split" \in DOMAIN c.routes[i])
    /\ \A i \in DOMAIN c.clusters : c.clusters[i].endpoints > 0 \/ c.clusters[i].mock

\* Config::load: a file that parses and validates.
Loads(content) == content \in Configs /\ validate(content)

\* Router::new: every regular expression of a route compiles.
RouterBuilds(name) == \A i \in DOMAIN ConfigOf[name].routes : ConfigOf[name].routes[i].regex_ok

Starts(content) == Loads(content) /\ RouterBuilds(content)

Validated == {c \in Configs : validate(c)}
Startable == {c \in Configs : Starts(c)}

ConfigurationInit ==
    /\ backend \in {"file", "memory"}
    /\ file \in Startable
    /\ temp = NoFile
    /\ stored = file /\ watched = file
    /\ started = file /\ router = file /\ admin = file
    /\ doing = [a \in Operators |-> NoWork]
    /\ crossed = {}

\* History: the others that are in the midst of the same kind of work.
Crossing(a, kind) ==
    crossed' = IF \E b \in Operators \ {a} : doing[b].at \in kind THEN crossed \cup {kind} ELSE crossed
---------------------------------------------------------------------------
(* FileConfigStore::save.                                                  *)

\* validate and serialize; fs::write begins by emptying the temporary file.
SaveBegin(a, c) ==
    /\ backend = "file" /\ doing[a].at = "idle" /\ validate(c)
    /\ temp' = Torn
    /\ doing' = [doing EXCEPT ![a] = [at |-> "write", cfg |-> c]]
    /\ Crossing(a, Saving)
    /\ UNCHANGED <<backend, file, stored, watched, started, router, admin>>

\* What a file holds once c is written to it from the start: a longer text that another
\* save has written, or is writing, leaves its end behind.
Overwritten(old, c, alone) == {c} \cup (IF old = Torn /\ alone THEN {} ELSE {Torn})
Alone(a, at) == \A b \in Operators \ {a} : doing[b].at # at

WriteInPlace(a) ==
    /\ doing[a].at = "write"
    /\ temp' = doing[a].cfg /\ file' = Torn
    /\ doing' = [doing EXCEPT ![a].at = "rename"]
    /\ UNCHANGED <<backend, stored, watched, started, router, admin, crossed>>

\* The text is written to the file that was opened: another save may have renamed it, and
\* a third one replaced it, since then.
SaveWrite(a) ==
    /\ \/ /\ doing[a].at = "write"
          /\ temp' \in Overwritten(temp, doing[a].cfg, Alone(a, "write"))
          /\ UNCHANGED file
       \/ /\ doing[a].at = "renamed"
          /\ file' \in Overwritten(file, doing[a].cfg, Alone(a, "renamed"))
          /\ UNCHANGED temp
       \/ doing[a].at = "replaced" /\ UNCHANGED <<file, temp>>
    /\ doing' = [doing EXCEPT ![a].at = "rename"]
    /\ UNCHANGED <<backend, stored, watched, started, router, admin, crossed>>

\* The rename takes whatever the temporary file holds; without one it is an error.
SaveRename(a) ==
    /\ doing[a].at = "rename"
    /\ file' = IF temp = NoFile THEN file ELSE temp
    /\ temp' = NoFile
    /\ doing' = [b \in Operators |->
           IF b = a THEN NoWork
           ELSE IF temp # NoFile /\ doing[b].at = "write" THEN [doing[b] EXCEPT !.at = "renamed"]
           ELSE IF temp # NoFile /\ doing[b].at = "renamed" THEN [doing[b] EXCEPT !.at = "replaced"]
           ELSE doing[b]]
    /\ UNCHANGED <<backend, stored, watched, started, router, admin, crossed>>

\* Someone edits the file: what it holds need not be valid.
EditFile(c) ==
    /\ file' = c
    /\ UNCHANGED <<backend, temp, stored, watched, started, router, admin, doing, crossed>>
---------------------------------------------------------------------------
(* MemoryConfigStore::save, which is update.                               *)

UpdateStored(a, c) ==
    /\ backend = "memory" /\ doing[a].at = "idle" /\ validate(c)
    /\ stored' = c
    /\ doing' = [doing EXCEPT ![a] = [at |-> "send", cfg |-> c]]
    /\ Crossing(a, Updating)
    /\ UNCHANGED <<backend, file, temp, watched, started, router, admin>>

UpdateSend(a) ==
    /\ doing[a].at = "send"
    /\ watched' = doing[a].cfg
    /\ doing' = [doing EXCEPT ![a] = NoWork]
    /\ UNCHANGED <<backend, file, temp, stored, started, router, admin, crossed>>
---------------------------------------------------------------------------
(* AdminState::reload_config.                                              *)

ReloadLoad(a) ==
    /\ doing[a].at = "idle" /\ Loads(file)
    /\ doing' = [doing EXCEPT ![a] = [at |-> "router", cfg |-> file]]
    /\ Crossing(a, Reloading)
    /\ UNCHANGED <<backend, file, temp, stored, watched, started, router, admin>>

RouterOnly(a) ==
    /\ doing[a].at = "router"
    /\ router' = doing[a].cfg
    /\ doing' = [doing EXCEPT ![a] = IF RouterBuilds(router') THEN [@ EXCEPT !.at = "config"] ELSE NoWork]
    /\ UNCHANGED <<backend, file, temp, stored, watched, started, admin, crossed>>

\* GatewayState::reload: new clusters are made for the new router only.  A router that
\* cannot be built ends the reload.
ReloadRouter(a) ==
    LET c == doing[a].cfg IN
    /\ doing[a].at = "router"
    /\ router' = IF RouterBuilds(c) THEN c ELSE router
    /\ doing' = [doing EXCEPT ![a] = IF RouterBuilds(c) THEN [at |-> "config", cfg |-> c] ELSE NoWork]
    /\ UNCHANGED <<backend, file, temp, stored, watched, started, admin, crossed>>

ReloadConfig(a) ==
    /\ doing[a].at = "config"
    /\ admin' = doing[a].cfg
    /\ doing' = [doing EXCEPT ![a] = NoWork]
    /\ UNCHANGED <<backend, file, temp, stored, watched, started, router, crossed>>

\* The process dies and is started again from the file, if that can be loaded.
Restart ==
    /\ doing' = [a \in Operators |-> NoWork]
    /\ started' = IF Starts(file) THEN file ELSE Down
    /\ router' = started' /\ admin' = started' /\ stored' = started' /\ watched' = started'
    /\ crossed' = crossed \cap {Saving}
    /\ UNCHANGED <<backend, file, temp>>

AdminNext(a) ==
    \/ \E c \in Configs : SaveBegin(a, c) \/ UpdateStored(a, c)
    \/ SaveWrite(a) \/ SaveRename(a) \/ UpdateSend(a)
    \/ ReloadLoad(a) \/ ReloadRouter(a) \/ ReloadConfig(a)

ConfigurationNext ==
    \/ started # Down /\ \E a \in Operators : AdminNext(a)
    \/ \E c \in Configs : EditFile(c)
    \/ Restart

ConfigurationSpec == ConfigurationInit /\ [][ConfigurationNext]_cf_vars
---------------------------------------------------------------------------
ConfigurationTypeOK ==
    /\ file \in Configs \cup {Torn} /\ temp \in Configs \cup {Torn, NoFile}
    /\ {stored, watched, started, router, admin} \subseteq Configs \cup {Down}
    /\ \A a \in Operators : /\ doing[a].at \in {"idle"} \cup Saving \cup Updating \cup Reloading
                         /\ doing[a].cfg \in Configs \cup {NoFile}

\* Whatever is edited into the file, a configuration that does not validate is never in
\* force, never stored and never handed to a watcher, and the file that a save leaves is
\* whole, also when the process dies in the midst of it, unless two saves ran at once and
\* shared the temporary file (validate, save, update, reload_config).
NothingBadInForce ==
    /\ {stored, watched} \subseteq Validated \cup {Down}
    /\ {started, router, admin} \subseteq Startable \cup {Down}
    /\ Saving \notin crossed => file # Torn

\* Once nobody is at work, the watchers have the stored configuration and the admin API
\* shows the one the router runs, unless two updates, or two reloads, ran at once: the
\* order of their second steps may be the other way round (update, reload_config).
ReadersAgree ==
    /\ Updating \notin crossed /\ (\A a \in Operators : doing[a].at \notin Updating) => watched = stored
    /\ Reloading \notin crossed /\ (\A a \in Operators : doing[a].at \notin Reloading) => admin = router

\* The two together: what is in force has been validated, watchers agree with the store and
\* the admin API with the router; of the clusters that messages are forwarded to it says
\* only that they have been validated too.
ConfigurationHolds == NothingBadInForce /\ ReadersAgree
===========================================================================
