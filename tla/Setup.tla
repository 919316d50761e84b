------------------------------- MODULE Setup -------------------------------
(***************************************************************************)
(* Commands of several builds that set a library up and open it, each a    *)
(* process of its own: `library init` and `config init`                    *)
(* (cmd/stream-dvr/main.go, internal/config/load.go), the recorder and the *)
(* calendar (serve.go, tui.go), the marker of the library they agree on    *)
(* (internal/library/library.go) and its schema (internal/store/store.go,  *)
(* internal/migrate/sql.go).                                               *)
(*                                                                         *)
(* A process may be killed anywhere: it takes no further step.  A file is  *)
(* published by a rename, and a transaction takes the write lock as it     *)
(* begins, so each is one step.                                            *)
(***************************************************************************)
EXTENDS Integers, Sequences

CONSTANTS Process,      \* the commands that are run
          Root,         \* directories that may be a library
          Schemas       \* the newest schema any build knows

ASSUME SetupAssumption == Schemas \in Nat \ {0} /\ Root # {}

VARIABLES config,       \* the library the config names
          marker,       \* the lineage each library's marker names
          schema,       \* the version of each database, NoFile where none is
          applied,      \* what was applied to each database, in order
          command       \* what each process is doing

setup == <<config, marker, schema, applied, command>>

Absent == "absent"      \* no config file
NoRoot == "no root"     \* a config that names no library, an empty file too
Unmarked == "unmarked"
NoFile == -1

(* A command of a build, which knows a schema and is of a lineage.         *)
Unstarted == [at |-> "unstarted", does |-> "", root |-> NoRoot, build |-> 0, owner |-> Unmarked,
              force |-> FALSE, expect |-> NoRoot, seen |-> NoRoot, version |-> NoFile]

At(p, step) == command[p].at = step
Goes(p, step) == command' = [command EXCEPT ![p].at = step]

(* Refused, or over.                                                       *)
Ends(p) == Goes(p, "ended")

ConfigRoot == IF config = Absent THEN NoRoot ELSE config

Starts(p, does, step, root, force) ==
  \E build \in 1 .. Schemas, owner \in {"prod", "dev"} :
    command' = [command EXCEPT ![p] =
      [Unstarted EXCEPT !.at = step, !.does = does, !.root = root, !.build = build,
                        !.owner = owner, !.force = force, !.expect = ConfigRoot]]

----------------------------------------------------------------------------
(* The config file                                                         *)

(* initLibrary asks everything that can refuse before it builds.           *)
InitLibrary(p) ==
  /\ At(p, "unstarted")
  /\ \E root \in Root, force \in BOOLEAN :
       IF ConfigRoot = NoRoot \/ ConfigRoot = root \/ force THEN Starts(p, "init", "create", root, force)
                                                  ELSE Starts(p, "init", "ended", root, force)
  /\ UNCHANGED <<config, marker, schema, applied>>

(* The recorder and the calendar open the library the config names.        *)
LoadConfig(p) ==
  /\ At(p, "unstarted") /\ ConfigRoot # NoRoot
  /\ Starts(p, "serve", "open", ConfigRoot, FALSE) \/ Starts(p, "calendar", "open", ConfigRoot, FALSE)
  /\ UNCHANGED <<config, marker, schema, applied>>

(* config.Init: an exclusive create is the claim, and a failure takes it   *)
(* away again.                                                             *)
ClaimConfig(p) ==
  /\ At(p, "unstarted") /\ config = Absent
  /\ config' = NoRoot /\ Starts(p, "config", "publish default", NoRoot, FALSE)
  /\ UNCHANGED <<marker, schema, applied>>

PublishDefault(p) ==
  /\ At(p, "publish default")
  /\ config' \in {NoRoot, Absent}
  /\ Ends(p)
  /\ UNCHANGED <<marker, schema, applied>>

(* A library root that is set whatever the file names by now.              *)
SetLibraryRootAnyway(p) ==
  /\ At(p, "set root")
  /\ command' = [command EXCEPT ![p].seen = ConfigRoot, ![p].at = "publish root"]
  /\ UNCHANGED <<config, marker, schema, applied>>

(* SetLibraryRoot reads the file once more, and writes only while it still *)
(* names what the command decided on.                                      *)
SetLibraryRoot(p) ==
  /\ At(p, "set root")
  /\ command' = [command EXCEPT ![p].seen = ConfigRoot,
                                ![p].at = IF ConfigRoot = command[p].expect THEN "publish root" ELSE "ended"]
  /\ UNCHANGED <<config, marker, schema, applied>>

PublishRoot(p) ==
  /\ At(p, "publish root")
  /\ config' = command[p].root /\ Ends(p)
  /\ UNCHANGED <<marker, schema, applied>>

----------------------------------------------------------------------------
(* The library                                                             *)

(* openOrCreate: Create makes a marker where it finds none.                *)
OpenOrCreate(p) ==
  /\ At(p, "create")
  /\ IF marker[command[p].root] = Unmarked THEN Goes(p, "mark") ELSE Goes(p, "open")
  /\ UNCHANGED <<config, marker, schema, applied>>

WriteMarker(p) ==
  /\ At(p, "mark") /\ Goes(p, "look for a database")
  /\ marker' = [marker EXCEPT ![command[p].root] = command[p].owner]
  /\ UNCHANGED <<config, schema, applied>>

(* library.Open: a library of the other lineage is refused.                *)
OpenLibrary(p) ==
  /\ At(p, "open")
  /\ IF marker[command[p].root] # command[p].owner THEN Ends(p)
     ELSE CASE command[p].does = "init" -> Goes(p, "look for a database")
            [] command[p].does = "serve" -> Goes(p, "connect")
            [] OTHER -> Goes(p, "connect to read")
  /\ UNCHANGED <<config, marker, schema, applied>>

----------------------------------------------------------------------------
(* The database                                                            *)

(* initLibrary builds a schema only where no database is.                  *)
LookForDatabase(p) ==
  /\ At(p, "look for a database")
  /\ IF schema[command[p].root] = NoFile THEN Goes(p, "connect") ELSE Goes(p, "set root")
  /\ UNCHANGED <<config, marker, schema, applied>>

(* store.Open connects, which makes the file, and Run reads its version    *)
(* without a lock.                                                         *)
Found(p, version) ==
  command' = [command EXCEPT ![p].version = version, ![p].at =
    CASE version > command[p].build -> "ended"
      [] version = 0 -> "build schema"
      [] version \in 1 .. command[p].build - 1 -> "migrate"
      [] version = command[p].build -> IF command[p].does = "init" THEN "set root" ELSE "serving"]

Connect(p) ==
  /\ At(p, "connect")
  /\ LET version == IF schema[command[p].root] = NoFile THEN 0 ELSE schema[command[p].root]
     IN  schema' = [schema EXCEPT ![command[p].root] = version] /\ Found(p, version)
  /\ UNCHANGED <<config, marker, applied>>

Applies(p, version) ==
  /\ schema' = [schema EXCEPT ![command[p].root] = version]
  /\ applied' = [applied EXCEPT ![command[p].root] = Append(@, version)]
  /\ Found(p, version)

(* runInit: the loser of the race adopts what the winner built.            *)
RunInit(p) ==
  /\ At(p, "build schema")
  /\ IF schema[command[p].root] = 0 THEN Applies(p, 1)
     ELSE Found(p, schema[command[p].root]) /\ UNCHANGED <<schema, applied>>
  /\ UNCHANGED <<config, marker>>

(* A migration that trusts the version read without a lock.                *)
ApplyMigrationAsRead(p) ==
  /\ At(p, "migrate")
  /\ Applies(p, command[p].version + 1)
  /\ UNCHANGED <<config, marker>>

(* applyMigration: one that is found applied is not applied again, and a   *)
(* version past this build's own, which only Run's first look refuses, is  *)
(* taken for its own.                                                      *)
ApplyMigration(p) ==
  /\ At(p, "migrate")
  /\ IF schema[command[p].root] <= command[p].version THEN Applies(p, command[p].version + 1)
     ELSE /\ Found(p, IF schema[command[p].root] > command[p].build THEN command[p].build
                      ELSE schema[command[p].root])
          /\ UNCHANGED <<schema, applied>>
  /\ UNCHANGED <<config, marker>>

(* OpenClient refuses any schema but its own, and never moves one.         *)
OpenClient(p) ==
  /\ At(p, "connect to read")
  /\ IF schema[command[p].root] = command[p].build THEN Goes(p, "reading") ELSE Ends(p)
  /\ UNCHANGED <<config, marker, schema, applied>>

----------------------------------------------------------------------------

(* Nothing yet, or a library some build made and the config names.         *)
SetupInit ==
  /\ \/ /\ config = Absent /\ marker = [r \in Root |-> Unmarked]
        /\ schema = [r \in Root |-> NoFile] /\ applied = [r \in Root |-> <<>>]
     \/ \E version \in 1 .. Schemas, owner \in {"prod", "dev"} :
          /\ config = CHOOSE r \in Root : TRUE
          /\ marker = [r \in Root |-> IF r = config THEN owner ELSE Unmarked]
          /\ schema = [r \in Root |-> IF r = config THEN version ELSE NoFile]
          /\ applied = [r \in Root |-> IF r = config THEN [i \in 1 .. version |-> i] ELSE <<>>]
  /\ command = [p \in Process |-> Unstarted]

SetupNext ==
  \E p \in Process :
    \/ InitLibrary(p) \/ LoadConfig(p) \/ ClaimConfig(p) \/ PublishDefault(p)
    \/ SetLibraryRoot(p) \/ PublishRoot(p) \/ OpenOrCreate(p) \/ WriteMarker(p) \/ OpenLibrary(p)
    \/ LookForDatabase(p) \/ Connect(p) \/ RunInit(p) \/ ApplyMigration(p) \/ OpenClient(p)

SetupSpec == SetupInit /\ [][SetupNext]_setup

----------------------------------------------------------------------------

(* sql.go, Run: "two processes opening the same new database both see 0",  *)
(* and two that upgrade it at once leave "one upgrade rather than two".    *)
(* What was applied to a database is each version once and in order, and   *)
(* what a recorder holds open is not behind its own build.                 *)
SchemaIsBuiltOnce ==
  /\ \A r \in Root : /\ applied[r] = [i \in 1 .. Len(applied[r]) |-> i]
                     /\ schema[r] > 0 => Len(applied[r]) = schema[r]
  /\ \A p \in Process : At(p, "serving") => schema[command[p].root] >= command[p].build

(* load.go, SetLibraryRoot: of two commands that found the config free the *)
(* second must not "silently orphan the first one".  Without --force, a    *)
(* command that replaces another root than the one it decided on replaces  *)
(* one published between its last look and its own rename, and no other.   *)
RootIsKept ==
  [][\A p \in Process : At(p, "publish root") /\ command'[p].at = "ended" /\ ~command[p].force
       => ConfigRoot \in {command[p].expect, command[p].root} \/ ConfigRoot # command[p].seen]_setup
=============================================================================
