------------------------------ MODULE PluginStore ------------------------------
(***************************************************************************)
(* The plugin store: a directory of content-addressed trees, one lockfile  *)
(* that names the installed ones, the hook reviews beside it and the       *)
(* transparency log with its head anchor.  The command line and the server *)
(* change it one at a time, under a lock file, and either may die between  *)
(* two writes (cool-extensions store.rs, signing.rs).                      *)
(*                                                                         *)
(* A tree's content stands for its hash, and a hook for the plugin content *)
(* it came with.  A source that does not load is refused before anything   *)
(* is placed, and is left out.                                             *)
(***************************************************************************)
EXTENDS Integers, Sequences, SequencesExt, FiniteSets

CONSTANTS
    Users,           \* processes that change the store
    Plugins,         \* names of manifests
    Contents,        \* contents a source may have
    MaxCommands,     \* bound: commands
    MaxFaults        \* bound: crashes, renames and deletions that fail

ASSUME PluginsAssumption ==
    IsFiniteSet(Plugins) /\ IsFiniteSet(Contents) /\ MaxCommands \in Nat /\ MaxFaults \in Nat

VARIABLES
    lockFiles,   \* the value of plugins.lock.json and of hook-reviews.json, where there is one
    backups,     \* that of their .json.backup
    trees,       \* installations/<name>/<hash>
    dataDirs,    \* data/<name>
    records,     \* the transparency log
    head,        \* the record its head anchor names
    holder,      \* the process that holds the lock file
    work,        \* its command: step, operation, plugin, content, the file's next value
    commands, faults

pluginVars == <<lockFiles, backups, trees, dataDirs, records, head, holder, work, commands, faults>>

Free == "free"
NoWork == [at |-> "none"]
NoPlugins == [p \in {} |-> p]
NoFiles == [f \in {} |-> f]

\* read and read_reviews: a missing file is an empty document.
Installed == IF "lock" \in DOMAIN lockFiles THEN lockFiles["lock"] ELSE NoPlugins
Reviews == IF "reviews" \in DOMAIN lockFiles THEN lockFiles["reviews"] ELSE {}

\* validate_paths: every entry's directories resolve.
Readable == \A p \in DOMAIN Installed :
                trees[<<p, Installed[p].hash>>] # "none" /\ p \in dataDirs

With(document, p, entry) ==
    [q \in DOMAIN document \cup {p} |-> IF q = p THEN entry ELSE document[q]]
Without(document, p) == Restrict(document, DOMAIN document \ {p})

-----------------------------------------------------------------------------
(* A command *)

Releases == holder' = Free /\ work' = NoWork
Goes(at) == work' = [work EXCEPT !.at = at] /\ UNCHANGED holder
Fault == faults < MaxFaults /\ faults' = faults + 1
NoFault == UNCHANGED faults

\* What a command asks of the lockfile it reads, and what it will write.
Accepted(op, p, h) ==
    CASE op = "install" -> p \notin DOMAIN Installed
      [] op = "enable" -> p \in DOMAIN Installed /\ trees[<<p, Installed[p].hash>>] = "whole"
      [] OTHER -> p \in DOMAIN Installed
NextFile(op, p, h) ==
    CASE op \in {"install", "update"} -> With(Installed, p, [hash |-> h, enabled |-> FALSE])
      [] op = "remove" -> Without(Installed, p)
      [] op \in {"enable", "disable"} ->
            With(Installed, p, [Installed[p] EXCEPT !.enabled = op = "enable"])
      [] op = "review" -> Reviews \cup {<<p, h>>}
      [] OTHER -> Reviews \ {<<p, h>>}
FileOf(op) == IF op \in {"review", "unreview"} THEN "reviews" ELSE "lock"

Operations == {"install", "update", "remove", "enable", "disable", "review", "unreview"}

\* The lock is taken and the lockfile read: a refused command changes nothing.
Command(u, op, p, h) ==
    /\ holder = Free /\ commands < MaxCommands /\ commands' = commands + 1
    /\ Readable /\ Accepted(op, p, h)
    /\ holder' = u
    /\ work' = [at |-> IF op \in {"install", "update"} THEN "place" ELSE "set aside",
                op |-> op, name |-> p, file |-> FileOf(op), next |-> NextFile(op, p, h),
                hash |-> IF op \in {"remove", "enable", "disable"} THEN Installed[p].hash ELSE h,
                old |-> IF op = "remove" \/ (op = "update" /\ Installed[p].hash # h)
                        THEN {<<p, Installed[p].hash>>} ELSE {}]
    /\ UNCHANGED <<lockFiles, backups, trees, dataDirs, records, head, faults>>

\* Mutant: an update sweeps the tree it replaces before the lockfile names the new one.
PlacesAndSweeps ==
    LET tree == <<work.name, work.hash>> IN
    /\ work.at = "place"
    /\ IF trees[tree] = "partial" THEN Releases /\ UNCHANGED <<trees, dataDirs>>
       ELSE /\ trees' = [t \in DOMAIN trees |-> IF t \in work.old THEN "none"
                                               ELSE IF t = tree THEN "whole" ELSE trees[t]]
            /\ dataDirs' = dataDirs \cup {work.name}
            /\ Goes("set aside")
    /\ NoFault /\ UNCHANGED <<lockFiles, backups, records, head, commands>>
\* install_directory_locked: the staged copy becomes the content-addressed tree unless
\* there is one, whose content is then hashed again.
Places ==
    LET tree == <<work.name, work.hash>> IN
    /\ work.at = "place"
    /\ IF trees[tree] = "partial" THEN Releases /\ UNCHANGED <<trees, dataDirs>>
       ELSE /\ trees' = [trees EXCEPT ![tree] = "whole"]
            /\ dataDirs' = dataDirs \cup {work.name}
            /\ Goes("set aside")
    /\ NoFault /\ UNCHANGED <<lockFiles, backups, records, head, commands>>

-----------------------------------------------------------------------------
(* replace_file: the file goes to its backup, the new one takes its place and the backup *)
(* is removed; a rename that fails puts the backup back.                                 *)

SetsAside ==
    /\ work.at = "set aside"
    /\ IF work.file \notin DOMAIN lockFiles THEN UNCHANGED <<lockFiles, backups>>
       ELSE /\ backups' = With(backups, work.file, lockFiles[work.file])
            /\ lockFiles' = Without(lockFiles, work.file)
    /\ Goes("rename")
    /\ NoFault /\ UNCHANGED <<trees, dataDirs, records, head, commands>>

Renames ==
    /\ work.at = "rename"
    /\ lockFiles' = With(lockFiles, work.file, work.next)
    /\ Goes("tidy")
    /\ NoFault /\ UNCHANGED <<backups, trees, dataDirs, records, head, commands>>

RenameFails ==
    /\ work.at = "rename" /\ Fault
    /\ lockFiles' = IF work.file \in DOMAIN backups THEN With(lockFiles, work.file, backups[work.file])
                ELSE lockFiles
    /\ backups' = Without(backups, work.file)
    /\ Releases
    /\ UNCHANGED <<trees, dataDirs, records, head, commands>>

\* A review ends here; the lockfile's old tree goes next, then its record is written.
Tidies ==
    /\ work.at = "tidy"
    /\ backups' = Without(backups, work.file)
    /\ IF work.file = "reviews" THEN Releases
       ELSE Goes(IF work.old # {} THEN "delete" ELSE "append")
    /\ NoFault /\ UNCHANGED <<lockFiles, trees, dataDirs, records, head, commands>>

-----------------------------------------------------------------------------
(* Deletion and the log *)

\* remove_dir_all: a tree goes file by file, and its data directory after it when the
\* plugin is uninstalled.
Deletes ==
    /\ work.at = "delete"
    /\ \E tree \in work.old :
          IF trees[tree] = "whole"
          THEN trees' = [trees EXCEPT ![tree] = "partial"] /\ Goes("delete")
          ELSE trees' = [trees EXCEPT ![tree] = "none"]
               /\ Goes(IF work.op = "remove" THEN "delete data" ELSE "append")
    /\ NoFault /\ UNCHANGED <<lockFiles, backups, dataDirs, records, head, commands>>

DeletesData ==
    /\ work.at = "delete data"
    /\ dataDirs' = dataDirs \ {work.name}
    /\ Goes("append")
    /\ NoFault /\ UNCHANGED <<lockFiles, backups, trees, records, head, commands>>

\* A file that will not go fails the command: there will be no record of it.
DeleteFails ==
    /\ work.at \in {"delete", "delete data"} /\ Fault
    /\ Releases
    /\ UNCHANGED <<lockFiles, backups, trees, dataDirs, records, head, commands>>

\* verify_transparency_log comes first: a log its head does not anchor takes no record.
Appends ==
    /\ work.at = "append"
    /\ IF head # Len(records) THEN Releases /\ UNCHANGED records
       ELSE /\ records' = Append(records, [op |-> work.op, name |-> work.name, hash |-> work.hash])
            /\ Goes("anchor")
    /\ NoFault /\ UNCHANGED <<lockFiles, backups, trees, dataDirs, head, commands>>

Anchors ==
    /\ work.at = "anchor"
    /\ head' = Len(records)
    /\ Releases
    /\ NoFault /\ UNCHANGED <<lockFiles, backups, trees, dataDirs, records, commands>>

\* The process dies: what it wrote stays, and the operating system frees its lock.
Dies ==
    /\ holder # Free /\ Fault
    /\ Releases
    /\ UNCHANGED <<lockFiles, backups, trees, dataDirs, records, head, commands>>

-----------------------------------------------------------------------------
PluginInit ==
    /\ lockFiles = NoFiles /\ backups = NoFiles
    /\ trees = [t \in Plugins \X Contents |-> "none"] /\ dataDirs = {}
    /\ records = <<>> /\ head = 0
    /\ holder = Free /\ work = NoWork
    /\ commands = 0 /\ faults = 0

PluginNext ==
    \/ \E u \in Users, op \in Operations, p \in Plugins, h \in Contents : Command(u, op, p, h)
    \/ Places \/ SetsAside \/ Renames \/ RenameFails \/ Tidies
    \/ Deletes \/ DeletesData \/ DeleteFails \/ Appends \/ Anchors \/ Dies

PluginSpec == PluginInit /\ [][PluginNext]_pluginVars

-----------------------------------------------------------------------------
\* Files, trees and the running command have their shapes.
Documents == UNION {[S -> [hash : Contents, enabled : BOOLEAN]] : S \in SUBSET Plugins}
PluginTypeOK ==
    /\ \A disk \in {lockFiles, backups} :
          /\ DOMAIN disk \subseteq {"lock", "reviews"}
          /\ "lock" \in DOMAIN disk => disk["lock"] \in Documents
          /\ "reviews" \in DOMAIN disk => disk["reviews"] \subseteq Plugins \X Contents
    /\ trees \in [Plugins \X Contents -> {"none", "partial", "whole"}] /\ dataDirs \subseteq Plugins
    /\ head \in 0..Len(records) /\ (holder = Free <=> work = NoWork)

\* A failed or interrupted command leaves garbage on disk but never a phantom plugin: what
\* the lockfile names, and what its backup would bring back, is there, whole (uninstall,
\* install_directory_locked, replace_file).
Whole(p, document) == trees[<<p, document[p].hash>>] = "whole" /\ p \in dataDirs
NoPhantom ==
    /\ \A p \in DOMAIN Installed : Whole(p, Installed)
    /\ "lock" \in DOMAIN backups \ DOMAIN lockFiles =>
          \A p \in DOMAIN backups["lock"] : Whole(p, backups["lock"])
================================================================================
