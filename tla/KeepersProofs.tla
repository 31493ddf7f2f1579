---------------------------- MODULE KeepersProofs ----------------------------
(***************************************************************************)
(* What the keepers of rows and files promise across failures: the plugin  *)
(* store, whose commands work through a file step by step; the logins of a *)
(* provider, which several processes renew side by side; the approval      *)
(* rules, which answers and clean-ups rewrite; and an operator's MCP       *)
(* servers, whose tools are in a registry and a record that requests       *)
(* change in turns.  Each part has the inductive invariant of its          *)
(* component, a lemma for each kind of step, and the theorem; a child's    *)
(* policy is compared with its parent's.                                   *)
(***************************************************************************)
EXTENDS PluginStore, ProviderLogin, ApprovalRules, OperatorMcp, FiniteSetTheorems,
        SequenceTheorems, WellFoundedInduction, NaturalsInduction, TLAPS

-----------------------------------------------------------------------------
(* The plugin store *)

IsDocument(document) ==
    /\ DOMAIN document \subseteq Plugins
    /\ \A p \in DOMAIN document : document[p].hash \in Contents
AllWhole(document) == \A p \in DOMAIN document : Whole(p, document)

Backup == IF "lock" \in DOMAIN backups \ DOMAIN lockFiles THEN backups["lock"] ELSE NoPlugins

WorkPlaces == {"place", "set aside", "rename", "tidy", "delete", "delete data", "append", "anchor"}
WorkTyped ==
    \/ work = NoWork
    \/ /\ work = [at |-> work.at, op |-> work.op, name |-> work.name, file |-> work.file,
                  next |-> work.next, hash |-> work.hash, old |-> work.old]
       /\ work.at \in WorkPlaces /\ work.op \in Operations
       /\ work.name \in Plugins /\ work.hash \in Contents
       /\ work.file = FileOf(work.op) /\ work.old \subseteq Plugins \X Contents
       /\ work.file = "lock" => IsDocument(work.next)

\* The running command.  Until it is placed the tree of the document it will write may be
\* missing; from the set-aside to the rename there is no lockfile; what it deletes after that,
\* the document it wrote does not name.
WorkOK ==
    work.at # "none" /\ work.file = "lock" =>
        /\ \A p \in DOMAIN work.next :
              \/ Whole(p, work.next)
              \/ work.at = "place" /\ p = work.name /\ work.next[p].hash = work.hash
        /\ work.at = "rename" => "lock" \notin DOMAIN lockFiles
        /\ work.at \in {"tidy", "delete", "delete data"} =>
              "lock" \in DOMAIN lockFiles /\ lockFiles["lock"] = work.next
        /\ \A p \in DOMAIN work.next : <<p, work.next[p].hash>> \notin work.old
        /\ work.op = "remove" => work.name \notin DOMAIN work.next
        /\ work.at = "delete data" => work.op = "remove"
FileWork == work.at \in WorkPlaces \ {"set aside", "rename", "tidy"} => work.file = "lock"

FilesOK ==
    /\ IsDocument(Installed) /\ IsDocument(Backup)
    /\ AllWhole(Installed) /\ AllWhole(Backup)
TreesTyped == trees \in [Plugins \X Contents -> {"none", "partial", "whole"}]
PluginInv == TreesTyped /\ FilesOK /\ WorkTyped /\ WorkOK /\ FileWork

LockOps == Operations \ {"review", "unreview"}

\* What a command on the lockfile will write differs in the entry of its plugin only.
LEMMA NextDocument ==
    ASSUME IsDocument(Installed), NEW op \in LockOps, NEW p \in Plugins, NEW h \in Contents,
           Accepted(op, p, h), NEW next, next = NextFile(op, p, h)
    PROVE  /\ IsDocument(next)
           /\ \A q \in DOMAIN next : q # p => q \in DOMAIN Installed /\ next[q] = Installed[q]
           /\ op \in {"install", "update"} => next[p].hash = h
           /\ op \in {"enable", "disable"} /\ p \in DOMAIN next
                 => p \in DOMAIN Installed /\ next[p].hash = Installed[p].hash
           /\ op = "remove" => p \notin DOMAIN next
  <1>1. ASSUME NEW e, next = With(Installed, p, e), e.hash \in Contents
        PROVE  /\ IsDocument(next) /\ p \in DOMAIN next /\ next[p].hash = e.hash
               /\ \A q \in DOMAIN next : q # p => q \in DOMAIN Installed /\ next[q] = Installed[q]
    <2>1. /\ DOMAIN next = DOMAIN Installed \cup {p} /\ next[p] = e
          /\ \A q \in DOMAIN Installed : q # p => next[q] = Installed[q]
      BY <1>1 DEF With
    <2>2. \A q \in DOMAIN next : q # p => q \in DOMAIN Installed /\ next[q] = Installed[q]
      BY <2>1
    <2>3. \A q \in DOMAIN next : next[q].hash \in Contents
      BY <1>1, <2>1, <2>2 DEF IsDocument
    <2> QED BY <2>1, <2>2, <2>3 DEF IsDocument
  <1>2. CASE op \in {"install", "update"}
    <2>1. next = With(Installed, p, [hash |-> h, enabled |-> FALSE])
      BY <1>2 DEF NextFile
    <2>2. [hash |-> h, enabled |-> FALSE].hash = h
      OBVIOUS
    <2>3. IsDocument(next) /\ p \in DOMAIN next /\ next[p].hash = h
      BY <1>1, <2>1, <2>2
    <2>4. \A q \in DOMAIN next : q # p => q \in DOMAIN Installed /\ next[q] = Installed[q]
      BY <1>1, <2>1, <2>2
    <2> QED BY <1>2, <2>3, <2>4
  <1>3. CASE op = "remove"
    <2>1. /\ DOMAIN next = DOMAIN Installed \ {p}
          /\ \A q \in DOMAIN Installed : q # p => next[q] = Installed[q]
      BY <1>3 DEF NextFile, Without, Restrict
    <2> QED BY <1>3, <2>1 DEF IsDocument
  <1>4. CASE op \in {"enable", "disable"}
    <2>1. next = With(Installed, p, [Installed[p] EXCEPT !.enabled = op = "enable"])
      BY <1>4 DEF NextFile
    <2>2. p \in DOMAIN Installed
      BY <1>4 DEF Accepted
    <2>3. [Installed[p] EXCEPT !.enabled = op = "enable"].hash = Installed[p].hash
      OBVIOUS
    <2>4. Installed[p].hash \in Contents
      BY <2>2 DEF IsDocument
    <2> QED BY <1>1, <1>4, <2>1, <2>2, <2>3, <2>4
  <1> QED BY <1>2, <1>3, <1>4 DEF LockOps, Operations

LEMMA WorkGoes ==
    ASSUME WorkTyped, work.at \in WorkPlaces, NEW at \in WorkPlaces, Goes(at)
    PROVE  /\ WorkTyped' /\ work'.at = at
           /\ work'.op = work.op /\ work'.name = work.name /\ work'.file = work.file
           /\ work'.next = work.next /\ work'.hash = work.hash /\ work'.old = work.old
  <1>1. work # NoWork
    <2>1. NoWork.at \notin WorkPlaces
      BY DEF WorkPlaces, NoWork
    <2> QED BY <2>1
  <1>2. work' = [at |-> at, op |-> work.op, name |-> work.name, file |-> work.file,
                 next |-> work.next, hash |-> work.hash, old |-> work.old]
    BY <1>1 DEF WorkTyped, Goes
  <1> QED BY <1>1, <1>2 DEF WorkTyped, IsDocument

LEMMA WorkReleased == Releases => WorkTyped' /\ WorkOK' /\ FileWork'
  BY DEF Releases, WorkTyped, WorkOK, FileWork, NoWork, WorkPlaces

LEMMA FilesStay ==
    ASSUME FilesOK, Installed' = Installed, Backup' = Backup, UNCHANGED <<trees, dataDirs>>
    PROVE  FilesOK'
  BY DEF FilesOK, IsDocument, AllWhole, Whole

LEMMA SameFiles ==
    ASSUME UNCHANGED <<lockFiles, backups>>
    PROVE  Installed' = Installed /\ Backup' = Backup
  BY DEF Installed, Backup

\* A command starts.
LEMMA CommandKeeps ==
    ASSUME PluginInv, NEW u \in Users, NEW op \in Operations, NEW p \in Plugins,
           NEW h \in Contents, Command(u, op, p, h)
    PROVE  PluginInv'
  <1>1. FilesOK' /\ TreesTyped'
    BY FilesStay, SameFiles DEF PluginInv, TreesTyped, Command
  <1> DEFINE next == NextFile(op, p, h)
             at == IF op \in {"install", "update"} THEN "place" ELSE "set aside"
             hash == IF op \in {"remove", "enable", "disable"} THEN Installed[p].hash ELSE h
             old == IF op = "remove" \/ (op = "update" /\ Installed[p].hash # h)
                    THEN {<<p, Installed[p].hash>>} ELSE {}
  <1>2. work' = [at |-> at, op |-> op, name |-> p, file |-> FileOf(op), next |-> next,
                 hash |-> hash, old |-> old]
    BY DEF Command
  <1> HIDE DEF next, at, hash, old
  <1>3. /\ work'.at = at /\ work'.op = op /\ work'.name = p /\ work'.file = FileOf(op)
        /\ work'.next = next /\ work'.hash = hash /\ work'.old = old
    BY <1>2
  <1>4. Accepted(op, p, h) /\ IsDocument(Installed) /\ AllWhole(Installed)
    BY DEF Command, PluginInv, FilesOK
  <1>5. op \in {"update", "remove", "enable", "disable"}
           => p \in DOMAIN Installed /\ Installed[p].hash \in Contents
    BY <1>4 DEF Accepted, IsDocument
  <1>6. /\ at \in {"place", "set aside"} /\ hash \in Contents /\ old \subseteq Plugins \X Contents
        /\ op \notin LockOps => at = "set aside" /\ FileOf(op) = "reviews"
        /\ op \in LockOps => FileOf(op) = "lock"
    BY <1>5 DEF at, hash, old, Operations, LockOps, FileOf
  <1>7. ASSUME op \in LockOps
        PROVE  /\ IsDocument(next)
               /\ \A q \in DOMAIN next : q # p => q \in DOMAIN Installed /\ next[q] = Installed[q]
               /\ op \in {"install", "update"} => next[p].hash = h
               /\ op \in {"enable", "disable"} /\ p \in DOMAIN next
                     => p \in DOMAIN Installed /\ next[p].hash = Installed[p].hash
               /\ op = "remove" => p \notin DOMAIN next
    BY <1>4, <1>7, NextDocument DEF next
  <1>8. WorkTyped'
    BY <1>2, <1>3, <1>6, <1>7 DEF WorkTyped, WorkPlaces, IsDocument
  <1>9. FileWork'
    BY <1>3, <1>6 DEF FileWork, WorkPlaces
  <1>10. WorkOK'
    <2>1. UNCHANGED <<trees, dataDirs>>
      BY DEF Command
    <2>2. ASSUME op \in LockOps
          PROVE  \A q \in DOMAIN next :
                    \/ trees[<<q, next[q].hash>>] = "whole" /\ q \in dataDirs
                    \/ at = "place" /\ q = p /\ next[q].hash = hash
      BY <1>4, <1>7, <2>2 DEF AllWhole, Whole, at, hash, LockOps, Operations
    <2>3. ASSUME op \in LockOps
          PROVE  \A q \in DOMAIN next : <<q, next[q].hash>> \notin old
      BY <1>7, <2>3 DEF old
    <2>4. op \in LockOps => (op = "remove" => p \notin DOMAIN next)
      BY <1>7
    <2> QED BY <1>3, <1>6, <2>1, <2>2, <2>3, <2>4 DEF WorkOK, Whole
  <1> QED BY <1>1, <1>8, <1>9, <1>10 DEF PluginInv

\* A tree is placed.
LEMMA PlaceKeeps ==
    ASSUME PluginInv, Places
    PROVE  PluginInv'
  <1> DEFINE tree == <<work.name, work.hash>>
  <1>1. work.at = "place" /\ UNCHANGED <<lockFiles, backups>>
    BY DEF Places
  <1>2. CASE trees[tree] = "partial"
    <2>1. Releases /\ UNCHANGED <<trees, dataDirs>>
      BY <1>2 DEF Places
    <2> QED BY <1>1, <2>1, FilesStay, SameFiles, WorkReleased DEF PluginInv, TreesTyped
  <1>3. CASE trees[tree] # "partial"
    <2>1. /\ trees' = [trees EXCEPT ![tree] = "whole"] /\ dataDirs' = dataDirs \cup {work.name}
          /\ Goes("set aside")
      BY <1>3 DEF Places
    <2>2. /\ work.file = "lock" /\ IsDocument(work.next) /\ tree \in Plugins \X Contents
      BY <1>1 DEF PluginInv, FileWork, WorkPlaces, WorkTyped, NoWork
    <2>3. /\ WorkTyped' /\ work'.at = "set aside"
          /\ work'.op = work.op /\ work'.name = work.name /\ work'.file = work.file
          /\ work'.next = work.next /\ work'.hash = work.hash /\ work'.old = work.old
      BY <1>1, <2>1, WorkGoes DEF PluginInv, WorkPlaces
    <2>4. /\ TreesTyped' /\ trees'[tree] = "whole"
          /\ \A t \in Plugins \X Contents : trees[t] = "whole" => trees'[t] = "whole"
      BY <2>1, <2>2 DEF PluginInv, TreesTyped
    <2>5. FilesOK'
      BY <1>1, <2>1, <2>4, SameFiles DEF PluginInv, FilesOK, IsDocument, AllWhole, Whole
    <2>6. \A q \in DOMAIN work.next : trees'[<<q, work.next[q].hash>>] = "whole" /\ q \in dataDirs'
      BY <1>1, <2>1, <2>2, <2>4 DEF PluginInv, WorkOK, IsDocument, Whole
    <2>7. WorkOK'
      BY <1>1, <2>2, <2>3, <2>6 DEF PluginInv, WorkOK, Whole
    <2>8. FileWork'
      BY <2>2, <2>3 DEF FileWork
    <2> QED BY <2>3, <2>4, <2>5, <2>7, <2>8 DEF PluginInv
  <1> QED BY <1>2, <1>3

\* A step on one file leaves the other.
LEMMA OtherFile ==
    ASSUME "lock" \in DOMAIN lockFiles' <=> "lock" \in DOMAIN lockFiles,
           "lock" \in DOMAIN lockFiles => lockFiles'["lock"] = lockFiles["lock"],
           "lock" \in DOMAIN backups' <=> "lock" \in DOMAIN backups,
           "lock" \in DOMAIN backups => backups'["lock"] = backups["lock"]
    PROVE  Installed' = Installed /\ Backup' = Backup
  BY DEF Installed, Backup

\* The work of a command that goes on, its documents and trees unchanged.
LEMMA WorkGoesOn ==
    ASSUME PluginInv, work.at \in WorkPlaces, NEW at \in WorkPlaces, Goes(at)
    PROVE  /\ WorkTyped' /\ work'.at = at
           /\ work'.op = work.op /\ work'.name = work.name /\ work'.file = work.file
           /\ work'.next = work.next /\ work'.hash = work.hash /\ work'.old = work.old
           /\ work.file \in {"lock", "reviews"} /\ work.old \subseteq Plugins \X Contents
           /\ work.file = "lock" => IsDocument(work.next)
           /\ work.at # "place" /\ work.file = "lock" => AllWhole(work.next)
  <1>1. work # NoWork
    <2>1. NoWork.at \notin WorkPlaces
      BY DEF WorkPlaces, NoWork
    <2> QED BY <2>1
  <1>2. /\ work.file \in {"lock", "reviews"} /\ work.old \subseteq Plugins \X Contents
        /\ work.file = "lock" => IsDocument(work.next)
    BY <1>1 DEF PluginInv, WorkTyped, FileOf
  <1>3. work.at # "place" /\ work.file = "lock" => AllWhole(work.next)
    BY DEF PluginInv, WorkOK, AllWhole, WorkPlaces
  <1> QED BY <1>2, <1>3, WorkGoes DEF PluginInv

LEMMA SetAsideKeeps ==
    ASSUME PluginInv, SetsAside
    PROVE  PluginInv'
  <1>1. work.at = "set aside" /\ Goes("rename") /\ UNCHANGED <<trees, dataDirs>>
    BY DEF SetsAside
  <1>2. /\ WorkTyped' /\ work'.at = "rename"
        /\ work'.op = work.op /\ work'.name = work.name /\ work'.file = work.file
        /\ work'.next = work.next /\ work'.old = work.old
        /\ work.file \in {"lock", "reviews"}
    BY <1>1, WorkGoesOn DEF WorkPlaces
  <1>3. FilesOK' /\ (work.file = "lock" => "lock" \notin DOMAIN lockFiles')
    <2>1. CASE work.file \notin DOMAIN lockFiles
      BY <1>1, <2>1, FilesStay, SameFiles DEF SetsAside, PluginInv
    <2>2. CASE work.file \in DOMAIN lockFiles /\ work.file = "lock"
      <3>1. /\ lockFiles' = Without(lockFiles, "lock")
            /\ backups' = With(backups, "lock", lockFiles["lock"])
        BY <2>2 DEF SetsAside
      <3>2. /\ "lock" \notin DOMAIN lockFiles' /\ "lock" \in DOMAIN backups'
            /\ backups'["lock"] = lockFiles["lock"]
        BY <3>1 DEF With, Without, Restrict
      <3>3. Installed' = NoPlugins /\ Backup' = Installed
        BY <2>2, <3>2 DEF Installed, Backup
      <3> QED BY <1>1, <3>2, <3>3 DEF PluginInv, FilesOK, IsDocument, AllWhole, Whole, NoPlugins
    <2>3. CASE work.file \in DOMAIN lockFiles /\ work.file = "reviews"
      <3>1. /\ lockFiles' = Without(lockFiles, "reviews")
            /\ backups' = With(backups, "reviews", lockFiles["reviews"])
        BY <2>3 DEF SetsAside
      <3>2. Installed' = Installed /\ Backup' = Backup
        BY <3>1, OtherFile DEF With, Without, Restrict
      <3> QED BY <1>1, <2>3, <3>2, FilesStay DEF PluginInv
    <2> QED BY <1>2, <2>1, <2>2, <2>3
  <1>4. WorkOK'
    BY <1>1, <1>2, <1>3 DEF PluginInv, WorkOK, Whole
  <1>5. FileWork' /\ TreesTyped'
    BY <1>1, <1>2 DEF PluginInv, FileWork, TreesTyped
  <1> QED BY <1>2, <1>3, <1>4, <1>5 DEF PluginInv

LEMMA RenameKeeps ==
    ASSUME PluginInv, Renames
    PROVE  PluginInv'
  <1>1. /\ work.at = "rename" /\ Goes("tidy") /\ UNCHANGED <<trees, dataDirs, backups>>
        /\ lockFiles' = With(lockFiles, work.file, work.next)
    BY DEF Renames
  <1>2. /\ WorkTyped' /\ work'.at = "tidy"
        /\ work'.op = work.op /\ work'.name = work.name /\ work'.file = work.file
        /\ work'.next = work.next /\ work'.old = work.old
        /\ work.file \in {"lock", "reviews"}
        /\ work.file = "lock" => IsDocument(work.next) /\ AllWhole(work.next)
    BY <1>1, WorkGoesOn DEF WorkPlaces
  <1>3. FilesOK' /\ (work.file = "lock" => "lock" \in DOMAIN lockFiles'
                                           /\ lockFiles'["lock"] = work.next)
    <2>1. CASE work.file = "lock"
      <3>1. "lock" \in DOMAIN lockFiles' /\ lockFiles'["lock"] = work.next
        BY <1>1, <2>1 DEF With, Without, Restrict
      <3>2. Installed' = work.next /\ Backup' = NoPlugins
        BY <3>1 DEF Installed, Backup
      <3> QED BY <1>1, <1>2, <2>1, <3>1, <3>2 DEF FilesOK, IsDocument, AllWhole, Whole, NoPlugins
    <2>2. CASE work.file = "reviews"
      <3>1. Installed' = Installed /\ Backup' = Backup
        BY <1>1, <2>2, OtherFile DEF With, Without, Restrict
      <3> QED BY <1>1, <2>2, <3>1, FilesStay DEF PluginInv
    <2> QED BY <1>2, <2>1, <2>2
  <1>4. WorkOK'
    BY <1>1, <1>2, <1>3 DEF PluginInv, WorkOK, Whole, AllWhole
  <1>5. FileWork' /\ TreesTyped'
    BY <1>1, <1>2 DEF PluginInv, FileWork, TreesTyped
  <1> QED BY <1>2, <1>3, <1>4, <1>5 DEF PluginInv

\* The rename fails and the backup comes back.
LEMMA RestoreKeeps ==
    ASSUME PluginInv, RenameFails
    PROVE  PluginInv'
  <1>1. /\ work.at = "rename" /\ Releases /\ UNCHANGED <<trees, dataDirs>>
        /\ backups' = Without(backups, work.file)
        /\ lockFiles' = IF work.file \in DOMAIN backups
                        THEN With(lockFiles, work.file, backups[work.file]) ELSE lockFiles
    BY DEF RenameFails
  <1>2. /\ work.file \in {"lock", "reviews"}
        /\ work.file = "lock" => "lock" \notin DOMAIN lockFiles
    <2>1. work # NoWork
      BY <1>1 DEF NoWork
    <2> QED BY <1>1, <2>1 DEF PluginInv, WorkTyped, WorkOK, FileOf
  <1>3. FilesOK'
    <2>1. CASE work.file = "lock" /\ "lock" \in DOMAIN backups
      <3>1. /\ "lock" \in DOMAIN lockFiles' /\ lockFiles'["lock"] = backups["lock"]
        BY <1>1, <2>1 DEF With, Without, Restrict
      <3>2. Installed' = Backup /\ Backup' = NoPlugins
        BY <1>2, <2>1, <3>1 DEF Installed, Backup
      <3> QED BY <1>1, <3>2 DEF PluginInv, FilesOK, IsDocument, AllWhole, Whole, NoPlugins
    <2>2. CASE work.file = "lock" /\ "lock" \notin DOMAIN backups
      <3>1. /\ lockFiles' = lockFiles /\ "lock" \notin DOMAIN backups'
        BY <1>1, <2>2 DEF With, Without, Restrict
      <3>2. Installed' = Installed /\ Backup' = Backup
        BY <2>2, <3>1 DEF Installed, Backup
      <3> QED BY <1>1, <3>2, FilesStay DEF PluginInv
    <2>3. CASE work.file = "reviews"
      <3>1. /\ "lock" \in DOMAIN lockFiles' <=> "lock" \in DOMAIN lockFiles
            /\ "lock" \in DOMAIN lockFiles => lockFiles'["lock"] = lockFiles["lock"]
        BY <1>1, <2>3 DEF With, Without, Restrict
      <3>2. /\ "lock" \in DOMAIN backups' <=> "lock" \in DOMAIN backups
            /\ "lock" \in DOMAIN backups => backups'["lock"] = backups["lock"]
        BY <1>1, <2>3 DEF With, Without, Restrict
      <3> QED BY <1>1, <3>1, <3>2, OtherFile, FilesStay DEF PluginInv
    <2> QED BY <1>2, <2>1, <2>2, <2>3
  <1> QED BY <1>1, <1>3, WorkReleased DEF PluginInv, TreesTyped

LEMMA TidyKeeps ==
    ASSUME PluginInv, Tidies
    PROVE  PluginInv'
  <1>1. /\ work.at = "tidy" /\ UNCHANGED <<trees, dataDirs, lockFiles>>
        /\ backups' = Without(backups, work.file)
    BY DEF Tidies
  <1>2. /\ work.file \in {"lock", "reviews"}
        /\ work.file = "lock" => "lock" \in DOMAIN lockFiles
    <2>1. work # NoWork
      BY <1>1 DEF NoWork
    <2> QED BY <1>1, <2>1 DEF PluginInv, WorkTyped, WorkOK, FileOf
  <1>3. FilesOK'
    <2>1. CASE work.file = "lock"
      BY <1>1, <1>2, <2>1, FilesStay DEF Installed, Backup, PluginInv
    <2>2. CASE work.file = "reviews"
      <3>1. /\ "lock" \in DOMAIN backups' <=> "lock" \in DOMAIN backups
            /\ "lock" \in DOMAIN backups => backups'["lock"] = backups["lock"]
        BY <1>1, <2>2 DEF With, Without, Restrict
      <3> QED BY <1>1, <3>1, OtherFile, FilesStay DEF PluginInv
    <2> QED BY <1>2, <2>1, <2>2
  <1>4. CASE work.file = "reviews"
    BY <1>1, <1>3, <1>4, WorkReleased DEF Tidies, PluginInv, TreesTyped
  <1>5. CASE work.file = "lock"
    <2>1. PICK at \in {"delete", "append"} : Goes(at)
      BY <1>5 DEF Tidies
    <2>2. /\ WorkTyped' /\ work'.at = at
          /\ work'.op = work.op /\ work'.name = work.name /\ work'.file = work.file
          /\ work'.next = work.next /\ work'.old = work.old
      BY <1>1, <2>1, WorkGoesOn DEF WorkPlaces
    <2>3. WorkOK'
      BY <1>1, <1>5, <2>1, <2>2 DEF PluginInv, WorkOK, Whole
    <2>4. FileWork' /\ TreesTyped'
      BY <1>1, <1>5, <2>2 DEF PluginInv, FileWork, TreesTyped
    <2> QED BY <1>3, <2>2, <2>3, <2>4 DEF PluginInv
  <1> QED BY <1>2, <1>4, <1>5

\* What a deletion may touch: the lockfile is there, names what the command wrote, and
\* nothing of what is deleted.
LEMMA Deleting ==
    ASSUME PluginInv, work.at \in {"delete", "delete data"}
    PROVE  /\ work.file = "lock" /\ Installed = work.next /\ Backup = NoPlugins
           /\ IsDocument(Installed) /\ AllWhole(Installed)
           /\ \A p \in DOMAIN Installed : <<p, Installed[p].hash>> \notin work.old
           /\ work.op = "remove" => work.name \notin DOMAIN Installed
           /\ work.old \subseteq Plugins \X Contents
           /\ work.at = "delete data" => work.op = "remove"
  <1>1. work # NoWork /\ work.file = "lock"
    <2>1. NoWork.at \notin {"delete", "delete data"}
      BY DEF NoWork
    <2> QED BY <2>1 DEF PluginInv, FileWork, WorkPlaces
  <1>2. /\ Installed = work.next /\ Backup = NoPlugins
    BY <1>1 DEF PluginInv, WorkOK, Installed, Backup
  <1> QED BY <1>1, <1>2 DEF PluginInv, FilesOK, WorkOK, WorkTyped

LEMMA DeleteKeeps ==
    ASSUME PluginInv, Deletes
    PROVE  PluginInv'
  <1>1. /\ work.at = "delete" /\ UNCHANGED <<lockFiles, backups, dataDirs>>
    BY DEF Deletes
  <1>2. PICK tree \in work.old, value \in {"partial", "none"},
             at \in {"delete", "delete data", "append"} :
                /\ trees' = [trees EXCEPT ![tree] = value] /\ Goes(at)
                /\ at = "delete data" => work.op = "remove"
    BY DEF Deletes
  <1>3. /\ WorkTyped' /\ work'.at = at
        /\ work'.op = work.op /\ work'.name = work.name /\ work'.file = work.file
        /\ work'.next = work.next /\ work'.old = work.old
    BY <1>1, <1>2, WorkGoesOn DEF WorkPlaces
  <1>4. Installed' = Installed /\ Backup' = Backup
    BY <1>1, SameFiles
  <1>5. /\ work.file = "lock" /\ Installed = work.next /\ Backup = NoPlugins
        /\ IsDocument(Installed) /\ AllWhole(Installed)
        /\ \A p \in DOMAIN Installed : <<p, Installed[p].hash>> \notin work.old
    BY <1>1, Deleting
  <1>6. TreesTyped'
    BY <1>2 DEF PluginInv, TreesTyped
  <1>7. \A p \in DOMAIN Installed : trees'[<<p, Installed[p].hash>>] = "whole" /\ p \in dataDirs'
    BY <1>1, <1>2, <1>5 DEF PluginInv, TreesTyped, AllWhole, Whole, IsDocument
  <1>8. FilesOK'
    BY <1>4, <1>5, <1>7 DEF FilesOK, IsDocument, AllWhole, Whole, NoPlugins
  <1>9. WorkOK'
    BY <1>1, <1>2, <1>3, <1>5, <1>7 DEF PluginInv, WorkOK, Whole
  <1>10. FileWork'
    BY <1>3, <1>5 DEF FileWork
  <1> QED BY <1>3, <1>6, <1>8, <1>9, <1>10 DEF PluginInv

LEMMA DeleteDataKeeps ==
    ASSUME PluginInv, DeletesData
    PROVE  PluginInv'
  <1>1. /\ work.at = "delete data" /\ UNCHANGED <<lockFiles, backups, trees>>
        /\ dataDirs' = dataDirs \ {work.name} /\ Goes("append")
    BY DEF DeletesData
  <1>2. /\ WorkTyped' /\ work'.at = "append"
        /\ work'.op = work.op /\ work'.name = work.name /\ work'.file = work.file
        /\ work'.next = work.next /\ work'.old = work.old
    BY <1>1, WorkGoesOn DEF WorkPlaces
  <1>3. Installed' = Installed /\ Backup' = Backup
    BY <1>1, SameFiles
  <1>4. /\ work.file = "lock" /\ Installed = work.next /\ Backup = NoPlugins
        /\ IsDocument(Installed) /\ AllWhole(Installed) /\ work.name \notin DOMAIN Installed
    BY <1>1, Deleting
  <1>5. \A p \in DOMAIN Installed : trees'[<<p, Installed[p].hash>>] = "whole" /\ p \in dataDirs'
    BY <1>1, <1>4 DEF AllWhole, Whole
  <1>6. FilesOK'
    BY <1>3, <1>4, <1>5 DEF FilesOK, IsDocument, AllWhole, Whole, NoPlugins
  <1>7. WorkOK'
    BY <1>1, <1>2, <1>4, <1>5 DEF PluginInv, WorkOK, Whole
  <1>8. FileWork' /\ TreesTyped'
    BY <1>1, <1>2, <1>4 DEF PluginInv, FileWork, TreesTyped
  <1> QED BY <1>2, <1>6, <1>7, <1>8 DEF PluginInv

\* Steps that leave the disk and end the command.
LEMMA ReleaseKeeps ==
    ASSUME PluginInv, Releases, UNCHANGED <<lockFiles, backups, trees, dataDirs>>
    PROVE  PluginInv'
  BY SameFiles, FilesStay, WorkReleased DEF PluginInv, TreesTyped

LEMMA AppendKeeps ==
    ASSUME PluginInv, Appends
    PROVE  PluginInv'
  <1>1. work.at = "append" /\ UNCHANGED <<lockFiles, backups, trees, dataDirs>>
    BY DEF Appends
  <1>2. CASE Releases
    BY <1>1, <1>2, ReleaseKeeps
  <1>3. CASE Goes("anchor")
    <2>1. /\ WorkTyped' /\ work'.at = "anchor"
          /\ work'.op = work.op /\ work'.name = work.name /\ work'.file = work.file
          /\ work'.next = work.next /\ work'.old = work.old
      BY <1>1, <1>3, WorkGoesOn DEF WorkPlaces
    <2>2. WorkOK' /\ FileWork' /\ TreesTyped'
      BY <1>1, <2>1 DEF PluginInv, WorkOK, FileWork, TreesTyped, Whole, WorkPlaces
    <2> QED BY <1>1, <2>1, <2>2, SameFiles, FilesStay DEF PluginInv
  <1> QED BY <1>2, <1>3 DEF Appends

LEMMA PluginStart == PluginInit => PluginInv
  BY DEF PluginInit, PluginInv, TreesTyped, FilesOK, IsDocument, AllWhole, Installed, Backup,
         NoFiles, NoPlugins, WorkTyped, WorkOK, FileWork, NoWork, WorkPlaces

LEMMA PluginStep ==
    ASSUME PluginInv, PluginNext \/ UNCHANGED pluginVars
    PROVE  PluginInv'
  <1>1. CASE UNCHANGED pluginVars
    <2>1. UNCHANGED <<lockFiles, backups, trees, dataDirs, work>>
      BY <1>1 DEF pluginVars
    <2>2. FilesOK' /\ TreesTyped'
      BY <2>1, SameFiles, FilesStay DEF PluginInv, TreesTyped
    <2> QED BY <2>1, <2>2 DEF PluginInv, WorkTyped, WorkOK, FileWork, IsDocument, Whole
  <1>2. CASE DeleteFails \/ Anchors \/ Dies
    BY <1>2, ReleaseKeeps DEF DeleteFails, Anchors, Dies
  <1> QED BY <1>1, <1>2, CommandKeeps, PlaceKeeps, SetAsideKeeps, RenameKeeps, RestoreKeeps,
             TidyKeeps, DeleteKeeps, DeleteDataKeeps, AppendKeeps DEF PluginNext

\* Whatever commands the command line and the server run, and wherever one of them fails or its
\* process dies: what the lockfile names, and what its backup would bring back, is there, whole
\* (store.rs: replace_file, install_directory_locked, uninstall).
THEOREM PluginsAreWhole == PluginSpec => []NoPhantom
  <1>1. PluginInv /\ [PluginNext]_pluginVars => PluginInv'
    BY PluginStep
  <1>2. PluginInv => NoPhantom
    BY DEF PluginInv, FilesOK, AllWhole, Backup, Installed, NoPhantom, Whole
  <1> QED BY <1>1, <1>2, PluginStart, PTL DEF PluginSpec

-----------------------------------------------------------------------------
(* The logins of a provider *)

Bundles == [account : Logins, access : Nat, refresh : Nat]
LoginPlaces == {"idle", "started", "exchanging", "failed", "granted", "making", "storing", "done"}
UsePlaces == {"idle", "renewing", "keeping", "sending", "refused", "refreshing", "rekeeping",
              "caching", "resending", "answered", "failed"}
LoginTyped ==
    /\ login \in [Logins -> [at : LoginPlaces, row : Nat]]
    /\ rows \in Seq(Bundles \cup {NoBundle})
    /\ source \in [Drivers -> [row : Nat, cached : Bundles \cup {NoBundle}]]
    /\ use \in [ModelUses -> [at : UsePlaces, bundle : Bundles \cup {NoBundle}]]
    /\ renewals \in [Logins -> Nat] /\ accepted \in [Logins -> Nat]

\* A request that asks for a renewal of the bundle it has read, and one that has a renewed
\* bundle to store.
Asking(u) == use[u].at \in {"renewing", "refreshing"}
Keeping(u) == use[u].at \in {"keeping", "rekeeping"}

\* A bundle of row r: its account is that of a login that is done and whose row is r; its
\* refresh token is not one the provider has still to give, and the only one it ever gives an
\* account that does not rotate.
OfRow(b, r) ==
    /\ b \in Bundles /\ login[b.account].at = "done" /\ login[b.account].row = r
    /\ b.refresh <= accepted[b.account]
    /\ b.account \notin Rotating => b.refresh = 1 /\ accepted[b.account] = 1

LoginOK(l) ==
    /\ login[l].at \in {"granted", "making", "storing"} => accepted[l] = 1
    /\ login[l].at \in {"storing", "done"} => login[l].row \in DOMAIN rows
RowOK(r) ==
    rows[r] # NoBundle =>
        /\ OfRow(rows[r], r)
        /\ \/ rows[r].refresh = accepted[rows[r].account]
           \/ Renewing(rows[r].account) \/ rows[r].account \in losses
SourceOK(d) ==
    source[d].row # 0 => source[d].row \in DOMAIN rows /\ rows[source[d].row] # NoBundle
UseOK(u) ==
    /\ Asking(u) \/ Keeping(u) => Source(u).row # 0 /\ OfRow(use[u].bundle, Source(u).row)
    /\ use[u].at \in {"sending", "refused"} => Source(u).row # 0
    /\ Keeping(u) => use[u].bundle.refresh = accepted[use[u].bundle.account]

\* Of an account that rotates, the token to be stored is held by one request, and is not yet
\* in the store nor in the hands of one that asks.
Alone(u) ==
    Keeping(u) /\ use[u].bundle.account \in Rotating =>
        /\ \A v \in ModelUses \ {u} :
              (Asking(v) \/ Keeping(v)) /\ use[v].bundle.account = use[u].bundle.account
                 => use[v].bundle.refresh # use[u].bundle.refresh
        /\ \A r \in DOMAIN rows :
              rows[r] # NoBundle /\ rows[r].account = use[u].bundle.account
                 => rows[r].refresh # use[u].bundle.refresh

LoginInv ==
    /\ LoginTyped
    /\ \A l \in Logins : LoginOK(l)
    /\ \A r \in DOMAIN rows : RowOK(r)
    /\ \A d \in Drivers : SourceOK(d)
    /\ \A u \in ModelUses : UseOK(u) /\ Alone(u)

UseType == [at : UsePlaces, bundle : Bundles \cup {NoBundle}]
LoginType == [at : LoginPlaces, row : Nat]
SourceType == [row : Nat, cached : Bundles \cup {NoBundle}]

LEMMA UseMoves ==
    ASSUME LoginTyped, NEW u \in ModelUses, NEW at \in UsePlaces, UseAt(u, at)
    PROVE  /\ use' \in [ModelUses -> UseType]
           /\ use'[u].at = at /\ use'[u].bundle = use[u].bundle
           /\ \A v \in ModelUses \ {u} : use'[v] = use[v]
  BY DEF LoginTyped, UseAt, UseType

LEMMA LoginMoves ==
    ASSUME LoginTyped, NEW l \in Logins, NEW at \in LoginPlaces, LoginAt(l, at)
    PROVE  /\ login' \in [Logins -> LoginType]
           /\ login'[l].at = at /\ login'[l].row = login[l].row
           /\ \A k \in Logins \ {l} : login'[k] = login[k]
  BY DEF LoginTyped, LoginAt, LoginType

LEMMA CacheMoves ==
    ASSUME LoginTyped, NEW u \in ModelUses, NEW b \in Bundles \cup {NoBundle}, Caches(u, b)
    PROVE  /\ source' \in [Drivers -> SourceType]
           /\ \A d \in Drivers : source'[d].row = source[d].row
  <1> DEFINE d == DriverOf[u]
             cached == [source[d] EXCEPT !.cached = b]
  <1>1. d \in Drivers /\ source \in [Drivers -> SourceType]
    BY LoginAssumption DEF LoginTyped, SourceType
  <1>2. cached \in SourceType /\ cached.row = source[d].row
    BY <1>1 DEF SourceType
  <1>3. source' = [source EXCEPT ![d] = cached]
    BY <1>1 DEF Caches
  <1> HIDE DEF d, cached, SourceType
  <1> QED BY <1>1, <1>2, <1>3

LEMMA BundlesDiffer == NoBundle \notin Bundles
  BY LoginAssumption DEF Bundles

LEMMA DriversOfUses == \A u \in ModelUses : DriverOf[u] \in Drivers
  BY LoginAssumption

\* A step of a request that reads, renews and stores nothing: what it may have had to store is
\* stored, or its account lost.
LEMMA RestingUse ==
    ASSUME LoginInv, LoginTyped', UNCHANGED <<login, rows, accepted>>, losses \subseteq losses',
           \A d \in Drivers : source'[d].row = source[d].row,
           NEW u \in ModelUses, \A v \in ModelUses \ {u} : use'[v] = use[v],
           use'[u].at \notin {"renewing", "refreshing", "keeping", "rekeeping"},
           Keeping(u) => use[u].bundle.account \in losses',
           use'[u].at \in {"sending", "refused"} => Source(u).row # 0
    PROVE  LoginInv'
  <1> USE DriversOfUses
  <1>1. \A b, r : OfRow(b, r)' <=> OfRow(b, r)
    BY DEF OfRow
  <1>2. \A l \in Logins : LoginOK(l)'
    BY DEF LoginInv, LoginOK
  <1>3. \A d \in Drivers : SourceOK(d)'
    BY DEF LoginInv, SourceOK
  <1>4. \A v \in ModelUses : UseOK(v)'
    BY DEF LoginInv, UseOK, Asking, Keeping, Source, OfRow
  <1>5. \A v \in ModelUses : Alone(v)'
    BY DEF LoginInv, Alone, Asking, Keeping
  <1>6. ASSUME NEW r \in DOMAIN rows
        PROVE  RowOK(r)'
    BY DEF LoginInv, RowOK, OfRow, Renewing, Keeping
  <1> QED BY <1>2, <1>3, <1>4, <1>5, <1>6 DEF LoginInv

\* A request takes the stored bundle to have it renewed.
LEMMA ReadingUse ==
    ASSUME LoginInv, LoginTyped', UNCHANGED <<login, rows, source, accepted, losses>>,
           NEW u \in ModelUses, \A v \in ModelUses \ {u} : use'[v] = use[v],
           use[u].at \in {"idle", "refused"}, use'[u].at \in {"renewing", "refreshing"},
           use'[u].bundle = Stored(u), Source(u).row # 0
    PROVE  LoginInv'
  <1> USE DriversOfUses
  <1>1. \A l \in Logins : LoginOK(l)'
    BY DEF LoginInv, LoginOK
  <1>2. \A d \in Drivers : SourceOK(d)'
    BY DEF LoginInv, SourceOK
  <1>3. /\ Source(u).row \in DOMAIN rows /\ Stored(u) # NoBundle
        /\ OfRow(Stored(u), Source(u).row)
    BY DEF LoginInv, SourceOK, RowOK, Source, Stored
  <1>4. \A v \in ModelUses : UseOK(v)'
    BY <1>3 DEF LoginInv, UseOK, Asking, Keeping, Source, OfRow
  <1>5. \A v \in ModelUses : Alone(v)'
    BY <1>3 DEF LoginInv, Alone, Asking, Keeping, Stored, Source
  <1>6. ASSUME NEW r \in DOMAIN rows
        PROVE  RowOK(r)'
    BY DEF LoginInv, RowOK, OfRow, Renewing
  <1> QED BY <1>1, <1>2, <1>4, <1>5, <1>6 DEF LoginInv

\* The provider grants a renewal: the one who asked with the token it accepts is alone with
\* the next.
LEMMA GrantKeeps ==
    ASSUME LoginInv, NEW u \in ModelUses, Asking(u), NEW renewed \in {"keeping", "rekeeping"},
           Granted(u, renewed), UNCHANGED <<login, rows, source, losses>>
    PROVE  LoginInv'
  <1> USE DriversOfUses
  <1> DEFINE b == use[u].bundle
             a == b.account
             new == Bundle(a, renewals'[a], accepted'[a])
  <1>1. /\ OfRow(b, Source(u).row) /\ Source(u).row # 0 /\ b.refresh = accepted[a]
        /\ b \in Bundles /\ a \in Logins /\ login[a].at = "done"
    BY DEF LoginInv, UseOK, Granted, OfRow, Bundles
  <1>2. /\ accepted' \in [Logins -> Nat] /\ renewals' \in [Logins -> Nat]
        /\ accepted'[a] = (IF a \in Rotating THEN accepted[a] + 1 ELSE accepted[a])
        /\ \A c \in Logins \ {a} : accepted'[c] = accepted[c]
        /\ accepted[a] \in Nat
    BY <1>1 DEF LoginInv, LoginTyped, Granted
  <1>3. new \in Bundles /\ new.account = a /\ new.refresh = accepted'[a]
    BY <1>1, <1>2 DEF Bundle, Bundles
  <1>4. /\ use' \in [ModelUses -> UseType] /\ use'[u].at = renewed /\ use'[u].bundle = new
        /\ \A v \in ModelUses \ {u} : use'[v] = use[v]
    BY <1>3 DEF LoginInv, LoginTyped, Granted, UseType, UsePlaces
  <1> HIDE DEF new
  <1>5. LoginTyped'
    BY <1>2, <1>4 DEF LoginInv, LoginTyped, UseType
  <1>6. ASSUME NEW c, NEW r, OfRow(c, r)
        PROVE  OfRow(c, r)' /\ (c.account = a /\ a \in Rotating => c.refresh # accepted'[a])
    <2>1. c.account \in Logins /\ c.refresh \in Nat /\ accepted[c.account] \in Nat
      BY <1>6 DEF OfRow, Bundles, LoginInv, LoginTyped
    <2> QED BY <1>1, <1>2, <1>6, <2>1 DEF OfRow
  <1>7. ASSUME NEW v \in ModelUses \ {u}, Keeping(v), use[v].bundle.account = a
        PROVE  a \notin Rotating
    BY <1>1, <1>7 DEF LoginInv, UseOK, Alone, OfRow
  <1>8. \A l \in Logins : LoginOK(l)'
    BY <1>1, <1>2 DEF LoginInv, LoginOK
  <1>9. \A d \in Drivers : SourceOK(d)'
    BY DEF LoginInv, SourceOK
  <1>10. OfRow(use[u].bundle, Source(u).row)'
    <2>1. /\ use'[u].bundle \in Bundles /\ use'[u].bundle.account = a
          /\ use'[u].bundle.refresh = accepted'[a] /\ accepted'[a] \in Nat
      BY <1>1, <1>2, <1>3, <1>4
    <2>2. login'[a].at = "done" /\ login'[a].row = Source(u).row /\ Source(u)' = Source(u)
      BY <1>1 DEF OfRow, Source
    <2>3. a \notin Rotating => accepted'[a] = 1
      BY <1>1, <1>2 DEF OfRow
    <2>4. use'[u].bundle.refresh <= accepted'[a]
      BY <2>1
    <2> HIDE DEF a
    <2> QED BY <2>1, <2>2, <2>3, <2>4 DEF OfRow
  <1>11. ASSUME NEW v \in ModelUses
         PROVE  UseOK(v)'
    <2>1. CASE v = u
      <3>1. Source(u)' = Source(u) /\ use'[u].at \in {"keeping", "rekeeping"}
        BY <1>4 DEF Source
      <3>2. use'[u].bundle.refresh = accepted'[use'[u].bundle.account]
        BY <1>3, <1>4
      <3> QED BY <1>1, <1>10, <2>1, <3>1, <3>2 DEF UseOK, Asking, Keeping
    <2>2. CASE v # u
      <3>1. /\ Asking(v) \/ Keeping(v) => OfRow(use[v].bundle, Source(v).row)
            /\ UseOK(v)
        BY DEF LoginInv, UseOK
      <3>2. Keeping(v) => use[v].bundle.refresh = accepted'[use[v].bundle.account]
        BY <1>1, <1>2, <1>7, <2>2, <3>1 DEF UseOK, OfRow, Bundles
      <3> QED BY <1>4, <1>6, <2>2, <3>1, <3>2 DEF UseOK, Asking, Keeping, Source
    <2> QED BY <2>1, <2>2
  <1>12. ASSUME NEW v \in ModelUses
         PROVE  Alone(v)'
    <2>1. CASE v = u
      <3>1. ASSUME NEW w \in ModelUses \ {u}, Asking(w) \/ Keeping(w), use[w].bundle.account = a,
                   a \in Rotating
            PROVE  use[w].bundle.refresh # new.refresh
        BY <1>3, <1>6, <3>1 DEF LoginInv, UseOK
      <3>2. ASSUME NEW r \in DOMAIN rows, rows[r] # NoBundle, rows[r].account = a, a \in Rotating
            PROVE  rows[r].refresh # new.refresh
        BY <1>3, <1>6, <3>2 DEF LoginInv, RowOK
      <3> QED BY <1>3, <1>4, <2>1, <3>1, <3>2 DEF Alone, Asking, Keeping
    <2>2. CASE v # u
      BY <1>3, <1>4, <1>7, <2>2 DEF LoginInv, Alone, Asking, Keeping
    <2> QED BY <2>1, <2>2
  <1>13. ASSUME NEW r \in DOMAIN rows
         PROVE  RowOK(r)'
    <2>1. CASE rows[r] # NoBundle
      <3>1. /\ OfRow(rows[r], r)
            /\ \/ rows[r].refresh = accepted[rows[r].account]
               \/ Renewing(rows[r].account) \/ rows[r].account \in losses
        BY <2>1 DEF LoginInv, RowOK
      <3>2. rows[r].account \in Logins
        BY <3>1 DEF OfRow, Bundles
      <3>3. Renewing(rows[r].account) => Renewing(rows[r].account)'
        BY <1>4 DEF Renewing, Asking
      <3>4. rows[r].account = a => Renewing(rows[r].account)'
        BY <1>3, <1>4 DEF Renewing
      <3> QED BY <1>2, <1>6, <3>1, <3>2, <3>3, <3>4 DEF RowOK
    <2> QED BY <2>1 DEF RowOK
  <1> QED BY <1>5, <1>8, <1>9, <1>11, <1>12, <1>13 DEF LoginInv

\* A renewed bundle is stored: it was the only one its account waited for.
LEMMA StoreKeeps ==
    ASSUME LoginInv, NEW u \in ModelUses, Keeping(u), NEW at \in {"sending", "caching"},
           UseAt(u, at), Persists(u, use[u].bundle), LoginTyped',
           \A d \in Drivers : source'[d].row = source[d].row,
           UNCHANGED <<login, accepted, losses>>
    PROVE  LoginInv'
  <1> USE DriversOfUses
  <1> DEFINE b == use[u].bundle
             row == Source(u).row
  <1>1. /\ OfRow(b, row) /\ row # 0 /\ row \in DOMAIN rows /\ b.refresh = accepted[b.account]
        /\ b \in Bundles
    BY DEF LoginInv, UseOK, SourceOK, Source, OfRow
  <1>2. /\ use'[u].at = at /\ use'[u].bundle = b
        /\ \A v \in ModelUses \ {u} : use'[v] = use[v]
    BY UseMoves DEF LoginInv, UsePlaces
  <1>3. /\ DOMAIN rows' = DOMAIN rows /\ rows'[row] = b
        /\ \A r \in DOMAIN rows \ {row} : rows'[r] = rows[r]
    BY <1>1 DEF Persists
  <1>4. b # NoBundle
    BY <1>1, BundlesDiffer
  <1>5. \A c, r : OfRow(c, r)' <=> OfRow(c, r)
    BY DEF OfRow
  <1> HIDE DEF b, row
  <1>6. \A l \in Logins : LoginOK(l)'
    BY <1>3 DEF LoginInv, LoginOK
  <1>7. \A d \in Drivers : SourceOK(d)'
    BY <1>3, <1>4 DEF LoginInv, SourceOK
  <1>8. ASSUME NEW v \in ModelUses
        PROVE  UseOK(v)'
    BY <1>1, <1>2, <1>5 DEF LoginInv, UseOK, Asking, Keeping, Source, row
  <1>9. ASSUME NEW v \in ModelUses
        PROVE  Alone(v)'
    <2>1. CASE v = u
      BY <1>2, <2>1 DEF Alone, Keeping
    <2>2. CASE v # u
      <3>1. ASSUME Keeping(v), use[v].bundle.account \in Rotating, b.account = use[v].bundle.account
            PROVE  b.refresh # use[v].bundle.refresh
        BY <2>2, <3>1 DEF LoginInv, Alone, b
      <3> QED BY <1>2, <1>3, <2>2, <3>1 DEF LoginInv, Alone, Asking, Keeping
    <2> QED BY <2>1, <2>2
  <1>10. ASSUME NEW r \in DOMAIN rows
         PROVE  RowOK(r)'
    <2>1. CASE r = row
      BY <1>1, <1>3, <1>5, <2>1 DEF RowOK
    <2>2. CASE r # row /\ rows[r] # NoBundle
      <3>1. /\ OfRow(rows[r], r)
            /\ \/ rows[r].refresh = accepted[rows[r].account]
               \/ Renewing(rows[r].account) \/ rows[r].account \in losses
        BY <2>2 DEF LoginInv, RowOK
      <3>2. rows[r].account # b.account
        BY <1>1, <2>2, <3>1 DEF OfRow
      <3>3. ASSUME Renewing(rows[r].account)
            PROVE  Renewing(rows[r].account)'
        <4>1. PICK v \in ModelUses : /\ use[v].at \in {"keeping", "rekeeping"}
                                     /\ use[v].bundle.account = rows[r].account
          BY <3>3 DEF Renewing
        <4>2. v # u /\ rows'[r] = rows[r]
          BY <1>3, <2>2, <3>2, <4>1 DEF b
        <4> QED BY <1>2, <4>1, <4>2 DEF Renewing
      <3> QED BY <1>3, <1>5, <2>2, <3>1, <3>3 DEF RowOK
    <2> QED BY <1>3, <2>1, <2>2 DEF RowOK
  <1> QED BY <1>3, <1>6, <1>7, <1>8, <1>9, <1>10 DEF LoginInv

\* A login that is not done yet is nobody's account; it may add an empty row.
LEMMA LoginKeeps ==
    ASSUME LoginInv, LoginTyped', UNCHANGED <<source, use, losses>>,
           NEW l \in Logins, login[l].at # "done", login'[l].at # "done",
           \A k \in Logins \ {l} : login'[k] = login[k] /\ accepted'[k] = accepted[k],
           DOMAIN rows \subseteq DOMAIN rows',
           \A r \in DOMAIN rows : rows'[r] = rows[r],
           \A r \in DOMAIN rows' \ DOMAIN rows : rows'[r] = NoBundle,
           LoginOK(l)'
    PROVE  LoginInv'
  <1> USE DriversOfUses
  <1>1. ASSUME NEW b, NEW r, OfRow(b, r)
        PROVE  b.account \in Logins /\ b.account # l /\ OfRow(b, r)'
    BY <1>1 DEF OfRow, Bundles
  <1>2. ASSUME NEW k \in Logins
        PROVE  LoginOK(k)'
    <2>1. k # l => LoginOK(k)'
      BY DEF LoginInv, LoginOK
    <2> QED BY <2>1
  <1>3. ASSUME NEW d \in Drivers
        PROVE  SourceOK(d)'
    BY DEF LoginInv, SourceOK
  <1>4. ASSUME NEW v \in ModelUses
        PROVE  UseOK(v)'
    <2>1. UseOK(v) /\ Source(v)' = Source(v)
      BY DEF LoginInv, Source
    <2> QED BY <1>1, <2>1 DEF UseOK, Asking, Keeping
  <1>5. ASSUME NEW v \in ModelUses
        PROVE  Alone(v)'
    BY DEF LoginInv, Alone, Asking, Keeping
  <1>6. ASSUME NEW r \in DOMAIN rows'
        PROVE  RowOK(r)'
    <2>1. CASE r \in DOMAIN rows
      <3>1. RowOK(r) /\ rows'[r] = rows[r]
        BY <2>1 DEF LoginInv
      <3>2. \A a : Renewing(a)' <=> Renewing(a)
        BY DEF Renewing
      <3> QED BY <1>1, <3>1, <3>2 DEF RowOK
    <2> QED BY <2>1 DEF RowOK
  <1> QED BY <1>2, <1>3, <1>4, <1>5, <1>6 DEF LoginInv

\* A login stores its first bundle, over whatever the row held.
LEMMA StoringKeeps ==
    ASSUME LoginInv, NEW l \in Logins, StoresLogin(l)
    PROVE  LoginInv'
  <1> USE DriversOfUses
  <1> DEFINE row == login[l].row
             b == Bundle(l, 0, 1)
  <1>1. /\ login[l].at = "storing" /\ LoginAt(l, "done")
        /\ rows' = [rows EXCEPT ![row] = b] /\ UNCHANGED <<source, use, renewals, accepted, losses>>
    BY DEF StoresLogin, providerVars
  <1>2. row \in DOMAIN rows /\ accepted[l] = 1
    BY <1>1 DEF LoginInv, LoginOK
  <1>3. b \in Bundles /\ b.account = l /\ b.refresh = 1 /\ b # NoBundle
    <2>1. b \in Bundles /\ b.account = l /\ b.refresh = 1
      BY DEF Bundle, Bundles
    <2> QED BY <2>1, BundlesDiffer
  <1>4. /\ login' \in [Logins -> LoginType] /\ login'[l].at = "done" /\ login'[l].row = row
        /\ \A k \in Logins \ {l} : login'[k] = login[k]
    BY <1>1, LoginMoves DEF LoginInv, LoginPlaces
  <1>5. /\ DOMAIN rows' = DOMAIN rows /\ rows'[row] = b
        /\ \A r \in DOMAIN rows \ {row} : rows'[r] = rows[r]
    BY <1>1, <1>2
  <1> HIDE DEF b
  <1>6. rows' \in Seq(Bundles \cup {NoBundle})
    BY <1>1, <1>2, <1>3 DEF LoginInv, LoginTyped
  <1>7. LoginTyped'
    BY <1>1, <1>4, <1>6 DEF LoginInv, LoginTyped, LoginType
  <1>8. ASSUME NEW c, NEW r, OfRow(c, r)
        PROVE  c.account \in Logins /\ c.account # l /\ OfRow(c, r)'
    BY <1>1, <1>4, <1>8 DEF OfRow, Bundles
  <1>9. OfRow(rows[row], row)' /\ row' = row
    BY <1>1, <1>2, <1>3, <1>4, <1>5 DEF OfRow
  <1>10. ASSUME NEW k \in Logins
         PROVE  LoginOK(k)'
    BY <1>1, <1>2, <1>4, <1>5 DEF LoginInv, LoginOK
  <1>11. ASSUME NEW d \in Drivers
         PROVE  SourceOK(d)'
    BY <1>1, <1>3, <1>5 DEF LoginInv, SourceOK
  <1>12. ASSUME NEW v \in ModelUses
         PROVE  UseOK(v)'
    <2>1. UseOK(v) /\ Source(v)' = Source(v)
      BY <1>1 DEF LoginInv, Source
    <2> QED BY <1>1, <1>8, <2>1 DEF UseOK, Asking, Keeping
  <1>13. ASSUME NEW v \in ModelUses
         PROVE  Alone(v)'
    <2>1. Keeping(v) => use[v].bundle.account # l
      BY <1>8 DEF LoginInv, UseOK
    <2>2. Alone(v) /\ UNCHANGED use
      BY <1>1 DEF LoginInv
    <2>3. ASSUME NEW r \in DOMAIN rows', rows'[r] # NoBundle, rows'[r].account # l
          PROVE  r \in DOMAIN rows /\ rows'[r] = rows[r]
      BY <1>3, <1>5, <2>3
    <2> QED BY <2>1, <2>2, <2>3 DEF Alone, Asking, Keeping
  <1>14. ASSUME NEW r \in DOMAIN rows'
         PROVE  RowOK(r)'
    <2>1. CASE r = row
      <3>1. rows'[r].refresh = accepted'[rows'[r].account]
        BY <1>1, <1>2, <1>3, <1>5, <2>1
      <3> HIDE DEF row
      <3> QED BY <1>9, <2>1, <3>1 DEF RowOK
    <2>2. CASE r # row
      <3>1. RowOK(r) /\ rows'[r] = rows[r]
        BY <1>5, <2>2 DEF LoginInv
      <3>2. \A a : Renewing(a)' <=> Renewing(a)
        BY <1>1 DEF Renewing
      <3> QED BY <1>1, <1>8, <3>1, <3>2 DEF RowOK
    <2> QED BY <2>1, <2>2
  <1> QED BY <1>7, <1>10, <1>11, <1>12, <1>13, <1>14 DEF LoginInv

\* The driver is opened on a row that has tokens.
LEMMA FirstWithTokens ==
    ASSUME rows \in Seq(Bundles \cup {NoBundle}), \E r \in DOMAIN rows : rows[r] # NoBundle
    PROVE  LET r == SelectInSeq(rows, LAMBDA b : b # NoBundle)
           IN  r \in DOMAIN rows /\ rows[r] # NoBundle
  <1> DEFINE full == {r \in 1..Len(rows) : rows[r] # NoBundle}
             less == {p \in Nat \X Nat : p[1] < p[2]}
  <1>1. full \subseteq Nat /\ full # {} /\ full \subseteq DOMAIN rows
    OBVIOUS
  <1>2. IsWellFoundedOn(less, Nat)
    <2>1. OpToRel(<, Nat) = less
      BY Zenon DEF OpToRel
    <2> QED BY <2>1, NatLessThanWellFounded, Zenon
  <1>3. \E m \in full : \A r \in full : ~(<<r, m>> \in less)
    <2> HIDE DEF less, full
    <2> QED BY <1>1, <1>2, WFMin, Zenon
  <1>4. PICK m \in full : \A r \in full : ~(<<r, m>> \in less)
    BY <1>3
  <1>5. ASSUME NEW r \in full
        PROVE  m <= r
    <2>1. r \in Nat /\ m \in Nat
      BY <1>1
    <2>2. ~(r < m)
      BY <1>4, <2>1
    <2> QED BY <2>1, <2>2
  <1>6. Min(full) \in full
    BY <1>5 DEF Min
  <1> QED BY <1>1, <1>6 DEF SelectInSeq

LEMMA OpeningKeeps ==
    ASSUME LoginInv, NEW d \in Drivers, OpensSource(d)
    PROVE  LoginInv'
  <1> USE DriversOfUses
  <1> DEFINE row == SelectInSeq(rows, LAMBDA b : b # NoBundle)
  <1>1. /\ source[d].row = 0 /\ source' = [source EXCEPT ![d].row = row]
        /\ UNCHANGED <<login, rows, use, renewals, accepted, losses>>
    BY DEF OpensSource, providerVars
  <1>2. row \in DOMAIN rows /\ rows[row] # NoBundle /\ row \in Nat
    <2>1. rows \in Seq(Bundles \cup {NoBundle}) /\ \E r \in DOMAIN rows : rows[r] # NoBundle
      BY DEF LoginInv, LoginTyped, OpensSource
    <2>2. row \in DOMAIN rows /\ rows[row] # NoBundle
      BY <2>1, FirstWithTokens
    <2>3. DOMAIN rows \subseteq Nat
      BY <2>1
    <2> QED BY <2>2, <2>3
  <1> HIDE DEF row
  <1>3. /\ source' \in [Drivers -> SourceType] /\ source'[d].row = row
        /\ \A e \in Drivers \ {d} : source'[e] = source[e]
    BY <1>1, <1>2 DEF LoginInv, LoginTyped, SourceType
  <1>4. LoginTyped'
    BY <1>1, <1>3 DEF LoginInv, LoginTyped, SourceType
  <1>5. \A b, r : OfRow(b, r)' <=> OfRow(b, r)
    BY <1>1 DEF OfRow
  <1>6. ASSUME NEW l \in Logins
        PROVE  LoginOK(l)'
    BY <1>1 DEF LoginInv, LoginOK
  <1>7. ASSUME NEW e \in Drivers
        PROVE  SourceOK(e)'
    BY <1>1, <1>2, <1>3 DEF LoginInv, SourceOK
  <1>8. ASSUME NEW v \in ModelUses
        PROVE  UseOK(v)'
    <2>1. Source(v).row # 0 => Source(v)' = Source(v)
      BY <1>1, <1>3 DEF Source
    <2>2. UseOK(v)
      BY DEF LoginInv
    <2>3. use[v].at \in {"sending", "refused", "renewing", "refreshing", "keeping", "rekeeping"}
             => Source(v).row # 0
      BY <2>2 DEF UseOK, Asking, Keeping
    <2> QED BY <1>1, <1>5, <2>1, <2>2, <2>3 DEF UseOK, Asking, Keeping
  <1>9. ASSUME NEW v \in ModelUses
        PROVE  Alone(v)'
    BY <1>1 DEF LoginInv, Alone, Asking, Keeping
  <1>10. ASSUME NEW r \in DOMAIN rows
         PROVE  RowOK(r)'
    BY <1>1, <1>5 DEF LoginInv, RowOK, Renewing
  <1> QED BY <1>1, <1>4, <1>6, <1>7, <1>8, <1>9, <1>10 DEF LoginInv

\* A driver's process dies: what its requests were to store is lost.
LEMMA DyingKeeps ==
    ASSUME LoginInv, NEW d \in Drivers, SourceDies(d)
    PROVE  LoginInv'
  <1> USE DriversOfUses
  <1> DEFINE gone == {use[u].bundle.account :
                         u \in {v \in ModelUses : DriverOf[v] = d /\ use[v].at \in {"keeping", "rekeeping"}}}
  <1>1. /\ source' = [source EXCEPT ![d] = [row |-> 0, cached |-> NoBundle]]
        /\ losses' = losses \cup gone /\ UNCHANGED <<login, rows, renewals, accepted>>
    BY DEF SourceDies, providerVars
  <1>2. /\ source' \in [Drivers -> SourceType] /\ source'[d].row = 0
        /\ \A e \in Drivers \ {d} : source'[e] = source[e]
    BY <1>1 DEF LoginInv, LoginTyped, SourceType
  <1>3. use' = [u \in ModelUses |-> IF DriverOf[u] = d /\ use[u].at # "idle"
                                    THEN [use[u] EXCEPT !.at = "failed"] ELSE use[u]]
    BY DEF SourceDies
  <1>4. /\ use' \in [ModelUses -> UseType]
        /\ \A u \in ModelUses : DriverOf[u] # d => use'[u] = use[u]
        /\ \A u \in ModelUses : DriverOf[u] = d => use'[u].at \in {"idle", "failed"}
    <2>1. ASSUME NEW u \in ModelUses
          PROVE  [use[u] EXCEPT !.at = "failed"] \in UseType /\ use[u] \in UseType
      BY DEF LoginInv, LoginTyped, UseType, UsePlaces
    <2>2. ASSUME NEW u \in ModelUses, DriverOf[u] = d
          PROVE  use'[u].at \in {"idle", "failed"}
      BY <1>3, <2>1, <2>2 DEF UseType
    <2> QED BY <1>3, <2>1, <2>2
  <1>5. LoginTyped'
    BY <1>1, <1>2, <1>4 DEF LoginInv, LoginTyped, SourceType, UseType
  <1>6. \A b, r : OfRow(b, r)' <=> OfRow(b, r)
    BY <1>1 DEF OfRow
  <1>7. ASSUME NEW l \in Logins
        PROVE  LoginOK(l)'
    BY <1>1 DEF LoginInv, LoginOK
  <1>8. ASSUME NEW e \in Drivers
        PROVE  SourceOK(e)'
    BY <1>1, <1>2 DEF LoginInv, SourceOK
  <1>9. ASSUME NEW v \in ModelUses
        PROVE  UseOK(v)'
    <2>1. CASE DriverOf[v] = d
      BY <1>4, <2>1 DEF UseOK, Asking, Keeping
    <2>2. CASE DriverOf[v] # d
      <3>1. use'[v] = use[v] /\ Source(v)' = Source(v) /\ UseOK(v)
        BY <1>2, <1>4, <2>2 DEF LoginInv, Source
      <3> QED BY <1>1, <1>6, <3>1 DEF UseOK, Asking, Keeping
    <2> QED BY <2>1, <2>2
  <1>10. ASSUME NEW v \in ModelUses, Asking(v)' \/ Keeping(v)'
         PROVE  use'[v] = use[v]
    BY <1>4, <1>10 DEF Asking, Keeping
  <1>11. ASSUME NEW v \in ModelUses
         PROVE  Alone(v)'
    BY <1>1, <1>10 DEF LoginInv, Alone, Asking, Keeping
  <1>12. ASSUME NEW r \in DOMAIN rows
         PROVE  RowOK(r)'
    <2>1. RowOK(r)
      BY DEF LoginInv
    <2>2. ASSUME Renewing(rows[r].account)
          PROVE  Renewing(rows[r].account)' \/ rows[r].account \in losses'
      <3>1. PICK u \in ModelUses : /\ use[u].at \in {"keeping", "rekeeping"}
                                   /\ use[u].bundle.account = rows[r].account
        BY <2>2 DEF Renewing
      <3>2. CASE DriverOf[u] = d
        BY <1>1, <3>1, <3>2
      <3>3. CASE DriverOf[u] # d
        BY <1>1, <1>4, <3>1, <3>3 DEF Renewing
      <3> QED BY <3>2, <3>3
    <2> QED BY <1>1, <1>6, <2>1, <2>2 DEF RowOK
  <1> QED BY <1>1, <1>5, <1>7, <1>8, <1>9, <1>11, <1>12 DEF LoginInv

\* The steps of a login before it stores its bundle.
LEMMA LoginGoes ==
    ASSUME LoginInv, NEW l \in Logins, LoginStep(l), ~StoresLogin(l)
    PROVE  LoginInv'
  <1> USE DEF LoginInv
  <1>1. CASE Starts(l) \/ \E code \in Logins : CliReturns(l, code) \/ \E h \in handshakes : Completes(l, h, code)
    <2>1. PICK at \in {"started", "exchanging", "failed"} :
             LoginAt(l, at) /\ login[l].at \in {"idle", "started"}
      BY <1>1 DEF Starts, CliReturns, Completes
    <2>2. UNCHANGED <<rows, source, use, renewals, accepted, losses>>
      BY <1>1 DEF Starts, CliReturns, Completes, providerVars
    <2>3. /\ login' \in [Logins -> LoginType] /\ login'[l].at = at
          /\ \A k \in Logins \ {l} : login'[k] = login[k]
      BY <2>1, LoginMoves DEF LoginPlaces
    <2>4. LoginTyped' /\ LoginOK(l)'
      BY <2>2, <2>3 DEF LoginTyped, LoginType, LoginOK
    <2> QED BY <2>1, <2>2, <2>3, <2>4, LoginKeeps
  <1>2. CASE Exchanges(l)
    <2>1. PICK at \in {"granted", "failed"} :
             /\ LoginAt(l, at) /\ login[l].at = "exchanging"
             /\ at = "granted" => accepted' = [accepted EXCEPT ![l] = 1]
             /\ at = "failed" => accepted' = accepted
      BY <1>2 DEF Exchanges
    <2>2. UNCHANGED <<rows, source, use, renewals, losses>>
      BY <1>2 DEF Exchanges
    <2>3. /\ login' \in [Logins -> LoginType] /\ login'[l].at = at
          /\ \A k \in Logins \ {l} : login'[k] = login[k]
      BY <2>1, LoginMoves DEF LoginPlaces
    <2>4. /\ accepted' \in [Logins -> Nat] /\ (at = "granted" => accepted'[l] = 1)
          /\ \A k \in Logins \ {l} : accepted'[k] = accepted[k]
      <3>1. accepted \in [Logins -> Nat]
        BY DEF LoginTyped
      <3> HIDE DEF LoginInv
      <3> QED BY <2>1, <3>1
    <2>5. LoginTyped' /\ LoginOK(l)'
      BY <2>2, <2>3, <2>4 DEF LoginTyped, LoginType, LoginOK
    <2> QED BY <2>1, <2>2, <2>3, <2>4, <2>5, LoginKeeps
  <1>3. CASE FindsRow(l)
    <2>1. /\ login[l].at = "granted" /\ UNCHANGED <<rows, source, use, renewals, accepted, losses>>
      BY <1>3 DEF FindsRow, providerVars
    <2>2. login' = [login EXCEPT ![l] = IF rows = <<>> THEN [@ EXCEPT !.at = "making"]
                                        ELSE [@ EXCEPT !.at = "storing", !.row = 1]]
      BY <1>3 DEF FindsRow
    <2>3. /\ login' \in [Logins -> LoginType] /\ login'[l].at \in {"making", "storing"}
          /\ login'[l].at = "storing" => rows # <<>> /\ login'[l].row = 1
          /\ \A k \in Logins \ {l} : login'[k] = login[k]
      BY <2>2 DEF LoginTyped, LoginType, LoginPlaces
    <2>4. rows # <<>> => 1 \in DOMAIN rows
      BY DEF LoginTyped
    <2>5. LoginTyped' /\ LoginOK(l)'
      BY <2>1, <2>3, <2>4 DEF LoginTyped, LoginType, LoginOK
    <2> QED BY <2>1, <2>3, <2>5, LoginKeeps
  <1>4. CASE MakesRow(l)
    <2>1. /\ login[l].at = "making" /\ rows' = Append(rows, NoBundle)
          /\ login' = [login EXCEPT ![l] = [at |-> "storing", row |-> Len(rows) + 1]]
          /\ UNCHANGED <<source, use, renewals, accepted, losses>>
      BY <1>4 DEF MakesRow, providerVars
    <2>2. /\ rows' \in Seq(Bundles \cup {NoBundle}) /\ DOMAIN rows = 1..Len(rows)
          /\ DOMAIN rows' = 1..(Len(rows) + 1) /\ Len(rows) \in Nat /\ rows'[Len(rows) + 1] = NoBundle
          /\ \A r \in DOMAIN rows : rows'[r] = rows[r]
      BY <2>1 DEF LoginTyped
    <2>3. /\ login' \in [Logins -> LoginType] /\ login'[l].at = "storing"
          /\ login'[l].row = Len(rows) + 1
          /\ \A k \in Logins \ {l} : login'[k] = login[k]
      BY <2>1, <2>2 DEF LoginTyped, LoginType, LoginPlaces
    <2>4. LoginTyped'
      BY <2>1, <2>2, <2>3 DEF LoginTyped, LoginType
    <2>5. LoginOK(l)'
      BY <2>1, <2>2, <2>3 DEF LoginOK
    <2>6. /\ DOMAIN rows \subseteq DOMAIN rows'
          /\ \A r \in DOMAIN rows' \ DOMAIN rows : rows'[r] = NoBundle
      BY <2>2
    <2> HIDE DEF LoginInv
    <2> QED BY <2>1, <2>2, <2>3, <2>4, <2>5, <2>6, LoginKeeps
  <1> QED BY <1>1, <1>2, <1>3, <1>4 DEF LoginStep

\* Taking a token: the cached one, the stored one, or the stored one to be renewed.
LEMMA TakingKeeps ==
    ASSUME LoginInv, NEW u \in ModelUses, TakesToken(u)
    PROVE  LoginInv'
  <1> USE DriversOfUses
  <1> DEFINE cached == IF Source(u).cached = NoBundle THEN Stored(u) ELSE Source(u).cached
             b == IF IsExpired(cached) THEN Stored(u) ELSE cached
             at == IF IsExpired(b) THEN "renewing" ELSE "sending"
  <1>1. /\ use[u].at = "idle" /\ Source(u).row # 0
        /\ use' = [use EXCEPT ![u] = [at |-> at, bundle |-> b]]
        /\ IF IsExpired(b) THEN UNCHANGED source ELSE Caches(u, b)
        /\ UNCHANGED <<login, rows, renewals, accepted, losses>>
    BY DEF TakesToken, providerVars
  <1>2. Stored(u) \in Bundles \cup {NoBundle}
    BY <1>1 DEF LoginInv, LoginTyped, SourceOK, Source, Stored
  <1>3. b \in Bundles \cup {NoBundle}
    BY <1>2 DEF LoginInv, LoginTyped, Source
  <1>4. IsExpired(b) => b = Stored(u)
    OBVIOUS
  <1>5. at \in {"renewing", "sending"} /\ (at = "renewing" <=> IsExpired(b))
    OBVIOUS
  <1> HIDE DEF at, b
  <1>6. /\ use' \in [ModelUses -> UseType] /\ use'[u].at = at /\ use'[u].bundle = b
        /\ \A v \in ModelUses \ {u} : use'[v] = use[v]
    BY <1>1, <1>3, <1>5 DEF LoginInv, LoginTyped, UseType, UsePlaces
  <1>7. /\ source' \in [Drivers -> SourceType]
        /\ \A d \in Drivers : source'[d].row = source[d].row
    BY <1>1, <1>3, CacheMoves DEF LoginInv, LoginTyped, SourceType
  <1>8. LoginTyped'
    BY <1>1, <1>6, <1>7 DEF LoginInv, LoginTyped, UseType, SourceType
  <1>9. CASE at = "renewing"
    <2>1. use'[u].bundle = Stored(u) /\ UNCHANGED source
      BY <1>1, <1>4, <1>5, <1>6, <1>9
    <2> QED BY <1>1, <1>6, <1>8, <1>9, <2>1, ReadingUse
  <1>10. CASE at = "sending"
    BY <1>1, <1>6, <1>7, <1>8, <1>10, RestingUse DEF Keeping
  <1> QED BY <1>5, <1>9, <1>10

\* The other steps of a request.
LEMMA UseGoes ==
    ASSUME LoginInv, NEW u \in ModelUses, UseStep(u), ~TakesToken(u)
    PROVE  LoginInv'
  <1> USE DriversOfUses
  <1>1. LoginTyped
    BY DEF LoginInv
  <1>2. ASSUME NEW at \in UsePlaces, UseAt(u, at), rows' \in Seq(Bundles \cup {NoBundle}),
               source' \in [Drivers -> SourceType], UNCHANGED <<login, renewals, accepted>>
        PROVE  LoginTyped'
    BY <1>1, <1>2, UseMoves DEF LoginTyped, UseType, SourceType
  <1>3. ASSUME NEW from \in {"renewing", "refreshing"}, NEW renewed \in {"keeping", "rekeeping"},
               Renews(u, from, renewed)
        PROVE  LoginInv'
    <2>1. use[u].at = from /\ UNCHANGED <<login, rows, source, losses>>
      BY <1>3 DEF Renews
    <2>2. CASE Granted(u, renewed)
      BY <2>1, <2>2, GrantKeeps DEF Asking
    <2>3. CASE UseAt(u, "failed") /\ UNCHANGED <<renewals, accepted>>
      <3>1. LoginTyped'
        BY <1>1, <1>2, <2>1, <2>3 DEF LoginTyped, SourceType, UsePlaces
      <3> QED BY <1>1, <2>1, <2>3, <3>1, UseMoves, RestingUse DEF UsePlaces, Keeping
    <2> QED BY <1>3, <2>2, <2>3 DEF Renews
  <1>4. use[u].at \in {"keeping", "rekeeping"}
           => /\ Source(u).row \in DOMAIN rows /\ use[u].bundle \in Bundles
              /\ Persists(u, use[u].bundle) => rows' \in Seq(Bundles \cup {NoBundle})
    <2>1. ASSUME use[u].at \in {"keeping", "rekeeping"}
          PROVE  Source(u).row \in DOMAIN rows /\ use[u].bundle \in Bundles
      BY <2>1 DEF LoginInv, UseOK, Keeping, SourceOK, Source, OfRow
    <2>2. ASSUME NEW r \in DOMAIN rows, NEW b \in Bundles
          PROVE  [rows EXCEPT ![r] = b] \in Seq(Bundles \cup {NoBundle})
      BY <1>1 DEF LoginTyped
    <2> QED BY <2>1, <2>2 DEF Persists
  <1>5. CASE KeepsToken(u)
    <2>1. /\ use[u].at = "keeping" /\ UseAt(u, "sending") /\ Persists(u, use[u].bundle)
          /\ Caches(u, use[u].bundle) /\ UNCHANGED <<login, renewals, accepted, losses>>
      BY <1>5 DEF KeepsToken, providerVars
    <2>2. /\ source' \in [Drivers -> SourceType]
          /\ \A d \in Drivers : source'[d].row = source[d].row
      BY <1>1, <1>4, <2>1, CacheMoves
    <2>3. LoginTyped'
      BY <1>2, <1>4, <2>1, <2>2 DEF UsePlaces
    <2> QED BY <2>1, <2>2, <2>3, StoreKeeps DEF Keeping
  <1>6. CASE KeepsRefreshed(u)
    <2>1. /\ use[u].at = "rekeeping" /\ UseAt(u, "caching") /\ Persists(u, use[u].bundle)
          /\ UNCHANGED <<login, source, renewals, accepted, losses>>
      BY <1>6 DEF KeepsRefreshed, providerVars
    <2>2. LoginTyped'
      BY <1>1, <1>2, <1>4, <2>1 DEF UsePlaces, LoginTyped, SourceType
    <2> QED BY <2>1, <2>2, StoreKeeps DEF Keeping
  <1>7. CASE CachesRefreshed(u)
    <2>1. /\ use[u].at = "caching" /\ UseAt(u, "resending") /\ Caches(u, use[u].bundle)
          /\ UNCHANGED <<login, rows, renewals, accepted, losses>>
      BY <1>7 DEF CachesRefreshed, providerVars
    <2>2. /\ source' \in [Drivers -> SourceType]
          /\ \A d \in Drivers : source'[d].row = source[d].row
      BY <1>1, <2>1, CacheMoves DEF LoginTyped
    <2>3. LoginTyped'
      BY <1>1, <1>2, <2>1, <2>2 DEF UsePlaces, LoginTyped
    <2> QED BY <1>1, <2>1, <2>2, <2>3, UseMoves, RestingUse DEF UsePlaces, Keeping
  <1>8. CASE SendsRequest(u) \/ ResendsRequest(u)
    <2>1. PICK at \in {"refused", "answered", "failed"} :
             /\ UseAt(u, at) /\ use[u].at \in {"sending", "resending"}
             /\ at = "refused" => use[u].at = "sending"
      BY <1>8 DEF SendsRequest, ResendsRequest
    <2>2. UNCHANGED <<login, rows, source, renewals, accepted, losses>>
      BY <1>8 DEF SendsRequest, ResendsRequest, providerVars
    <2>3. LoginTyped'
      BY <1>1, <1>2, <2>1, <2>2 DEF UsePlaces, LoginTyped, SourceType
    <2>4. use[u].at = "sending" => Source(u).row # 0
      BY DEF LoginInv, UseOK
    <2>5. /\ use'[u].at = at /\ \A v \in ModelUses \ {u} : use'[v] = use[v]
      BY <1>1, <2>1, UseMoves DEF UsePlaces
    <2> QED BY <2>1, <2>2, <2>3, <2>4, <2>5, RestingUse DEF Keeping
  <1>9. CASE TakesStored(u)
    <2>1. /\ use[u].at = "refused" /\ use' = [use EXCEPT ![u] = [at |-> "refreshing", bundle |-> Stored(u)]]
          /\ UNCHANGED <<login, rows, source, renewals, accepted, losses>>
      BY <1>9 DEF TakesStored, providerVars
    <2>2. Source(u).row # 0 /\ Stored(u) \in Bundles \cup {NoBundle}
      BY <2>1 DEF LoginInv, LoginTyped, UseOK, SourceOK, Source, Stored
    <2>3. /\ use' \in [ModelUses -> UseType] /\ use'[u].at = "refreshing" /\ use'[u].bundle = Stored(u)
          /\ \A v \in ModelUses \ {u} : use'[v] = use[v]
      BY <1>1, <2>1, <2>2 DEF LoginTyped, UseType, UsePlaces
    <2>4. LoginTyped'
      BY <1>1, <2>1, <2>3 DEF LoginTyped, UseType
    <2> QED BY <2>1, <2>2, <2>3, <2>4, ReadingUse
  <1>10. CASE LosesToken(u)
    <2>1. /\ use[u].at \in {"keeping", "rekeeping"} /\ UseAt(u, "failed")
          /\ losses' = losses \cup {use[u].bundle.account}
          /\ UNCHANGED <<login, rows, source, renewals, accepted>>
      BY <1>10 DEF LosesToken, providerVars
    <2>2. LoginTyped'
      BY <1>1, <1>2, <2>1 DEF UsePlaces, LoginTyped, SourceType
    <2>3. /\ use'[u].at = "failed" /\ \A v \in ModelUses \ {u} : use'[v] = use[v]
      BY <1>1, <2>1, UseMoves DEF UsePlaces
    <2> QED BY <2>1, <2>2, <2>3, RestingUse
  <1> QED BY <1>3, <1>5, <1>6, <1>7, <1>8, <1>9, <1>10 DEF UseStep

\* What the invariant does not read may change.
LEMMA LoginRests ==
    ASSUME LoginInv, UNCHANGED <<login, rows, source, use, renewals, accepted, losses>>
    PROVE  LoginInv'
  <1> USE DEF LoginInv
  <1>1. LoginTyped' /\ \A l \in Logins : LoginOK(l)'
    BY DEF LoginTyped, LoginOK
  <1>2. \A r \in DOMAIN rows : RowOK(r)'
    BY DEF RowOK, OfRow, Renewing
  <1>3. \A d \in Drivers : SourceOK(d)'
    BY DEF SourceOK
  <1>4. \A u \in ModelUses : UseOK(u)' /\ Alone(u)'
    BY DEF UseOK, Alone, Asking, Keeping, OfRow, Source
  <1> QED BY <1>1, <1>2, <1>3, <1>4

LEMMA LoginStart == LoginInit => LoginInv
  <1> SUFFICES ASSUME LoginInit PROVE LoginInv
    OBVIOUS
  <1>1. LoginTyped
    BY DEF LoginInit, LoginTyped, LoginPlaces, UsePlaces
  <1>2. DOMAIN rows = {}
    BY DEF LoginInit
  <1>3. \A l \in Logins : LoginOK(l)
    BY DEF LoginInit, LoginOK
  <1>4. \A d \in Drivers : SourceOK(d)
    BY DEF LoginInit, SourceOK
  <1>5. \A u \in ModelUses : UseOK(u) /\ Alone(u)
    BY DEF LoginInit, UseOK, Alone, Asking, Keeping
  <1> QED BY <1>1, <1>2, <1>3, <1>4, <1>5 DEF LoginInv

\* However logins, renewals, refusals, lapses and the ends of processes fall: the refresh token
\* in a row of the store is the one the provider accepts, or a request is about to store the
\* one it does, or that one was lost (oauth.rs: access_token, refresh, persist).
THEOREM StoredTokensLive == LoginSpec => []StoredLoginLives
  <1>1. LoginInv /\ [LoginNext]_loginVars => LoginInv'
    <2> SUFFICES ASSUME LoginInv, [LoginNext]_loginVars PROVE LoginInv'
      OBVIOUS
    <2>1. CASE UNCHANGED loginVars
      BY <2>1, LoginRests DEF loginVars, providerVars
    <2>2. ASSUME NEW l \in Logins, LoginStep(l)
          PROVE  LoginInv'
      BY <2>2, LoginGoes, StoringKeeps
    <2>3. ASSUME NEW h \in handshakes, Ages(h)
          PROVE  LoginInv'
      BY <2>3, LoginRests DEF Ages, providerVars
    <2>4. ASSUME NEW d \in Drivers, OpensSource(d) \/ SourceDies(d)
          PROVE  LoginInv'
      BY <2>4, OpeningKeeps, DyingKeeps
    <2>5. ASSUME NEW u \in ModelUses, UseStep(u)
          PROVE  LoginInv'
      BY <2>5, TakingKeeps, UseGoes
    <2>6. ASSUME NEW b, NEW why, Lapses(b, why)
          PROVE  LoginInv'
      BY <2>6, LoginRests DEF Lapses
    <2> QED BY <2>1, <2>2, <2>3, <2>4, <2>5, <2>6 DEF LoginNext
  <1>2. LoginInv => StoredLoginLives
    BY DEF LoginInv, RowOK, StoredLoginLives
  <1> QED BY <1>1, <1>2, LoginStart, PTL DEF LoginSpec

-----------------------------------------------------------------------------
(* Approval rules *)

Level == 0..2      \* allow, ask, deny
MaybeLevel == 0..3 \* or none

RuleOver(calls) == [pattern : SUBSET calls, decision : Level]
PolicyOver(capabilities, calls) ==
    [wildcard : MaybeLevel, decisions : [capabilities -> MaybeLevel], rules : Seq(RuleOver(calls))]

Strictest(S) == CHOOSE d \in S : \A e \in S : e <= d

\* A set of decisions has a strictest one.
LEMMA StrictestExists ==
    ASSUME NEW S \in SUBSET Level, S # {}
    PROVE  Strictest(S) \in S /\ \A e \in S : e <= Strictest(S)
  <1>1. \E d \in S : \A e \in S : e <= d
    <2>1. CASE 2 \in S
      BY <2>1 DEF Level
    <2>2. CASE 2 \notin S /\ 1 \in S
      BY <2>2 DEF Level
    <2>3. CASE 2 \notin S /\ 1 \notin S
      <3>1. \A e \in S : e = 0
        BY <2>3 DEF Level
      <3>2. PICK d \in S : TRUE
        OBVIOUS
      <3>3. d \in S /\ \A e \in S : e <= d
        BY <3>1
      <3> QED BY <3>3
    <2> QED BY <2>1, <2>2, <2>3
  <1> QED BY <1>1 DEF Strictest

First(S) == CHOOSE i \in S : \A j \in S : i <= j

\* A set of positions has a first one.
LEMMA FirstExists ==
    ASSUME NEW S \in SUBSET Nat, S # {}
    PROVE  First(S) \in S /\ \A j \in S : First(S) <= j
  <1> DEFINE less == {p \in Nat \X Nat : p[1] < p[2]}
  <1>1. IsWellFoundedOn(less, Nat)
    <2>1. OpToRel(<, Nat) = less
      BY Zenon DEF OpToRel
    <2> QED BY <2>1, NatLessThanWellFounded, Zenon
  <1>2. \E m \in S : \A y \in S : ~(<<y, m>> \in less)
    <2> HIDE DEF less
    <2> QED BY <1>1, WFMin, Zenon
  <1>3. \E m \in S : \A y \in S : m <= y
    <2>1. PICK m \in S : \A y \in S : ~(<<y, m>> \in less)
      BY <1>2
    <2>2. ASSUME NEW y \in S PROVE m <= y
      <3>1. y \in Nat /\ m \in Nat
        OBVIOUS
      <3>2. ~(y < m)
        BY <2>1, <3>1
      <3> QED BY <3>1, <3>2
    <2> QED BY <2>2
  <1> QED BY <1>3 DEF First

-----------------------------------------------------------------------------
(* Rules. *)

Matches(rules, call) == {i \in DOMAIN rules : call \in rules[i].pattern}
Alike(rules, call) ==
    {rules[i].decision : i \in {j \in Matches(rules, call) :
                                    rules[j].pattern = rules[First(Matches(rules, call))].pattern}}

\* match_rules in terms of the above.
LEMMA MatchRulesIs ==
    ASSUME NEW rules, NEW call
    PROVE  MatchRules(rules, call) = IF Matches(rules, call) = {} THEN NoMatch
                                     ELSE Strictest(Alike(rules, call))
  BY DEF MatchRules, Matches, Alike, Strictest, First

\* The rules that decide a call are rules that match it.
LEMMA AlikeRules ==
    ASSUME NEW calls, NEW rules \in Seq(RuleOver(calls)), NEW call, Matches(rules, call) # {}
    PROVE  /\ First(Matches(rules, call)) \in Matches(rules, call)
           /\ \A j \in Matches(rules, call) : First(Matches(rules, call)) <= j
           /\ Alike(rules, call) \in SUBSET Level /\ Alike(rules, call) # {}
           /\ Matches(rules, call) \subseteq Nat
  <1>1. DOMAIN rules = 1..Len(rules) /\ Len(rules) \in Nat
        /\ \A i \in DOMAIN rules : rules[i].decision \in Level
    <2>1. \A i \in DOMAIN rules : rules[i] \in RuleOver(calls)
      OBVIOUS
    <2> QED BY <2>1 DEF RuleOver
  <1>2. Matches(rules, call) \subseteq DOMAIN rules
    BY DEF Matches
  <1>3. Matches(rules, call) \subseteq Nat
    BY <1>1, <1>2
  <1>4. /\ First(Matches(rules, call)) \in Matches(rules, call)
        /\ \A j \in Matches(rules, call) : First(Matches(rules, call)) <= j
    BY <1>3, FirstExists
  <1> QED BY <1>1, <1>2, <1>3, <1>4 DEF Alike

\* Rules put after others leave the calls the first ones match at least as strict,
\* and decide the rest by the added rules alone.
LEMMA AddedRules ==
    ASSUME NEW calls, NEW first \in Seq(RuleOver(calls)), NEW added \in Seq(RuleOver(calls)),
           NEW call, NEW least \in Level,
           \A i \in DOMAIN added : least <= added[i].decision
    PROVE  LET all == first \o added
           IN  /\ Matches(first, call) # {} =>
                     /\ Matches(all, call) # {}
                     /\ MatchRules(first, call) <= MatchRules(all, call)
               /\ Matches(first, call) = {} /\ Matches(all, call) # {} =>
                     least <= MatchRules(all, call)
               /\ Matches(all, call) # {} => MatchRules(all, call) \in Level
               /\ Matches(first, call) # {} => MatchRules(first, call) \in Level
  <1> DEFINE all == first \o added
             n == Len(first)
  <1>1. /\ all \in Seq(RuleOver(calls)) /\ Len(all) = n + Len(added)
        /\ \A i \in 1..n : all[i] = first[i]
        /\ \A i \in 1..Len(added) : all[n + i] = added[i]
    BY ConcatProperties
  <1>2. n \in Nat /\ Len(added) \in Nat /\ DOMAIN first = 1..n /\ DOMAIN added = 1..Len(added)
        /\ DOMAIN all = 1..(n + Len(added))
    BY <1>1
  <1> HIDE DEF all, n
  <1>3. ASSUME Matches(all, call) # {}
        PROVE  /\ MatchRules(all, call) \in Alike(all, call) /\ MatchRules(all, call) \in Level
               /\ \A d \in Alike(all, call) : d <= MatchRules(all, call)
    BY <1>1, <1>3, AlikeRules, StrictestExists, MatchRulesIs
  <1>4. ASSUME Matches(first, call) # {}
        PROVE  MatchRules(first, call) \in Alike(first, call) /\ MatchRules(first, call) \in Level
    BY <1>4, AlikeRules, StrictestExists, MatchRulesIs
  <1>5. Matches(first, call) = Matches(all, call) \cap 1..n
    BY <1>1, <1>2 DEF Matches
  <1>6. ASSUME Matches(first, call) # {}
        PROVE  Matches(all, call) # {} /\ MatchRules(first, call) <= MatchRules(all, call)
    <2> DEFINE f == First(Matches(first, call))
               g == First(Matches(all, call))
    <2>1. Matches(all, call) # {}
      BY <1>5, <1>6
    <2>2. /\ f \in Matches(first, call) /\ \A j \in Matches(first, call) : f <= j
          /\ g \in Matches(all, call) /\ \A j \in Matches(all, call) : g <= j
          /\ Matches(all, call) \subseteq Nat /\ Matches(first, call) \subseteq Nat
      BY <1>1, <1>6, <2>1, AlikeRules
    <2> HIDE DEF f, g
    <2>3. g = f
      <3>1. f \in Matches(all, call) /\ g <= f /\ f \in 1..n
        BY <1>5, <2>2
      <3>2. g \in 1..n
        <4>1. g \in 1..(n + Len(added))
          BY <1>2, <2>2 DEF Matches
        <4> QED BY <1>2, <3>1, <4>1
      <3> QED BY <1>5, <2>2, <3>1, <3>2
    <2>4. all[f] = first[f]
      BY <1>1, <1>5, <2>2
    <2>5. Alike(first, call) \subseteq Alike(all, call)
      <3>1. \A j \in Matches(first, call) : j \in Matches(all, call) /\ all[j] = first[j]
        BY <1>1, <1>5
      <3>2. /\ Alike(first, call) = {first[i].decision : i \in {j \in Matches(first, call) :
                                        first[j].pattern = first[f].pattern}}
            /\ Alike(all, call) = {all[i].decision : i \in {j \in Matches(all, call) :
                                        all[j].pattern = all[f].pattern}}
        BY <2>3 DEF Alike, f, g
      <3> QED BY <2>4, <3>1, <3>2
    <2> QED BY <1>3, <1>4, <1>6, <2>1, <2>5
  <1>7. ASSUME Matches(first, call) = {}, Matches(all, call) # {}
        PROVE  least <= MatchRules(all, call)
    <2>1. \A j \in Matches(all, call) : least <= all[j].decision
      <3> TAKE j \in Matches(all, call)
      <3>1. j \in 1..(n + Len(added)) /\ j \notin 1..n
        BY <1>2, <1>5, <1>7 DEF Matches
      <3>2. j - n \in 1..Len(added) /\ n + (j - n) = j
        BY <1>2, <3>1
      <3> QED BY <1>1, <1>2, <3>2
    <2>2. \A d \in Alike(all, call) : least <= d
      BY <2>1 DEF Alike
    <2> QED BY <1>3, <1>7, <2>2
  <1> QED BY <1>3, <1>4, <1>6, <1>7 DEF all

-----------------------------------------------------------------------------
(* Policies. *)

\* Capability decisions are decisions, and narrowing makes each at least as strict.
LEMMA ResolveNarrowed ==
    ASSUME NEW capabilities, NEW calls, NEW parent \in PolicyOver(capabilities, calls),
           NEW child \in PolicyOver(capabilities, calls), NEW c \in capabilities
    PROVE  /\ Resolve(parent, c) \in Level
           /\ Resolve(NarrowWith(parent, child), c) \in Level
           /\ Resolve(parent, c) <= Resolve(NarrowWith(parent, child), c)
  <1> DEFINE w == Stricter(OrElse(parent.wildcard, 0), OrElse(child.wildcard, 0))
  <1>1. \A p \in {parent, child} : /\ p.wildcard \in MaybeLevel /\ p.decisions[c] \in MaybeLevel
                                   /\ Resolve(p, c) \in Level
    BY DEF PolicyOver, Resolve, OrElse, MaybeLevel, Level, NoMatch
  <1>2. DOMAIN parent.decisions = capabilities
    BY DEF PolicyOver
  <1>3. /\ NarrowWith(parent, child).decisions[c] = Stricter(Resolve(parent, c), Resolve(child, c))
        /\ NarrowWith(parent, child).wildcard = w
    BY <1>2 DEF NarrowWith
  <1>4. /\ Stricter(Resolve(parent, c), Resolve(child, c)) \in Level
        /\ Resolve(parent, c) <= Stricter(Resolve(parent, c), Resolve(child, c))
    BY <1>1 DEF Stricter, Level
  <1>5. Resolve(NarrowWith(parent, child), c) = Stricter(Resolve(parent, c), Resolve(child, c))
    BY <1>3, <1>4 DEF Resolve, OrElse, Level, NoMatch
  <1> QED BY <1>1, <1>4, <1>5

Needed(policy, needs) == {0} \cup {Resolve(policy, c) : c \in needs}

\* The loop's decision in terms of the strictest capability.
LEMMA DecidesIs ==
    ASSUME NEW policy, NEW call, NEW needs
    PROVE  Decides(policy, call, needs) =
              IF Strictest(Needed(policy, needs)) = 2 THEN 2
              ELSE OrElse(MatchRules(policy.rules, call), Strictest(Needed(policy, needs)))
  BY DEF Decides, Needed, Strictest

\* No capability of a policy is decided more strictly than its strictest decision.
LEMMA StrictestOfPolicy ==
    ASSUME NEW capabilities, NEW calls, NEW policy \in PolicyOver(capabilities, calls)
    PROVE  /\ StrictestOf(policy) \in Level
           /\ \A c \in capabilities : Resolve(policy, c) <= StrictestOf(policy)
  <1> DEFINE S == {OrElse(policy.wildcard, 0)} \cup {Resolve(policy, c) : c \in DOMAIN policy.decisions}
  <1>1. DOMAIN policy.decisions = capabilities /\ policy.wildcard \in MaybeLevel
        /\ \A c \in capabilities : policy.decisions[c] \in MaybeLevel
    BY DEF PolicyOver
  <1>2. S \in SUBSET Level /\ S # {}
    BY <1>1 DEF Resolve, OrElse, MaybeLevel, Level, NoMatch
  <1>3. StrictestOf(policy) = Strictest(S)
    BY DEF StrictestOf, Strictest
  <1>4. \A c \in capabilities : Resolve(policy, c) \in S
    BY <1>1
  <1> HIDE DEF S
  <1> QED BY <1>2, <1>3, <1>4, StrictestExists

\* Whatever a delegated child's policy says, no call is decided more freely under
\* the policy narrow_with makes of it than under its parent's: not by a laxer
\* capability, not by a rule of its own, not by a rule that comes to stand behind
\* one of the parent's.
THEOREM NarrowNeverWidens ==
    \A capabilities, calls :
        \A parent, child \in PolicyOver(capabilities, calls), needs \in SUBSET capabilities :
            \A call : Decides(parent, call, needs) <= Decides(NarrowWith(parent, child), call, needs)
  <1> TAKE capabilities, calls
  <1> TAKE parent, child \in PolicyOver(capabilities, calls), needs \in SUBSET capabilities
  <1> TAKE call
  <1> DEFINE narrowed == NarrowWith(parent, child)
             before == Strictest(Needed(parent, needs))
             after == Strictest(Needed(narrowed, needs))
             least == StrictestOf(parent)
             added == [i \in DOMAIN child.rules |->
                          [child.rules[i] EXCEPT !.decision = Stricter(@, least)]]
  <1>1. /\ \A c \in needs : /\ Resolve(parent, c) \in Level /\ Resolve(narrowed, c) \in Level
                            /\ Resolve(parent, c) <= Resolve(narrowed, c)
        /\ least \in Level /\ \A c \in needs : Resolve(parent, c) <= least
    BY ResolveNarrowed, StrictestOfPolicy
  <1>2. narrowed.rules = parent.rules \o added
    BY DEF NarrowWith
  <1> HIDE DEF narrowed, least
  <1>3. /\ before \in Needed(parent, needs) /\ \A e \in Needed(parent, needs) : e <= before
        /\ after \in Needed(narrowed, needs) /\ \A e \in Needed(narrowed, needs) : e <= after
        /\ before \in Level /\ after \in Level
    <2>1. /\ Needed(parent, needs) \in SUBSET Level /\ Needed(parent, needs) # {}
          /\ Needed(narrowed, needs) \in SUBSET Level /\ Needed(narrowed, needs) # {}
      BY <1>1 DEF Needed, Level
    <2> QED BY <2>1, StrictestExists
  <1> HIDE DEF before, after
  <1>4. before <= after /\ before <= least
    <2>1. CASE before = 0
      BY <1>1, <1>3, <2>1 DEF Level
    <2>2. CASE before # 0
      <3>1. PICK c \in needs : before = Resolve(parent, c)
        BY <1>3, <2>2 DEF Needed
      <3>2. Resolve(narrowed, c) <= after
        BY <1>3 DEF Needed
      <3> QED BY <1>1, <1>3, <3>1, <3>2 DEF Level
    <2> QED BY <2>1, <2>2
  <1>5. parent.rules \in Seq(RuleOver(calls)) /\ child.rules \in Seq(RuleOver(calls))
    BY DEF PolicyOver
  <1>6. added \in Seq(RuleOver(calls)) /\ \A i \in DOMAIN added : least <= added[i].decision
    <2>1. \A i \in DOMAIN child.rules : /\ child.rules[i].pattern \in SUBSET calls
                                        /\ child.rules[i].decision \in Level
                                        /\ child.rules[i] \in RuleOver(calls)
      <3>1. \A i \in DOMAIN child.rules : child.rules[i] \in RuleOver(calls)
        BY <1>5
      <3> QED BY <3>1 DEF RuleOver
    <2>2. ASSUME NEW i \in DOMAIN child.rules
          PROVE  /\ added[i] \in RuleOver(calls) /\ least <= added[i].decision
      <3>1. /\ Stricter(child.rules[i].decision, least) \in Level
            /\ least <= Stricter(child.rules[i].decision, least)
        BY <1>1, <2>1 DEF Stricter, Level
      <3>2. added[i] = [child.rules[i] EXCEPT !.decision = Stricter(child.rules[i].decision, least)]
        OBVIOUS
      <3> QED BY <2>1, <3>1, <3>2 DEF RuleOver
    <2>3. DOMAIN added = DOMAIN child.rules /\ added \in [DOMAIN child.rules -> RuleOver(calls)]
      BY <2>2
    <2>4. DOMAIN child.rules = 1..Len(child.rules) /\ Len(child.rules) \in Nat
      BY <1>5
    <2> HIDE DEF added
    <2> QED BY <2>2, <2>3, <2>4
  <1> HIDE DEF added
  <1> DEFINE old == MatchRules(parent.rules, call)
             new == MatchRules(narrowed.rules, call)
  <1>7. /\ Matches(parent.rules, call) # {} =>
              /\ Matches(narrowed.rules, call) # {} /\ old <= new /\ old \in Level
        /\ Matches(parent.rules, call) = {} /\ Matches(narrowed.rules, call) # {} => least <= new
        /\ Matches(narrowed.rules, call) # {} => new \in Level
    BY <1>1, <1>2, <1>5, <1>6, AddedRules
  <1>8. /\ Matches(parent.rules, call) = {} => old = NoMatch
        /\ Matches(narrowed.rules, call) = {} => new = NoMatch
    BY MatchRulesIs
  <1> HIDE DEF old, new
  <1>9. /\ Decides(parent, call, needs) = IF before = 2 THEN 2 ELSE OrElse(old, before)
        /\ Decides(narrowed, call, needs) = IF after = 2 THEN 2 ELSE OrElse(new, after)
    BY DecidesIs DEF old, new, before, after
  <1>10. Decides(parent, call, needs) <= Decides(narrowed, call, needs)
    <2>1. CASE Matches(parent.rules, call) # {}
      <3>1. old <= new /\ old \in Level /\ new \in Level
        BY <1>7, <2>1
      <3>2. OrElse(old, before) = old /\ OrElse(new, after) = new
        BY <3>1 DEF OrElse, Level, NoMatch
      <3> QED BY <1>3, <1>4, <1>9, <3>1, <3>2 DEF Level
    <2>2. CASE Matches(parent.rules, call) = {}
      <3>1. Decides(parent, call, needs) = before
        BY <1>3, <1>8, <1>9, <2>2 DEF OrElse, Level, NoMatch
      <3>2. CASE Matches(narrowed.rules, call) # {}
        <4>1. least <= new /\ new \in Level
          BY <1>7, <2>2, <3>2
        <4>2. OrElse(new, after) = new
          BY <4>1 DEF OrElse, Level, NoMatch
        <4> QED BY <1>1, <1>3, <1>4, <1>9, <3>1, <4>1, <4>2 DEF Level
      <3>3. CASE Matches(narrowed.rules, call) = {}
        BY <1>3, <1>4, <1>8, <1>9, <3>1, <3>3 DEF OrElse, Level, NoMatch
      <3> QED BY <3>2, <3>3
    <2> QED BY <2>1, <2>2
  <1> QED BY <1>10 DEF narrowed

-----------------------------------------------------------------------------
(* What is remembered *)

Rules == {a[r].rule : a \in Requests, r \in Resolvers}
AnswerPlaces == {"new", "hidden", "read", "stored", "granted", "undoing", "undo_read", "done"}
GrantRow == [id : Nat, rule : Rules]
FileRow == GrantRow \cup {DenyAllRow}
File == [rows : SUBSET FileRow, next : Nat, bad : BOOLEAN]
Kept == Nat \cup {NoId}

RulesTyped ==
    /\ asked \in Requests
    /\ resolver \in [Resolvers -> AnswerPlaces] /\ kept \in [Resolvers -> Kept]
    /\ read \in [Resolvers -> File] /\ project \in File
    /\ user \in SUBSET GrantRow /\ session \in SUBSET GrantRow
    /\ nextRow \in Nat /\ nextSession \in Nat /\ pending \in SUBSET Rules

\* A rule of the table was granted, or an answer has its row in hand: it removes the row unless
\* it commits its grant.  A rule of the run was granted.
Holds(r, row) == Scope(r) = "user" /\ Rule(r) = row.rule /\ kept[r] = row.id
HandsFull(r) == resolver[r] \in {"stored", "undoing"}
InHand(row) == \E r \in Resolvers : Holds(r, row) /\ HandsFull(r)
GrantInv ==
    /\ \A row \in user : row.rule \in granted \/ InHand(row)
    /\ \A row \in session : row.rule \in granted
    /\ \A r \in Resolvers : resolver[r] = "granted" => Rule(r) \in granted

\* A project whose file could not be read has the rule that denies everything in it, or is
\* still unreadable, and so has every version an answer is about to write.
AboutToWrite(r) == resolver[r] = "undo_read" \/ (resolver[r] = "read" /\ Scope(r) = "project")
Closed(file) == file.bad \/ DenyAllRow \in file.rows
ClosedInv ==
    malformed =>
        /\ Closed(project)
        /\ \A r \in Resolvers : AboutToWrite(r) => ~read[r].bad /\ DenyAllRow \in read[r].rows

RulesInv == RulesTyped /\ GrantInv /\ ClosedInv

LEMMA AskedIs ==
    ASSUME RulesTyped, NEW r \in Resolvers
    PROVE  /\ Rule(r) \in Rules /\ Rule(r) # DenyAll /\ Scope(r) \in {"session", "project", "user"}
  BY RulesAssumption DEF RulesTyped, Rule, Scope, Rules

LEMMA DenyIsNoRule == DenyAll \notin Rules
  BY RulesAssumption DEF Rules

LEMMA FilesLoad ==
    ASSUME NEW file \in File
    PROVE  /\ LoadProject(file) \in File /\ ~LoadProject(file).bad
           /\ Closed(file) => DenyAllRow \in LoadProject(file).rows
  BY DEF LoadProject, File, FileRow, Closed

LEMMA FilesAre ==
    ASSUME NEW file \in File
    PROVE  /\ file.rows \in SUBSET FileRow /\ file.next \in Nat /\ file.bad \in BOOLEAN
  BY DEF File

LEMMA RowsReplaced ==
    ASSUME NEW file \in File, NEW held \in SUBSET FileRow
    PROVE  /\ [file EXCEPT !.rows = held] \in File
           /\ [file EXCEPT !.rows = held].rows = held
           /\ [file EXCEPT !.rows = held].bad = file.bad
  BY DEF File

LEMMA RowsAdded ==
    ASSUME NEW file \in File, NEW held \in SUBSET FileRow, NEW n \in Nat
    PROVE  [file EXCEPT !.rows = held, !.next = n] \in File
  BY DEF File

\* The id of a rule that is no deny-all is that of a row somebody added.
LEMMA IdsFound ==
    ASSUME NEW held \in SUBSET FileRow, NEW rule \in Rules
    PROVE  IdOf(held, rule) \in Kept
  <1> DEFINE ids == {row.id : row \in {same \in held : same.rule = rule}}
  <1>1. ids \in SUBSET Nat
    <2> SUFFICES ASSUME NEW row \in held, row.rule = rule PROVE row.id \in Nat
      OBVIOUS
    <2>1. row # DenyAllRow
      BY DenyIsNoRule DEF DenyAllRow, Row
    <2> QED BY <2>1 DEF FileRow, GrantRow
  <1>2. IdOf(held, rule) = IF ids = {} THEN NoId ELSE First(ids)
    BY DEF IdOf, First
  <1> HIDE DEF ids
  <1> QED BY <1>1, <1>2, FirstExists DEF Kept

LEMMA RulesTypedStep ==
    ASSUME RulesTyped, RulesNext
    PROVE  RulesTyped'
  <1> USE DEF RequestGoes, AnswerPlaces
  <1>1. ASSUME NEW r \in Resolvers, PreparesRule(r) \/ AddFails(r) \/ Grants(r) \/ Refused(r)
        PROVE  RulesTyped'
    BY <1>1, AskedIs DEF PreparesRule, AddFails, Grants, Refused, RulesTyped
  <1>2. ASSUME NEW r \in Resolvers, AddReads(r)
        PROVE  RulesTyped'
    <2>1. CASE Scope(r) = "project" /\ read' = [read EXCEPT ![r] = LoadProject(project)]
               /\ kept' = [kept EXCEPT ![r] = IdOf(read'[r].rows, Rule(r))]
      <3>1. LoadProject(project) \in File
        BY FilesLoad DEF RulesTyped
      <3>2. read' \in [Resolvers -> File] /\ read'[r] = LoadProject(project)
        BY <2>1, <3>1 DEF RulesTyped
      <3>3. IdOf(read'[r].rows, Rule(r)) \in Kept
        BY <3>1, <3>2, AskedIs, IdsFound DEF File
      <3>4. kept' \in [Resolvers -> Kept]
        BY <2>1, <3>3 DEF RulesTyped
      <3> QED BY <1>2, <3>2, <3>4 DEF AddReads, RulesTyped
    <2>2. CASE Scope(r) = "user" /\ read' = read /\ kept' = [kept EXCEPT ![r] = IdOf(user, Rule(r))]
      <3>1. user \in SUBSET FileRow
        BY DEF RulesTyped, FileRow
      <3>2. IdOf(user, Rule(r)) \in Kept
        BY <3>1, AskedIs, IdsFound
      <3>3. kept' \in [Resolvers -> Kept]
        BY <2>2, <3>2 DEF RulesTyped
      <3> QED BY <1>2, <2>2, <3>3 DEF AddReads, RulesTyped
    <2> QED BY <1>2, <2>1, <2>2 DEF AddReads
  <1>3. ASSUME NEW r \in Resolvers, AddWrites(r)
        PROVE  RulesTyped'
    <2>1. CASE Scope(r) = "project"
      <3> PICK file \in File : file = read[r]
        BY DEF RulesTyped
      <3>1. /\ project' = [file EXCEPT !.rows = file.rows \cup {Row(file.next, Rule(r))},
                                       !.next = file.next + 1]
            /\ kept' = [kept EXCEPT ![r] = file.next] /\ UNCHANGED <<user, nextRow>>
        BY <1>3, <2>1 DEF AddWrites
      <3>2. file.rows \cup {Row(file.next, Rule(r))} \in SUBSET FileRow
            /\ file.next \in Nat /\ file.next + 1 \in Nat
        BY AskedIs DEF File, Row, FileRow, GrantRow
      <3>3. project' \in File
        BY <3>1, <3>2, RowsAdded
      <3>4. kept' \in [Resolvers -> Kept]
        BY <3>1, <3>2 DEF RulesTyped, Kept
      <3> QED BY <1>3, <3>1, <3>3, <3>4 DEF AddWrites, RulesTyped
    <2>2. CASE Scope(r) = "user"
      <3>1. /\ user' = user \cup {Row(nextRow, Rule(r))} /\ nextRow' = nextRow + 1
            /\ kept' = [kept EXCEPT ![r] = nextRow] /\ UNCHANGED project
        BY <1>3, <2>2 DEF AddWrites
      <3>2. Row(nextRow, Rule(r)) \in GrantRow /\ nextRow + 1 \in Nat
        BY AskedIs DEF Row, GrantRow, RulesTyped
      <3>3. kept' \in [Resolvers -> Kept]
        BY <3>1 DEF RulesTyped, Kept
      <3> QED BY <1>3, <3>1, <3>2, <3>3 DEF AddWrites, RulesTyped
    <2> QED BY <1>3, <2>1, <2>2 DEF AddWrites
  <1>4. ASSUME NEW r \in Resolvers, Shows(r)
        PROVE  RulesTyped'
    <2>1. Row(nextSession, Rule(r)) \in GrantRow /\ nextSession + 1 \in Nat
      BY AskedIs DEF Row, GrantRow, RulesTyped
    <2> QED BY <1>4, <2>1 DEF Shows, RulesTyped
  <1>5. ASSUME NEW r \in Resolvers, UndoesRow(r)
        PROVE  RulesTyped'
    BY <1>5 DEF UndoesRow, WithoutRule, RulesTyped
  <1>6. ASSUME NEW r \in Resolvers, UndoReadsFile(r)
        PROVE  RulesTyped'
    <2>1. LoadProject(project) \in File
      BY FilesLoad DEF RulesTyped
    <2> QED BY <1>6, <2>1 DEF UndoReadsFile, RulesTyped
  <1>7. ASSUME NEW r \in Resolvers, UndoWritesFile(r)
        PROVE  RulesTyped'
    <2> PICK file \in File : file = read[r]
      BY DEF RulesTyped
    <2>1. project' = [file EXCEPT !.rows = WithoutRule(file.rows, kept[r])] \/ project' = project
      BY <1>7 DEF UndoWritesFile
    <2>2. WithoutRule(file.rows, kept[r]) \in SUBSET FileRow
      BY DEF WithoutRule, File
    <2>3. project' \in File
      BY <2>1, <2>2, RowsReplaced DEF RulesTyped
    <2> QED BY <1>7, <2>3 DEF UndoWritesFile, RulesTyped
  <1>8. ASSUME NEW t \in DOMAIN ticket, Answered(t)
        PROVE  RulesTyped'
    BY <1>8 DEF Answered, RulesTyped
  <1>9. CASE RuleDeleted \/ RunEnds
    BY <1>9 DEF RuleDeleted, RunEnds, WithoutRule, RulesTyped
  <1> QED BY <1>1, <1>2, <1>3, <1>4, <1>5, <1>6, <1>7, <1>8, <1>9 DEF RulesNext

\* What no step of an answer, of somebody else or of a run changes.
LEMMA RequestsStay ==
    ASSUME RulesNext
    PROVE  /\ asked' = asked /\ malformed' = malformed
           /\ \A r \in Resolvers : Rule(r)' = Rule(r) /\ Scope(r)' = Scope(r)
  BY DEF RulesNext, PreparesRule, AddReads, AddWrites, AddFails, Grants, Shows, Refused, UndoesRow,
         UndoReadsFile, UndoWritesFile, Answered, RuleDeleted, RunEnds, Rule, Scope

\* A step of r that drops no row of the table from its hands leaves the rows as well held.
LEMMA HandsStay ==
    ASSUME NEW row, InHand(row), NEW r \in Resolvers, RulesNext,
           \A q \in Resolvers : q # r => resolver'[q] = resolver[q] /\ kept'[q] = kept[q],
           \/ Scope(r) # "user"
           \/ ~HandsFull(r)
           \/ resolver'[r] \in {"stored", "undoing"} /\ kept'[r] = kept[r]
    PROVE  InHand(row)'
  BY RequestsStay DEF InHand, Holds, HandsFull

LEMMA GrantsStep ==
    ASSUME RulesTyped, GrantInv, RulesNext
    PROVE  GrantInv'
  <1> USE DEF RequestGoes, At
  <1>1. ASSUME NEW r \in Resolvers, UNCHANGED <<user, session, granted>>,
               \A q \in Resolvers : q # r => resolver'[q] = resolver[q] /\ kept'[q] = kept[q],
               \/ Scope(r) # "user"
               \/ ~HandsFull(r)
               \/ resolver'[r] \in {"stored", "undoing"} /\ kept'[r] = kept[r],
               resolver'[r] # "granted"
        PROVE  GrantInv'
    BY <1>1, HandsStay, RequestsStay DEF GrantInv
  <1>2. ASSUME NEW r \in Resolvers,
               PreparesRule(r) \/ AddFails(r) \/ UndoReadsFile(r) \/ UndoWritesFile(r)
        PROVE  GrantInv'
    BY <1>1, <1>2 DEF PreparesRule, AddFails, UndoReadsFile, UndoWritesFile, HandsFull, RulesTyped
  <1>3. ASSUME NEW r \in Resolvers, AddReads(r)
        PROVE  GrantInv'
    <2>1. /\ UNCHANGED <<user, session, granted>> /\ ~HandsFull(r)
          /\ \A q \in Resolvers : q # r => resolver'[q] = resolver[q] /\ kept'[q] = kept[q]
          /\ resolver'[r] # "granted"
      BY <1>3 DEF AddReads, HandsFull, RulesTyped
    <2> QED BY <1>1, <2>1
  <1>4. ASSUME NEW r \in Resolvers, Refused(r)
        PROVE  GrantInv'
    <2>1. /\ UNCHANGED <<user, session, granted>> /\ kept'[r] = kept[r]
          /\ \A q \in Resolvers : q # r => resolver'[q] = resolver[q] /\ kept'[q] = kept[q]
          /\ resolver'[r] # "granted"
          /\ Scope(r) # "user" \/ resolver'[r] \in {"stored", "undoing"}
      BY <1>4 DEF Refused, RulesTyped
    <2> QED BY <1>1, <2>1
  <1>5. ASSUME NEW r \in Resolvers, AddWrites(r)
        PROVE  GrantInv'
    <2>1. /\ UNCHANGED <<session, granted>> /\ ~HandsFull(r) /\ resolver'[r] = "stored"
          /\ \A q \in Resolvers : q # r => resolver'[q] = resolver[q] /\ kept'[q] = kept[q]
      BY <1>5 DEF AddWrites, HandsFull, RulesTyped
    <2>2. CASE Scope(r) = "project"
      <3>1. UNCHANGED user
        BY <1>5, <2>2 DEF AddWrites
      <3> QED BY <1>1, <2>1, <3>1
    <2>3. CASE Scope(r) = "user"
      <3>1. user' = user \cup {Row(nextRow, Rule(r))} /\ kept'[r] = nextRow
        BY <1>5, <2>3 DEF AddWrites, RulesTyped
      <3> PICK new : new = Row(nextRow, Rule(r))
        OBVIOUS
      <3>2. InHand(new)'
        <4>1. new.rule = Rule(r) /\ new.id = nextRow
          BY DEF Row
        <4>2. Holds(r, new)' /\ HandsFull(r)'
          BY <2>1, <2>3, <3>1, <4>1, RequestsStay DEF Holds, HandsFull
        <4> QED BY <4>2 DEF InHand
      <3>3. \A row \in user : row.rule \in granted' \/ InHand(row)'
        BY <2>1, HandsStay DEF GrantInv
      <3>4. ASSUME NEW row \in user' PROVE row.rule \in granted' \/ InHand(row)'
        <4>1. row \in user \/ row = new
          BY <3>1
        <4> QED BY <3>2, <3>3, <4>1
      <3>5. \A row \in session' : row.rule \in granted'
        BY <2>1 DEF GrantInv
      <3>6. \A q \in Resolvers : resolver'[q] = "granted" => Rule(q)' \in granted'
        BY <2>1, RequestsStay DEF GrantInv
      <3> QED BY <3>4, <3>5, <3>6 DEF GrantInv
    <2> QED BY <1>5, <2>2, <2>3 DEF AddWrites
  <1>6. ASSUME NEW r \in Resolvers, Grants(r)
        PROVE  GrantInv'
    <2>1. /\ UNCHANGED <<user, session>> /\ granted' = granted \cup {Rule(r)}
          /\ \A q \in Resolvers : q # r => resolver'[q] = resolver[q] /\ kept'[q] = kept[q]
      BY <1>6 DEF Grants, RulesTyped
    <2>2. ASSUME NEW row \in user, row.rule \notin granted'
          PROVE  InHand(row)'
      <3>1. PICK q \in Resolvers : Holds(q, row) /\ HandsFull(q)
        BY <2>1, <2>2 DEF GrantInv, InHand
      <3>2. q # r
        BY <2>1, <2>2, <3>1 DEF Holds
      <3> QED BY <2>1, <3>1, <3>2, RequestsStay DEF InHand, Holds, HandsFull
    <2>3. \A q \in Resolvers : resolver'[q] = "granted" => Rule(q)' \in granted'
      BY <2>1, RequestsStay DEF GrantInv
    <2>4. \A row \in session' : row.rule \in granted'
      BY <2>1 DEF GrantInv
    <2> QED BY <2>1, <2>2, <2>3, <2>4 DEF GrantInv
  <1>7. ASSUME NEW r \in Resolvers, Shows(r)
        PROVE  GrantInv'
    <2>1. /\ UNCHANGED <<user, granted>> /\ ~HandsFull(r) /\ resolver[r] = "granted"
          /\ resolver'[r] # "granted"
          /\ \A q \in Resolvers : q # r => resolver'[q] = resolver[q] /\ kept'[q] = kept[q]
      BY <1>7 DEF Shows, HandsFull, RulesTyped
    <2>2. session' = session \/ session' = session \cup {Row(nextSession, Rule(r))}
      BY <1>7 DEF Shows
    <2>3. \A row \in session' : row.rule \in granted'
      BY <2>1, <2>2 DEF GrantInv, Row
    <2>4. \A row \in user' : row.rule \in granted' \/ InHand(row)'
      BY <2>1, HandsStay DEF GrantInv
    <2>5. \A q \in Resolvers : resolver'[q] = "granted" => Rule(q)' \in granted'
      BY <2>1, RequestsStay DEF GrantInv
    <2> QED BY <2>3, <2>4, <2>5 DEF GrantInv
  <1>8. ASSUME NEW r \in Resolvers, UndoesRow(r)
        PROVE  GrantInv'
    <2>1. /\ UNCHANGED <<session, granted>> /\ user' = {row \in user : row.id # kept[r]}
          /\ \A q \in Resolvers : q # r => resolver'[q] = resolver[q] /\ kept'[q] = kept[q]
          /\ resolver'[r] # "granted"
      BY <1>8 DEF UndoesRow, WithoutRule, RulesTyped
    <2>2. ASSUME NEW row \in user', row.rule \notin granted'
          PROVE  InHand(row)'
      <3>1. PICK q \in Resolvers : Holds(q, row) /\ HandsFull(q)
        BY <2>1, <2>2 DEF GrantInv, InHand
      <3>2. q # r
        BY <2>1, <2>2, <3>1 DEF Holds
      <3> QED BY <2>1, <3>1, <3>2, RequestsStay DEF InHand, Holds, HandsFull
    <2>3. \A q \in Resolvers : resolver'[q] = "granted" => Rule(q)' \in granted'
      BY <2>1, RequestsStay DEF GrantInv
    <2>4. \A row \in session' : row.rule \in granted'
      BY <2>1 DEF GrantInv
    <2> QED BY <2>2, <2>3, <2>4 DEF GrantInv
  <1>9. ASSUME \/ \E t \in DOMAIN ticket : Answered(t)
               \/ RuleDeleted
               \/ RunEnds
        PROVE  GrantInv'
    <2>1. /\ UNCHANGED <<granted, resolver, kept>>
          /\ user' \in SUBSET user /\ session' \in SUBSET session
      BY <1>9 DEF Answered, RuleDeleted, RunEnds, WithoutRule
    <2>2. \A row : InHand(row) => InHand(row)'
      BY <2>1, RequestsStay DEF InHand, Holds, HandsFull
    <2> QED BY <2>1, <2>2, RequestsStay DEF GrantInv
  <1> QED BY <1>2, <1>3, <1>4, <1>5, <1>6, <1>7, <1>8, <1>9 DEF RulesNext

LEMMA ClosedStep ==
    ASSUME RulesTyped, ClosedInv, RulesNext
    PROVE  ClosedInv'
  <1> USE DEF RequestGoes, At
  <1> SUFFICES ASSUME malformed PROVE ClosedInv'
    BY RequestsStay DEF ClosedInv
  <1> DEFINE Safe(file) == ~file.bad /\ DenyAllRow \in file.rows
  <1>0. /\ Closed(project)
        /\ \A q \in Resolvers : AboutToWrite(q) => Safe(read[q])
    BY DEF ClosedInv
  <1>1. Safe(LoadProject(project))
    BY <1>0, FilesLoad DEF RulesTyped
  <1>2. ASSUME NEW r \in Resolvers, Closed(project)',
               \A q \in Resolvers : q # r => resolver'[q] = resolver[q] /\ read'[q] = read[q],
               AboutToWrite(r)' => Safe(read'[r])
        PROVE  ClosedInv'
    BY <1>0, <1>2, RequestsStay DEF ClosedInv, AboutToWrite
  <1>3. ASSUME NEW r \in Resolvers, PreparesRule(r) \/ AddFails(r) \/ Grants(r) \/ Shows(r) \/ Refused(r)
                                    \/ UndoesRow(r)
        PROVE  ClosedInv'
    <2>1. /\ UNCHANGED <<project, read>> /\ resolver'[r] \notin {"read", "undo_read"}
          /\ \A q \in Resolvers : q # r => resolver'[q] = resolver[q]
      BY <1>3 DEF PreparesRule, AddFails, Grants, Shows, Refused, UndoesRow, RulesTyped
    <2>2. Closed(project)'
      BY <1>0, <2>1 DEF Closed
    <2> QED BY <1>2, <2>1, <2>2, RequestsStay DEF AboutToWrite
  <1>4. ASSUME NEW r \in Resolvers, AddReads(r) \/ UndoReadsFile(r)
        PROVE  ClosedInv'
    <2>1. /\ UNCHANGED project
          /\ \A q \in Resolvers : q # r => resolver'[q] = resolver[q] /\ read'[q] = read[q]
          /\ Scope(r) = "project" => read'[r] = LoadProject(project)
      BY <1>4 DEF AddReads, UndoReadsFile, RulesTyped
    <2>2. Closed(project)'
      BY <1>0, <2>1 DEF Closed
    <2>3. AboutToWrite(r)' => Scope(r) = "project"
      BY <1>4, RequestsStay DEF AboutToWrite, AddReads, UndoReadsFile, RulesTyped
    <2> QED BY <1>1, <1>2, <2>1, <2>2, <2>3
  <1>5. ASSUME NEW r \in Resolvers, AddWrites(r)
        PROVE  ClosedInv'
    <2>1. /\ UNCHANGED read /\ resolver'[r] = "stored"
          /\ \A q \in Resolvers : q # r => resolver'[q] = resolver[q]
      BY <1>5 DEF AddWrites, RulesTyped
    <2>2. Closed(project)'
      <3>1. CASE Scope(r) = "user"
        BY <1>0, <1>5, <3>1 DEF AddWrites, Closed
      <3>2. CASE Scope(r) = "project"
        <4> PICK file \in File : file = read[r]
          BY DEF RulesTyped
        <4>1. Safe(file)
          BY <1>0, <1>5, <3>2 DEF AddWrites, AboutToWrite
        <4>2. project' = [file EXCEPT !.rows = file.rows \cup {Row(file.next, Rule(r))},
                                      !.next = file.next + 1]
          BY <1>5, <3>2 DEF AddWrites
        <4>3. file.rows \cup {Row(file.next, Rule(r))} \in SUBSET FileRow
              /\ file.next \in Nat /\ file.next + 1 \in Nat
          BY AskedIs DEF File, Row, FileRow, GrantRow
        <4>4. PICK held \in SUBSET FileRow, n \in Nat :
                  held = file.rows \cup {Row(file.next, Rule(r))} /\ n = file.next + 1
          BY <4>3
        <4>5. project' = [file EXCEPT !.rows = held, !.next = n]
          BY <4>2, <4>4
        <4>6. [file EXCEPT !.rows = held, !.next = n].rows = held
          BY DEF File
        <4> QED BY <4>1, <4>4, <4>5, <4>6 DEF Closed
      <3> QED BY <1>5, <3>1, <3>2 DEF AddWrites
    <2> QED BY <1>2, <2>1, <2>2, RequestsStay DEF AboutToWrite
  <1>6. ASSUME NEW r \in Resolvers, UndoWritesFile(r)
        PROVE  ClosedInv'
    <2>1. /\ UNCHANGED read /\ resolver'[r] = "done"
          /\ \A q \in Resolvers : q # r => resolver'[q] = resolver[q]
      BY <1>6 DEF UndoWritesFile, RulesTyped
    <2>2. Closed(project)'
      <3> PICK file \in File : file = read[r]
        BY DEF RulesTyped
      <3>1. CASE project' = project
        BY <1>0, <3>1 DEF Closed
      <3>2. CASE project' = [file EXCEPT !.rows = WithoutRule(file.rows, kept[r])]
        <4>1. WithoutRule(file.rows, kept[r]) \in SUBSET FileRow
          BY DEF WithoutRule, File
        <4>2. project'.rows = WithoutRule(file.rows, kept[r])
          BY <3>2, <4>1, RowsReplaced
        <4>3. kept[r] \in Kept
          BY DEF RulesTyped
        <4>4. DenyAllRow.id # kept[r]
          BY <4>3 DEF DenyAllRow, Row, Kept, NoId
        <4>5. DenyAllRow \in file.rows
          BY <1>0, <1>6 DEF UndoWritesFile, AboutToWrite
        <4> QED BY <4>2, <4>4, <4>5 DEF Closed, WithoutRule
      <3> QED BY <1>6, <3>1, <3>2 DEF UndoWritesFile
    <2> QED BY <1>2, <2>1, <2>2, RequestsStay DEF AboutToWrite
  <1>7. ASSUME \/ \E t \in DOMAIN ticket : Answered(t)
               \/ RuleDeleted
               \/ RunEnds
        PROVE  ClosedInv'
    <2>1. UNCHANGED <<project, read, resolver>>
      BY <1>7 DEF Answered, RuleDeleted, RunEnds
    <2> QED BY <1>0, <2>1, RequestsStay DEF ClosedInv, Closed, AboutToWrite
  <1> QED BY <1>3, <1>4, <1>5, <1>6, <1>7 DEF RulesNext

\* The row that denies everything comes before every rule of its file and of the table.
LEMMA DenialComesFirst ==
    ASSUME RulesTyped, ClosedInv, malformed, NEW call \in Rules, call \notin RulesIn(session)
    PROVE  FirstMatch(call) = "deny"
  <1> DEFINE matches == {m \in Sources : m[2].rule \in {call, DenyAll}}
             denial == <<2, DenyAllRow>>
             first == CHOOSE m \in matches : \A n \in matches : NotAfter(m, n)
             shown(held) == {row \in held : row.rule \notin pending}
  <1>1. DenyAllRow \in LoadProject(project).rows /\ LoadProject(project).rows \in SUBSET FileRow
    BY FilesLoad, FilesAre DEF ClosedInv, RulesTyped
  <1>2. DenyAllRow.rule = DenyAll /\ DenyAllRow.id = -2
    BY DEF DenyAllRow, Row
  <1>3. DenyAll \notin pending
    BY DenyIsNoRule DEF RulesTyped
  <1>4. denial \in matches
    <2>1. DenyAllRow \in shown(LoadProject(project).rows)
      BY <1>1, <1>2, <1>3
    <2> QED BY <1>2, <2>1 DEF Sources
  <1>5. \A m \in matches : \/ m[1] = 2 /\ m[2] \in FileRow
                           \/ m[1] = 3
    <2> SUFFICES ASSUME NEW m \in matches PROVE (m[1] = 2 /\ m[2] \in FileRow) \/ m[1] = 3
      OBVIOUS
    <2>1. CASE m \in {1} \X session
      <3>1. m[2] \in session /\ m[2].rule \in Rules
        BY <2>1 DEF RulesTyped, GrantRow
      <3>2. m[2].rule = call
        BY <3>1, DenyIsNoRule
      <3> QED BY <3>1, <3>2 DEF RulesIn
    <2>2. CASE m \in {2} \X shown(LoadProject(project).rows)
      BY <1>1, <2>2
    <2>3. CASE m \in {3} \X shown(user)
      BY <2>3
    <2> QED BY <2>1, <2>2, <2>3 DEF Sources
  <1>6. \A row \in FileRow : row.id \in Nat \/ row = DenyAllRow
    BY DEF FileRow, GrantRow
  <1> HIDE DEF matches
  <1>7. \A m \in matches : NotAfter(denial, m)
    BY <1>2, <1>5, <1>6 DEF NotAfter
  <1>8. first \in matches /\ NotAfter(first, denial)
    BY <1>4, <1>7
  <1> HIDE DEF first
  <1>9. first[2] = DenyAllRow
    BY <1>2, <1>5, <1>6, <1>8 DEF NotAfter
  <1>10. FirstMatch(call) = IF matches = {} THEN "capability"
                            ELSE IF first[2].rule = DenyAll THEN "deny" ELSE "allow"
    BY DEF FirstMatch, first, matches
  <1> QED BY <1>2, <1>4, <1>9, <1>10

LEMMA RulesHold == RulesInv => RulesAreKept
  <1> SUFFICES ASSUME RulesInv PROVE RulesAreKept
    OBVIOUS
  <1>1. RowsWereGranted
    BY DEF RulesInv, RowsWereGranted, AtRest, GrantInv, InHand, HandsFull, RulesIn
  <1>2. MalformedStaysClosed
    BY DenialComesFirst, AskedIs DEF MalformedStaysClosed, RulesInv
  <1> QED BY <1>1, <1>2 DEF RulesAreKept

LEMMA RulesBegin == RulesInit => RulesInv
  <1> SUFFICES ASSUME RulesInit PROVE RulesInv
    OBVIOUS
  <1>1. project \in File
    BY DEF RulesInit, File, FileRow
  <1>2. RulesTyped
    BY <1>1 DEF RulesInit, RulesTyped, AnswerPlaces, Kept
  <1>3. GrantInv
    BY DEF RulesInit, GrantInv
  <1>4. ClosedInv
    BY DEF RulesInit, ClosedInv, Closed, AboutToWrite
  <1> QED BY <1>2, <1>3, <1>4 DEF RulesInv

\* Whatever is asked, answered, deleted and cleaned up, in whatever order (approval.resolve and
\* the policy methods): what a table or a run remembers when no answer is under way was granted
\* by an approval that committed, and a project whose rule file could not be read stays closed.
THEOREM RememberedWasGranted == RulesSpec => []RulesAreKept
  <1>1. RulesInv /\ [RulesNext]_ruleVars => RulesInv'
    <2>1. CASE RulesNext
      BY <2>1, RulesTypedStep, GrantsStep, ClosedStep DEF RulesInv
    <2>2. CASE UNCHANGED ruleVars
      <3> SUFFICES ASSUME RulesInv PROVE RulesInv'
        OBVIOUS
      <3>1. RulesTyped'
        BY <2>2 DEF RulesInv, RulesTyped, ruleVars
      <3>2. GrantInv'
        BY <2>2 DEF RulesInv, GrantInv, InHand, Holds, HandsFull, Rule, Scope, ruleVars
      <3>3. ClosedInv'
        BY <2>2 DEF RulesInv, ClosedInv, Closed, AboutToWrite, Scope, ruleVars
      <3> QED BY <3>1, <3>2, <3>3 DEF RulesInv
    <2> QED BY <2>1, <2>2
  <1> QED BY RulesBegin, <1>1, RulesHold, PTL DEF RulesSpec

-----------------------------------------------------------------------------
(* The servers an operator configures *)

Ats == {"unsent", "fetch", "read", "write", "reread", "forget", "put down", "take", "drop",
        "list", "lock", "register", "ended"}
Fields == {"at", "seen", "on", "left", "got", "todo", "answer", "alone"}
ToolNames == {"builtin"} \cup {McpToolName[x] : x \in DOMAIN McpToolName}
AdminOK(r, o) ==
    /\ DOMAIN o = Fields /\ o.at \in Ats /\ o.alone \in BOOLEAN
    /\ DOMAIN o.seen \subseteq Hosts /\ o.todo \subseteq Hosts
    /\ IF o.at = "unsent" THEN o.todo = {} ELSE o.on \in Hosts
    /\ o.at = "register" => o.left \subseteq McpOffers[o.on]
    /\ o.at = "write" => wanted[r].do \in {"add", "install", "update", "remove"}
McpTyped ==
    /\ \A r \in AdminRequests : r \in Nat \ {0} /\ wanted[r].do \in Dos /\ wanted[r].server \in Hosts
    /\ DOMAIN mcpFile \subseteq Hosts
    /\ mcpSession \in [Hosts -> {"none", "connected", "error", "disconnected"}]
    /\ recorded \in [Hosts -> SUBSET ToolNames] /\ DOMAIN toolMap \subseteq ToolNames
    /\ request = [r \in AdminRequests |-> request[r]] /\ \A r \in AdminRequests : AdminOK(r, request[r])
    /\ latest \in AdminRequests \cup {0}

\* The names a request is about to take out of the registry or to record.
Hand(o) == CASE o.at = "drop" -> o.left [] o.at = "register" -> o.got [] OTHER -> {}
Holding(r) == Hand(request[r])
\* Every name of a server is in the record or in one hand, and in one of them only.
TrackInv ==
    /\ "builtin" \in DOMAIN toolMap /\ toolMap["builtin"].owner = "builtin"
    /\ \A s \in Hosts : recorded[s] \subseteq Owned(s)
    /\ \A r \in AdminRequests : Holding(r) # {} => Holding(r) \subseteq Owned(request[r].on) \ recorded[request[r].on]
    /\ \A r, q \in AdminRequests : r # q => Holding(r) \cap Holding(q) = {}
    /\ \A s \in Hosts : \A n \in Owned(s) \ recorded[s] : \E r \in AdminRequests : request[r].on = s /\ n \in Holding(r)
    /\ \A r \in AdminRequests : request[r].at = "register" => recordLock = r /\ recorded[request[r].on] = {}

\* What a request that met no other has come to.
Settled(x) == Down(x) \/ (mcpFile[x].enabled /\ mcpSession[x] = "connected" /\ Current(x))
AloneOK(r) ==
    LET o == request[r]
        do == wanted[r].do
        s == wanted[r].server
    IN  /\ Running = {r}
        /\ do # "reconnect" => o.on = s /\ o.todo = {}
        /\ o.at = "fetch" => do = "install"
        /\ o.at = "write" =>
              /\ do \in {"add", "install", "update", "remove"} /\ o.seen = mcpFile
              /\ do \in {"add", "install"} => s \notin DOMAIN mcpFile
        /\ o.at = "reread" => do = "install"
        /\ o.at \in {"reread", "list", "lock", "register"} /\ do = "install" =>
              s \in DOMAIN mcpFile /\ mcpFile[s].capabilities = {}
        /\ o.at = "forget" => do \in {"update", "remove"}
        /\ o.at = "put down" => do \in {"disconnect", "reconnect"}
        /\ o.at \in {"list", "lock", "register"} =>
              /\ do \in {"connect", "install", "reconnect"} /\ o.seen = mcpFile
              /\ do = "reconnect" => mcpFile[o.on].enabled
        /\ o.at \in {"lock", "register"} => mcpSession[o.on] = "connected" /\ o.answer = "connected"
        /\ o.at = "register" =>
              /\ \A n \in o.got : toolMap[n].decision = ToolPolicy(mcpFile[o.on])
              /\ \A t \in McpOffers[o.on] \ o.left : McpToolName[<<o.on, t>>] \in DOMAIN toolMap
        /\ o.at \in {"take", "drop"} =>
              /\ do # "add" /\ mcpSession[o.on] # "connected"
              /\ do \in {"connect", "install"} => o.answer = "error"
        /\ o.at = "drop" => recorded[o.on] = {}
        /\ do = "reconnect" /\ o.at # "read" =>
              /\ o.seen = mcpFile /\ o.todo \subseteq DOMAIN mcpFile /\ o.on \in DOMAIN mcpFile
              /\ \A x \in DOMAIN mcpFile \ (o.todo \cup {o.on}) : Settled(x)
AloneInv == \A r \in Running : request[r].alone => AloneOK(r)
McpInv == McpTyped /\ TrackInv /\ AloneInv /\ OutcomeHolds

LEMMA McpStarts == McpInit => McpInv
  <1> SUFFICES ASSUME McpInit PROVE McpInv
    OBVIOUS
  <1>1. PICK x \in McpSituations : wanted = x.wanted /\ mcpFile = x.file
    BY DEF McpInit
  <1>2. /\ mcpSession = [s \in Hosts |-> "none"] /\ recorded = [s \in Hosts |-> {}]
        /\ toolMap = Only("builtin", [owner |-> "builtin", decision |-> "allow"])
        /\ recordLock = 0 /\ request = [r \in AdminRequests |-> Unsent] /\ latest = 0
    BY DEF McpInit, AdminRequests
  <1>3. \A r \in AdminRequests : r \in Nat \ {0} /\ wanted[r].do \in Dos /\ wanted[r].server \in Hosts
    BY <1>1, McpAssumption DEF AdminRequests, Hosts
  <1>4. DOMAIN mcpFile \subseteq Hosts
    BY <1>1, McpAssumption DEF Hosts
  <1>5. \A r \in AdminRequests : request[r] = Unsent
    BY <1>2
  <1>6. (\A r : AdminOK(r, Unsent)) /\ Unsent.at = "unsent" /\ Unsent.left = {} /\ Unsent.got = {}
    BY DEF AdminOK, Unsent, Fields, Ats
  <1>7. DOMAIN toolMap = {"builtin"} /\ toolMap["builtin"].owner = "builtin"
    BY <1>2 DEF Only
  <1>8. McpTyped
    BY <1>2, <1>3, <1>4, <1>5, <1>6, <1>7 DEF McpTyped, ToolNames
  <1>9. \A r \in AdminRequests : Holding(r) = {} /\ request[r].at # "register"
    BY <1>5, <1>6 DEF Holding, Hand
  <1>10. \A s \in Hosts : Owned(s) = {} /\ recorded[s] = {}
    <2>1. "builtin" \notin Hosts
      BY McpAssumption DEF Hosts
    <2> QED BY <1>2, <1>7, <2>1 DEF Owned
  <1>11. TrackInv
    BY <1>7, <1>9, <1>10 DEF TrackInv
  <1>12. Running = {} /\ latest = 0
    BY <1>2, <1>5, <1>6 DEF Running
  <1> QED BY <1>8, <1>11, <1>12 DEF McpInv, AloneInv, OutcomeHolds

-----------------------------------------------------------------------------
(* One request moves *)

\* Request r has come to o; the others are where they were.
Moved(r, o) == request' = [request EXCEPT ![r] = o] /\ wanted' = wanted

LEMMA MovedIs ==
    ASSUME McpTyped, NEW r \in AdminRequests, NEW o, Moved(r, o)
    PROVE  /\ AdminRequests' = AdminRequests /\ request'[r] = o
           /\ request' = [q \in AdminRequests' |-> request'[q]]
           /\ \A q \in AdminRequests : q # r => request'[q] = request[q]
           /\ o.at \notin {"unsent", "ended"} => Running' = Running \cup {r}
           /\ o.at = "ended" => Running' = Running \ {r}
  <1>1. AdminRequests' = AdminRequests /\ DOMAIN request = AdminRequests
    BY DEF Moved, AdminRequests, McpTyped
  <1>2. /\ request'[r] = o /\ request' = [q \in AdminRequests' |-> request'[q]]
        /\ \A q \in AdminRequests : q # r => request'[q] = request[q]
    BY <1>1 DEF Moved
  <1> QED BY <1>1, <1>2 DEF Running

LEMMA TypedMoves ==
    ASSUME McpTyped, NEW r \in AdminRequests, NEW o, Moved(r, o), AdminOK(r, o),
           DOMAIN mcpFile' \subseteq Hosts, recorded' \in [Hosts -> SUBSET ToolNames],
           mcpSession' \in [Hosts -> {"none", "connected", "error", "disconnected"}],
           DOMAIN toolMap' \subseteq ToolNames, latest' \in {latest, r}
    PROVE  McpTyped'
  <1>1. \A q \in AdminRequests' : AdminOK(q, request'[q])
    BY MovedIs DEF McpTyped
  <1>2. \A q \in AdminRequests' : AdminOK(q, request[q])'
    BY <1>1 DEF AdminOK, Fields, Ats, Hosts, Moved
  <1>3. \A q \in AdminRequests' : q \in Nat \ {0} /\ wanted'[q].do \in Dos /\ wanted'[q].server \in Hosts
    BY MovedIs DEF Moved, McpTyped
  <1>4. latest' \in AdminRequests' \cup {0}
    BY MovedIs DEF McpTyped
  <1>5. request' = [q \in AdminRequests' |-> request'[q]]
    BY MovedIs
  <1> QED BY <1>2, <1>3, <1>4, <1>5 DEF McpTyped, Hosts, ToolNames

\* The hands of the others stay as they were.
TrackStep(r, o) ==
    /\ "builtin" \in DOMAIN toolMap' /\ toolMap'["builtin"].owner = "builtin"
    /\ \A s \in Hosts : recorded'[s] \subseteq Owned(s)'
    /\ Hand(o) # {} => Hand(o) \subseteq Owned(o.on)' \ recorded'[o.on]
    /\ \A q \in AdminRequests : q # r => Hand(o) \cap Holding(q) = {}
    /\ \A q \in AdminRequests : q # r /\ Holding(q) # {} => \A s : s = request[q].on
            => Holding(q) \subseteq Owned(s)' \ recorded'[s]
    /\ \A s \in Hosts : \A n \in Owned(s)' \ recorded'[s] :
            \/ o.on = s /\ n \in Hand(o)
            \/ \E q \in AdminRequests : q # r /\ request[q].on = s /\ n \in Holding(q)
    /\ o.at = "register" => recordLock' = r /\ recorded'[o.on] = {}
    /\ \A q \in AdminRequests : q # r /\ request[q].at = "register" => recordLock' = q /\ recorded'[request[q].on] = {}
LEMMA TrackBy ==
    ASSUME McpTyped, TrackInv, NEW r \in AdminRequests, NEW o, Moved(r, o), TrackStep(r, o)
    PROVE  TrackInv'
  <1>1. AdminRequests' = AdminRequests /\ request'[r] = o /\ Holding(r)' = Hand(o)
    BY MovedIs DEF Holding, Hand
  <1>2. \A q \in AdminRequests : q # r => Holding(q)' = Holding(q) /\ request'[q] = request[q]
    BY MovedIs DEF Holding, Hand
  <1>3. \A q, p \in AdminRequests' : q # p => (Holding(q) \cap Holding(p) = {})'
    <2> SUFFICES ASSUME NEW q \in AdminRequests, NEW p \in AdminRequests, q # p PROVE (Holding(q) \cap Holding(p) = {})'
      BY <1>1
    <2>1. CASE q = r
      BY <1>1, <1>2, <2>1 DEF TrackStep
    <2>2. CASE p = r
      BY <1>1, <1>2, <2>2 DEF TrackStep
    <2>3. CASE q # r /\ p # r
      BY <1>2, <2>3 DEF TrackInv
    <2> QED BY <2>1, <2>2, <2>3
  <1>4. \A q \in AdminRequests' : (Holding(q) # {} => Holding(q) \subseteq Owned(request[q].on) \ recorded[request[q].on])'
    <2> SUFFICES ASSUME NEW q \in AdminRequests, (Holding(q) # {})'
                 PROVE  (Holding(q) \subseteq Owned(request[q].on) \ recorded[request[q].on])'
      BY <1>1
    <2>1. CASE q = r
      <3>1. Owned(request[q].on)' = Owned(o.on)'
        BY <1>1, <2>1 DEF Owned
      <3> QED BY <1>1, <2>1, <3>1 DEF TrackStep
    <2>2. CASE q # r
      <3>1. PICK s : s = request[q].on
        OBVIOUS
      <3>2. Owned(request[q].on)' = Owned(s)'
        BY <1>2, <2>2, <3>1 DEF Owned
      <3> QED BY <1>2, <2>2, <3>1, <3>2 DEF TrackStep
    <2> QED BY <2>1, <2>2
  <1>5. \A s \in Hosts' : \A n \in Owned(s)' \ recorded'[s] :
            \E q \in AdminRequests' : (request[q].on = s /\ n \in Holding(q))'
    BY <1>1, <1>2 DEF Hosts, TrackStep
  <1>6. \A q \in AdminRequests' : (request[q].at = "register" => recordLock = q /\ recorded[request[q].on] = {})'
    BY <1>1, <1>2 DEF TrackStep
  <1>7. \A s \in Hosts' : recorded'[s] \subseteq Owned(s)'
    BY DEF Hosts, TrackStep
  <1> QED BY <1>3, <1>4, <1>5, <1>6, <1>7 DEF TrackInv, TrackStep

\* Most steps leave the registry and its record alone.
Handless == {"unsent", "fetch", "read", "write", "reread", "forget", "put down", "take", "list", "lock", "ended"}
LEMMA TrackStays ==
    ASSUME McpTyped, TrackInv, NEW r \in AdminRequests, NEW o, Moved(r, o),
           Holding(r) = {}, request[r].at # "register", o.at \in Handless, UNCHANGED <<recorded, toolMap>>,
           recordLock' = recordLock
    PROVE  TrackInv'
  <1>1. \A s : Owned(s)' = Owned(s)
    BY DEF Owned
  <1>2. Hand(o) = {}
    BY DEF Handless, Hand
  <1>3. \A s \in Hosts : \A n \in Owned(s)' \ recorded'[s] :
            \E q \in AdminRequests : q # r /\ request[q].on = s /\ n \in Holding(q)
    BY <1>1 DEF TrackInv
  <1>4. \A q \in AdminRequests : q # r /\ Holding(q) # {} => \A s : s = request[q].on
            => Holding(q) \subseteq Owned(s)' \ recorded'[s]
    BY <1>1 DEF TrackInv
  <1>5. o.at # "register"
    BY DEF Handless
  <1>6. \A s \in Hosts : recorded'[s] \subseteq Owned(s)'
    BY <1>1 DEF TrackInv
  <1>7. "builtin" \in DOMAIN toolMap' /\ toolMap'["builtin"].owner = "builtin"
    BY DEF TrackInv
  <1>8. \A q \in AdminRequests : q # r /\ request[q].at = "register" => recordLock' = q /\ recorded'[request[q].on] = {}
    BY DEF TrackInv
  <1>9. \A q \in AdminRequests : q # r => Hand(o) \cap Holding(q) = {}
    BY <1>2
  <1>10. \A s \in Hosts : \A n \in Owned(s)' \ recorded'[s] :
            \/ o.on = s /\ n \in Hand(o)
            \/ \E q \in AdminRequests : q # r /\ request[q].on = s /\ n \in Holding(q)
    BY <1>3
  <1>11. Hand(o) # {} => Hand(o) \subseteq Owned(o.on)' \ recorded'[o.on]
    BY <1>2
  <1>12. o.at = "register" => recordLock' = r /\ recorded'[o.on] = {}
    BY <1>5
  <1>13. TrackStep(r, o)
    BY <1>4, <1>6, <1>7, <1>8, <1>9, <1>10, <1>11, <1>12 DEF TrackStep
  <1> QED BY <1>13, TrackBy

\* A request that met no other is the only one that can move.
LEMMA AloneMoves ==
    ASSUME McpTyped, AloneInv, NEW r \in Running, NEW o, Moved(r, o), o.alone = request[r].alone,
           o.at \notin {"unsent", "ended"},
           request[r].alone /\ AloneOK(r) => AloneOK(r)'
    PROVE  AloneInv' /\ OutcomeHolds'
  <1>1. r \in AdminRequests
    BY DEF Running
  <1>2. Running' = Running /\ request'[r] = o /\ \A q \in AdminRequests : q # r => request'[q] = request[q]
    BY <1>1, MovedIs
  <1>3. ASSUME NEW q \in Running', request'[q].alone
        PROVE  AloneOK(q)'
    <2>1. CASE q = r
      BY <1>2, <1>3, <2>1 DEF AloneInv
    <2>2. CASE q # r
      <3>1. q \in AdminRequests /\ request[q].alone /\ q \in Running
        BY <1>2, <1>3, <2>2 DEF Running
      <3>2. Running = {q}
        BY <3>1 DEF AloneInv, AloneOK
      <3> QED BY <2>2, <3>2
    <2> QED BY <2>1, <2>2
  <1>4. Running' # {}
    BY <1>2
  <1> QED BY <1>3, <1>4 DEF AloneInv, OutcomeHolds

LEMMA AloneEnds ==
    ASSUME McpTyped, AloneInv, NEW r \in Running, NEW o, Moved(r, o), o.alone = request[r].alone,
           o.at = "ended", latest' = r,
           request[r].alone /\ AloneOK(r) => OutcomeOf(r)'
    PROVE  AloneInv' /\ OutcomeHolds'
  <1>1. r \in AdminRequests
    BY DEF Running
  <1>2. Running' = Running \ {r} /\ request'[r] = o /\ \A q \in AdminRequests : q # r => request'[q] = request[q]
    BY <1>1, MovedIs
  <1>3. ASSUME NEW q \in Running', request'[q].alone
        PROVE  FALSE
    <2>1. q \in AdminRequests /\ q # r /\ request[q].alone /\ q \in Running
      BY <1>2, <1>3 DEF Running
    <2>2. Running = {q}
      BY <2>1 DEF AloneInv, AloneOK
    <2> QED BY <2>1, <2>2
  <1>4. OutcomeHolds'
    <2> SUFFICES ASSUME request'[r].alone PROVE OutcomeOf(r)'
      BY DEF OutcomeHolds
    <2> QED BY <1>2 DEF AloneInv
  <1> QED BY <1>3, <1>4 DEF AloneInv

\* What an end and a move come to.
LEMMA EndsKeep ==
    ASSUME McpInv, NEW r \in Running, NEW answer, Ends(r, answer), wanted' = wanted, DOMAIN mcpFile' \subseteq Hosts,
           UNCHANGED <<recorded, toolMap>>, mcpSession' = mcpSession, recordLock' = recordLock,
           Holding(r) = {}, request[r].at # "register",
           request[r].alone /\ AloneOK(r) /\ request'[r].answer = answer => OutcomeOf(r)'
    PROVE  McpInv'
  <1> DEFINE o == [request[r] EXCEPT !.at = "ended", !.answer = answer, !.left = {}]
  <1>1. r \in AdminRequests /\ AdminOK(r, request[r]) /\ request[r].at # "unsent"
    BY DEF Running, McpInv, McpTyped
  <1>2. Moved(r, o)
    BY DEF Ends, Moved
  <1>3. o.at = "ended" /\ o.answer = answer /\ o.alone = request[r].alone /\ AdminOK(r, o)
    BY <1>1 DEF AdminOK, Fields, Ats
  <1>4. latest' = r
    BY DEF Ends
  <1>5. request'[r] = o
    BY <1>1, <1>2, MovedIs DEF McpInv
  <1> HIDE DEF o
  <1>6. McpTyped'
    BY <1>1, <1>2, <1>3, <1>4, TypedMoves DEF McpInv, McpTyped
  <1>7. TrackInv'
    BY <1>1, <1>2, <1>3, TrackStays DEF McpInv, Handless
  <1>8. AloneInv' /\ OutcomeHolds'
    BY <1>2, <1>3, <1>4, <1>5, AloneEnds DEF McpInv
  <1> QED BY <1>6, <1>7, <1>8 DEF McpInv

LEMMA MovesKeep ==
    ASSUME McpInv, NEW r \in Running, NEW o, Moves(r, o), wanted' = wanted, DOMAIN mcpFile' \subseteq Hosts,
           UNCHANGED <<recorded, toolMap>>, recordLock' = recordLock,
           mcpSession' \in [Hosts -> {"none", "connected", "error", "disconnected"}],
           Holding(r) = {}, request[r].at # "register", AdminOK(r, o), o.alone = request[r].alone,
           o.at \in Handless \ {"unsent", "ended"},
           request[r].alone /\ AloneOK(r) /\ Running' = {r} /\ request'[r] = o => AloneOK(r)'
    PROVE  McpInv'
  <1>1. r \in AdminRequests
    BY DEF Running
  <1>2. Moved(r, o) /\ latest' = latest
    BY DEF Moves, Moved
  <1>3. o.at \notin {"unsent", "ended"}
    BY DEF Handless
  <1>4. request'[r] = o /\ Running' = Running
    BY <1>1, <1>2, <1>3, MovedIs DEF McpInv
  <1>5. McpTyped'
    BY <1>1, <1>2, TypedMoves DEF McpInv, McpTyped
  <1>6. TrackInv'
    BY <1>1, <1>2, TrackStays DEF McpInv
  <1>7. request[r].alone /\ AloneOK(r) => AloneOK(r)'
    BY <1>4 DEF AloneOK
  <1>8. AloneInv' /\ OutcomeHolds'
    BY <1>2, <1>3, <1>7, AloneMoves DEF McpInv
  <1> QED BY <1>5, <1>6, <1>8 DEF McpInv

-----------------------------------------------------------------------------
(* The steps before a registry is touched *)

LEMMA RunningIs ==
    ASSUME McpInv, NEW r \in Running
    PROVE  /\ r \in AdminRequests /\ r # 0 /\ AdminOK(r, request[r]) /\ request[r].on \in Hosts
           /\ wanted[r].do \in Dos /\ wanted[r].server \in Hosts
  BY DEF Running, McpInv, McpTyped, AdminOK

LEMMA SubmitsKeeps ==
    ASSUME McpInv, NEW r \in AdminRequests, Submits(r)
    PROVE  McpInv'
  <1>1. AdminRequests' = AdminRequests
    BY DEF Submits, AdminRequests
  <1>2. /\ \A q \in AdminRequests : q # r /\ q \notin Running => request'[q] = request[q]
        /\ \A q \in Running : q # r => request'[q] = [request[q] EXCEPT !.alone = FALSE]
        /\ request'[r] = [request[r] EXCEPT !.at = IF wanted[r].do = "install" THEN "fetch" ELSE "read",
                                            !.alone = Running = {}, !.on = wanted[r].server]
    BY DEF Submits, Running
  <1>3. \A q \in AdminRequests : AdminOK(q, request[q]) /\ wanted[q].server \in Hosts
    BY DEF McpInv, McpTyped
  <1>4. /\ request'[r].at \in {"fetch", "read"} /\ request'[r].alone = (Running = {})
        /\ request'[r].on = wanted[r].server /\ request'[r].todo = {} /\ AdminOK(r, request'[r])
        /\ request'[r].at = "fetch" => wanted[r].do = "install"
    <2> DEFINE at == IF wanted[r].do = "install" THEN "fetch" ELSE "read"
               free == Running = {}
               c == request[r]
               o == [c EXCEPT !.at = at, !.alone = free, !.on = wanted[r].server]
    <2>1. DOMAIN c = Fields /\ c.todo = {} /\ DOMAIN c.seen \subseteq Hosts
      BY <1>3 DEF Submits, AdminOK
    <2>2. free \in BOOLEAN /\ at \in {"fetch", "read"} /\ (at = "fetch" => wanted[r].do = "install")
      OBVIOUS
    <2>3. request'[r] = o
      BY <1>2
    <2> HIDE DEF free, at, c
    <2>4. DOMAIN o = Fields /\ o.at = at /\ o.alone = free /\ o.on = wanted[r].server
          /\ o.todo = c.todo /\ o.seen = c.seen
      BY <2>1 DEF Fields
    <2> HIDE DEF o
    <2>5. AdminOK(r, o)
      BY <1>3, <2>1, <2>2, <2>4 DEF AdminOK, Ats
    <2>6. request'[r].alone = (Running = {})
      BY <2>3, <2>4 DEF free
    <2> QED BY <2>1, <2>2, <2>3, <2>4, <2>5, <2>6
  <1>5. \A q \in AdminRequests : q # r =>
            /\ request'[q].at = request[q].at /\ request'[q].on = request[q].on
            /\ request'[q].left = request[q].left /\ request'[q].got = request[q].got
            /\ AdminOK(q, request'[q])
    <2> SUFFICES ASSUME NEW q \in AdminRequests, q # r
                 PROVE  /\ request'[q].at = request[q].at /\ request'[q].on = request[q].on
                        /\ request'[q].left = request[q].left /\ request'[q].got = request[q].got
                        /\ AdminOK(q, request'[q])
      OBVIOUS
    <2> DEFINE c == request[q]
               o == [c EXCEPT !.alone = FALSE]
    <2>1. AdminOK(q, c)
      BY <1>3
    <2>2. request'[q] \in {c, o}
      BY <1>2
    <2> HIDE DEF c
    <2>3. /\ DOMAIN o = Fields /\ o.at = c.at /\ o.alone = FALSE /\ o.on = c.on /\ o.left = c.left
          /\ o.got = c.got /\ o.todo = c.todo /\ o.seen = c.seen
      BY <2>1 DEF AdminOK, Fields
    <2> HIDE DEF o
    <2>4. AdminOK(q, o)
      BY <2>1, <2>3 DEF AdminOK
    <2> QED BY <2>1, <2>2, <2>3, <2>4 DEF c
  <1>6. McpTyped'
    <2>1. \A q \in AdminRequests' : AdminOK(q, request[q])'
      <3>1. \A q \in AdminRequests : AdminOK(q, request'[q]) /\ wanted' = wanted
        BY <1>4, <1>5 DEF Submits
      <3> QED BY <1>1, <3>1 DEF AdminOK, Fields, Ats, Hosts
    <2>2. request' = [q \in AdminRequests' |-> request'[q]]
      BY <1>1 DEF Submits
    <2> QED BY <1>1, <2>1, <2>2 DEF McpInv, McpTyped, Submits, Hosts, ToolNames
  <1>7. \A q \in AdminRequests : Holding(q)' = Holding(q)
    BY <1>4, <1>5 DEF Holding, Hand, Submits
  <1>8. TrackInv'
    <2>1. \A s : Owned(s)' = Owned(s)
      BY DEF Owned, Submits
    <2>2. Holding(r) = {} /\ request[r].at # "register"
      BY DEF Submits, Holding, Hand
    <2>3. \A q \in AdminRequests' : (Holding(q) # {} => Holding(q) \subseteq Owned(request[q].on) \ recorded[request[q].on])'
      <3> SUFFICES ASSUME NEW q \in AdminRequests, Holding(q) # {}
                   PROVE  (Holding(q) \subseteq Owned(request[q].on) \ recorded[request[q].on])'
        BY <1>1, <1>7
      <3>1. q # r /\ request'[q].on = request[q].on /\ Holding(q)' = Holding(q)
        BY <1>5, <1>7, <2>2
      <3>2. Owned(request[q].on)' = Owned(request[q].on)
        BY <3>1 DEF Owned, Submits
      <3>3. Holding(q) \subseteq Owned(request[q].on) \ recorded[request[q].on]
        BY DEF McpInv, TrackInv
      <3>4. recorded'[request'[q].on] = recorded[request[q].on]
        BY <3>1 DEF Submits
      <3> QED BY <3>1, <3>2, <3>3, <3>4
    <2>4. \A s \in Hosts' : \A n \in Owned(s)' \ recorded'[s] :
              \E q \in AdminRequests' : (request[q].on = s /\ n \in Holding(q))'
      <3> SUFFICES ASSUME NEW s \in Hosts, NEW n \in Owned(s) \ recorded[s]
                   PROVE  \E q \in AdminRequests : request'[q].on = s /\ n \in Holding(q)'
        BY <1>1, <2>1 DEF Hosts, Submits
      <3>1. PICK q \in AdminRequests : request[q].on = s /\ n \in Holding(q)
        BY DEF McpInv, TrackInv
      <3> QED BY <1>5, <1>7, <2>2, <3>1
    <2>5. \A q \in AdminRequests' : (request[q].at = "register" => recordLock = q /\ recorded[request[q].on] = {})'
      <3>1. \A q \in AdminRequests : request'[q].at = "register" => request[q].at = "register" /\ request'[q].on = request[q].on
        BY <1>4, <1>5
      <3> QED BY <1>1, <3>1 DEF McpInv, TrackInv, Submits
    <2>6. \A q, p \in AdminRequests' : q # p => (Holding(q) \cap Holding(p) = {})'
      BY <1>1, <1>7 DEF McpInv, TrackInv
    <2>7. /\ "builtin" \in DOMAIN toolMap' /\ toolMap'["builtin"].owner = "builtin"
          /\ \A s \in Hosts' : recorded'[s] \subseteq Owned(s)'
      BY <2>1 DEF McpInv, TrackInv, Submits, Hosts
    <2> QED BY <2>3, <2>4, <2>5, <2>6, <2>7 DEF TrackInv
  <1>9. Running' = Running \cup {r} /\ r \notin Running
    <2>1. request[r].at = "unsent" /\ request'[r].at \notin {"unsent", "ended"}
      BY <1>4 DEF Submits
    <2>2. \A q \in AdminRequests : q # r => (q \in Running' <=> q \in Running)
      BY <1>1, <1>5 DEF Running
    <2>3. r \notin Running /\ r \in Running' /\ Running \subseteq AdminRequests /\ Running' \subseteq AdminRequests
      BY <1>1, <2>1 DEF Running
    <2> QED BY <2>2, <2>3
  <1>10. ASSUME NEW q \in Running', request'[q].alone
         PROVE  AloneOK(q)'
    <2>1. q = r
      <3> SUFFICES ASSUME q # r PROVE FALSE
        OBVIOUS
      <3>1. q \in Running /\ q \in AdminRequests
        BY <1>9 DEF Running
      <3>2. request'[q] = [request[q] EXCEPT !.alone = FALSE] /\ DOMAIN request[q] = Fields
        BY <1>2, <1>3, <3>1 DEF AdminOK
      <3> QED BY <1>10, <3>2 DEF Fields
    <2>2. Running' = {r}
      BY <1>4, <1>9, <1>10, <2>1
    <2> QED BY <1>4, <2>1, <2>2 DEF AloneOK, Submits
  <1>11. OutcomeHolds'
    BY <1>9 DEF OutcomeHolds
  <1> QED BY <1>6, <1>8, <1>10, <1>11 DEF McpInv, AloneInv

LEMMA FetchesKeeps ==
    ASSUME McpInv, NEW r \in Running, Fetches(r)
    PROVE  McpInv'
  <1>1. /\ Holding(r) = {} /\ request[r].at = "fetch" /\ DOMAIN mcpFile' \subseteq Hosts /\ wanted' = wanted
        /\ UNCHANGED <<recorded, toolMap>> /\ mcpSession' = mcpSession /\ recordLock' = recordLock
    BY DEF Fetches, Holding, Hand, McpInv, McpTyped
  <1>2. CASE \E answer \in {"failed", "duplicate"} : Ends(r, answer)
    <2>1. PICK answer \in {"failed", "duplicate"} : Ends(r, answer)
      BY <1>2
    <2>2. request[r].alone /\ AloneOK(r) /\ request'[r].answer = answer => OutcomeOf(r)'
      BY <1>1, <2>1 DEF AloneOK, OutcomeOf
    <2> QED BY <1>1, <2>1, <2>2, EndsKeep
  <1>3. CASE Moves(r, [request[r] EXCEPT !.at = "read"])
    <2> DEFINE o == [request[r] EXCEPT !.at = "read"]
    <2>1. /\ o.at = "read" /\ o.alone = request[r].alone /\ o.on = request[r].on /\ o.todo = request[r].todo
          /\ AdminOK(r, o)
      BY RunningIs, <1>1 DEF AdminOK, Fields, Ats
    <2> HIDE DEF o
    <2>2. request[r].alone /\ AloneOK(r) /\ Running' = {r} /\ request'[r] = o => AloneOK(r)'
      BY <1>1, <2>1 DEF AloneOK
    <2>3. mcpSession' \in [Hosts -> {"none", "connected", "error", "disconnected"}]
      BY <1>1 DEF McpInv, McpTyped
    <2> QED BY <1>1, <1>3, <2>1, <2>2, <2>3, MovesKeep DEF o, Handless
  <1> QED BY <1>2, <1>3 DEF Fetches

Comes(r, o, x, at) == [o EXCEPT !.at = at, !.on = x, !.todo = @ \ {x}]
LEMMA ProceedsIs ==
    ASSUME NEW r, NEW o, Proceeds(r, o)
    PROVE  \/ o.todo = {} /\ Ends(r, IF wanted[r].do \in {"connect", "install"} THEN o.answer ELSE "ok")
           \/ \E x \in o.todo, at \in {"list", "put down"} :
                Moves(r, Comes(r, o, x, at)) /\ (at = "list" => o.seen[x].enabled)
  <1> DEFINE enabled == {s \in o.todo : o.seen[s].enabled}
  <1>1. CASE o.todo = {}
    BY <1>1 DEF Proceeds
  <1>2. CASE o.todo # {} /\ enabled # {}
    <2>1. PICK next \in Continues(o) : Moves(r, next)
      BY <1>2 DEF Proceeds
    <2>2. PICK x \in enabled : next = Comes(r, o, x, "list")
      BY <1>2, <2>1 DEF Continues, Comes
    <2> QED BY <2>1, <2>2
  <1>3. CASE o.todo # {} /\ enabled = {}
    <2>1. PICK next \in Continues(o) : Moves(r, next)
      BY <1>3 DEF Proceeds
    <2>2. PICK x \in o.todo : next = Comes(r, o, x, "put down")
      BY <1>3, <2>1 DEF Continues, Comes
    <2> QED BY <2>1, <2>2
  <1> QED BY <1>1, <1>2, <1>3

LEMMA ReadsKeeps ==
    ASSUME McpInv, NEW r \in Running, Reads(r)
    PROVE  McpInv'
  <1> DEFINE do == wanted[r].do
             known == wanted[r].server \in DOMAIN mcpFile
  <1>1. /\ Holding(r) = {} /\ request[r].at = "read" /\ DOMAIN mcpFile' \subseteq Hosts /\ wanted' = wanted
        /\ UNCHANGED <<recorded, toolMap>> /\ mcpSession' = mcpSession /\ recordLock' = recordLock
        /\ mcpSession' \in [Hosts -> {"none", "connected", "error", "disconnected"}] /\ mcpFile' = mcpFile
    BY DEF Reads, Holding, Hand, McpInv, McpTyped
  <1>2. ASSUME NEW answer \in {"duplicate", "not_found"}, Ends(r, answer), do # "reconnect"
        PROVE  McpInv'
    <2>1. request[r].alone /\ AloneOK(r) /\ request'[r].answer = answer => OutcomeOf(r)'
      BY <1>1, <1>2, RunningIs DEF OutcomeOf, Dos
    <2> QED BY <1>1, <1>2, <2>1, EndsKeep
  <1>3. ASSUME NEW at \in {"write", "list", "put down"}, do # "reconnect",
               Moves(r, [[request[r] EXCEPT !.seen = mcpFile] EXCEPT !.at = at]),
               at = "write" => do \in {"add", "install", "update", "remove"},
               at = "write" /\ do \in {"add", "install"} => ~known,
               at = "list" => do = "connect", at = "put down" => do = "disconnect"
        PROVE  McpInv'
    <2> DEFINE o == [[request[r] EXCEPT !.seen = mcpFile] EXCEPT !.at = at]
    <2>1. /\ o.at = at /\ o.alone = request[r].alone /\ o.on = request[r].on /\ o.todo = request[r].todo
          /\ o.seen = mcpFile /\ AdminOK(r, o)
      BY RunningIs, <1>1, <1>3 DEF AdminOK, Fields, Ats
    <2>2. Moves(r, o)
      BY <1>3
    <2> HIDE DEF o
    <2>3. request[r].alone /\ AloneOK(r) /\ Running' = {r} /\ request'[r] = o => AloneOK(r)'
      BY <1>1, <1>3, <2>1 DEF AloneOK
    <2>4. o.at \in Handless \ {"unsent", "ended"}
      BY <2>1 DEF Handless
    <2> QED BY <1>1, <2>1, <2>2, <2>3, <2>4, MovesKeep
  <1>4. CASE do = "reconnect"
    <2> DEFINE o == [[request[r] EXCEPT !.seen = mcpFile] EXCEPT !.todo = DOMAIN mcpFile]
    <2>1. /\ o.at = "read" /\ o.alone = request[r].alone /\ o.on = request[r].on /\ o.todo = DOMAIN mcpFile
          /\ o.seen = mcpFile /\ AdminOK(r, o)
      <3>1. AdminOK(r, request[r]) /\ request[r].at = "read" /\ request[r].on \in Hosts /\ DOMAIN mcpFile \subseteq Hosts
        BY RunningIs, <1>1
      <3>2. /\ o.at = "read" /\ o.alone = request[r].alone /\ o.on = request[r].on /\ o.todo = DOMAIN mcpFile
            /\ o.seen = mcpFile /\ DOMAIN o = Fields
        BY <3>1 DEF AdminOK, Fields
      <3> HIDE DEF o
      <3> QED BY <3>1, <3>2 DEF AdminOK, Ats
    <2>2. Proceeds(r, o)
      BY <1>4, RunningIs DEF Reads
    <2> HIDE DEF o
    <2>3. CASE o.todo = {} /\ Ends(r, IF do \in {"connect", "install"} THEN o.answer ELSE "ok")
      <3>1. Ends(r, "ok")
        BY <1>4, <2>3
      <3>2. request[r].alone /\ AloneOK(r) /\ request'[r].answer = "ok" => OutcomeOf(r)'
        BY <1>1, <1>4, <2>1, <2>3 DEF OutcomeOf
      <3> QED BY <1>1, <3>1, <3>2, EndsKeep
    <2>4. ASSUME NEW x \in o.todo, NEW at \in {"list", "put down"}, Moves(r, Comes(r, o, x, at)),
                 at = "list" => o.seen[x].enabled
          PROVE  McpInv'
      <3>0. PICK next : next = Comes(r, o, x, at)
        OBVIOUS
      <3>1. /\ AdminOK(r, next) /\ next.at = at /\ next.on = x /\ next.todo = o.todo \ {x}
            /\ next.seen = mcpFile /\ next.alone = request[r].alone
        <4>1. AdminOK(r, o) /\ x \in o.todo /\ next = Comes(r, o, x, at) /\ at \in {"list", "put down"}
          BY <2>1, <3>0
        <4>2. /\ next.at = at /\ next.on = x /\ next.todo = o.todo \ {x}
              /\ next.seen = o.seen /\ next.alone = o.alone
          BY <4>1 DEF Comes, AdminOK, Fields
        <4>3. AdminOK(r, next)
          BY <4>1 DEF Comes, AdminOK, Fields, Ats
        <4> QED BY <2>1, <4>2, <4>3
      <3>2. Moves(r, next)
        BY <2>4, <3>0
      <3>3. request[r].alone /\ AloneOK(r) /\ Running' = {r} /\ request'[r] = next => AloneOK(r)'
        BY <1>1, <1>4, <2>1, <2>4, <3>1 DEF AloneOK
      <3>4. next.at \in Handless \ {"unsent", "ended"}
        BY <3>1 DEF Handless
      <3> QED BY <1>1, <3>1, <3>2, <3>3, <3>4, MovesKeep
    <2> QED BY <2>2, <2>3, <2>4, ProceedsIs
  <1>5. CASE do \in {"add", "install"}
    <2>1. \/ Ends(r, "duplicate")
          \/ ~known /\ Moves(r, [[request[r] EXCEPT !.seen = mcpFile] EXCEPT !.at = "write"])
      BY <1>5 DEF Reads
    <2> QED BY <1>2, <1>3, <1>5, <2>1
  <1>6. CASE do \in {"update", "remove", "connect", "disconnect"}
    <2>1. \/ Ends(r, "not_found")
          \/ do \in {"update", "remove"} /\ Moves(r, [[request[r] EXCEPT !.seen = mcpFile] EXCEPT !.at = "write"])
          \/ do = "connect" /\ Moves(r, [[request[r] EXCEPT !.seen = mcpFile] EXCEPT !.at = "list"])
          \/ do = "disconnect" /\ Moves(r, [[request[r] EXCEPT !.seen = mcpFile] EXCEPT !.at = "put down"])
      BY <1>6 DEF Reads
    <2> QED BY <1>2, <1>3, <1>6, <2>1
  <1> QED BY <1>4, <1>5, <1>6, RunningIs DEF Dos

LEMMA WrittenIs ==
    ASSUME McpInv, NEW r \in Running, request[r].at = "write"
    PROVE  /\ DOMAIN Written(r) \subseteq Hosts
           /\ wanted[r].do = "add" => wanted[r].server \in DOMAIN Written(r)
           /\ wanted[r].do = "install" /\ wanted[r].server \notin DOMAIN request[r].seen =>
                /\ wanted[r].server \in DOMAIN Written(r)
                /\ Written(r)[wanted[r].server].capabilities = {}
  <1> DEFINE seen == request[r].seen
             s == wanted[r].server
             do == wanted[r].do
  <1>1. DOMAIN seen \subseteq Hosts /\ s \in Hosts /\ do \in {"add", "install", "update", "remove"}
    BY RunningIs DEF AdminOK
  <1> HIDE DEF seen, s, do
  <1>2. CASE do = "add"
    <2>1. Written(r) = Over(seen, Only(s, wanted[r].config))
      BY <1>2 DEF Written, seen, s, do
    <2>2. DOMAIN Written(r) = DOMAIN seen \cup {s}
      BY <2>1 DEF Over, Only
    <2> QED BY <1>1, <1>2, <2>2 DEF seen, s, do
  <1>3. CASE do = "install"
    <2>1. Written(r) = Over(seen, Only(s, PackageConfig(wanted[r].config)))
      BY <1>3 DEF Written, seen, s, do
    <2>2. DOMAIN Written(r) = DOMAIN seen \cup {s}
      BY <2>1 DEF Over, Only
    <2>3. s \notin DOMAIN seen => Written(r)[s] = PackageConfig(wanted[r].config)
      BY <2>1 DEF Over, Only
    <2>4. PackageConfig(wanted[r].config).capabilities = {}
      BY DEF PackageConfig
    <2> QED BY <1>1, <1>3, <2>2, <2>3, <2>4 DEF seen, s, do
  <1>4. CASE do = "update"
    <2>1. Written(r) = [seen EXCEPT ![s] = Over(wanted[r].config, @)]
      BY <1>4 DEF Written, seen, s, do
    <2> QED BY <1>1, <1>4, <2>1 DEF seen, s, do
  <1>5. CASE do = "remove"
    <2>1. Written(r) = [x \in DOMAIN seen \ {s} |-> seen[x]]
      BY <1>5 DEF Written, seen, s, do
    <2> QED BY <1>1, <1>5, <2>1 DEF seen, s, do
  <1> QED BY <1>1, <1>2, <1>3, <1>4, <1>5

LEMMA WritesKeeps ==
    ASSUME McpInv, NEW r \in Running, Writes(r) \/ WriteFails(r)
    PROVE  McpInv'
  <1> DEFINE do == wanted[r].do
             s == wanted[r].server
  <1>1. /\ Holding(r) = {} /\ request[r].at = "write" /\ DOMAIN mcpFile \subseteq Hosts /\ wanted' = wanted
        /\ UNCHANGED <<recorded, toolMap>> /\ mcpSession' = mcpSession /\ recordLock' = recordLock
        /\ mcpSession' \in [Hosts -> {"none", "connected", "error", "disconnected"}]
        /\ do \in {"add", "install", "update", "remove"}
    BY RunningIs DEF Writes, WriteFails, Holding, Hand, McpInv, McpTyped, AdminOK
  <1>2. CASE WriteFails(r)
    <2>1. Ends(r, "failed") /\ mcpFile' = mcpFile
      BY <1>2 DEF WriteFails
    <2>2. request[r].alone /\ AloneOK(r) /\ request'[r].answer = "failed" => OutcomeOf(r)'
      BY <1>1 DEF OutcomeOf
    <2> QED BY <1>1, <2>1, <2>2, EndsKeep
  <1>3. CASE Writes(r) /\ do = "add"
    <2>1. Ends(r, "ok") /\ mcpFile' = Written(r)
      BY <1>3 DEF Writes
    <2>2. DOMAIN mcpFile' \subseteq Hosts /\ s \in DOMAIN mcpFile'
      BY <1>1, <1>3, <2>1, WrittenIs
    <2>3. request[r].alone /\ AloneOK(r) /\ request'[r].answer = "ok" => OutcomeOf(r)'
      BY <1>1, <1>3, <2>2 DEF OutcomeOf
    <2> QED BY <1>1, <2>1, <2>2, <2>3, EndsKeep
  <1>4. CASE Writes(r) /\ do # "add"
    <2> DEFINE at == IF do = "install" THEN "reread" ELSE "forget"
               o == [request[r] EXCEPT !.at = at]
    <2>1. Moves(r, o) /\ mcpFile' = Written(r)
      BY <1>4 DEF Writes
    <2>2. /\ o.at = at /\ o.alone = request[r].alone /\ o.on = request[r].on /\ o.todo = request[r].todo
          /\ AdminOK(r, o)
      BY RunningIs, <1>1 DEF AdminOK, Fields, Ats
    <2> HIDE DEF o
    <2>3. /\ DOMAIN mcpFile' \subseteq Hosts
          /\ do = "install" /\ s \notin DOMAIN request[r].seen => s \in DOMAIN mcpFile' /\ mcpFile'[s].capabilities = {}
      BY <1>1, <2>1, WrittenIs
    <2>4. request[r].alone /\ AloneOK(r) /\ Running' = {r} /\ request'[r] = o => AloneOK(r)'
      BY <1>1, <1>4, <2>2, <2>3 DEF AloneOK
    <2>5. o.at \in Handless \ {"unsent", "ended"}
      BY <2>2 DEF Handless
    <2> QED BY <1>1, <2>1, <2>2, <2>3, <2>4, <2>5, MovesKeep
  <1> QED BY <1>2, <1>3, <1>4

LEMMA RereadsKeeps ==
    ASSUME McpInv, NEW r \in Running, Rereads(r)
    PROVE  McpInv'
  <1>1. /\ Holding(r) = {} /\ request[r].at = "reread" /\ DOMAIN mcpFile' \subseteq Hosts /\ wanted' = wanted
        /\ UNCHANGED <<recorded, toolMap>> /\ mcpSession' = mcpSession /\ recordLock' = recordLock
        /\ mcpSession' \in [Hosts -> {"none", "connected", "error", "disconnected"}] /\ mcpFile' = mcpFile
    BY DEF Rereads, Holding, Hand, McpInv, McpTyped
  <1>2. CASE Ends(r, "failed")
    <2>1. request[r].alone /\ AloneOK(r) /\ request'[r].answer = "failed" => OutcomeOf(r)'
      BY <1>1 DEF OutcomeOf, AloneOK
    <2> QED BY <1>1, <1>2, <2>1, EndsKeep
  <1>3. CASE Moves(r, [request[r] EXCEPT !.at = "list", !.seen = mcpFile])
    <2> DEFINE o == [request[r] EXCEPT !.at = "list", !.seen = mcpFile]
    <2>1. /\ o.at = "list" /\ o.alone = request[r].alone /\ o.on = request[r].on /\ o.todo = request[r].todo
          /\ o.seen = mcpFile /\ AdminOK(r, o)
      BY RunningIs, <1>1 DEF AdminOK, Fields, Ats
    <2>2. Moves(r, o)
      BY <1>3
    <2> HIDE DEF o
    <2>3. request[r].alone /\ AloneOK(r) /\ Running' = {r} /\ request'[r] = o => AloneOK(r)'
      BY <1>1, <2>1 DEF AloneOK
    <2>4. o.at \in Handless \ {"unsent", "ended"}
      BY <2>1 DEF Handless
    <2> QED BY <1>1, <2>1, <2>2, <2>3, <2>4, MovesKeep
  <1> QED BY <1>2, <1>3 DEF Rereads

\* A session of one server is another matter for the others.
LEMMA SettledStays ==
    ASSUME NEW x, mcpSession'[x] = mcpSession[x], mcpFile' = mcpFile,
           \A n \in Owned(x)' : n \in Owned(x) /\ toolMap'[n] = toolMap[n], Settled(x)
    PROVE  Settled(x)'
  BY DEF Settled, Down, Current, ToolPolicy, KnownCapabilities, Owned

LEMMA SessionsKeep ==
    ASSUME McpInv, NEW r \in Running, Forgets(r) \/ Lists(r)
    PROVE  McpInv'
  <1> DEFINE on == request[r].on
  <1>1. PICK status \in {"none", "disconnected", "connected", "error"}, at \in {"take", "lock"} :
            /\ mcpSession' = [mcpSession EXCEPT ![on] = status]
            /\ request[r].at \in {"forget", "put down", "list"}
            /\ IF request[r].at \in {"forget", "put down"} THEN
                    status \in {"none", "disconnected"} /\ at = "take" /\ Moves(r, [request[r] EXCEPT !.at = at])
               ELSE status \in {"connected", "error"} /\ ((at = "lock") <=> (status = "connected"))
                    /\ Moves(r, [request[r] EXCEPT !.at = at, !.answer = status])
    <2>1. CASE Forgets(r)
      BY <2>1 DEF Forgets
    <2>2. CASE Lists(r)
      BY <2>2 DEF Lists
    <2> QED BY <2>1, <2>2
  <1>2. /\ Holding(r) = {} /\ request[r].at # "register" /\ DOMAIN mcpFile' \subseteq Hosts /\ wanted' = wanted
        /\ UNCHANGED <<recorded, toolMap>> /\ recordLock' = recordLock /\ mcpFile' = mcpFile
    BY <1>1 DEF Forgets, Lists, Holding, Hand, McpInv, McpTyped
  <1>3. /\ mcpSession' \in [Hosts -> {"none", "connected", "error", "disconnected"}]
        /\ mcpSession'[on] = status /\ \A x \in Hosts : x # on => mcpSession'[x] = mcpSession[x]
    BY <1>1, RunningIs DEF McpInv, McpTyped
  <1>4. PICK o : /\ Moves(r, o) /\ o.at = at /\ o.alone = request[r].alone /\ o.on = on /\ o.todo = request[r].todo
                 /\ o.seen = request[r].seen /\ AdminOK(r, o) /\ (request[r].at = "list" => o.answer = status)
    <2>1. CASE request[r].at \in {"forget", "put down"}
      <3> DEFINE o == [request[r] EXCEPT !.at = at]
      <3>1. /\ o.at = at /\ o.alone = request[r].alone /\ o.on = on /\ o.todo = request[r].todo
            /\ o.seen = request[r].seen /\ AdminOK(r, o)
        BY RunningIs, <1>1 DEF AdminOK, Fields, Ats
      <3> QED BY <1>1, <2>1, <3>1
    <2>2. CASE request[r].at = "list"
      <3> DEFINE o == [request[r] EXCEPT !.at = at, !.answer = status]
      <3>1. /\ o.at = at /\ o.alone = request[r].alone /\ o.on = on /\ o.todo = request[r].todo
            /\ o.seen = request[r].seen /\ AdminOK(r, o) /\ o.answer = status
        BY RunningIs, <1>1 DEF AdminOK, Fields, Ats
      <3> QED BY <1>1, <2>2, <3>1
    <2> QED BY <1>1, <2>1, <2>2
  <1>5. \A x \in Hosts : x # on /\ Settled(x) => Settled(x)'
    <2>1. \A x : Owned(x)' = Owned(x)
      BY <1>2 DEF Owned
    <2> QED BY <1>2, <1>3, <2>1, SettledStays
  <1>6. ASSUME request[r].alone, AloneOK(r), Running' = {r}, request'[r] = o
        PROVE  AloneOK(r)'
    <2>1. ASSUME wanted[r].do = "reconnect"
          PROVE  \A x \in DOMAIN mcpFile' \ (request'[r].todo \cup {request'[r].on}) : Settled(x)'
      <3>1. request[r].at # "read"
        BY <1>1
      <3> QED BY <1>2, <1>4, <1>5, <1>6, <2>1, <3>1 DEF AloneOK
    <2>0. /\ request'[r].at = at /\ request'[r].on = on /\ request'[r].todo = request[r].todo
          /\ request'[r].seen = request[r].seen /\ (request[r].at = "list" => request'[r].answer = status)
          /\ wanted' = wanted /\ mcpFile' = mcpFile /\ recorded' = recorded /\ Running' = {r}
          /\ mcpSession'[on] = status
      BY <1>2, <1>3, <1>4, <1>6
    <2>2. CASE at = "take"
      <3>1. status # "connected" /\ (request[r].at = "list" => status = "error")
        BY <1>1, <2>2
      <3>2. wanted[r].do # "add" /\ (wanted[r].do \in {"connect", "install"} => request'[r].answer = "error")
        BY <1>1, <1>6, <2>0, <2>2, <3>1 DEF AloneOK
      <3>3. wanted[r].do = "reconnect" => request[r].seen = mcpFile /\ request[r].todo \subseteq DOMAIN mcpFile /\ on \in DOMAIN mcpFile
        BY <1>1, <1>6 DEF AloneOK
      <3>4. wanted[r].do # "reconnect" => on = wanted[r].server /\ request[r].todo = {}
        BY <1>6 DEF AloneOK
      <3> QED BY <2>0, <2>1, <2>2, <3>1, <3>2, <3>3, <3>4 DEF AloneOK
    <2>3. CASE at = "lock"
      <3>1. status = "connected" /\ request[r].at = "list"
        BY <1>1, <2>3
      <3> QED BY <1>6, <2>0, <2>1, <2>3, <3>1 DEF AloneOK
    <2> QED BY <1>1, <2>2, <2>3
  <1>7. o.at \in Handless \ {"unsent", "ended"}
    BY <1>4 DEF Handless
  <1> QED BY <1>2, <1>3, <1>4, <1>6, <1>7, MovesKeep

-----------------------------------------------------------------------------
(* The steps that change the registry or its record *)

\* A name has one owner, and that of a request's hand is the server it works on.
LEMMA OwnersPart ==
    ASSUME McpInv, NEW r \in AdminRequests, NEW n, n \in recorded[request[r].on] \cup Holding(r), request[r].on \in Hosts
    PROVE  /\ n \in Owned(request[r].on) /\ n # "builtin" /\ \A s : n \in Owned(s) => s = request[r].on
           /\ \A q \in AdminRequests : q # r => n \notin Holding(q)
  <1>1. n \in Owned(request[r].on)
    BY DEF McpInv, TrackInv
  <1>2. n # "builtin"
    BY <1>1, McpAssumption DEF McpInv, TrackInv, Owned, Hosts
  <1>3. \A s : n \in Owned(s) => s = request[r].on
    BY <1>1 DEF Owned
  <1>4. ASSUME NEW q \in AdminRequests, q # r, n \in Holding(q) PROVE FALSE
    <2>1. n \in Owned(request[q].on) /\ n \notin recorded[request[q].on]
      BY <1>4 DEF McpInv, TrackInv
    <2>2. request[q].on = request[r].on
      BY <1>3, <2>1
    <2>3. n \in Holding(r)
      BY <2>1, <2>2
    <2> QED BY <1>4, <2>3 DEF McpInv, TrackInv
  <1> QED BY <1>1, <1>2, <1>3, <1>4

LEMMA UnrecordsKeeps ==
    ASSUME McpInv, NEW r \in Running, Unrecords(r)
    PROVE  McpInv'
  <1> DEFINE on == request[r].on
  <1>1. /\ request[r].at = "take" /\ recordLock = 0 /\ recorded' = [recorded EXCEPT ![on] = {}]
        /\ latest' = latest /\ mcpFile' = mcpFile /\ mcpSession' = mcpSession
        /\ toolMap' = toolMap /\ recordLock' = recordLock
    BY DEF Unrecords, Moves
  <1>2. PICK o : /\ Moved(r, o) /\ o.at = "drop" /\ o.alone = request[r].alone /\ o.on = on /\ o.todo = request[r].todo
                 /\ o.seen = request[r].seen /\ o.left = recorded[on] /\ o.answer = request[r].answer /\ AdminOK(r, o)
    <2> DEFINE o == [request[r] EXCEPT !.at = "drop", !.left = recorded[on]]
    <2>1. /\ o.at = "drop" /\ o.alone = request[r].alone /\ o.on = on /\ o.todo = request[r].todo
          /\ o.seen = request[r].seen /\ o.left = recorded[on] /\ o.answer = request[r].answer /\ AdminOK(r, o)
      BY RunningIs, <1>1 DEF AdminOK, Fields, Ats
    <2>2. Moved(r, o)
      BY DEF Unrecords, Moves, Moved
    <2> QED BY <2>1, <2>2
  <1>3. /\ recorded' \in [Hosts -> SUBSET ToolNames] /\ recorded'[on] = {}
        /\ \A s \in Hosts : s # on => recorded'[s] = recorded[s]
    BY <1>1, RunningIs DEF McpInv, McpTyped
  <1>4. r \in AdminRequests /\ r # 0 /\ on \in Hosts /\ Holding(r) = {}
    BY <1>1, RunningIs DEF Holding, Hand
  <1>5. McpTyped'
    BY <1>1, <1>2, <1>3, <1>4, TypedMoves DEF McpInv, McpTyped
  <1>6. TrackInv'
    <2>1. Hand(o) = recorded[on] /\ \A s : Owned(s)' = Owned(s)
      BY <1>1, <1>2 DEF Hand, Owned
    <2>2. \A s \in Hosts : recorded'[s] \subseteq Owned(s)'
      BY <1>3, <2>1 DEF McpInv, TrackInv
    <2>3. Hand(o) # {} => Hand(o) \subseteq Owned(o.on)' \ recorded'[o.on]
      BY <1>2, <1>3, <1>4, <2>1 DEF McpInv, TrackInv
    <2>4. \A q \in AdminRequests : q # r => Hand(o) \cap Holding(q) = {}
      BY <1>4, <2>1, OwnersPart
    <2>5. \A q \in AdminRequests : q # r /\ Holding(q) # {} => \A s : s = request[q].on
                => Holding(q) \subseteq Owned(s)' \ recorded'[s]
      <3> SUFFICES ASSUME NEW q \in AdminRequests, q # r, Holding(q) # {}
                   PROVE  Holding(q) \subseteq Owned(request[q].on) \ recorded'[request[q].on]
        BY <2>1
      <3>1. Holding(q) \subseteq Owned(request[q].on) \ recorded[request[q].on]
        BY DEF McpInv, TrackInv
      <3>2. request[q].on \in Hosts
        BY DEF McpInv, McpTyped, AdminOK, Holding, Hand
      <3> QED BY <1>3, <3>1, <3>2
    <2>6. \A s \in Hosts : \A n \in Owned(s)' \ recorded'[s] :
              \/ o.on = s /\ n \in Hand(o)
              \/ \E q \in AdminRequests : q # r /\ request[q].on = s /\ n \in Holding(q)
      <3> SUFFICES ASSUME NEW s \in Hosts, NEW n \in Owned(s) \ recorded'[s], ~(o.on = s /\ n \in Hand(o))
                   PROVE  \E q \in AdminRequests : q # r /\ request[q].on = s /\ n \in Holding(q)
        BY <2>1
      <3>1. n \in Owned(s) \ recorded[s]
        BY <1>2, <1>3, <2>1
      <3> QED BY <1>4, <3>1 DEF McpInv, TrackInv
    <2>7. \A q \in AdminRequests : request[q].at # "register"
      BY <1>1 DEF McpInv, McpTyped, TrackInv
    <2>8. /\ "builtin" \in DOMAIN toolMap' /\ toolMap'["builtin"].owner = "builtin"
      BY <1>1 DEF McpInv, TrackInv
    <2>9. /\ o.at = "register" => recordLock' = r /\ recorded'[o.on] = {}
          /\ \A q \in AdminRequests : q # r /\ request[q].at = "register" => recordLock' = q /\ recorded'[request[q].on] = {}
      BY <1>2, <2>7
    <2>10. McpTyped /\ TrackInv /\ r \in AdminRequests /\ Moved(r, o)
      BY <1>2, <1>4 DEF McpInv
    <2>11. TrackStep(r, o)
      BY <2>2, <2>3, <2>4, <2>5, <2>6, <2>8, <2>9 DEF TrackStep
    <2> QED BY <2>10, <2>11, TrackBy
  <1>7. request'[r] = o /\ o.at \notin {"unsent", "ended"} /\ Running' = Running
    BY <1>1, <1>2, <1>4, MovedIs DEF McpInv
  <1>8. ASSUME request[r].alone, AloneOK(r)
        PROVE  AloneOK(r)'
    <2>1. \A x \in Hosts : Settled(x) => Settled(x)'
      <3>1. \A x : Owned(x)' = Owned(x)
        BY <1>1 DEF Owned
      <3> QED BY <1>1, <3>1, SettledStays
    <2>2. ASSUME wanted[r].do = "reconnect"
          PROVE  \A x \in DOMAIN mcpFile' \ (request'[r].todo \cup {request'[r].on}) : Settled(x)'
      BY <1>1, <1>2, <1>7, <1>8, <2>1, <2>2 DEF AloneOK, McpInv, McpTyped
    <2>3. Running' = {r} /\ wanted' = wanted
      BY <1>2, <1>7, <1>8 DEF AloneOK, Moved
    <2> QED BY <1>1, <1>2, <1>3, <1>7, <1>8, <2>2, <2>3 DEF AloneOK
  <1>9. AloneInv' /\ OutcomeHolds'
    BY <1>1, <1>2, <1>7, <1>8, AloneMoves DEF McpInv
  <1> QED BY <1>5, <1>6, <1>9 DEF McpInv

\* What is no one's record is in the hand of the only request there is.
LEMMA AloneHolds ==
    ASSUME McpInv, NEW r \in Running, request[r].alone
    PROVE  AloneOK(r) /\ Running = {r} /\ Owned(request[r].on) \subseteq recorded[request[r].on] \cup Holding(r)
  <1>1. AloneOK(r) /\ Running = {r}
    BY DEF McpInv, AloneInv, AloneOK
  <1>2. ASSUME NEW n \in Owned(request[r].on), n \notin recorded[request[r].on]
        PROVE  n \in Holding(r)
    <2>1. PICK q \in AdminRequests : n \in Holding(q)
      BY <1>2, RunningIs DEF McpInv, TrackInv
    <2>2. q \in Running
      BY <2>1 DEF Holding, Hand, Running
    <2> QED BY <1>1, <2>1, <2>2
  <1> QED BY <1>1, <1>2

\* A request done with a server ends, or takes the next.
LEMMA DropsDone ==
    ASSUME McpInv, NEW r \in Running, request[r].at = "drop", request[r].left = {}, Proceeds(r, request[r]),
           UNCHANGED <<wanted, mcpFile, mcpSession, recorded, recordLock, toolMap>>
    PROVE  McpInv'
  <1> DEFINE do == wanted[r].do
             on == request[r].on
  <1>1. /\ Holding(r) = {} /\ DOMAIN mcpFile' \subseteq Hosts /\ wanted' = wanted
        /\ UNCHANGED <<recorded, toolMap>> /\ mcpSession' = mcpSession /\ recordLock' = recordLock
        /\ mcpSession' \in [Hosts -> {"none", "connected", "error", "disconnected"}] /\ mcpFile' = mcpFile
    BY DEF Holding, Hand, McpInv, McpTyped
  <1>2. \A x : Owned(x)' = Owned(x) /\ (Down(x) => Down(x)') /\ (Settled(x) => Settled(x)')
    <2>1. \A x : Owned(x)' = Owned(x)
      BY <1>1 DEF Owned
    <2> QED BY <1>1, <2>1, SettledStays DEF Down
  <1>3. request[r].alone => Down(on)
    BY <1>1, AloneHolds DEF AloneOK, Down
  <1>4. CASE request[r].todo = {} /\ Ends(r, IF do \in {"connect", "install"} THEN request[r].answer ELSE "ok")
    <2> DEFINE answer == IF do \in {"connect", "install"} THEN request[r].answer ELSE "ok"
    <2>1. ASSUME request[r].alone, AloneOK(r), request'[r].answer = answer
          PROVE  OutcomeOf(r)'
      <3>1. CASE do = "reconnect"
        <4>1. \A x \in DOMAIN mcpFile' : Settled(x)'
          BY <1>1, <1>2, <1>3, <1>4, <2>1, <3>1 DEF AloneOK, Settled
        <4> QED BY <1>1, <3>1, <4>1 DEF OutcomeOf, Settled
      <3>2. CASE do # "reconnect"
        <4>1. Down(wanted[r].server)'
          BY <1>2, <1>3, <2>1, <3>2 DEF AloneOK
        <4>2. do \in {"connect", "install"} => request'[r].answer = "error"
          BY <2>1 DEF AloneOK
        <4>3. do \in {"update", "remove", "disconnect", "connect", "install"} /\ wanted'[r].do = do
          BY <1>1, <2>1, <3>2, RunningIs DEF AloneOK, Dos
        <4> QED BY <4>1, <4>2, <4>3 DEF OutcomeOf
      <3> QED BY <3>1, <3>2
    <2> HIDE DEF answer
    <2>2. Ends(r, answer)
      BY <1>4 DEF answer
    <2> QED BY <1>1, <2>1, <2>2, EndsKeep
  <1>5. ASSUME NEW x \in request[r].todo, NEW at \in {"list", "put down"}, Moves(r, Comes(r, request[r], x, at)),
               at = "list" => request[r].seen[x].enabled
        PROVE  McpInv'
    <2>1. PICK next : next = Comes(r, request[r], x, at)
      OBVIOUS
    <2>2. /\ next.at = at /\ next.on = x /\ next.todo = request[r].todo \ {x}
          /\ next.seen = request[r].seen /\ next.alone = request[r].alone
      BY <2>1, RunningIs DEF Comes, AdminOK, Fields
    <2>3. AdminOK(r, next)
      <3>1. AdminOK(r, request[r])
        BY RunningIs
      <3> QED BY <2>1, <3>1 DEF Comes, AdminOK, Fields, Ats
    <2>4. Moves(r, next)
      BY <1>5, <2>1
    <2>5. ASSUME request[r].alone, AloneOK(r), Running' = {r}, request'[r] = next
          PROVE  AloneOK(r)'
      <3>1. do = "reconnect"
        BY <2>5 DEF AloneOK
      <3>2. \A y \in DOMAIN mcpFile' \ (request'[r].todo \cup {request'[r].on}) : Settled(y)'
        BY <1>1, <1>2, <1>3, <2>2, <2>5, <3>1 DEF AloneOK, Settled
      <3> QED BY <1>1, <1>5, <2>2, <2>5, <3>1, <3>2 DEF AloneOK
    <2>6. next.at \in Handless \ {"unsent", "ended"}
      BY <2>2 DEF Handless
    <2> QED BY <1>1, <2>2, <2>3, <2>4, <2>5, <2>6, MovesKeep
  <1> QED BY <1>4, <1>5, ProceedsIs

LEMMA DropsKeeps ==
    ASSUME McpInv, NEW r \in Running, Drops(r)
    PROVE  McpInv'
  <1> DEFINE on == request[r].on
  <1>1. CASE request[r].left = {} /\ Proceeds(r, request[r]) /\ UNCHANGED toolMap
    BY <1>1, DropsDone DEF Drops
  <1>2. CASE \E n \in request[r].left : toolMap' = ToolsWithout({n}) /\ Moves(r, [request[r] EXCEPT !.left = @ \ {n}])
    <2>1. PICK n \in request[r].left : toolMap' = ToolsWithout({n}) /\ Moves(r, [request[r] EXCEPT !.left = @ \ {n}])
      BY <1>2
    <2>2. /\ request[r].at = "drop" /\ wanted' = wanted /\ latest' = latest /\ mcpFile' = mcpFile
          /\ mcpSession' = mcpSession /\ recorded' = recorded /\ recordLock' = recordLock
          /\ r \in AdminRequests /\ r # 0 /\ on \in Hosts /\ Holding(r) = request[r].left /\ McpTyped /\ TrackInv
      BY <2>1, RunningIs DEF Drops, Moves, Holding, Hand, McpInv
    <2>3. PICK o : /\ Moved(r, o) /\ o.at = "drop" /\ o.alone = request[r].alone /\ o.on = on /\ o.todo = request[r].todo
                   /\ o.seen = request[r].seen /\ o.left = request[r].left \ {n} /\ o.answer = request[r].answer
                   /\ AdminOK(r, o)
      <3> DEFINE o == [request[r] EXCEPT !.left = @ \ {n}]
      <3>1. /\ o.at = "drop" /\ o.alone = request[r].alone /\ o.on = on /\ o.todo = request[r].todo
            /\ o.seen = request[r].seen /\ o.left = request[r].left \ {n} /\ o.answer = request[r].answer
            /\ AdminOK(r, o)
        BY RunningIs, <2>2 DEF AdminOK, Fields, Ats
      <3>2. Moved(r, o)
        BY <2>1, <2>2 DEF Moves, Moved
      <3> QED BY <3>1, <3>2
    <2>4. /\ n \in Owned(on) /\ n # "builtin" /\ \A s : n \in Owned(s) => s = on
          /\ \A q \in AdminRequests : q # r => n \notin Holding(q)
      BY <2>1, <2>2, OwnersPart
    <2>5. n \notin recorded[on]
      BY <2>1, <2>2 DEF TrackInv
    <2>6. /\ DOMAIN toolMap' = DOMAIN toolMap \ {n} /\ \A m \in DOMAIN toolMap' : toolMap'[m] = toolMap[m]
          /\ \A s : Owned(s)' = Owned(s) \ {n}
      BY <2>1 DEF ToolsWithout, Owned
    <2>7. McpTyped'
      BY <2>2, <2>3, <2>6, TypedMoves DEF McpTyped
    <2>8. TrackInv'
      <3>1. Hand(o) = Holding(r) \ {n}
        BY <2>2, <2>3 DEF Hand
      <3>2. \A s \in Hosts : recorded'[s] \subseteq Owned(s)'
        BY <2>2, <2>4, <2>5, <2>6 DEF TrackInv
      <3>3. Hand(o) # {} => Hand(o) \subseteq Owned(o.on)' \ recorded'[o.on]
        BY <2>2, <2>3, <2>6, <3>1 DEF TrackInv
      <3>4. \A q \in AdminRequests : q # r => Hand(o) \cap Holding(q) = {}
        BY <2>2, <3>1 DEF TrackInv
      <3>5. \A q \in AdminRequests : q # r /\ Holding(q) # {} => \A s : s = request[q].on
                  => Holding(q) \subseteq Owned(s)' \ recorded'[s]
        BY <2>2, <2>4, <2>6 DEF TrackInv
      <3>6. \A s \in Hosts : \A m \in Owned(s)' \ recorded'[s] :
                \/ o.on = s /\ m \in Hand(o)
                \/ \E q \in AdminRequests : q # r /\ request[q].on = s /\ m \in Holding(q)
        <4> SUFFICES ASSUME NEW s \in Hosts, NEW m \in Owned(s) \ recorded[s], m # n, ~(o.on = s /\ m \in Hand(o))
                     PROVE  \E q \in AdminRequests : q # r /\ request[q].on = s /\ m \in Holding(q)
          BY <2>2, <2>6
        <4>1. PICK q \in AdminRequests : request[q].on = s /\ m \in Holding(q)
          BY <2>2 DEF TrackInv
        <4> QED BY <2>3, <3>1, <4>1
      <3>7. /\ "builtin" \in DOMAIN toolMap' /\ toolMap'["builtin"].owner = "builtin"
        BY <2>2, <2>4, <2>6 DEF TrackInv
      <3>8. o.at = "register" => recordLock' = r /\ recorded'[o.on] = {}
        BY <2>3
      <3>9. \A q \in AdminRequests : q # r /\ request[q].at = "register" => recordLock' = q /\ recorded'[request[q].on] = {}
        BY <2>2 DEF TrackInv
      <3>10. McpTyped /\ TrackInv /\ r \in AdminRequests /\ Moved(r, o)
        BY <2>2, <2>3
      <3>11. TrackStep(r, o)
        BY <3>2, <3>3, <3>4, <3>5, <3>6, <3>7, <3>8, <3>9 DEF TrackStep
      <3> QED BY <3>10, <3>11, TrackBy
    <2>9. request'[r] = o /\ o.at \notin {"unsent", "ended"} /\ Running' = Running
      BY <2>2, <2>3, MovedIs
    <2>10. ASSUME request[r].alone, AloneOK(r)
           PROVE  AloneOK(r)'
      <3>1. \A x \in Hosts : Settled(x) => Settled(x)'
        BY <2>2, <2>6, SettledStays DEF Owned
      <3>2. ASSUME wanted[r].do = "reconnect"
            PROVE  \A x \in DOMAIN mcpFile' \ (request'[r].todo \cup {request'[r].on}) : Settled(x)'
        BY <2>2, <2>3, <2>9, <2>10, <3>1, <3>2 DEF AloneOK, McpTyped
      <3>3. Running' = {r}
        BY <2>9, <2>10 DEF AloneOK
      <3> QED BY <2>2, <2>3, <2>9, <2>10, <3>2, <3>3 DEF AloneOK
    <2>11. AloneInv' /\ OutcomeHolds'
      BY <2>2, <2>3, <2>9, <2>10, AloneMoves DEF McpInv
    <2> QED BY <2>7, <2>8, <2>11 DEF McpInv
  <1> QED BY <1>1, <1>2 DEF Drops

LEMMA ReplacesKeeps ==
    ASSUME McpInv, NEW r \in Running, Replaces(r)
    PROVE  McpInv'
  <1> DEFINE on == request[r].on
             old == recorded[on]
  <1>1. /\ request[r].at = "lock" /\ wanted' = wanted /\ latest' = latest /\ mcpFile' = mcpFile
        /\ mcpSession' = mcpSession /\ recorded' = [recorded EXCEPT ![on] = {}] /\ recordLock = 0 /\ recordLock' = r
        /\ r \in AdminRequests /\ r # 0 /\ on \in Hosts /\ Holding(r) = {} /\ McpTyped /\ TrackInv
        /\ toolMap' = ToolsWithout(old)
    BY RunningIs DEF Replaces, Moves, Holding, Hand, McpInv
  <1>2. PICK o : /\ Moved(r, o) /\ o.at = "register" /\ o.alone = request[r].alone /\ o.on = on /\ o.todo = request[r].todo
                 /\ o.seen = request[r].seen /\ o.left = McpOffers[on] /\ o.got = {} /\ o.answer = request[r].answer
                 /\ AdminOK(r, o)
    <2> DEFINE o == [request[r] EXCEPT !.at = "register", !.left = McpOffers[on], !.got = {}]
    <2>1. /\ o.at = "register" /\ o.alone = request[r].alone /\ o.on = on /\ o.todo = request[r].todo
          /\ o.seen = request[r].seen /\ o.left = McpOffers[on] /\ o.got = {} /\ o.answer = request[r].answer
          /\ AdminOK(r, o)
      BY RunningIs, <1>1 DEF AdminOK, Fields, Ats
    <2>2. Moved(r, o)
      BY <1>1 DEF Replaces, Moves, Moved
    <2> QED BY <2>1, <2>2
  <1>3. /\ recorded' \in [Hosts -> SUBSET ToolNames] /\ recorded'[on] = {}
        /\ \A s \in Hosts : s # on => recorded'[s] = recorded[s]
    BY <1>1 DEF McpTyped
  <1>4. \A n \in old : /\ n \in Owned(on) /\ n # "builtin" /\ \A s : n \in Owned(s) => s = on
                       /\ \A q \in AdminRequests : q # r => n \notin Holding(q)
    BY <1>1, OwnersPart
  <1>5. /\ DOMAIN toolMap' = DOMAIN toolMap \ old /\ \A m \in DOMAIN toolMap' : toolMap'[m] = toolMap[m]
        /\ \A s : Owned(s)' = Owned(s) \ old
    BY <1>1 DEF ToolsWithout, Owned
  <1>6. McpTyped'
    BY <1>1, <1>2, <1>3, <1>5, TypedMoves DEF McpTyped
  <1> HIDE DEF old
  <1>7. \A q \in AdminRequests : request[q].at # "register"
    BY <1>1 DEF McpTyped, TrackInv
  <1>8. TrackInv'
    <2>1. Hand(o) = {}
      BY <1>2 DEF Hand
    <2>2. \A s \in Hosts : recorded'[s] \subseteq Owned(s)'
      BY <1>1, <1>3, <1>4, <1>5 DEF TrackInv
    <2>3. Hand(o) # {} => Hand(o) \subseteq Owned(o.on)' \ recorded'[o.on]
      BY <2>1
    <2>4. \A q \in AdminRequests : q # r => Hand(o) \cap Holding(q) = {}
      BY <2>1
    <2>5. \A q \in AdminRequests : q # r /\ Holding(q) # {} => \A s : s = request[q].on
                => Holding(q) \subseteq Owned(s)' \ recorded'[s]
      <3> SUFFICES ASSUME NEW q \in AdminRequests, q # r, Holding(q) # {}, NEW s, s = request[q].on
                   PROVE  Holding(q) \subseteq Owned(s)' \ recorded'[s]
        OBVIOUS
      <3>1. Holding(q) \subseteq Owned(s) \ recorded[s]
        BY <1>1 DEF TrackInv
      <3>2. s \in Hosts
        BY <1>1 DEF McpTyped, AdminOK, Holding, Hand
      <3> QED BY <1>3, <1>4, <1>5, <3>1, <3>2
    <2>6. \A s \in Hosts : \A n \in Owned(s)' \ recorded'[s] :
              \/ o.on = s /\ n \in Hand(o)
              \/ \E q \in AdminRequests : q # r /\ request[q].on = s /\ n \in Holding(q)
      <3> SUFFICES ASSUME NEW s \in Hosts, NEW n \in Owned(s)' \ recorded'[s]
                   PROVE  \E q \in AdminRequests : q # r /\ request[q].on = s /\ n \in Holding(q)
        OBVIOUS
      <3>1. n \in Owned(s) \ recorded[s]
        BY <1>3, <1>5 DEF old
      <3>2. PICK q \in AdminRequests : request[q].on = s /\ n \in Holding(q)
        BY <1>1, <3>1 DEF TrackInv
      <3> QED BY <1>1, <3>2
    <2>7. /\ "builtin" \in DOMAIN toolMap' /\ toolMap'["builtin"].owner = "builtin"
      BY <1>1, <1>4, <1>5 DEF TrackInv
    <2>8. o.at = "register" => recordLock' = r /\ recorded'[o.on] = {}
      BY <1>1, <1>2, <1>3
    <2>9. \A q \in AdminRequests : q # r /\ request[q].at = "register" => recordLock' = q /\ recorded'[request[q].on] = {}
      BY <1>7
    <2>10. McpTyped /\ TrackInv /\ r \in AdminRequests /\ Moved(r, o)
      BY <1>1, <1>2
    <2>11. TrackStep(r, o)
      BY <2>2, <2>3, <2>4, <2>5, <2>6, <2>7, <2>8, <2>9 DEF TrackStep
    <2> QED BY <2>10, <2>11, TrackBy
  <1>9. request'[r] = o /\ o.at \notin {"unsent", "ended"} /\ Running' = Running
    <2>1. McpTyped /\ r \in AdminRequests /\ Moved(r, o) /\ o.at = "register"
      BY <1>1, <1>2
    <2>2. request'[r] = o /\ (o.at \notin {"unsent", "ended"} => Running' = Running \cup {r})
      BY <2>1, MovedIs
    <2> QED BY <2>1, <2>2
  <1>10. ASSUME request[r].alone, AloneOK(r)
         PROVE  AloneOK(r)'
    <2>1. \A x \in Hosts : Settled(x) => Settled(x)'
      BY <1>1, <1>5, SettledStays DEF Owned
    <2>2. ASSUME wanted[r].do = "reconnect"
          PROVE  \A x \in DOMAIN mcpFile' \ (request'[r].todo \cup {request'[r].on}) : Settled(x)'
      BY <1>1, <1>2, <1>9, <1>10, <2>1, <2>2 DEF AloneOK, McpTyped
    <2>3. Running' = {r}
      BY <1>9, <1>10 DEF AloneOK
    <2> QED BY <1>1, <1>2, <1>9, <1>10, <2>2, <2>3 DEF AloneOK
  <1>11. AloneInv' /\ OutcomeHolds'
    BY <1>1, <1>2, <1>9, <1>10, AloneMoves DEF McpInv
  <1> QED BY <1>6, <1>8, <1>11 DEF McpInv

LEMMA RegistersKeeps ==
    ASSUME McpInv, NEW r \in Running, Registers(r)
    PROVE  McpInv'
  <1> DEFINE c == request[r]
  <1>0. PICK on : on = request[r].on
    OBVIOUS
  <1>1. PICK t \in c.left :
            LET n == McpToolName[<<on, t>>]
                o == [c EXCEPT !.left = @ \ {t}]
            IN  IF n \in DOMAIN toolMap THEN Moves(r, o) /\ UNCHANGED toolMap
                ELSE /\ toolMap' = Over(toolMap, Only(n, [owner |-> on, decision |-> ToolPolicy(c.seen[on])]))
                     /\ Moves(r, [o EXCEPT !.got = @ \cup {n}])
    BY <1>0 DEF Registers
  <1> DEFINE n == McpToolName[<<on, t>>]
             fresh == IF n \in DOMAIN toolMap THEN {} ELSE {n}
  <1>2. /\ c.at = "register" /\ wanted' = wanted /\ mcpFile' = mcpFile
        /\ mcpSession' = mcpSession /\ recorded' = recorded /\ recordLock' = recordLock /\ latest' = latest
        /\ r \in AdminRequests /\ r # 0 /\ on \in Hosts /\ Holding(r) = c.got /\ McpTyped /\ TrackInv
        /\ recordLock = r /\ recorded[on] = {}
    BY <1>0, <1>1, RunningIs DEF Registers, Moves, Holding, Hand, McpInv, TrackInv
  <1>3. n \in ToolNames
    <2>1. t \in McpOffers[on] /\ on \in DOMAIN McpOffers
      BY <1>0, <1>1, <1>2, RunningIs DEF AdminOK, Hosts
    <2> QED BY <2>1, McpAssumption DEF ToolNames
  <1>4. PICK o : /\ Moved(r, o) /\ o.at = "register" /\ o.alone = c.alone /\ o.on = on /\ o.todo = c.todo
                 /\ o.seen = c.seen /\ o.left = c.left \ {t} /\ o.got = c.got \cup fresh /\ o.answer = c.answer
                 /\ AdminOK(r, o)
    <2>1. CASE n \in DOMAIN toolMap
      <3> DEFINE o == [c EXCEPT !.left = @ \ {t}]
      <3>1. /\ o.at = "register" /\ o.alone = c.alone /\ o.on = on /\ o.todo = c.todo
            /\ o.seen = c.seen /\ o.left = c.left \ {t} /\ o.got = c.got /\ o.answer = c.answer
            /\ AdminOK(r, o)
        BY RunningIs, <1>0, <1>2 DEF AdminOK, Fields, Ats
      <3>2. Moved(r, o)
        BY <1>1, <1>2, <2>1 DEF Moves, Moved
      <3> QED BY <2>1, <3>1, <3>2
    <2>2. CASE n \notin DOMAIN toolMap
      <3> DEFINE o == [[c EXCEPT !.left = @ \ {t}] EXCEPT !.got = @ \cup {n}]
      <3>1. /\ o.at = "register" /\ o.alone = c.alone /\ o.on = on /\ o.todo = c.todo
            /\ o.seen = c.seen /\ o.left = c.left \ {t} /\ o.got = c.got \cup {n} /\ o.answer = c.answer
            /\ AdminOK(r, o)
        BY RunningIs, <1>0, <1>2 DEF AdminOK, Fields, Ats
      <3>2. Moved(r, o)
        BY <1>1, <1>2, <2>2 DEF Moves, Moved
      <3> QED BY <2>2, <3>1, <3>2
    <2> QED BY <2>1, <2>2
  <1>5. /\ DOMAIN toolMap' = DOMAIN toolMap \cup {n} /\ \A m \in DOMAIN toolMap : toolMap'[m] = toolMap[m]
        /\ n \notin DOMAIN toolMap => toolMap'[n].owner = on /\ toolMap'[n].decision = ToolPolicy(c.seen[on])
    <2>1. CASE n \in DOMAIN toolMap
      BY <1>1, <2>1
    <2>2. CASE n \notin DOMAIN toolMap
      <3>1. toolMap' = Over(toolMap, Only(n, [owner |-> on, decision |-> ToolPolicy(c.seen[on])]))
        BY <1>1, <2>2
      <3> QED BY <2>2, <3>1 DEF Over, Only
    <2> QED BY <2>1, <2>2
  <1> HIDE DEF n
  <1>6. Owned(on)' = Owned(on) \cup fresh /\ \A s : s # on => Owned(s)' = Owned(s)
    <2>1. \A s : \A m \in DOMAIN toolMap : m \in Owned(s)' <=> m \in Owned(s)
      BY <1>5 DEF Owned
    <2>2. n \notin DOMAIN toolMap => \A s : n \notin Owned(s) /\ (n \in Owned(s)' <=> s = on)
      BY <1>5 DEF Owned
    <2>3. \A s : Owned(s) \subseteq DOMAIN toolMap /\ Owned(s)' \subseteq DOMAIN toolMap \cup {n}
      BY <1>5 DEF Owned
    <2>4. ASSUME NEW s, s # on PROVE Owned(s)' = Owned(s)
      BY <2>1, <2>2, <2>3, <2>4
    <2>5. Owned(on)' = Owned(on) \cup fresh
      BY <2>1, <2>2, <2>3
    <2> QED BY <2>4, <2>5
  <1> HIDE DEF fresh
  <1>7. McpTyped'
    <2>1. DOMAIN toolMap' \subseteq ToolNames
      BY <1>2, <1>3, <1>5 DEF McpTyped
    <2> QED BY <1>2, <1>4, <2>1, TypedMoves DEF McpTyped
  <1>8. fresh \cap DOMAIN toolMap = {} /\ fresh \subseteq DOMAIN toolMap' /\ \A s : Owned(s) \subseteq DOMAIN toolMap
    BY <1>5 DEF fresh, Owned
  <1>9. \A q \in AdminRequests : Holding(q) \subseteq DOMAIN toolMap
    BY <1>2, <1>8 DEF TrackInv
  <1>10. TrackInv'
    <2>1. Hand(o) = Holding(r) \cup fresh
      BY <1>2, <1>4 DEF Hand
    <2>2. \A s \in Hosts : recorded'[s] \subseteq Owned(s)'
      BY <1>2, <1>6 DEF TrackInv
    <2>3. Hand(o) # {} => Hand(o) \subseteq Owned(o.on)' \ recorded'[o.on]
      <3>1. Holding(r) \subseteq Owned(on)
        BY <1>0, <1>2 DEF TrackInv
      <3>2. Hand(o) \subseteq Owned(on)' \ recorded'[on]
        BY <1>2, <1>6, <2>1, <3>1
      <3> QED BY <1>4, <3>2
    <2>4. \A q \in AdminRequests : q # r => Hand(o) \cap Holding(q) = {}
      BY <1>2, <1>8, <1>9, <2>1 DEF TrackInv
    <2>5. \A q \in AdminRequests : q # r /\ Holding(q) # {} => \A s : s = request[q].on
                => Holding(q) \subseteq Owned(s)' \ recorded'[s]
      BY <1>2, <1>6 DEF TrackInv
    <2>6. \A s \in Hosts : \A m \in Owned(s)' \ recorded'[s] :
              \/ o.on = s /\ m \in Hand(o)
              \/ \E q \in AdminRequests : q # r /\ request[q].on = s /\ m \in Holding(q)
      <3> SUFFICES ASSUME NEW s \in Hosts, NEW m \in Owned(s)', m \notin recorded[s], ~(o.on = s /\ m \in Hand(o))
                   PROVE  \E q \in AdminRequests : q # r /\ request[q].on = s /\ m \in Holding(q)
        BY <1>2
      <3>1. m \in Owned(s)
        BY <1>4, <1>6, <2>1
      <3>2. PICK q \in AdminRequests : request[q].on = s /\ m \in Holding(q)
        BY <1>2, <3>1 DEF TrackInv
      <3>3. q # r
        BY <1>0, <1>4, <2>1, <3>2
      <3> QED BY <3>2, <3>3
    <2>7. /\ "builtin" \in DOMAIN toolMap' /\ toolMap'["builtin"].owner = "builtin"
      BY <1>2, <1>5 DEF TrackInv
    <2>8. o.at = "register" => recordLock' = r /\ recorded'[o.on] = {}
      BY <1>2, <1>4
    <2>9. \A q \in AdminRequests : q # r /\ request[q].at = "register" => recordLock' = q /\ recorded'[request[q].on] = {}
      BY <1>2 DEF TrackInv
    <2>10. McpTyped /\ TrackInv /\ r \in AdminRequests /\ Moved(r, o)
      BY <1>2, <1>4
    <2>11. TrackStep(r, o)
      BY <2>2, <2>3, <2>4, <2>5, <2>6, <2>7, <2>8, <2>9 DEF TrackStep
    <2> QED BY <2>10, <2>11, TrackBy
  <1>11. request'[r] = o /\ o.at \notin {"unsent", "ended"} /\ Running' = Running
    <2>1. McpTyped /\ r \in AdminRequests /\ Moved(r, o) /\ o.at = "register"
      BY <1>2, <1>4
    <2>2. request'[r] = o /\ (o.at \notin {"unsent", "ended"} => Running' = Running \cup {r})
      BY <2>1, MovedIs
    <2> QED BY <2>1, <2>2
  <1>12. ASSUME request[r].alone, AloneOK(r)
         PROVE  AloneOK(r)'
    <2>1. \A x \in Hosts : x # on /\ Settled(x) => Settled(x)'
      <3> SUFFICES ASSUME NEW x \in Hosts, x # on, Settled(x) PROVE Settled(x)'
        OBVIOUS
      <3>1. \A m \in Owned(x)' : m \in Owned(x) /\ toolMap'[m] = toolMap[m]
        BY <1>5, <1>6, <1>8
      <3> QED BY <1>2, <3>1, SettledStays
    <2>2. ASSUME wanted[r].do = "reconnect"
          PROVE  \A x \in DOMAIN mcpFile' \ (request'[r].todo \cup {request'[r].on}) : Settled(x)'
      BY <1>0, <1>2, <1>4, <1>11, <1>12, <2>1, <2>2 DEF AloneOK, McpTyped
    <2>3. Running' = {r}
      BY <1>11, <1>12 DEF AloneOK
    <2>4. \A m \in o.got : toolMap'[m].decision = ToolPolicy(mcpFile[on])
      <3>1. \A m \in c.got : m \in DOMAIN toolMap /\ toolMap[m].decision = ToolPolicy(mcpFile[on])
        BY <1>0, <1>2, <1>9, <1>12 DEF AloneOK
      <3>2. \A m \in fresh : toolMap'[m].decision = ToolPolicy(mcpFile[on])
        BY <1>2, <1>5, <1>12 DEF AloneOK, fresh
      <3> QED BY <1>4, <1>5, <3>1, <3>2
    <2>5. \A x \in McpOffers[on] \ o.left : McpToolName[<<on, x>>] \in DOMAIN toolMap'
      BY <1>0, <1>2, <1>4, <1>5, <1>12 DEF AloneOK, n
    <2>6. ToolPolicy(mcpFile[on])' = ToolPolicy(mcpFile[on])
      BY <1>2 DEF ToolPolicy
    <2>7. /\ (\A m \in request[r].got : toolMap[m].decision = ToolPolicy(mcpFile[request[r].on]))'
          /\ (\A x \in McpOffers[request[r].on] \ request[r].left : McpToolName[<<request[r].on, x>>] \in DOMAIN toolMap)'
      BY <1>2, <1>4, <1>11, <2>4, <2>5, <2>6
    <2>8. /\ request'[r].at = "register" /\ request'[r].on = on /\ request'[r].seen = c.seen
          /\ request'[r].todo = c.todo /\ request'[r].answer = c.answer
      BY <1>4, <1>11
    <2> QED BY <1>0, <1>2, <1>12, <2>2, <2>3, <2>7, <2>8 DEF AloneOK
  <1>13. AloneInv' /\ OutcomeHolds'
    BY <1>2, <1>4, <1>11, <1>12, AloneMoves DEF McpInv
  <1> QED BY <1>7, <1>10, <1>13 DEF McpInv

LEMMA RecordsKeeps ==
    ASSUME McpInv, NEW r \in Running, Records(r)
    PROVE  McpInv'
  <1> DEFINE c == request[r]
             do == wanted[r].do
             shown == [c EXCEPT !.got = {}]
  <1>0. PICK on : on = request[r].on
    OBVIOUS
  <1>1. /\ c.at = "register" /\ c.left = {} /\ wanted' = wanted /\ mcpFile' = mcpFile /\ toolMap' = toolMap
        /\ mcpSession' = mcpSession /\ recorded' = [recorded EXCEPT ![on] = c.got] /\ recordLock' = 0
        /\ r \in AdminRequests /\ r # 0 /\ on \in Hosts /\ Holding(r) = c.got /\ McpTyped /\ TrackInv
        /\ recordLock = r /\ recorded[on] = {} /\ Proceeds(r, shown) /\ AdminOK(r, c)
    BY <1>0, RunningIs DEF Records, Holding, Hand, McpInv, TrackInv
  <1>2. c.got \subseteq Owned(on) /\ c.got \subseteq ToolNames
    <2>1. c.got \subseteq Owned(on)
      BY <1>0, <1>1 DEF TrackInv
    <2> QED BY <1>1, <2>1 DEF Owned, McpTyped
  <1>3. /\ recorded' \in [Hosts -> SUBSET ToolNames] /\ recorded'[on] = c.got
        /\ \A s \in Hosts : s # on => recorded'[s] = recorded[s]
    BY <1>1, <1>2 DEF McpTyped
  <1>4. \A s : Owned(s)' = Owned(s)
    BY <1>1 DEF Owned
  <1>5. ASSUME NEW o, Moved(r, o), Hand(o) = {}, o.at # "register" PROVE TrackInv'
    <2>1. \A s \in Hosts : recorded'[s] \subseteq Owned(s)'
      BY <1>1, <1>2, <1>3, <1>4 DEF TrackInv
    <2>2. \A q \in AdminRequests : q # r /\ Holding(q) # {} => \A s : s = request[q].on
                => Holding(q) \subseteq Owned(s)' \ recorded'[s]
      <3> SUFFICES ASSUME NEW q \in AdminRequests, q # r, Holding(q) # {}, NEW s, s = request[q].on
                   PROVE  Holding(q) \subseteq Owned(s)' \ recorded'[s]
        OBVIOUS
      <3>1. Holding(q) \subseteq Owned(s) \ recorded[s] /\ Holding(q) \cap c.got = {}
        BY <1>1 DEF TrackInv
      <3>2. s \in Hosts
        BY <1>1 DEF McpTyped, AdminOK, Holding, Hand
      <3> QED BY <1>3, <1>4, <3>1, <3>2
    <2>3. \A s \in Hosts : \A n \in Owned(s)' \ recorded'[s] :
              \/ o.on = s /\ n \in Hand(o)
              \/ \E q \in AdminRequests : q # r /\ request[q].on = s /\ n \in Holding(q)
      <3> SUFFICES ASSUME NEW s \in Hosts, NEW n \in Owned(s), n \notin recorded'[s]
                   PROVE  \E q \in AdminRequests : q # r /\ request[q].on = s /\ n \in Holding(q)
        BY <1>4
      <3>1. n \notin recorded[s]
        BY <1>1, <1>3
      <3>2. PICK q \in AdminRequests : request[q].on = s /\ n \in Holding(q)
        BY <1>1, <3>1 DEF TrackInv
      <3>3. q # r
        BY <1>0, <1>1, <1>3, <3>2
      <3> QED BY <3>2, <3>3
    <2>4. \A q \in AdminRequests : q # r => request[q].at # "register"
      BY <1>1 DEF TrackInv
    <2>5. /\ "builtin" \in DOMAIN toolMap' /\ toolMap'["builtin"].owner = "builtin"
      BY <1>1 DEF TrackInv
    <2>6. Hand(o) # {} => Hand(o) \subseteq Owned(o.on)' \ recorded'[o.on]
      BY <1>5
    <2>7. \A q \in AdminRequests : q # r => Hand(o) \cap Holding(q) = {}
      BY <1>5
    <2>8. o.at = "register" => recordLock' = r /\ recorded'[o.on] = {}
      BY <1>5
    <2>9. \A q \in AdminRequests : q # r /\ request[q].at = "register" => recordLock' = q /\ recorded'[request[q].on] = {}
      BY <2>4
    <2>10. McpTyped /\ TrackInv /\ r \in AdminRequests /\ Moved(r, o)
      BY <1>1, <1>5
    <2>11. TrackStep(r, o)
      BY <2>1, <2>2, <2>3, <2>5, <2>6, <2>7, <2>8, <2>9 DEF TrackStep
    <2> QED BY <2>10, <2>11, TrackBy
  <1>6. ASSUME NEW o, Moved(r, o), AdminOK(r, o), latest' \in {latest, r} PROVE McpTyped'
    BY <1>1, <1>3, <1>6, TypedMoves DEF McpTyped
  <1>7. \A x \in Hosts : Settled(x) => Settled(x)'
    BY <1>1, <1>4, SettledStays
  \* All that the server lists is there, under the decision of its config.
  <1>8. ASSUME request[r].alone
        PROVE  /\ AloneOK(r) /\ Running = {r} /\ mcpSession[on] = "connected" /\ c.answer = "connected" /\ Current(on)
               /\ \A t \in McpOffers[on] : McpToolName[<<on, t>>] \in DOMAIN toolMap
    <2>1. AloneOK(r) /\ Running = {r} /\ Owned(on) \subseteq c.got
      BY <1>0, <1>1, <1>8, AloneHolds
    <2>2. \A n \in c.got : toolMap[n].decision = ToolPolicy(mcpFile[on])
      BY <1>0, <1>1, <2>1 DEF AloneOK
    <2>3. \A t \in McpOffers[on] : McpToolName[<<on, t>>] \in DOMAIN toolMap
      BY <1>0, <1>1, <2>1 DEF AloneOK
    <2>4. mcpSession[on] = "connected" /\ c.answer = "connected"
      BY <1>0, <1>1, <2>1 DEF AloneOK
    <2> QED BY <2>1, <2>2, <2>3, <2>4 DEF Current
  <1>9. ASSUME NEW answer, Ends(r, answer), c.todo = {},
               answer = (IF do \in {"connect", "install"} THEN c.answer ELSE "ok")
        PROVE  McpInv'
    <2>1. PICK o : /\ Moved(r, o) /\ o.at = "ended" /\ o.answer = answer /\ o.alone = c.alone /\ AdminOK(r, o)
      <3> DEFINE o == [c EXCEPT !.at = "ended", !.answer = answer, !.left = {}]
      <3>1. /\ o.at = "ended" /\ o.answer = answer /\ o.alone = c.alone /\ AdminOK(r, o)
        BY <1>0, <1>1 DEF AdminOK, Fields, Ats
      <3>2. Moved(r, o)
        BY <1>1, <1>9 DEF Ends, Moved
      <3> QED BY <3>1, <3>2
    <2>2. latest' = r /\ request'[r] = o
      <3>1. McpTyped /\ r \in AdminRequests /\ Moved(r, o)
        BY <1>1, <2>1
      <3> QED BY <1>9, <3>1, MovedIs DEF Ends
    <2>3. ASSUME request[r].alone, AloneOK(r)
          PROVE  OutcomeOf(r)'
      <3>1. do \in {"connect", "install", "reconnect"} /\ wanted'[r].do = do
        BY <1>1, <2>3 DEF AloneOK
      <3>2. CASE do \in {"connect", "install"}
        <4>1. wanted[r].server = on /\ (do = "install" => mcpFile[on].capabilities = {})
          BY <1>0, <1>1, <2>3, <3>2 DEF AloneOK
        <4>2. request'[r].answer = "connected"
          BY <1>8, <1>9, <2>1, <2>2, <2>3, <3>2
        <4>3. Offered(on)
          BY <1>8, <2>3 DEF Offered
        <4>4. Offered(on)'
          BY <1>1, <1>4, <4>3 DEF Offered, Current, ToolPolicy
        <4>5. do = "install" => ToolPolicy(mcpFile'[on]) = "ask"
          BY <1>1, <4>1 DEF ToolPolicy
        <4>6. Offered(wanted[r].server)'
          BY <1>1, <4>1, <4>4 DEF Offered, Current, Owned
        <4> QED BY <1>1, <3>1, <3>2, <4>1, <4>2, <4>5, <4>6 DEF OutcomeOf
      <3>3. CASE do = "reconnect"
        <4>1. mcpFile[on].enabled /\ Settled(on)
          BY <1>0, <1>1, <1>8, <2>3, <3>3 DEF AloneOK, Settled
        <4>2. \A x \in DOMAIN mcpFile : Settled(x)
          BY <1>0, <1>1, <1>9, <2>3, <3>3, <4>1 DEF AloneOK
        <4>3. \A x \in DOMAIN mcpFile' : Settled(x)'
          BY <1>1, <1>7, <4>2 DEF McpTyped
        <4> QED BY <3>1, <3>3, <4>3 DEF OutcomeOf, Settled
      <3> QED BY <3>1, <3>2, <3>3
    <2>4. AloneInv' /\ OutcomeHolds'
      BY <1>1, <2>1, <2>2, <2>3, AloneEnds DEF McpInv
    <2>5. Hand(o) = {} /\ o.at # "register"
      BY <2>1 DEF Hand
    <2> QED BY <1>5, <1>6, <2>1, <2>2, <2>4, <2>5 DEF McpInv
  <1>10. ASSUME NEW x \in c.todo, NEW at \in {"list", "put down"}, Moves(r, Comes(r, shown, x, at)),
                at = "list" => c.seen[x].enabled
         PROVE  McpInv'
    <2>1. PICK o : /\ Moved(r, o) /\ o.at = at /\ o.on = x /\ o.todo = c.todo \ {x} /\ o.seen = c.seen
                   /\ o.alone = c.alone /\ AdminOK(r, o)
      <3> DEFINE o == Comes(r, shown, x, at)
      <3>1. /\ o.at = at /\ o.on = x /\ o.todo = c.todo \ {x} /\ o.seen = c.seen
            /\ o.alone = c.alone /\ AdminOK(r, o)
        BY <1>0, <1>1, <1>10 DEF Comes, AdminOK, Fields, Ats
      <3>2. Moved(r, o)
        BY <1>1, <1>10 DEF Moves, Moved
      <3> QED BY <3>1, <3>2
    <2>2. latest' = latest /\ request'[r] = o /\ Running' = Running
      <3>1. McpTyped /\ r \in AdminRequests /\ Moved(r, o) /\ o.at \notin {"unsent", "ended"}
        BY <1>1, <2>1
      <3>2. request'[r] = o /\ Running' = Running \cup {r}
        BY <3>1, MovedIs
      <3> QED BY <1>10, <3>2 DEF Moves
    <2>3. ASSUME request[r].alone, AloneOK(r)
          PROVE  AloneOK(r)'
      <3>1. do = "reconnect" /\ wanted'[r].do = "reconnect"
        BY <1>1, <2>3 DEF AloneOK
      <3>2. mcpFile[on].enabled /\ Settled(on)
        BY <1>0, <1>1, <1>8, <2>3, <3>1 DEF AloneOK, Settled
      <3>3. \A y \in DOMAIN mcpFile' \ (request'[r].todo \cup {request'[r].on}) : Settled(y)'
        <4> SUFFICES ASSUME NEW y \in DOMAIN mcpFile, y \notin o.todo, y # x PROVE Settled(y)'
          BY <1>1, <2>1, <2>2
        <4>1. Settled(y)
          BY <1>0, <1>1, <2>1, <2>3, <3>1, <3>2 DEF AloneOK
        <4> QED BY <1>1, <1>7, <4>1 DEF McpTyped
      <3>4. Running' = {r}
        BY <2>2, <2>3 DEF AloneOK
      <3>5. c.seen = mcpFile /\ c.todo \subseteq DOMAIN mcpFile
        BY <1>1, <2>3, <3>1 DEF AloneOK
      <3> QED BY <1>1, <1>10, <2>1, <2>2, <3>1, <3>3, <3>4, <3>5 DEF AloneOK
    <2>4. AloneInv' /\ OutcomeHolds'
      <3>1. o.at \notin {"unsent", "ended"}
        BY <2>1
      <3> QED BY <1>1, <2>1, <2>3, <3>1, AloneMoves DEF McpInv
    <2>5. Hand(o) = {} /\ o.at # "register"
      BY <2>1 DEF Hand
    <2> QED BY <1>5, <1>6, <2>1, <2>2, <2>4, <2>5 DEF McpInv
  <1>11. shown.todo = c.todo /\ shown.answer = c.answer /\ shown.seen = c.seen
    BY <1>1 DEF AdminOK, Fields
  <1>12. CASE shown.todo = {} /\ Ends(r, IF do \in {"connect", "install"} THEN shown.answer ELSE "ok")
    BY <1>9, <1>11, <1>12
  <1>13. CASE \E x \in shown.todo, at \in {"list", "put down"} :
                  Moves(r, Comes(r, shown, x, at)) /\ (at = "list" => shown.seen[x].enabled)
    BY <1>10, <1>11, <1>13
  <1> HIDE DEF shown
  <1> QED BY <1>1, <1>12, <1>13, ProceedsIs

-----------------------------------------------------------------------------

LEMMA McpStays ==
    ASSUME McpInv, UNCHANGED mcpVars
    PROVE  McpInv'
  <1> USE DEF mcpVars
  <1>1. McpTyped'
    <2>1. AdminRequests' = AdminRequests /\ \A q \in AdminRequests : AdminOK(q, request'[q])
      BY DEF McpInv, McpTyped, AdminRequests
    <2>2. \A q \in AdminRequests' : AdminOK(q, request[q])'
      BY <2>1 DEF AdminOK, Fields, Ats, Hosts
    <2> QED BY <2>1, <2>2 DEF McpInv, McpTyped, Hosts, ToolNames
  <1>2. TrackInv'
    BY DEF McpInv, TrackInv, Holding, Hand, Owned, AdminRequests, Hosts
  <1>3. Running' = Running /\ \A r \in Running : AloneOK(r) => AloneOK(r)'
    <2>1. Running' = Running
      BY DEF Running, AdminRequests
    <2>2. \A x : Settled(x) => Settled(x)'
      BY DEF Settled, Down, Current, Owned
    <2>3. ASSUME NEW r \in Running, AloneOK(r) PROVE AloneOK(r)'
      BY <2>1, <2>2, <2>3 DEF AloneOK
    <2> QED BY <2>1, <2>3
  <1>4. AloneInv'
    BY <1>3 DEF McpInv, AloneInv
  <1>5. \A r : OutcomeOf(r) => OutcomeOf(r)'
    <2>1. \A s : (Down(s)' <=> Down(s)) /\ (Current(s)' <=> Current(s))
      BY DEF Down, Current, Owned
    <2>2. \A s : Offered(s)' <=> Offered(s)
      BY <2>1 DEF Offered
    <2> QED BY <2>1, <2>2 DEF OutcomeOf
  <1>6. OutcomeHolds'
    BY <1>3, <1>5 DEF McpInv, OutcomeHolds
  <1> QED BY <1>1, <1>2, <1>4, <1>6 DEF McpInv

THEOREM ServersTellTheTruth == McpSpec => []McpHolds
  <1>1. McpInv /\ McpNext => McpInv'
    <2> SUFFICES ASSUME McpInv, McpNext PROVE McpInv'
      OBVIOUS
    <2>1. CASE \E r \in AdminRequests : Submits(r)
      BY <2>1, SubmitsKeeps
    <2>2. ASSUME NEW r \in AdminRequests,
                 \/ Fetches(r) \/ Reads(r) \/ Writes(r) \/ WriteFails(r) \/ Rereads(r) \/ Forgets(r)
                 \/ Lists(r) \/ Unrecords(r) \/ Drops(r) \/ Replaces(r) \/ Registers(r) \/ Records(r)
          PROVE  McpInv'
      <3>1. r \in Running
        BY <2>2 DEF Running, Fetches, Reads, Writes, WriteFails, Rereads, Forgets, Lists, Unrecords, Drops,
                    Replaces, Registers, Records
      <3> QED BY <2>2, <3>1, FetchesKeeps, ReadsKeeps, WritesKeeps, RereadsKeeps, SessionsKeep, UnrecordsKeeps,
                 DropsKeeps, ReplacesKeeps, RegistersKeeps, RecordsKeeps
    <2> QED BY <2>1, <2>2 DEF McpNext
  <1>2. McpInv /\ UNCHANGED mcpVars => McpInv'
    BY McpStays
  <1>3. McpInv => McpHolds
    <2> SUFFICES ASSUME McpInv PROVE ToolsTracked
      BY DEF McpInv, McpHolds
    <2>1. ASSUME NEW s \in Hosts
          PROVE  Owned(s) = recorded[s] \cup (UNION {request[r].left : r \in {q \in AdminRequests : request[q].at = "drop" /\ request[q].on = s}})
                                        \cup (UNION {request[r].got : r \in {q \in AdminRequests : request[q].at = "register" /\ request[q].on = s}})
      <3>1. ASSUME NEW n \in Owned(s), n \notin recorded[s]
            PROVE  \E r \in AdminRequests : /\ request[r].on = s
                                       /\ \/ request[r].at = "drop" /\ n \in request[r].left
                                          \/ request[r].at = "register" /\ n \in request[r].got
        BY <3>1 DEF McpInv, TrackInv, Holding, Hand
      <3>2. ASSUME NEW r \in AdminRequests, request[r].on = s, request[r].at = "drop" PROVE request[r].left \subseteq Owned(s)
        BY <3>2 DEF McpInv, TrackInv, Holding, Hand
      <3>3. ASSUME NEW r \in AdminRequests, request[r].on = s, request[r].at = "register" PROVE request[r].got \subseteq Owned(s)
        BY <3>3 DEF McpInv, TrackInv, Holding, Hand
      <3>4. recorded[s] \subseteq Owned(s)
        BY DEF McpInv, TrackInv
      <3>5. PICK left, got :
                /\ left = UNION {request[r].left : r \in {q \in AdminRequests : request[q].at = "drop" /\ request[q].on = s}}
                /\ got = UNION {request[r].got : r \in {q \in AdminRequests : request[q].at = "register" /\ request[q].on = s}}
        OBVIOUS
      <3>6. left \subseteq Owned(s) /\ got \subseteq Owned(s)
        BY <3>2, <3>3, <3>5
      <3>7. \A n \in Owned(s) \ recorded[s] : n \in left \cup got
        BY <3>1, <3>5
      <3>8. Owned(s) = recorded[s] \cup left \cup got
        BY <3>4, <3>6, <3>7
      <3> QED BY <3>5, <3>8
    <2> QED BY <2>1 DEF McpInv, TrackInv, ToolsTracked
  <1> QED BY McpStarts, <1>1, <1>2, <1>3, PTL DEF McpSpec
================================================================================
