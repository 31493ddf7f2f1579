---------------------------- MODULE FileCheckpoints ----------------------------
(***************************************************************************)
(* File checkpoints (cool-agent checkpoints.rs) and the restore of         *)
(* session.rewind (cool-app-server lib.rs, cool-state rewind_session): the *)
(* loop snapshots the workspace before every mutating call of a batch,     *)
(* runs the calls of the batch side by side, and a rewind puts the files   *)
(* back.  In a git workspace a snapshot is a tree of the whole workspace,  *)
(* in another one a copy of the one file the call names.  A file's content *)
(* is who wrote it: a call, the user, or nobody (the file is absent).      *)
(***************************************************************************)
EXTENDS Integers, Sequences, SequencesExt, FiniteSets

CONSTANTS
    Files,
    Batches,     \* the batches of calls a run may make: sequences of [tool, path]
    MaxCalls,    \* bound: calls of the session
    MaxEdits     \* bound: edits of the user

ASSUME CheckpointAssumption == {MaxCalls, MaxEdits} \subseteq Nat

VARIABLES
    git,        \* whether the workspace is a git repository
    files,      \* content of each file
    calls,      \* the calls of the log: id, tool, path, batch, snapshot, state
    made,       \* calls made so far
    userEdits,
    rewind      \* the restore under way: what was discarded, the snapshots left

checkpointVars == <<git, files, calls, made, userEdits, rewind>>

Absent == <<"nobody", 0>>
User(n) == <<"user", n>>
FileTools == {"write_file", "edit_file"}
Untracked == [kind |-> "none"]
NoRewind == [step |-> "none", discarded |-> <<>>, refs |-> <<>>]

-----------------------------------------------------------------------------
(* Snapshots *)

\* snapshot_before_tool.  A tree tells every file; a manifest tells the file the
\* call names, or that the call cannot be undone.
Snapshot(call) ==
    IF git THEN [kind |-> "tree", content |-> files]
    ELSE IF call.tool \notin FileTools THEN [kind |-> "opaque"]
    ELSE [kind |-> "manifest", path |-> call.path, content |-> files[call.path]]

Running == {i \in DOMAIN calls : calls[i].state = "started"}
LastBatch == IF calls = <<>> THEN 0 ELSE calls[Len(calls)].batch

\* Every call of the batch is snapshot, or fails to be, before any of them runs.  A
\* call that was denied has asked for its path and does nothing.
Prepares(batch, failed, denied) ==
    /\ Running = {} /\ made + Len(batch) <= MaxCalls /\ made' = made + Len(batch)
    /\ calls' = calls \o [i \in DOMAIN batch |->
          [id |-> made + i, tool |-> batch[i].tool, path |-> batch[i].path, batch |-> LastBatch + 1,
           snapshot |-> IF i \in failed \cup denied THEN Untracked ELSE Snapshot(batch[i]),
           state |-> IF i \in denied THEN "denied" ELSE "started"]]
    /\ UNCHANGED <<git, files, userEdits, rewind>>

\* A call writes its file, or fails and leaves it as it is.
Runs(i) ==
    /\ i \in Running /\ calls' = [calls EXCEPT ![i].state = "ran"]
    /\ \/ files' = [files EXCEPT ![calls[i].path] = <<calls[i].tool, calls[i].id>>]
       \/ UNCHANGED files
    /\ UNCHANGED <<git, made, userEdits, rewind>>

Edits(f) ==
    /\ userEdits < MaxEdits /\ userEdits' = userEdits + 1
    /\ files' = [files EXCEPT ![f] = User(userEdits')]
    /\ UNCHANGED <<git, calls, made, rewind>>

-----------------------------------------------------------------------------
(* Rewind *)

Snapshots(discarded) == SelectSeq(discarded, LAMBDA call : call.snapshot # Untracked)
Restorable(cursor) == Snapshots(SelectSeq(calls, LAMBDA call : call.batch > cursor)) # <<>>

\* A tree is restored once, from the first discarded call; manifests from the last
\* to the first.
\* Mutants: manifests are put back in the order they were taken; the tree is that
\* of the last discarded call.
ForwardOrder(refs) == IF git THEN <<Head(refs)>> ELSE refs
LastTree(refs) == IF git THEN <<Last(refs)>> ELSE Reverse(refs)
RestoreOrder(refs) == IF git THEN <<Head(refs)>> ELSE Reverse(refs)

\* rewind_session commits first: the discarded calls leave the log.  A turn can
\* start while the files are put back.
Rewinds(cursor) ==
    /\ Running = {} /\ rewind.step = "none" /\ Restorable(cursor)
    /\ calls' = SelectSeq(calls, LAMBDA call : call.batch <= cursor)
    /\ LET discarded == SelectSeq(calls, LAMBDA call : call.batch > cursor)
       IN  rewind' = [step |-> "restoring", discarded |-> discarded,
                      refs |-> RestoreOrder(Snapshots(discarded))]
    /\ UNCHANGED <<git, files, made, userEdits>>

\* The paths the discarded file tools asked for, run or not.
ToolPaths == {rewind.discarded[i].path :
                 i \in {j \in DOMAIN rewind.discarded : rewind.discarded[j].tool \in FileTools}}

\* checkout-index of the paths the tree has and git clean of those it has not, or
\* one manifest's file.
Restore(snapshot) ==
    IF snapshot.kind = "tree"
    THEN [f \in Files |-> IF f \in ToolPaths THEN snapshot.content[f] ELSE files[f]]
    ELSE [files EXCEPT ![snapshot.path] = snapshot.content]

RestoresOne ==
    /\ rewind.step = "restoring" /\ rewind.refs # <<>>
    /\ Head(rewind.refs).snapshot.kind # "opaque"
    /\ files' = Restore(Head(rewind.refs).snapshot)
    /\ rewind' = [rewind EXCEPT !.refs = Tail(@), !.step = IF Len(rewind.refs) = 1 THEN "restored" ELSE @]
    /\ UNCHANGED <<git, calls, made, userEdits>>
\* A snapshot that cannot be restored, or git or the file system failing, stops the
\* restore where it is; in any case the request is answered.
RewindAnswers ==
    /\ rewind.step # "none" /\ rewind' = NoRewind
    /\ UNCHANGED <<git, files, calls, made, userEdits>>

-----------------------------------------------------------------------------
CheckpointInit ==
    /\ git \in BOOLEAN /\ files \in [Files -> {Absent, User(0)}]
    /\ calls = <<>> /\ made = 0 /\ userEdits = 0 /\ rewind = NoRewind

CheckpointNext ==
    \/ \E batch \in Batches : \E failed, denied \in SUBSET DOMAIN batch : Prepares(batch, failed, denied)
    \/ \E i \in DOMAIN calls : Runs(i)
    \/ \E f \in Files : Edits(f)
    \/ \E cursor \in 0..LastBatch : Rewinds(cursor)
    \/ RestoresOne \/ RewindAnswers

CheckpointSpec == CheckpointInit /\ [][CheckpointNext]_checkpointVars

-----------------------------------------------------------------------------
(* Properties *)

CheckpointTypeOK ==
    /\ git \in BOOLEAN /\ made \in 0..MaxCalls /\ userEdits \in 0..MaxEdits
    /\ DOMAIN files = Files /\ rewind.step \in {"none", "restoring", "restored"}
    /\ \A i \in DOMAIN calls : calls[i].state \in {"started", "ran", "denied"}

\* What a file tool wrote, as opposed to the user or a shell.
Writes(call) == call.state = "ran" /\ call.tool \in FileTools

\* A rewind that answers "restored" has undone every file tool it discarded: no file
\* holds what one of them wrote, however often they wrote it, side by side or in
\* turn, and whatever was denied or edited between them.  Calls whose snapshot
\* failed are the exception.
RestoreUndoes ==
    rewind.step = "restored" /\ (\A i \in DOMAIN rewind.discarded :
                                    Writes(rewind.discarded[i]) => rewind.discarded[i].snapshot # Untracked)
        => \A i \in DOMAIN rewind.discarded : Writes(rewind.discarded[i]) =>
              \A f \in Files : files[f] # <<rewind.discarded[i].tool, rewind.discarded[i].id>>
=============================================================================
