----------------------------- MODULE ApprovalRules -----------------------------
(***************************************************************************)
(* Tool-call rules (cool-security, and the approval.resolve and policy.*   *)
(* handlers of cool-app-server): rules live in three scopes, a project     *)
(* file, the user table and one in-memory set per run, and an approval can *)
(* be answered with "remember", which stores an allow rule hidden, commits *)
(* the grant and then shows the rule.  The clean-up of a grant that did    *)
(* not commit races other answers to the same call.  A rule is its         *)
(* signature; every signature here is an allow rule for one tool call, and *)
(* DenyAll is the rule a malformed file stands for.                        *)
(***************************************************************************)
EXTENDS Integers, Sequences, FiniteSets

CONSTANTS
    Resolvers,   \* approval.resolve requests that approve and remember
    Requests,     \* [Resolvers -> [scope, rule, ticket]]: what each may ask
    DenyAll,     \* a rule that is no resolver's
    MaxRuleEdits     \* bound: policy.rule_delete requests

ASSUME RulesAssumption ==
    /\ MaxRuleEdits \in Nat
    /\ \A a \in Requests : \A r \in Resolvers :
          a[r].rule # DenyAll /\ a[r].scope \in {"session", "project", "user"}

VARIABLES
    asked,     \* the answer of each resolver
    resolver,  \* where its handler is
    kept,      \* the id of the rule its add returned
    read,      \* the project file as the handler read it
    project,   \* the file: its rules, the next id, whether it cannot be parsed
    user,      \* the table: its rows
    nextRow,
    session,   \* the run's set
    nextSession,
    pending,   \* RuleState.pending: signatures hidden from the rule sources
    ticket,    \* the approvals: pending, approved or denied
    granted,   \* signatures whose remembered grant committed (history)
    malformed, \* the file could not be parsed when the server started (history)
    edits

ruleVars == <<asked, resolver, kept, read, project, user, nextRow, session, nextSession,
              pending, ticket, granted, malformed, edits>>

NoId == -1
Row(id, rule) == [id |-> id, rule |-> rule]
\* The rows of a file, a table or a run are listed by id.
IdOf(rows, rule) ==
    LET ids == {row.id : row \in {same \in rows : same.rule = rule}}
    IN  IF ids = {} THEN NoId ELSE CHOOSE id \in ids : \A other \in ids : id <= other
WithoutRule(rows, id) == {row \in rows : row.id # id}
RulesIn(rows) == {row.rule : row \in rows}

\* load_project_policy: a malformed file is a rule that denies everything.
DenyAllRow == Row(-2, DenyAll)
\* Mutant: a malformed file is an empty one.
LoadProjectOpen(file) == IF file.bad THEN [rows |-> {}, next |-> 0, bad |-> FALSE] ELSE file
LoadProject(file) ==
    IF file.bad THEN [rows |-> {DenyAllRow}, next |-> 0, bad |-> FALSE] ELSE file

-----------------------------------------------------------------------------
(* approval.resolve *)

At(r, step) == resolver[r] = step
Scope(r) == asked[r].scope
Rule(r) == asked[r].rule
RequestGoes(r, step) == resolver' = [resolver EXCEPT ![r] = step]

\* prepare_approval_rule needs the ticket's call only; a rule of the run is
\* stored after the grant, one of a file or a table is hidden and stored first.
PreparesRule(r) ==
    /\ At(r, "new")
    /\ IF Scope(r) = "session" THEN RequestGoes(r, "stored") /\ UNCHANGED pending
       ELSE RequestGoes(r, "hidden") /\ pending' = pending \cup {Rule(r)}
    /\ UNCHANGED <<asked, kept, read, project, user, nextRow, session, nextSession, ticket,
                   granted, malformed, edits>>

\* add_policy_rule reads the scope it adds to; a rule already there is returned.
AddReads(r) ==
    /\ At(r, "hidden")
    /\ \/ Scope(r) = "project" /\ read' = [read EXCEPT ![r] = LoadProject(project)]
          /\ LET id == IdOf(read'[r].rows, Rule(r))
             IN  kept' = [kept EXCEPT ![r] = id] /\ RequestGoes(r, IF id # NoId THEN "stored" ELSE "read")
       \/ Scope(r) = "user"
          /\ LET id == IdOf(user, Rule(r))
             IN  kept' = [kept EXCEPT ![r] = id] /\ RequestGoes(r, IF id # NoId THEN "stored" ELSE "read")
          /\ UNCHANGED read
    /\ UNCHANGED <<asked, project, user, nextRow, session, nextSession, pending, ticket, granted,
                   malformed, edits>>

AddWrites(r) ==
    /\ At(r, "read") /\ RequestGoes(r, "stored")
    /\ \/ Scope(r) = "project"
          /\ project' = [read[r] EXCEPT !.rows = @ \cup {Row(read[r].next, Rule(r))},
                                         !.next = @ + 1]
          /\ kept' = [kept EXCEPT ![r] = read[r].next] /\ UNCHANGED <<user, nextRow>>
       \/ Scope(r) = "user"
          /\ user' = user \cup {Row(nextRow, Rule(r))} /\ nextRow' = nextRow + 1
          /\ kept' = [kept EXCEPT ![r] = nextRow] /\ UNCHANGED project
    /\ UNCHANGED <<asked, read, session, nextSession, pending, ticket, granted, malformed, edits>>

\* The add fails: the marker is dropped and the approval is left alone.
AddFails(r) ==
    /\ resolver[r] \in {"hidden", "read"} /\ RequestGoes(r, "done")
    /\ pending' = pending \ {Rule(r)}
    /\ UNCHANGED <<asked, kept, read, project, user, nextRow, session, nextSession, ticket, granted,
                   malformed, edits>>

\* resolve_approval commits only a pending ticket; it can fail for other reasons.
Grants(r) ==
    /\ At(r, "stored") /\ ticket[asked[r].ticket] = "pending"
    /\ ticket' = [ticket EXCEPT ![asked[r].ticket] = "approved"]
    /\ granted' = granted \cup {Rule(r)} /\ RequestGoes(r, "granted")
    /\ UNCHANGED <<asked, kept, read, project, user, nextRow, session, nextSession, pending,
                   malformed, edits>>
\* promote_pending drops every marker of the signature; add_session_rule.
Shows(r) ==
    /\ At(r, "granted") /\ RequestGoes(r, "done")
    /\ IF Scope(r) # "session"
       THEN pending' = pending \ {Rule(r)} /\ UNCHANGED <<session, nextSession>>
       ELSE /\ UNCHANGED pending
            /\ IF IdOf(session, Rule(r)) # NoId THEN UNCHANGED <<session, nextSession>>
               ELSE session' = session \cup {Row(nextSession, Rule(r))}
                    /\ nextSession' = nextSession + 1
    /\ UNCHANGED <<asked, kept, read, project, user, nextRow, ticket, granted, malformed, edits>>
Refused(r) ==
    /\ At(r, "stored")
    /\ pending' = pending \ {Rule(r)} /\ RequestGoes(r, IF Scope(r) = "session" THEN "done" ELSE "undoing")
    /\ UNCHANGED <<asked, kept, read, project, user, nextRow, session, nextSession, ticket, granted,
                   malformed, edits>>

\* delete_policy_rule of the rule the add returned.
\* Mutant: the clean-up of a table row is forgotten.
UndoesNoRow(r) ==
    /\ At(r, "undoing") /\ RequestGoes(r, "done")
    /\ UNCHANGED <<asked, kept, read, project, user, nextRow, session, nextSession, pending, ticket,
                   granted, malformed, edits>>
UndoesRow(r) ==
    /\ At(r, "undoing") /\ Scope(r) = "user" /\ RequestGoes(r, "done")
    /\ user' = WithoutRule(user, kept[r])
    /\ UNCHANGED <<asked, kept, read, project, nextRow, session, nextSession, pending, ticket,
                   granted, malformed, edits>>
UndoReadsFile(r) ==
    /\ At(r, "undoing") /\ Scope(r) = "project" /\ RequestGoes(r, "undo_read")
    /\ read' = [read EXCEPT ![r] = LoadProject(project)]
    /\ UNCHANGED <<asked, kept, project, user, nextRow, session, nextSession, pending, ticket,
                   granted, malformed, edits>>
UndoWritesFile(r) ==
    /\ At(r, "undo_read") /\ RequestGoes(r, "done")
    /\ project' = IF \E row \in read[r].rows : row.id = kept[r]
                  THEN [read[r] EXCEPT !.rows = WithoutRule(@, kept[r])] ELSE project
    /\ UNCHANGED <<asked, kept, read, user, nextRow, session, nextSession, pending, ticket, granted,
                   malformed, edits>>

-----------------------------------------------------------------------------
(* The other callers *)

\* Somebody else denies the ticket, or approves it without remembering.
Answered(t) ==
    /\ ticket[t] = "pending" /\ ticket' = [ticket EXCEPT ![t] = "denied"]
    /\ UNCHANGED <<asked, resolver, kept, read, project, user, nextRow, session, nextSession,
                   pending, granted, malformed, edits>>

\* policy.rule_delete of a table row or a rule of the run.
RuleDeleted ==
    /\ edits < MaxRuleEdits /\ edits' = edits + 1
    /\ \/ \E row \in user : user' = WithoutRule(user, row.id) /\ UNCHANGED session
       \/ \E row \in session : session' = WithoutRule(session, row.id) /\ UNCHANGED user
    /\ UNCHANGED <<asked, resolver, kept, read, project, nextRow, nextSession, pending, ticket,
                   granted, malformed>>

\* The run ends: remove_session.
RunEnds ==
    /\ session # {} /\ session' = {} /\ nextSession' = 0
    /\ UNCHANGED <<asked, resolver, kept, read, project, user, nextRow, pending, ticket, granted,
                   malformed, edits>>

-----------------------------------------------------------------------------
(* Consulting the rules: the run's set, then file and table without the      *)
(* hidden signatures; the first match decides, else the capability does.     *)

\* Every rule consulted, with the place of its list.
Sources ==
    LET shown(rows) == {row \in rows : row.rule \notin pending}
    IN  ({1} \X session) \cup ({2} \X shown(LoadProject(project).rows)) \cup ({3} \X shown(user))
NotAfter(a, b) == a[1] < b[1] \/ (a[1] = b[1] /\ a[2].id <= b[2].id)
FirstMatch(call) ==
    LET matches == {m \in Sources : m[2].rule \in {call, DenyAll}}
        first == CHOOSE m \in matches : \A n \in matches : NotAfter(m, n)
    IN  IF matches = {} THEN "capability" ELSE IF first[2].rule = DenyAll THEN "deny" ELSE "allow"

-----------------------------------------------------------------------------
(* Capability policies: a decision per capability, a default for the others  *)
(* and rules [pattern, decision] tried in order.  0 allow, 1 ask, 2 deny;    *)
(* an absent decision is 3.                                                  *)

NoMatch == 3
Stricter(a, b) == IF a < b THEN b ELSE a
OrElse(a, b) == IF a = NoMatch THEN b ELSE a

Resolve(policy, capability) == OrElse(OrElse(policy.decisions[capability], policy.wildcard), 0)

StrictestOf(policy) ==
    LET all == {OrElse(policy.wildcard, 0)} \cup {Resolve(policy, c) : c \in DOMAIN policy.decisions}
    IN  CHOOSE d \in all : \A e \in all : e <= d

\* narrow_with: what a child's policy becomes under its parent's.
NarrowWith(parent, child) ==
    [wildcard |-> Stricter(OrElse(parent.wildcard, 0), OrElse(child.wildcard, 0)),
     decisions |-> [c \in DOMAIN parent.decisions |-> Stricter(Resolve(parent, c), Resolve(child, c))],
     rules |-> parent.rules \o [i \in DOMAIN child.rules |->
                  [child.rules[i] EXCEPT !.decision = Stricter(@, StrictestOf(parent))]]]

\* match_rules: the first match, or a stricter one of the same pattern after it.
MatchRules(rules, call) ==
    LET matches == {i \in DOMAIN rules : call \in rules[i].pattern}
        first == CHOOSE i \in matches : \A j \in matches : i <= j
        same == {rules[i].decision : i \in {j \in matches : rules[j].pattern = rules[first].pattern}}
    IN  IF matches = {} THEN NoMatch ELSE CHOOSE d \in same : \A e \in same : e <= d

\* The loop's decision: the capability's deny is the outer bound of a rule's allow.
Decides(policy, call, needs) ==
    LET levels == {0} \cup {Resolve(policy, c) : c \in needs}
        capability == CHOOSE d \in levels : \A e \in levels : e <= d
    IN  IF capability = 2 THEN 2 ELSE OrElse(MatchRules(policy.rules, call), capability)

-----------------------------------------------------------------------------
RulesInit ==
    /\ asked \in Requests
    /\ resolver = [r \in Resolvers |-> "new"] /\ kept = [r \in Resolvers |-> NoId]
    /\ malformed \in BOOLEAN /\ project = [rows |-> {}, next |-> 0, bad |-> malformed]
    /\ read = [r \in Resolvers |-> project]
    /\ user = {} /\ nextRow = 1 /\ session = {} /\ nextSession = 0
    /\ pending = {} /\ ticket = [t \in {asked[r].ticket : r \in Resolvers} |-> "pending"]
    /\ granted = {} /\ edits = 0

RulesNext ==
    \/ \E r \in Resolvers :
          \/ PreparesRule(r) \/ AddReads(r) \/ AddWrites(r) \/ AddFails(r) \/ Grants(r) \/ Shows(r)
          \/ Refused(r) \/ UndoesRow(r) \/ UndoReadsFile(r) \/ UndoWritesFile(r)
    \/ \E t \in DOMAIN ticket : Answered(t)
    \/ RuleDeleted \/ RunEnds

RulesSpec == RulesInit /\ [][RulesNext]_ruleVars

-----------------------------------------------------------------------------
(* Properties *)

RulesTypeOK ==
    /\ resolver \in [Resolvers -> {"new", "hidden", "read", "stored", "granted", "undoing",
                                   "undo_read", "done"}]
    /\ kept \in [Resolvers -> -2..100] /\ nextRow \in Nat /\ nextSession \in Nat
    /\ \A row \in user \cup session : row.id \in Nat
    /\ pending \subseteq {Rule(r) : r \in Resolvers}
    /\ \A t \in DOMAIN ticket : ticket[t] \in {"pending", "approved", "denied"}

AtRest == \A r \in Resolvers : resolver[r] \in {"new", "done"}

\* When no answer is under way, a rule of the user's table or of the run was
\* granted by an approval that committed, whatever answers to the same call
\* failed, at whatever point, and whoever stored the row first.
RowsWereGranted == AtRest => RulesIn(user) \cup RulesIn(session) \subseteq granted

\* The same of the project's file.  (cool-app-server lib.rs: "drop the dead
\* row/file entry so a failed resolve doesn't leak an ungranted rule".)
FileRulesWereGranted ==
    AtRest => RulesIn(LoadProject(project).rows) \subseteq granted \cup {DenyAll}

\* A project whose file could not be read stays closed: rules remembered into
\* the file or the table, and removed again, never make a call run that no rule
\* of the run allows.
MalformedStaysClosed ==
    malformed => \A call \in {Rule(r) : r \in Resolvers} :
                    call \notin RulesIn(session) => FirstMatch(call) = "deny"

\* What is remembered was granted, and what could not be read stays closed.
RulesAreKept == RowsWereGranted /\ MalformedStaysClosed
=============================================================================
