-------------------------------- MODULE Memories --------------------------------
(***************************************************************************)
(* The long-term memories of one user (cool-store domains/memory.rs and    *)
(* memory.rs): the commands of a client, the tools of the agent (cool-cli  *)
(* store_tools.rs), the extraction of a conversation, which asks the model *)
(* twice before it stores (cool-cli memory_extract.rs), the sweeps, and    *)
(* recall, a search over four legs.  Each method of the store holds the    *)
(* connection's mutex; whoever calls two can be overtaken between them.    *)
(* Row ids are SQLite's: one above the largest, so a deleted one returns.  *)
(***************************************************************************)
EXTENDS Integers, Sequences, SequencesExt, FiniteSets, FiniteSetsExt

CONSTANTS
    Texts,         \* what a memory may say
    Overlap,       \* percentage of common words of two texts
    Projects,      \* per conversation its working directory
    Names,         \* per entity the texts that, as a query, name it
    Ranks,         \* per query text the texts full-text search finds for it, best first
    FirstItems,    \* the items the behaviours start from
    Extractions,   \* the sequences of candidates the model may extract
    Keys,          \* keys of the scratchpad
    MaxItems,      \* bound: rows at a time
    MaxCommands,   \* bound: commands and tool calls
    SweepDays,     \* bound: the days the sweeps run at, in order
    EntityLimit, PreferenceLimit   \* memories of entities and preferences in one recall

ASSUME MemoryAssumption ==
    /\ Overlap \in [Texts -> [Texts -> 0..100]] /\ {MaxItems, MaxCommands} \subseteq Nat
    /\ {EntityLimit, PreferenceLimit} \subseteq Nat \ {0}

Conversations == DOMAIN Projects
Entities == DOMAIN Names
NoItem == [id |-> 0, made |-> 0]

VARIABLES
    item,      \* per row id: the memory; "made" tells memories of one id apart
    links,     \* rows of memory_item_entities, with the memory they were made for
    embedded,  \* rows of memory_embeddings, likewise
    entities,  \* the entities that exist
    made, commands, day,
    extraction,  \* where it is, its candidates, what the model said they supersede, what it found
    scratch,     \* the conversation's working memory: its keys and whether it has a summary
    setting,     \* per key: where set_working_memory is and what it read
    compacting   \* the same for the compaction of the conversation

memVars == <<item, links, embedded, entities, made, commands, day, extraction, scratch, setting,
             compacting>>
itemVars == <<item, links, embedded, entities, made>>
otherVars == <<day, extraction, scratch, setting, compacting>>

Rows == DOMAIN item
Command == commands < MaxCommands /\ commands' = commands + 1 /\ UNCHANGED otherVars

-----------------------------------------------------------------------------
(* Rows *)

\* default_memory_status: only a user's or a confirmed memory is active at once.
FirstStatus(new) ==
    IF new.confirmed \/ new.source = "user_explicit" THEN "active" ELSE "pending"
\* create_memory_item: an agent's importance is at most 0.9 (importances are in tenths).
AgentCeiling == 9
Capped(new) ==
    IF new.source # "user_explicit" /\ new.importance > AgentCeiling THEN AgentCeiling ELSE new.importance
NextRow == IF Rows = {} THEN 1 ELSE Max(Rows) + 1
CreatesItem(new) ==
    /\ Cardinality(Rows) < MaxItems
    /\ made' = made + 1
    /\ item' = [i \in Rows \cup {NextRow} |->
          IF i \in Rows THEN item[i]
          ELSE [text |-> new.text, kind |-> new.kind, scope |-> new.scope, conv |-> new.conv,
                source |-> new.source, status |-> FirstStatus(new), importance |-> Capped(new),
                supersedes |-> new.supersedes, pinned |-> FALSE, born |-> day, updated |-> day,
                made |-> made']]
    /\ UNCHANGED <<links, embedded, entities>>
UpdatesItem(i, fields) ==
    /\ item' = [item EXCEPT ![i] = [f \in DOMAIN @ |->
          IF f = "updated" THEN day ELSE IF f \in DOMAIN fields THEN fields[f] ELSE @[f]]]
    /\ UNCHANGED <<links, embedded, entities, made>>
Sets(i, status) == UpdatesItem(i, [status |-> status])

Removed(i) == [j \in Rows \ {i} |-> item[j]]
\* Mutant: only the row is deleted.
DeletesRowOnly(i) == item' = Removed(i) /\ UNCHANGED <<links, embedded, entities, made>>
DeletesRow(i) ==
    /\ item' = Removed(i)
    /\ links' = {l \in links : l.id # i} /\ embedded' = {e \in embedded : e.id # i}
    /\ UNCHANGED <<entities, made>>

-----------------------------------------------------------------------------
(* Commands of a client and tools of the agent *)

\* memory.create, and memory_remember of the agent.
NewItem(text, kind, scope, conv, source) ==
    [text |-> text, kind |-> kind, scope |-> scope, conv |-> conv, source |-> source,
     importance |-> 10, confirmed |-> FALSE, supersedes |-> NoItem]
MemoryCreate ==
    /\ Command
    /\ \E t \in Texts, k \in {"preference", "semantic"} :
          CreatesItem(NewItem(t, k, "global", CHOOSE c \in Conversations : TRUE, "user_explicit"))
MemoryRemember ==
    /\ Command
    /\ \E t \in Texts, c \in Conversations :
          CreatesItem(NewItem(t, "semantic", "conversation", c, "agent"))
\* memory.update may set any field; memory_update of the agent the text and the importance.
MemoryUpdate(i) ==
    /\ Command
    /\ \/ \E s \in {"active", "archived"} : Sets(i, s)
       \/ UpdatesItem(i, [scope |-> "agent"])
MemoryToolUpdate(i) ==
    Command /\ \E t \in Texts : UpdatesItem(i, [text |-> t, importance |-> AgentCeiling])
MemoryDelete(i) == Command /\ (Sets(i, "archived") \/ DeletesRow(i))
\* confirm_memory_item: what it supersedes is marked, if it is still active.
MemoryConfirm(i) ==
    LET old == item[i].supersedes.id
        hit == IF old \in Rows \ {i} THEN item[old].status = "active" ELSE FALSE
    IN  /\ Command
        /\ item' = [j \in Rows |->
              IF j = i THEN [item[j] EXCEPT !.status = "active", !.updated = day]
              ELSE IF hit /\ j = old
                   THEN [item[j] EXCEPT !.status = "superseded", !.updated = day,
                                        !.supersedes = [id |-> i, made |-> item[i].made]]
              ELSE item[j]]
        /\ UNCHANGED <<links, embedded, entities, made>>
MemoryReject(i) == Command /\ Sets(i, "archived")
MemoryPin(i) == Command /\ \E p \in BOOLEAN : UpdatesItem(i, [pinned |-> p])

Made(i) == [id |-> i, made |-> item[i].made]
LinkMemory(i, e) ==
    /\ Command /\ e \in entities
    /\ links' = IF \E l \in links : l.id = i /\ l.entity = e THEN links
                ELSE links \cup {[id |-> i, made |-> item[i].made, entity |-> e]}
    /\ UNCHANGED <<item, embedded, entities, made>>
UnlinkMemory(i, e) ==
    /\ Command /\ links' = {l \in links : ~(l.id = i /\ l.entity = e)}
    /\ UNCHANGED <<item, embedded, entities, made>>
RecordEmbedding(i) ==
    /\ Command
    /\ embedded' = IF \E e \in embedded : e.id = i THEN embedded ELSE embedded \cup {Made(i)}
    /\ UNCHANGED <<item, links, entities, made>>
DeleteEntity(e) ==
    /\ Command /\ e \in entities /\ entities' = entities \ {e}
    /\ links' = {l \in links : l.entity # e}
    /\ UNCHANGED <<item, embedded, made>>

-----------------------------------------------------------------------------
(* Sweeps, for memories that say neither when they expire nor how sure they are *)

Age(i) == day - item[i].born
\* apply_decay: importance * 1 / (1 + days / 30) < 0.1, but no preference and nothing pinned.
Decays(i) ==
    /\ item[i].status = "active" /\ ~item[i].pinned /\ item[i].kind # "preference"
    /\ 30 * item[i].importance < 30 + Age(i)
\* expire_items: a confirmation is awaited for 14 days.
PendingDays == 14
Expires(i) == item[i].status = "pending" /\ Age(i) > PendingDays
Archives(over) ==
    /\ over # {}
    /\ item' = [i \in Rows |->
          IF i \in over THEN [item[i] EXCEPT !.status = "archived", !.updated = day] ELSE item[i]]
    /\ UNCHANGED <<links, embedded, entities, made, commands>> /\ UNCHANGED otherVars
SweepDecay == Archives({i \in Rows : Decays(i)})
SweepExpire == Archives({i \in Rows : Expires(i)})
DayPasses ==
    /\ \E d \in SweepDays : d > day /\ day' = d
    /\ UNCHANGED <<itemVars, commands, extraction, scratch, setting, compacting>>

-----------------------------------------------------------------------------
(* Extraction of a conversation *)

Idle == [at |-> "idle", todo |-> <<>>, found |-> NoItem, supersedes |-> <<>>]
ExtractionStep == UNCHANGED <<commands, day, scratch, setting, compacting>>
Goes(at) == extraction' = [extraction EXCEPT !.at = at]

\* find_similar_memories, find_duplicate_memory: by their percentage of common words.
Alike(text, least, status) ==
    {i \in Rows : item[i].status = status /\ Overlap[text][item[i].text] >= least}
Duplicates(c) ==
    LET tier == {i \in Alike(c.text, 0, "pending") : item[i].kind = c.kind}
        exact == {i \in tier : item[i].text = c.text}
    IN  IF exact # {} THEN exact ELSE {i \in tier : Overlap[c.text][item[i].text] > 70}

\* extract_memories: the model is asked; too few messages, its error or an answer that is no
\* JSON end it.
Extracts ==
    /\ extraction.at = "idle"
    /\ \/ Goes("skipped")
       \/ \E cs \in Extractions : extraction' = [Idle EXCEPT !.at = "comparing", !.todo = cs]
    /\ ExtractionStep /\ UNCHANGED itemVars
\* detect_conflicts: the model is shown what is alike, and names what is contradicted.
Compares ==
    /\ extraction.at = "comparing"
    /\ LET shown == UNION {{Made(i) : i \in Alike(extraction.todo[n].text, 30, "active")} :
                              n \in DOMAIN extraction.todo}
       IN  \E named \in [DOMAIN extraction.todo -> shown \cup {NoItem}] :
              extraction' = [extraction EXCEPT !.at = "finding", !.supersedes = named]
    /\ ExtractionStep /\ UNCHANGED itemVars
FindsDuplicate ==
    /\ extraction.at = "finding" /\ extraction.todo # <<>>
    /\ LET same == Duplicates(Head(extraction.todo))
       IN  extraction' = IF same = {} THEN [extraction EXCEPT !.at = "placing"]
                         ELSE [extraction EXCEPT !.at = "updating", !.found = Made(Min(same))]
    /\ ExtractionStep /\ UNCHANGED itemVars
NextCandidate ==
    extraction' = [extraction EXCEPT !.at = "finding", !.todo = Tail(@), !.found = NoItem,
                                     !.supersedes = IF @ = <<>> THEN @ ELSE Tail(@)]
\* A duplicate is updated in place, if its row is still there.
UpdatesDuplicate ==
    /\ extraction.at = "updating"
    /\ LET c == Head(extraction.todo) i == extraction.found.id
       IN  IF i \in Rows
           THEN UpdatesItem(i, [text |-> c.text,
                    importance |-> Max({item[i].importance, Min({c.importance, AgentCeiling})})])
           ELSE UNCHANGED itemVars
    /\ NextCandidate /\ ExtractionStep
\* Without a conflict, an important fact supersedes its nearest neighbour of the same kind.
Neighbours(c) == {i \in Alike(c.text, 45, "active") : item[i].kind = c.kind
                                                    /\ Overlap[c.text][item[i].text] < 75}
FindsNeighbour ==
    /\ extraction.at = "placing"
    /\ LET c == Head(extraction.todo) near == Neighbours(c)
           told == Head(extraction.supersedes)
       IN  IF told # NoItem \/ c.importance < 8 \/ near = {}
           THEN extraction' = [extraction EXCEPT !.at = "creating", !.found = told]
           ELSE \E i \in near :
                  /\ \A j \in near : Overlap[c.text][item[j].text] <= Overlap[c.text][item[i].text]
                  /\ extraction' = [extraction EXCEPT !.at = "creating", !.found = Made(i)]
    /\ ExtractionStep /\ UNCHANGED itemVars
CreatesExtracted ==
    /\ extraction.at = "creating"
    /\ LET c == Head(extraction.todo)
       IN  CreatesItem([text |-> c.text, kind |-> c.kind, importance |-> c.importance,
                        scope |-> "global", conv |-> CHOOSE d \in Conversations : TRUE,
                        source |-> "agent_extraction", confirmed |-> FALSE,
                        supersedes |-> extraction.found])
    /\ NextCandidate /\ ExtractionStep
ExtractionEnds ==
    /\ extraction.at = "finding" /\ extraction.todo = <<>> /\ Goes("completed")
    /\ ExtractionStep /\ UNCHANGED itemVars

-----------------------------------------------------------------------------
(* The scratchpad *)

ScratchStep == UNCHANGED <<itemVars, commands, day, extraction>>
\* set_working_memory: read, add the key, write the row.
SetReads(k) ==
    /\ setting[k].at = "new" /\ setting' = [setting EXCEPT ![k] = [at |-> "read", row |-> scratch]]
    /\ ScratchStep /\ UNCHANGED <<scratch, compacting>>
SetWrites(k) ==
    /\ setting[k].at = "read" /\ setting' = [setting EXCEPT ![k].at = "set"]
    /\ scratch' = [setting[k].row EXCEPT !.keys = @ \cup {k}]
    /\ ScratchStep /\ UNCHANGED compacting
\* compact_conversation: the state read is written back with the new summary.
CompactReads ==
    /\ compacting.at = "new" /\ compacting' = [at |-> "read", row |-> scratch]
    /\ ScratchStep /\ UNCHANGED <<scratch, setting>>
CompactWrites ==
    /\ compacting.at = "read" /\ compacting' = [compacting EXCEPT !.at = "compacted"]
    /\ scratch' = [compacting.row EXCEPT !.summary = TRUE]
    /\ ScratchStep /\ UNCHANGED setting

-----------------------------------------------------------------------------
(* Recall: search_at.  A query is what is asked, in which conversation, which kind *)
(* and how many; "any" kind is no filter.                                          *)

Visible(i, q) ==
    \/ item[i].scope = "global"
    \/ item[i].scope = "conversation" /\ Projects[item[i].conv] = Projects[q.conv]
Asked(i, q) == q.kind = "any" \/ item[i].kind = q.kind
Recallable(q) == {i \in Rows : item[i].status = "active" /\ Visible(i, q) /\ Asked(i, q)}
First(s, n) == SubSeq(s, 1, Min({n, Len(s)}))
ByImportance(ids) ==
    SetToSortSeq(ids, LAMBDA i, j : \/ item[i].importance > item[j].importance
                                    \/ (item[i].importance = item[j].importance /\ i < j))

\* The four legs: preferences, wherever they were made; full text; what names an entity; and
\* when these are too few, what is important.
PreferenceLeg ==
    First(ByImportance({i \in Rows : item[i].status = "active" /\ item[i].kind = "preference"}),
          PreferenceLimit)
FullTextLeg(q) ==
    LET rank(i) == CHOOSE r \in DOMAIN Ranks[q.text] : Ranks[q.text][r] = item[i].text
        matched == {i \in Rows : \E r \in DOMAIN Ranks[q.text] : Ranks[q.text][r] = item[i].text}
        ranked == SetToSortSeq(matched, LAMBDA i, j : 
                      rank(i) < rank(j) \/ (rank(i) = rank(j) /\ i < j))
    IN  SelectSeq(First(ranked, 3 * q.limit), LAMBDA i : i \in Recallable(q))
Newest(ids) ==
    SetToSortSeq(ids, LAMBDA i, j : \/ item[i].updated > item[j].updated
                                    \/ (item[i].updated = item[j].updated /\ i < j))
Linked(q) == {l.id : l \in {m \in links : m.entity \in entities /\ q.text \in Names[m.entity]}}
\* Mutant: what is linked is shown.
EntityLegAny(q) == First(Newest(Linked(q)), EntityLimit)
EntityLeg(q) == First(Newest(Linked(q) \cap Recallable(q)), EntityLimit)
Fallback(q) == First(ByImportance(Recallable(q)), 2 * q.limit)

Fresh(found, leg) == SelectSeq(leg, LAMBDA i : ~Contains(found, i))
Gathered(q) ==
    LET f1 == PreferenceLeg
        f2 == f1 \o Fresh(f1, FullTextLeg(q))
        f3 == f2 \o Fresh(f2, EntityLeg(q))
    IN  IF Len(f3) >= q.limit THEN f3 ELSE f3 \o Fresh(f3, Fallback(q))

\* score_breakdown, in thousandths: with relevance 1 / (1 + rank / 3), and 0.35 by an entity.
KindPriority(i) == IF item[i].kind = "preference" THEN 1000 ELSE 600
Recency(i) == 30000 \div (30 + day - item[i].updated)
Relevance(i, q) ==
    LET ranked == {r \in DOMAIN Ranks[q.text] : Ranks[q.text][r] = item[i].text}
    IN  IF Contains(FullTextLeg(q), i) THEN 3000 \div (3 + Min(ranked))
        ELSE IF Contains(EntityLeg(q), i) THEN 350 ELSE 0
Score(i, q) ==
    IF Relevance(i, q) > 0
    THEN 40 * Relevance(i, q) + 20 * 100 * item[i].importance + 15 * Recency(i) + 15 * KindPriority(i)
    ELSE 25 * 100 * item[i].importance + 25 * Recency(i) + 35 * KindPriority(i)
Search(q) ==
    LET g == Gathered(q)
        best == SetToSortSeq(DOMAIN g, LAMBDA m, n : \/ Score(g[m], q) > Score(g[n], q)
                                                  \/ (Score(g[m], q) = Score(g[n], q) /\ m < n))
    IN  First([n \in DOMAIN best |-> g[best[n]]], q.limit)
Queries == [text : DOMAIN Ranks, conv : Conversations, kind : {"any", "semantic"}, limit : 1..2]

-----------------------------------------------------------------------------
Unread == [at |-> "new", row |-> [keys |-> {}, summary |-> FALSE]]
MemInit ==
    /\ item \in FirstItems /\ links = {} /\ embedded = {} /\ entities = Entities
    /\ made = Cardinality(Rows) /\ commands = 0 /\ day = 0 /\ extraction = Idle
    /\ scratch = [keys |-> {}, summary |-> FALSE]
    /\ setting = [k \in Keys |-> Unread] /\ compacting = Unread

CommandStep ==
    \/ MemoryCreate \/ MemoryRemember
    \/ \E i \in Rows :
          \/ MemoryUpdate(i) \/ MemoryToolUpdate(i) \/ MemoryDelete(i) \/ MemoryConfirm(i)
          \/ MemoryReject(i) \/ MemoryPin(i) \/ RecordEmbedding(i)
          \/ \E e \in Entities : LinkMemory(i, e) \/ UnlinkMemory(i, e)
    \/ \E e \in Entities : DeleteEntity(e)
ExtractStep ==
    \/ Extracts \/ Compares \/ FindsDuplicate \/ UpdatesDuplicate \/ FindsNeighbour
    \/ CreatesExtracted \/ ExtractionEnds
MemNext == CommandStep \/ ExtractStep \/ SweepDecay \/ SweepExpire \/ DayPasses
ScratchNext == (\E k \in Keys : SetReads(k) \/ SetWrites(k)) \/ CompactReads \/ CompactWrites

-----------------------------------------------------------------------------
(* Properties *)

\* After any history of commands, sweeps and extractions a recall is given no memory twice,
\* as many as there are to be seen up to the limit, and but for preferences only memories that
\* are active, of the kind, and visible from the conversation (memory.rs: "Visibility is the
\* tuple (user_id, scope, conversation_id)").
RecallIsSound ==
    \A q \in Queries :
        LET hits == Search(q)
        IN  /\ IsInjective(hits)
            /\ Len(hits) >= Min({q.limit, Cardinality(Recallable(q))})
            /\ \A n \in DOMAIN hits :
                  hits[n] \in Recallable(q) \/ Contains(PreferenceLeg, hits[n])

\* Links and embeddings are of the memory they were made for, also when the id of a deleted
\* memory is given to a new one, and links are to entities that exist.
LinksAreTheirOwn ==
    /\ \A l \in links : l.id \in Rows /\ item[l.id].made = l.made /\ l.entity \in entities
    /\ \A e \in embedded : e.id \in Rows /\ item[e.id].made = e.made

\* What a memory supersedes is the memory its writer had read.  (Not so: an id the model was
\* shown can be another memory's by the time the extraction stores it.)
SupersedesAsRead ==
    \A i, by \in Rows :
        item[i].status = "superseded" /\ item[by].supersedes.id = i
            => item[by].supersedes.made = item[i].made

\* Pinned memories are never expired (memory.rs: "Pinned memories are never expired").  (Not so
\* for one that awaits its confirmation.)
PinnedStay == [][SweepExpire => \A i \in Rows : item[i].pinned => item'[i] = item[i]]_memVars

\* A key that was reported as set is there (store_tools.rs: "so the scratchpad merges").  (Not
\* so beside another key, or a compaction.)
ScratchpadMerges == \A k \in Keys : setting[k].at = "set" => k \in scratch.keys
============================================================================================
