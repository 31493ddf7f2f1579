------------------------------ MODULE KeyedProofs ------------------------------
(***************************************************************************)
(* The commands on the legacy tables keep their word, proved for every     *)
(* sound set of rows and every set of commands sent, however their         *)
(* sections interleave and whichever of them meets an error of the file or *)
(* the death of the process.  First the keys (who holds one, who has       *)
(* changed the tables under it), then the tables (what every section does  *)
(* to the rows), then the replays (a row of a run that is answered for is  *)
(* there, and what follows the answer records, binds and drives its run).  *)
(*                                                                         *)
(* And the loop of a plan passes over no step that could have run, for     *)
(* every graph of dependencies: first what the order of the steps is, then *)
(* how a loop works through it.                                            *)
(***************************************************************************)
EXTENDS KeyedCommands, PlanExecution, FiniteSetTheorems, SequenceTheorems, WellFoundedInduction, NaturalsInduction, TLAPS

-----------------------------------------------------------------------------
(* Commands under keys.                                                       *)

TryFields == {"at", "todo", "made", "seen", "count", "said", "slug", "tried", "dispatched",
              "writes", "answer", "run", "before"}
KeyedTypes ==
    /\ script \in Scripts
    /\ DOMAIN tries = SentCommands /\ \A a \in SentCommands : DOMAIN tries[a] = TryFields
    /\ \A k \in DOMAIN claims : DOMAIN claims[k] = {"input", "done", "answer"} /\ claims[k].done \in BOOLEAN

\* A command holds its key while it works; it has a stake in it once it has changed the
\* tables, unless it ended in an error and gave the key back.
Holding(a) == Try(a).at \in {"work", "failing"}
Staked(a) == Try(a).writes > 0 /\ ~(Try(a).at = "failed" /\ Try(a).answer = NoAnswer)
ClaimOf(a) == claims[KeyOf(a)]
HoldsPending(a) ==
    /\ KeyOf(a) \in DOMAIN claims /\ ~ClaimOf(a).done
    /\ ClaimOf(a).input = CommandOf(a).action /\ Try(a).answer = NoAnswer
IsSettled(a) ==
    /\ KeyOf(a) \in DOMAIN claims /\ ClaimOf(a).done
    /\ ClaimOf(a).input = CommandOf(a).action /\ Try(a).answer = ClaimOf(a).answer
KeysInv ==
    /\ \A a \in SentCommands : Try(a).at = "idle" => Try(a).writes = 0 /\ Try(a).answer = NoAnswer
    /\ \A a \in SentCommands : Holding(a) => HoldsPending(a)
    /\ \A a \in SentCommands : IsAnswered(a) => IsSettled(a)
    /\ \A a \in SentCommands : Staked(a) => KeyOf(a) \in DOMAIN claims
    /\ \A a, b \in SentCommands : a # b /\ KeyOf(a) = KeyOf(b) =>
          /\ Holding(a) => ~Holding(b) /\ ~Staked(b)
          /\ ~(Staked(a) /\ Staked(b))

\* One command goes on: to a record with the same fields.
Moves1(a) ==
    /\ tries' = [tries EXCEPT ![a] = tries'[a]]
    /\ DOMAIN tries'[a] = TryFields
Worked(a) ==
    /\ Try(a).at = "work" /\ Moves1(a)
    /\ tries'[a].at \in {"work", "failing"}
    /\ tries'[a].answer = Try(a).answer /\ tries'[a].before = Try(a).before
Replayed(a) ==
    /\ Try(a).at = "then" /\ Moves1(a)
    /\ tries'[a].at \in {"then", "ok", "failed"} /\ tries'[a].writes = Try(a).writes
    /\ tries'[a].answer = Try(a).answer /\ tries'[a].before = Try(a).before

LEMMA GoesToMoves ==
    ASSUME KeyedTypes, NEW a \in SentCommands, Try(a).at = "work",
           NEW c, DOMAIN c = TryFields, c.at = "work", c.answer = Try(a).answer, c.before = Try(a).before,
           GoesTo(a, c)
    PROVE  /\ Worked(a) /\ tries'[a].at = "work" /\ tries'[a].todo = RestOf(a)
           /\ \A f \in TryFields \ {"todo"} : tries'[a][f] = c[f]
  BY DEF KeyedTypes, GoesTo, Worked, Moves1, TryFields, Try, SentCommands

LEMMA FailsMoves ==
    ASSUME KeyedTypes, NEW a \in SentCommands, Try(a).at = "work", Fails(a)
    PROVE  /\ Worked(a)
           /\ \A f \in TryFields \ {"todo", "at"} : tries'[a][f] = Try(a)[f]
  BY DEF KeyedTypes, Fails, CommandAt, Worked, Moves1, TryFields, Try, SentCommands

\* The changes that sections make to their record.
LEMMA RecordsKeep ==
    ASSUME KeyedTypes, NEW a \in SentCommands, Try(a).at = "work"
    PROVE  /\ DOMAIN Try(a) = TryFields /\ DOMAIN Wrote(a) = TryFields
           /\ \A f \in TryFields \ {"writes"} : Wrote(a)[f] = Try(a)[f]
           /\ Wrote(a).writes = Try(a).writes + 1
  BY DEF KeyedTypes, Wrote, Try, TryFields, SentCommands

\* A section of an action moves its command and touches no key.
LEMMA SectionMoves ==
    ASSUME KeyedTypes, NEW a \in SentCommands, SectionStep(a)
    PROVE  Worked(a) /\ UNCHANGED <<script, claims>>
  <1> USE DEF TryFields
  <1>1. /\ Try(a).at = "work" /\ UNCHANGED <<script, claims>>
    BY DEF SectionStep, ReadSection, CountSection, MakeSection, SetSection, RemoveSection, SaySection, HeardSection,
           DefaultSection, PatchSection, SlugSection, PresetSection, DownloadSection, EntrySection, PruneSection,
           RecountSection, MarkSection, DispatchSection, OutcomeSection, Does, NoWrite, Stays
  <1>2. /\ DOMAIN Try(a) = TryFields /\ DOMAIN Wrote(a) = TryFields
        /\ \A f \in TryFields \ {"writes"} : Wrote(a)[f] = Try(a)[f]
    BY <1>1, RecordsKeep DEF KeyedTypes
  <1> DEFINE Lawful(c) == DOMAIN c = TryFields /\ c.at = "work" /\ c.answer = Try(a).answer /\ c.before = Try(a).before
  <1>3. ASSUME NEW c, Lawful(c), GoesTo(a, c) PROVE Worked(a)
    BY <1>1, <1>3, GoesToMoves
  <1>4. Fails(a) => Worked(a)
    BY <1>1, FailsMoves
  <1>5. Lawful(Try(a)) /\ Lawful(Wrote(a))
    BY <1>1, <1>2
  <1>6. \A c, f, v : Lawful(c) /\ f \in TryFields \ {"at", "answer", "before"} => Lawful([c EXCEPT ![f] = v])
    OBVIOUS
  <1>7. ASSUME NEW v, NEW f \in TryFields \ {"answer", "before"}, tries' = [tries EXCEPT ![a] = [@ EXCEPT ![f] = v]],
               f = "at" => v \in {"work", "failing"}
        PROVE  Worked(a)
    BY <1>1, <1>7 DEF Worked, Moves1, KeyedTypes, Try, SentCommands
  <1> USE <1>1, <1>3, <1>4, <1>5, <1>6
  <1> HIDE DEF Lawful, TryFields
  <1>a. "seen" \in TryFields \ {"at", "answer", "before"} /\ "count" \in TryFields \ {"at", "answer", "before"}
        /\ "made" \in TryFields \ {"at", "answer", "before"} /\ "said" \in TryFields \ {"at", "answer", "before"}
        /\ "slug" \in TryFields \ {"at", "answer", "before"}
        /\ "dispatched" \in TryFields \ {"at", "answer", "before"} /\ "writes" \in TryFields \ {"at", "answer", "before"}
    BY DEF TryFields
  <1>b. "todo" \in TryFields \ {"answer", "before"} /\ "tried" \in TryFields \ {"answer", "before"}
    BY DEF TryFields
  <1>10. ReadSection(a) => Worked(a)       BY <1>a DEF ReadSection
  <1>11. CountSection(a) => Worked(a)      BY <1>a DEF CountSection
  <1>12. MakeSection(a) => Worked(a)       BY <1>a DEF MakeSection
  <1>13. SetSection(a) => Worked(a)        BY <1>a DEF SetSection
  <1>14. RemoveSection(a) => Worked(a)     BY <1>a DEF RemoveSection
  <1>15. SaySection(a) => Worked(a)        BY <1>a DEF SaySection
  <1>16. HeardSection(a) => Worked(a)      BY <1>a DEF HeardSection
  <1>17. DefaultSection(a) => Worked(a)    BY <1>a DEF DefaultSection
  <1>18. PatchSection(a) => Worked(a)
    <2>1. ASSUME tries' = [tries EXCEPT ![a] = [Wrote(a) EXCEPT !.at = "failing"]] PROVE Worked(a)
      BY <1>2, <2>1 DEF Worked, Moves1, KeyedTypes, SentCommands, TryFields
    <2> QED BY <2>1 DEF PatchSection
  <1>19. SlugSection(a) => Worked(a)       BY <1>a, <1>b, <1>7 DEF SlugSection
  <1>20. PresetSection(a) => Worked(a)     BY <1>b, <1>7 DEF PresetSection
  <1>21. DownloadSection(a) => Worked(a)   BY <1>b, <1>7 DEF DownloadSection
  <1>22. EntrySection(a) => Worked(a)      BY <1>a DEF EntrySection
  <1>23. PruneSection(a) => Worked(a)      BY <1>a DEF PruneSection
  <1>24. RecountSection(a) => Worked(a)    BY <1>a DEF RecountSection
  <1>25. MarkSection(a) => Worked(a)       BY <1>a DEF MarkSection
  <1>26. DispatchSection(a) => Worked(a)
    <2> SUFFICES ASSUME NEW how \in {"completed", "failed"},
                        GoesTo(a, [Try(a) EXCEPT !.dispatched = how, !.writes = @ + (IF how = "completed" THEN 1 ELSE 0)])
                 PROVE  Worked(a)
      BY DEF DispatchSection
    <2>1. Lawful([[Try(a) EXCEPT !["dispatched"] = how] EXCEPT !["writes"] = @ + (IF how = "completed" THEN 1 ELSE 0)])
      BY <1>a
    <2> QED BY <2>1, <1>2, <1>3 DEF TryFields, Lawful
  <1>27. OutcomeSection(a) => Worked(a)    BY <1>a DEF OutcomeSection
  <1> QED BY <1>10, <1>11, <1>12, <1>13, <1>14, <1>15, <1>16, <1>17, <1>18, <1>19, <1>20, <1>21, <1>22, <1>23, <1>24,
             <1>25, <1>26, <1>27 DEF SectionStep

\* After its answer, a replay goes on, ends or fails, and touches no key either.
LEMMA ReplayMoves ==
    ASSUME KeyedTypes, NEW a \in SentCommands, ReplayStep(a)
    PROVE  Replayed(a) /\ UNCHANGED <<script, claims>>
  <1>1. Try(a).at = "then" /\ UNCHANGED <<script, claims>>
    BY DEF ReplayStep, LinkedSection, ChatSection, LinkSection, ExecSection, StartSection, RecordSection, BindSection,
           UndrivenSection, DriveSection, Follows, KeepsTables
  <1>2. DOMAIN Try(a) = TryFields /\ a \in DOMAIN tries
    BY DEF KeyedTypes, Try
  <1>3. ASSUME NEW n, GoesOn(a, n) PROVE Replayed(a)
    <2>1. EndsThen(SubSeq(Try(a).todo, 2 + n, Len(Try(a).todo))) \in {"ok", "then"}
      BY DEF EndsThen
    <2> QED BY <1>1, <1>2, <1>3, <2>1 DEF GoesOn, Replayed, Moves1, TryFields, Try
  <1>4. CommandAt(a, "failed") => Replayed(a)
    BY <1>1, <1>2 DEF CommandAt, Replayed, Moves1, TryFields, Try
  <1>5. ASSUME NEW r, NEW todo, tries' = [tries EXCEPT ![a].run = r, ![a].todo = todo] PROVE Replayed(a)
    BY <1>1, <1>2, <1>5 DEF Replayed, Moves1, TryFields, Try
  <1> USE <1>3, <1>4, <1>5
  <1> QED BY <1>1 DEF ReplayStep, LinkedSection, ChatSection, LinkSection, ExecSection, StartSection, RecordSection,
                     BindSection, UndrivenSection, DriveSection

\* An error of the file does to a section what its own failures do.
LEMMA BreakMoves ==
    ASSUME KeyedTypes, NEW a \in SentCommands, SectionBreaks(a)
    PROVE  (Worked(a) \/ Replayed(a)) /\ UNCHANGED <<script, claims>>
  <1>1. UNCHANGED <<script, claims>>
    BY DEF SectionBreaks
  <1>2. DOMAIN Try(a) = TryFields /\ a \in DOMAIN tries
    BY DEF KeyedTypes, Try
  <1>3. CASE Try(a).at = "work" /\ Fails(a)
    BY <1>1, <1>3, FailsMoves
  <1>4. CASE Try(a).at = "then" /\ CommandAt(a, "failed")
    BY <1>1, <1>2, <1>4 DEF CommandAt, Replayed, Moves1, TryFields, Try
  <1>5. CASE Try(a).at = "then" /\ GoesOn(a, 0)
    <2>1. EndsThen(SubSeq(Try(a).todo, 2, Len(Try(a).todo))) \in {"ok", "then"}
      BY DEF EndsThen
    <2>2. 2 + 0 = 2
      OBVIOUS
    <2> QED BY <1>1, <1>2, <1>5, <2>1, <2>2 DEF GoesOn, Replayed, Moves1, TryFields, Try
  <1> QED BY <1>3, <1>4, <1>5 DEF SectionBreaks, Follows

\* The others stay where they are.
LEMMA OthersStay ==
    ASSUME KeyedTypes, NEW a \in SentCommands, Moves1(a), UNCHANGED script
    PROVE  /\ DOMAIN tries' = SentCommands /\ SentCommands' = SentCommands
           /\ \A b \in SentCommands : CommandOf(b)' = CommandOf(b) /\ KeyOf(b)' = KeyOf(b) /\ DOMAIN tries'[b] = TryFields
           /\ \A b \in SentCommands \ {a} : Try(b)' = Try(b)
           /\ Try(a)' = tries'[a]
  BY DEF KeyedTypes, Moves1, SentCommands, CommandOf, KeyOf, Try

\* One command went on, and the keys of the others are theirs as before.
KeysFollow(a) ==
    /\ Moves1(a) /\ UNCHANGED script /\ tries'[a].at # "idle"
    /\ \A k \in DOMAIN claims' : DOMAIN claims'[k] = {"input", "done", "answer"} /\ claims'[k].done \in BOOLEAN
    /\ \A b \in SentCommands \ {a} :
          /\ Holding(b) => HoldsPending(b)'
          /\ IsSettled(b) => IsSettled(b)'
          /\ Staked(b) => KeyOf(b) \in DOMAIN claims'
    /\ Holding(a)' => HoldsPending(a)'
    /\ IsAnswered(a)' => IsSettled(a)'
    /\ Staked(a)' => KeyOf(a) \in DOMAIN claims'
    /\ Staked(a)' \/ Holding(a)' =>
          \A b \in SentCommands \ {a} : KeyOf(b) = KeyOf(a) => ~Holding(b) /\ ~Staked(b)
LEMMA KeysKept ==
    ASSUME KeyedTypes, KeysInv, NEW a \in SentCommands, KeysFollow(a)
    PROVE  KeyedTypes' /\ KeysInv'
  <1>1. /\ DOMAIN tries' = SentCommands /\ SentCommands' = SentCommands /\ UNCHANGED script
        /\ \A b \in SentCommands : CommandOf(b)' = CommandOf(b) /\ KeyOf(b)' = KeyOf(b) /\ DOMAIN tries'[b] = TryFields
        /\ \A b \in SentCommands \ {a} : Try(b)' = Try(b)
        /\ Try(a)' = tries'[a]
    BY OthersStay DEF KeysFollow
  <1>2. KeyedTypes'
    BY <1>1 DEF KeyedTypes, KeysFollow
  <1>3. \A b \in SentCommands \ {a} :
           Holding(b)' = Holding(b) /\ IsAnswered(b)' = IsAnswered(b) /\ Staked(b)' = Staked(b)
    BY <1>1 DEF Holding, IsAnswered, Staked, NoAnswer, BlankRow
  <1>4. Try(a)'.at # "idle"
    BY <1>1 DEF KeysFollow
  <1>5. \A b \in SentCommands : Try(b)'.at = "idle" => Try(b)'.writes = 0 /\ Try(b)'.answer = NoAnswer'
    BY <1>1, <1>4 DEF KeysInv, NoAnswer, BlankRow
  <1>6. \A b \in SentCommands : Holding(b)' => HoldsPending(b)'
    BY <1>1, <1>3 DEF KeysFollow
  <1>7. \A b \in SentCommands : IsAnswered(b)' => IsSettled(b)'
    BY <1>1, <1>3 DEF KeysInv, KeysFollow
  <1>8. \A b \in SentCommands : Staked(b)' => KeyOf(b)' \in DOMAIN claims'
    BY <1>1, <1>3 DEF KeysFollow
  <1>9. \A b, c \in SentCommands : b # c /\ KeyOf(b)' = KeyOf(c)' =>
           /\ Holding(b)' => ~Holding(c)' /\ ~Staked(c)'
           /\ ~(Staked(b)' /\ Staked(c)')
    BY <1>1, <1>3 DEF KeysInv, KeysFollow
  <1>10. KeysInv'
    BY <1>1, <1>5, <1>6, <1>7, <1>8, <1>9 DEF KeysInv
  <1> QED BY <1>2, <1>10

\* A step of one command that leaves the claims alone leaves its rivals' alone.
LEMMA RivalsKeep ==
    ASSUME KeyedTypes, KeysInv, NEW a \in SentCommands, Moves1(a), UNCHANGED script,
           NEW b \in SentCommands \ {a},
           KeyOf(b) \in DOMAIN claims => KeyOf(b) \in DOMAIN claims' /\ claims'[KeyOf(b)] = ClaimOf(b)
    PROVE  /\ Holding(b) => HoldsPending(b)'
           /\ IsSettled(b) => IsSettled(b)'
           /\ Staked(b) => KeyOf(b) \in DOMAIN claims'
  <1>1. CommandOf(b)' = CommandOf(b) /\ KeyOf(b)' = KeyOf(b) /\ Try(b)' = Try(b)
    BY OthersStay
  <1>2. KeyOf(b) \in DOMAIN claims => ClaimOf(b)' = ClaimOf(b)
    BY <1>1 DEF ClaimOf
  <1>3. HoldsPending(b) => HoldsPending(b)'
    BY <1>1, <1>2 DEF HoldsPending, NoAnswer, BlankRow
  <1>4. IsSettled(b) => IsSettled(b)'
    BY <1>1, <1>2 DEF IsSettled
  <1> QED BY <1>3, <1>4 DEF KeysInv

\* Steps that leave the keys alone keep what is known of them.
LEMMA MovesKeepKeys ==
    ASSUME KeyedTypes, KeysInv, NEW a \in SentCommands, Worked(a) \/ Replayed(a), UNCHANGED <<script, claims>>
    PROVE  KeyedTypes' /\ KeysInv'
  <1>1. Moves1(a) /\ UNCHANGED script /\ tries'[a].at # "idle"
    BY DEF Worked, Replayed
  <1>2. Try(a)' = tries'[a] /\ CommandOf(a)' = CommandOf(a) /\ KeyOf(a)' = KeyOf(a) /\ ClaimOf(a)' = ClaimOf(a)
    BY <1>1, OthersStay DEF ClaimOf
  <1>3. tries'[a].answer = Try(a).answer /\ NoAnswer' = NoAnswer
    BY DEF Worked, Replayed, NoAnswer, BlankRow
  <1>4. /\ Holding(a)' => Holding(a)
        /\ IsAnswered(a)' => IsAnswered(a)
    BY <1>2 DEF Holding, IsAnswered, Worked, Replayed
  <1>5. Staked(a)' => Staked(a) \/ Holding(a)
    <2>1. CASE Worked(a)
      BY <2>1 DEF Holding, Worked
    <2>2. CASE Replayed(a)
      BY <1>2, <1>3, <2>2 DEF Staked, Replayed
    <2> QED BY <2>1, <2>2
  <1>6. (HoldsPending(a) => HoldsPending(a)') /\ (IsSettled(a) => IsSettled(a)')
    BY <1>2, <1>3 DEF HoldsPending, IsSettled
  <1>7. \A b \in SentCommands \ {a} :
           /\ Holding(b) => HoldsPending(b)'
           /\ IsSettled(b) => IsSettled(b)'
           /\ Staked(b) => KeyOf(b) \in DOMAIN claims'
    BY <1>1, RivalsKeep DEF ClaimOf
  <1>8. \A k \in DOMAIN claims' : DOMAIN claims'[k] = {"input", "done", "answer"} /\ claims'[k].done \in BOOLEAN
    BY DEF KeyedTypes
  <1>9. /\ Holding(a)' => HoldsPending(a)'
        /\ IsAnswered(a)' => IsSettled(a)'
        /\ Staked(a)' => KeyOf(a) \in DOMAIN claims'
    BY <1>4, <1>5, <1>6 DEF KeysInv, HoldsPending
  <1>10. Staked(a)' \/ Holding(a)' => \A b \in SentCommands \ {a} : KeyOf(b) = KeyOf(a) => ~Holding(b) /\ ~Staked(b)
    BY <1>4, <1>5 DEF KeysInv
  <1>11. KeysFollow(a)
    BY <1>1, <1>7, <1>8, <1>9, <1>10 DEF KeysFollow
  <1> QED BY <1>11, KeysKept

\* Taking a key, and what is answered from it.
LEMMA ReserveKeeps ==
    ASSUME KeyedTypes, KeysInv, NEW a \in SentCommands, ReserveKey(a)
    PROVE  KeyedTypes' /\ KeysInv'
  <1>1. Try(a).at = "idle" /\ UNCHANGED script /\ DOMAIN Try(a) = TryFields /\ a \in DOMAIN tries
    BY DEF ReserveKey, KeyedTypes, Try
  <1>2. Try(a).writes = 0 /\ Try(a).answer = NoAnswer /\ NoAnswer' = NoAnswer
    BY <1>1 DEF KeysInv, NoAnswer, BlankRow
  <1>3. CASE /\ KeyOf(a) \notin DOMAIN claims
             /\ claims' = [k \in DOMAIN claims \cup {KeyOf(a)} |->
                             IF k = KeyOf(a) THEN [input |-> CommandOf(a).action, done |-> FALSE, answer |-> NoAnswer] ELSE claims[k]]
             /\ tries' = [tries EXCEPT ![a].at = "work", ![a].todo = CommandOf(a).action]
    <2>1. Moves1(a) /\ tries'[a].at = "work" /\ tries'[a].answer = NoAnswer /\ tries'[a].writes = 0
      BY <1>1, <1>2, <1>3 DEF Moves1, TryFields, Try
    <2>2. Try(a)' = tries'[a] /\ CommandOf(a)' = CommandOf(a) /\ KeyOf(a)' = KeyOf(a)
      BY <1>1, <2>1, OthersStay
    <2>3. /\ DOMAIN claims' = DOMAIN claims \cup {KeyOf(a)}
          /\ \A k \in DOMAIN claims : claims'[k] = claims[k]
          /\ claims'[KeyOf(a)] = [input |-> CommandOf(a).action, done |-> FALSE, answer |-> NoAnswer]
      BY <1>3
    <2>4. \A k \in DOMAIN claims' : DOMAIN claims'[k] = {"input", "done", "answer"} /\ claims'[k].done \in BOOLEAN
      <3>1. DOMAIN claims'[KeyOf(a)] = {"input", "done", "answer"} /\ claims'[KeyOf(a)].done \in BOOLEAN
        BY <2>3
      <3>2. \A k \in DOMAIN claims : DOMAIN claims'[k] = {"input", "done", "answer"} /\ claims'[k].done \in BOOLEAN
        BY <2>3 DEF KeyedTypes
      <3> QED BY <2>3, <3>1, <3>2
    <2>5. \A b \in SentCommands \ {a} :
             /\ Holding(b) => HoldsPending(b)'
             /\ IsSettled(b) => IsSettled(b)'
             /\ Staked(b) => KeyOf(b) \in DOMAIN claims'
      BY <1>1, <2>1, <2>3, RivalsKeep DEF ClaimOf
    <2>6. ~Staked(a)' /\ ~IsAnswered(a)' /\ HoldsPending(a)'
      BY <1>2, <2>1, <2>2, <2>3 DEF Staked, IsAnswered, HoldsPending, ClaimOf
    <2>7. \A b \in SentCommands \ {a} : KeyOf(b) = KeyOf(a) => ~Holding(b) /\ ~Staked(b)
      BY <1>3 DEF KeysInv, HoldsPending
    <2>8. KeysFollow(a)
      BY <1>1, <2>1, <2>4, <2>5, <2>6, <2>7 DEF KeysFollow
    <2> QED BY <2>8, KeysKept
  <1>4. CASE UNCHANGED claims /\ KeyOf(a) \in DOMAIN claims /\ ClaimOf(a).input = CommandOf(a).action /\ ClaimOf(a).done
             /\ IsGiven(a, ClaimOf(a).answer)
    <2>1. Moves1(a) /\ tries'[a].at \in {"ok", "then"} /\ tries'[a].answer = ClaimOf(a).answer /\ tries'[a].writes = 0
      <3> DEFINE at == IF CommandOf(a).then = <<>> THEN "ok" ELSE "then"
      <3>1. at \in {"ok", "then"}
        OBVIOUS
      <3>2. tries' = [tries EXCEPT ![a].answer = ClaimOf(a).answer, ![a].made = ClaimOf(a).answer.made,
                                   ![a].todo = CommandOf(a).then, ![a].at = at]
        BY <1>4 DEF IsGiven
      <3> HIDE DEF at
      <3> QED BY <1>1, <1>2, <3>1, <3>2 DEF Moves1, TryFields, Try
    <2>2. Try(a)' = tries'[a] /\ CommandOf(a)' = CommandOf(a) /\ KeyOf(a)' = KeyOf(a)
      BY <1>1, <2>1, OthersStay
    <2>4. \A k \in DOMAIN claims' : DOMAIN claims'[k] = {"input", "done", "answer"} /\ claims'[k].done \in BOOLEAN
      BY <1>4 DEF KeyedTypes
    <2>5. \A b \in SentCommands \ {a} :
             /\ Holding(b) => HoldsPending(b)'
             /\ IsSettled(b) => IsSettled(b)'
             /\ Staked(b) => KeyOf(b) \in DOMAIN claims'
      BY <1>1, <1>4, <2>1, RivalsKeep DEF ClaimOf
    <2>6. ~Staked(a)' /\ ~Holding(a)' /\ IsSettled(a)' /\ tries'[a].at # "idle"
      BY <1>4, <2>1, <2>2 DEF Staked, Holding, IsSettled, ClaimOf
    <2>7. KeysFollow(a)
      BY <1>1, <2>1, <2>4, <2>5, <2>6 DEF KeysFollow
    <2> QED BY <2>7, KeysKept
  <1>5. CASE UNCHANGED claims /\ CommandAt(a, "refused")
    <2>1. Moves1(a) /\ tries'[a].at = "refused" /\ tries'[a].writes = 0
      BY <1>1, <1>2, <1>5 DEF Moves1, TryFields, Try, CommandAt
    <2>2. Try(a)' = tries'[a]
      BY <1>1, <2>1, OthersStay
    <2>4. \A k \in DOMAIN claims' : DOMAIN claims'[k] = {"input", "done", "answer"} /\ claims'[k].done \in BOOLEAN
      BY <1>5 DEF KeyedTypes
    <2>5. \A b \in SentCommands \ {a} :
             /\ Holding(b) => HoldsPending(b)'
             /\ IsSettled(b) => IsSettled(b)'
             /\ Staked(b) => KeyOf(b) \in DOMAIN claims'
      BY <1>1, <1>5, <2>1, RivalsKeep DEF ClaimOf
    <2>6. ~Staked(a)' /\ ~Holding(a)' /\ ~IsAnswered(a)' /\ tries'[a].at # "idle"
      BY <2>1, <2>2 DEF Staked, Holding, IsAnswered
    <2>7. KeysFollow(a)
      BY <1>1, <2>1, <2>4, <2>5, <2>6 DEF KeysFollow
    <2> QED BY <2>7, KeysKept
  <1> QED BY <1>3, <1>4, <1>5 DEF ReserveKey, ClaimOf

\* Storing the answer, or losing track of it.
LEMMA CompleteKeeps ==
    ASSUME KeyedTypes, KeysInv, NEW a \in SentCommands, CompleteKey(a)
    PROVE  KeyedTypes' /\ KeysInv'
  <1> DEFINE answer == [made |-> Try(a).made, row |-> Try(a).seen, count |-> Try(a).count]
  <1>1. Try(a).at = "work" /\ UNCHANGED script /\ DOMAIN Try(a) = TryFields /\ a \in DOMAIN tries
    BY DEF CompleteKey, KeyedTypes, Try
  <1>2. /\ Holding(a) /\ HoldsPending(a)
        /\ \A b \in SentCommands \ {a} : KeyOf(b) = KeyOf(a) => ~Holding(b) /\ ~Staked(b)
    BY <1>1 DEF Holding, KeysInv
  <1>3. CASE claims' = [claims EXCEPT ![KeyOf(a)].done = TRUE, ![KeyOf(a)].answer = answer] /\ IsGiven(a, answer)
    <2>1. Moves1(a) /\ tries'[a].at \in {"ok", "then"} /\ tries'[a].answer = answer
      <3> DEFINE at == IF CommandOf(a).then = <<>> THEN "ok" ELSE "then"
      <3>1. at \in {"ok", "then"}
        OBVIOUS
      <3>2. tries' = [tries EXCEPT ![a].answer = answer, ![a].made = answer.made,
                                   ![a].todo = CommandOf(a).then, ![a].at = at]
        BY <1>3 DEF IsGiven
      <3> HIDE DEF at, answer
      <3> QED BY <1>1, <3>1, <3>2 DEF Moves1, TryFields, Try
    <2>2. Try(a)' = tries'[a] /\ CommandOf(a)' = CommandOf(a) /\ KeyOf(a)' = KeyOf(a)
      BY <1>1, <2>1, OthersStay
    <2> HIDE DEF answer
    <2>3. /\ DOMAIN claims' = DOMAIN claims
          /\ \A k \in DOMAIN claims : k # KeyOf(a) => claims'[k] = claims[k]
          /\ DOMAIN claims'[KeyOf(a)] = {"input", "done", "answer"}
          /\ claims'[KeyOf(a)].done = TRUE /\ claims'[KeyOf(a)].answer = answer
          /\ claims'[KeyOf(a)].input = ClaimOf(a).input
      BY <1>2, <1>3 DEF HoldsPending, ClaimOf, KeyedTypes
    <2>4. \A k \in DOMAIN claims' : DOMAIN claims'[k] = {"input", "done", "answer"} /\ claims'[k].done \in BOOLEAN
      BY <2>3 DEF KeyedTypes
    <2>5. \A b \in SentCommands \ {a} :
             /\ Holding(b) => HoldsPending(b)'
             /\ IsSettled(b) => IsSettled(b)'
             /\ Staked(b) => KeyOf(b) \in DOMAIN claims'
      <3> SUFFICES ASSUME NEW b \in SentCommands \ {a}
                   PROVE  /\ Holding(b) => HoldsPending(b)'
                          /\ IsSettled(b) => IsSettled(b)'
                          /\ Staked(b) => KeyOf(b) \in DOMAIN claims'
        OBVIOUS
      <3>1. CASE KeyOf(b) # KeyOf(a)
        BY <1>1, <2>1, <2>3, <3>1, RivalsKeep DEF ClaimOf
      <3>2. CASE KeyOf(b) = KeyOf(a)
        BY <1>2, <3>2 DEF IsSettled, HoldsPending, ClaimOf
      <3> QED BY <3>1, <3>2
    <2>6. ~Holding(a)' /\ IsSettled(a)' /\ tries'[a].at # "idle" /\ KeyOf(a) \in DOMAIN claims'
      BY <1>2, <2>1, <2>2, <2>3 DEF Holding, IsSettled, HoldsPending, ClaimOf
    <2>7. KeysFollow(a)
      BY <1>1, <1>2, <2>1, <2>4, <2>5, <2>6 DEF KeysFollow
    <2> QED BY <2>7, KeysKept
  <1>4. CASE CommandAt(a, "unknown") /\ UNCHANGED claims
    <2>1. Moves1(a) /\ tries'[a].at = "unknown"
      BY <1>1, <1>4 DEF Moves1, TryFields, Try, CommandAt
    <2>2. Try(a)' = tries'[a]
      BY <1>1, <2>1, OthersStay
    <2>4. \A k \in DOMAIN claims' : DOMAIN claims'[k] = {"input", "done", "answer"} /\ claims'[k].done \in BOOLEAN
      BY <1>4 DEF KeyedTypes
    <2>5. \A b \in SentCommands \ {a} :
             /\ Holding(b) => HoldsPending(b)'
             /\ IsSettled(b) => IsSettled(b)'
             /\ Staked(b) => KeyOf(b) \in DOMAIN claims'
      BY <1>1, <1>4, <2>1, RivalsKeep DEF ClaimOf
    <2>6. ~Holding(a)' /\ ~IsAnswered(a)' /\ tries'[a].at # "idle" /\ KeyOf(a) \in DOMAIN claims'
      BY <1>2, <1>4, <2>1, <2>2 DEF Holding, IsAnswered, HoldsPending
    <2>7. KeysFollow(a)
      BY <1>1, <1>2, <2>1, <2>4, <2>5, <2>6 DEF KeysFollow
    <2> QED BY <2>7, KeysKept
  <1> QED BY <1>3, <1>4 DEF CompleteKey

\* Giving the key back after an error.
LEMMA ReleaseKeeps ==
    ASSUME KeyedTypes, KeysInv, NEW a \in SentCommands, ReleaseKey(a)
    PROVE  KeyedTypes' /\ KeysInv'
  <1>1. Try(a).at = "failing" /\ UNCHANGED script /\ DOMAIN Try(a) = TryFields /\ a \in DOMAIN tries
    BY DEF ReleaseKey, KeyedTypes, Try
  <1>2. /\ Holding(a) /\ HoldsPending(a)
        /\ \A b \in SentCommands \ {a} : KeyOf(b) = KeyOf(a) => ~Holding(b) /\ ~Staked(b)
    BY <1>1 DEF Holding, KeysInv
  <1>3. Moves1(a) /\ tries'[a].at = "failed" /\ tries'[a].answer = NoAnswer
    BY <1>1, <1>2 DEF Moves1, TryFields, Try, CommandAt, ReleaseKey, HoldsPending
  <1>4. Try(a)' = tries'[a] /\ NoAnswer' = NoAnswer
    BY <1>1, <1>3, OthersStay DEF NoAnswer, BlankRow
  <1>5. \A k \in DOMAIN claims : k # KeyOf(a) => k \in DOMAIN claims' /\ claims'[k] = claims[k]
    BY DEF ReleaseKey, Forgets
  <1>6. \A k \in DOMAIN claims' : k \in DOMAIN claims /\ claims'[k] = claims[k]
    BY DEF ReleaseKey, Forgets
  <1>7. \A k \in DOMAIN claims' : DOMAIN claims'[k] = {"input", "done", "answer"} /\ claims'[k].done \in BOOLEAN
    BY <1>6 DEF KeyedTypes
  <1>8. \A b \in SentCommands \ {a} :
           /\ Holding(b) => HoldsPending(b)'
           /\ IsSettled(b) => IsSettled(b)'
           /\ Staked(b) => KeyOf(b) \in DOMAIN claims'
    <2> SUFFICES ASSUME NEW b \in SentCommands \ {a}
                 PROVE  /\ Holding(b) => HoldsPending(b)'
                        /\ IsSettled(b) => IsSettled(b)'
                        /\ Staked(b) => KeyOf(b) \in DOMAIN claims'
      OBVIOUS
    <2>1. CASE KeyOf(b) # KeyOf(a)
      BY <1>1, <1>3, <1>5, <2>1, RivalsKeep DEF ClaimOf
    <2>2. CASE KeyOf(b) = KeyOf(a)
      BY <1>2, <2>2 DEF IsSettled, HoldsPending, ClaimOf
    <2> QED BY <2>1, <2>2
  <1>9. ~Holding(a)' /\ ~IsAnswered(a)' /\ ~Staked(a)' /\ tries'[a].at # "idle"
    BY <1>3, <1>4 DEF Holding, IsAnswered, Staked
  <1>10. KeysFollow(a)
    BY <1>1, <1>3, <1>7, <1>8, <1>9 DEF KeysFollow
  <1> QED BY <1>10, KeysKept

\* The process dies: nothing is held any more, and no key is given back.
LEMMA KeyedCrashMoves ==
    ASSUME KeyedTypes, KeyedCrash
    PROVE  /\ SentCommands' = SentCommands /\ DOMAIN tries' = SentCommands /\ UNCHANGED <<script, tables, claims, execRuns>>
           /\ \A a \in SentCommands :
                 /\ DOMAIN tries'[a] = TryFields /\ KeyOf(a)' = KeyOf(a) /\ CommandOf(a)' = CommandOf(a) /\ Try(a)' = tries'[a]
                 /\ IF Try(a).at \in {"work", "failing", "then"} THEN tries'[a].at = "gone"
                    ELSE tries'[a].at = Try(a).at /\ (tries'[a].at = "idle" \/ tries'[a].before)
                 /\ \A f \in TryFields \ {"at", "before"} : tries'[a][f] = Try(a)[f]
  <1>1. UNCHANGED <<script, tables, claims, execRuns>> /\ SentCommands' = SentCommands
    BY DEF KeyedCrash, SentCommands
  <1>2. tries' = [a \in SentCommands |-> IF Try(a).at \in {"work", "failing", "then"} THEN [Try(a) EXCEPT !.at = "gone"]
                                 ELSE [Try(a) EXCEPT !.before = (@ \/ Try(a).at # "idle")]]
    BY DEF KeyedCrash
  <1>3. ASSUME NEW a \in SentCommands
        PROVE  /\ DOMAIN tries'[a] = TryFields /\ KeyOf(a)' = KeyOf(a) /\ CommandOf(a)' = CommandOf(a) /\ Try(a)' = tries'[a]
               /\ IF Try(a).at \in {"work", "failing", "then"} THEN tries'[a].at = "gone"
                  ELSE tries'[a].at = Try(a).at /\ (tries'[a].at = "idle" \/ tries'[a].before)
               /\ \A f \in TryFields \ {"at", "before"} : tries'[a][f] = Try(a)[f]
    <2>1. DOMAIN Try(a) = TryFields
      BY DEF KeyedTypes, Try
    <2>2. CASE Try(a).at \in {"work", "failing", "then"}
      <3>1. tries'[a] = [Try(a) EXCEPT !.at = "gone"]
        BY <1>2, <2>2
      <3> QED BY <1>1, <2>1, <2>2, <3>1 DEF TryFields, KeyOf, CommandOf, Try
    <2>3. CASE ~(Try(a).at \in {"work", "failing", "then"})
      <3>1. tries'[a] = [Try(a) EXCEPT !.before = (@ \/ Try(a).at # "idle")]
        BY <1>2, <2>3
      <3> QED BY <1>1, <2>1, <2>3, <3>1 DEF TryFields, KeyOf, CommandOf, Try
    <2> QED BY <2>2, <2>3
  <1> QED BY <1>1, <1>2, <1>3

LEMMA KeyedCrashKeeps ==
    ASSUME KeyedTypes, KeysInv, KeyedCrash
    PROVE  KeyedTypes' /\ KeysInv'
  <1>1. /\ SentCommands' = SentCommands /\ DOMAIN tries' = SentCommands /\ UNCHANGED <<script, claims>>
        /\ \A a \in SentCommands :
              /\ DOMAIN tries'[a] = TryFields /\ KeyOf(a)' = KeyOf(a) /\ CommandOf(a)' = CommandOf(a) /\ Try(a)' = tries'[a]
              /\ IF Try(a).at \in {"work", "failing", "then"} THEN tries'[a].at = "gone" ELSE tries'[a].at = Try(a).at
              /\ tries'[a].answer = Try(a).answer /\ tries'[a].writes = Try(a).writes
    BY KeyedCrashMoves DEF TryFields
  <1>2. KeyedTypes'
    BY <1>1 DEF KeyedTypes
  <1>3. NoAnswer' = NoAnswer
    BY DEF NoAnswer, BlankRow
  <1>4. \A a \in SentCommands :
           /\ ~Holding(a)' /\ (IsAnswered(a)' => IsAnswered(a)) /\ (Staked(a)' => Staked(a) \/ Holding(a))
           /\ IsSettled(a) => IsSettled(a)'
           /\ tries'[a].at = "idle" => Try(a).at = "idle"
    <2> SUFFICES ASSUME NEW a \in SentCommands
                 PROVE  /\ ~Holding(a)' /\ (IsAnswered(a)' => IsAnswered(a)) /\ (Staked(a)' => Staked(a) \/ Holding(a))
                        /\ IsSettled(a) => IsSettled(a)'
                        /\ tries'[a].at = "idle" => Try(a).at = "idle"
      OBVIOUS
    <2>1. CASE Try(a).at \in {"work", "failing", "then"}
      <3>1. tries'[a].at = "gone"
        BY <1>1, <2>1
      <3>2. Staked(a)' => Staked(a) \/ Holding(a)
        BY <1>1, <1>3, <2>1 DEF Staked, Holding
      <3> QED BY <1>1, <3>1, <3>2 DEF Holding, IsAnswered, IsSettled, ClaimOf
    <2>2. CASE ~(Try(a).at \in {"work", "failing", "then"})
      <3>1. tries'[a].at = Try(a).at
        BY <1>1, <2>2
      <3> QED BY <1>1, <1>3, <2>2, <3>1 DEF Holding, IsAnswered, Staked, IsSettled, ClaimOf
    <2> QED BY <2>1, <2>2
  <1>5. \A a \in SentCommands : Try(a)'.at = "idle" => Try(a)'.writes = 0 /\ Try(a)'.answer = NoAnswer'
    BY <1>1, <1>3, <1>4 DEF KeysInv
  <1>6. \A a \in SentCommands : IsAnswered(a)' => IsSettled(a)'
    BY <1>4 DEF KeysInv
  <1>7. \A a \in SentCommands : Staked(a)' => KeyOf(a)' \in DOMAIN claims'
    BY <1>1, <1>4 DEF KeysInv, HoldsPending
  <1>8. \A a, b \in SentCommands : a # b /\ KeyOf(a)' = KeyOf(b)' => ~(Staked(a)' /\ Staked(b)')
    BY <1>1, <1>4 DEF KeysInv
  <1>9. KeysInv'
    BY <1>1, <1>4, <1>5, <1>6, <1>7, <1>8 DEF KeysInv
  <1> QED BY <1>2, <1>9

-----------------------------------------------------------------------------
(* Sets of rows *)

\* Of finitely many things one is the least, by any measure.
LEMMA LeastOf ==
    ASSUME NEW S, IsFiniteSet(S), S # {}, NEW f \in [S -> Int]
    PROVE  \E x \in S : \A y \in S : f[x] <= f[y]
  <1> DEFINE HasLeast(T) == \E x \in T : \A y \in T : f[x] <= f[y]
             Bad == {T \in SUBSET S : T # {} /\ ~HasLeast(T)}
  <1>1. SUFFICES ASSUME Bad # {} PROVE FALSE
    <2>1. S \notin Bad
      BY <1>1
    <2> QED BY <2>1
  <1>2. Bad \subseteq FiniteSubsetsOf(S)
    BY FS_Subset DEF FiniteSubsetsOf
  <1>3. \E T \in Bad : \A U \in Bad : ~(<<U, T>> \in StrictSubsetOrdering(S))
    <2> HIDE DEF Bad
    <2> QED BY <1>1, <1>2, FS_StrictSubsetOrderingWellFounded, WFMin, Zenon
  <1>4. PICK T \in Bad : \A U \in Bad : ~(<<U, T>> \in StrictSubsetOrdering(S))
    BY <1>3
  <1>5. PICK x \in T : TRUE
    OBVIOUS
  <1> DEFINE U == T \ {x}
  <1>6. T \in SUBSET S /\ ~HasLeast(T) /\ U \in SUBSET S
    OBVIOUS
  <1>7. <<U, T>> \in StrictSubsetOrdering(S)
    BY <1>6 DEF StrictSubsetOrdering
  <1>8. U = {} \/ HasLeast(U)
    BY <1>4, <1>6, <1>7
  <1>9. CASE U = {}
    <2>1. \A y \in T : y = x
      BY <1>9
    <2>2. f[x] \in Int
      BY <1>6
    <2> QED BY <1>5, <1>6, <2>1, <2>2
  <1>10. CASE HasLeast(U)
    <2>1. PICK z \in U : \A y \in U : f[z] <= f[y]
      BY <1>10
    <2>2. \A y \in T : f[y] \in Int /\ (y = x \/ y \in U)
      BY <1>6
    <2>3. x \in T /\ z \in T /\ f[x] \in Int /\ f[z] \in Int
      BY <1>5, <2>1, <2>2
    <2>4. CASE f[x] <= f[z]
      <3>1. \A y \in T : f[x] <= f[y]
        BY <2>1, <2>2, <2>3, <2>4
      <3> QED BY <1>5, <1>6, <3>1
    <2>5. CASE f[z] <= f[x]
      <3>1. \A y \in T : f[z] <= f[y]
        BY <2>1, <2>2, <2>3, <2>5
      <3> QED BY <1>6, <2>3, <3>1
    <2> QED BY <2>3, <2>4, <2>5
  <1> QED BY <1>8, <1>9, <1>10

\* Of things with different measures, k have fewer than k below them.
Below(S, f, n) == {m \in S : f[m] < f[n]}
LowestOf(S, f, k) == {n \in S : Cardinality(Below(S, f, n)) < k}
LEMMA LowestCounted ==
    ASSUME NEW S, IsFiniteSet(S), NEW f \in [S -> Int], \A m, n \in S : m # n => f[m] # f[n],
           NEW k \in 0..Cardinality(S)
    PROVE  Cardinality(LowestOf(S, f, k)) = k
  <1> DEFINE Bad == {j \in 0..Cardinality(S) : Cardinality(LowestOf(S, f, j)) # j}
             less == {p \in Nat \X Nat : p[1] < p[2]}
  <1>0. Cardinality(S) \in Nat
    BY FS_CardinalityType
  <1>1. SUFFICES ASSUME Bad # {} PROVE FALSE
    <2>1. k \notin Bad
      BY <1>1
    <2> QED BY <2>1
  <1>2. IsWellFoundedOn(less, Nat)
    <2>1. OpToRel(<, Nat) = less
      BY Zenon DEF OpToRel
    <2> QED BY <2>1, NatLessThanWellFounded, Zenon
  <1>3. \E j \in Bad : \A i \in Bad : ~(<<i, j>> \in less)
    <2>1. Bad \subseteq Nat
      BY <1>0
    <2> HIDE DEF less, Bad
    <2> QED BY <1>1, <1>2, <2>1, WFMin, Zenon
  <1>4. PICK j \in Bad : \A i \in Bad : ~(<<i, j>> \in less)
    BY <1>3
  <1>5. j \in 0..Cardinality(S) /\ Cardinality(LowestOf(S, f, j)) # j
    OBVIOUS
  <1>6. \A n \in S : IsFiniteSet(Below(S, f, n)) /\ Cardinality(Below(S, f, n)) \in Nat
    <2> SUFFICES ASSUME NEW n \in S
                 PROVE  IsFiniteSet(Below(S, f, n)) /\ Cardinality(Below(S, f, n)) \in Nat
      OBVIOUS
    <2>1. Below(S, f, n) \in SUBSET S
      BY DEF Below
    <2> QED BY <2>1, FS_Subset, FS_CardinalityType
  <1>7. j # 0
    <2>1. LowestOf(S, f, 0) = {}
      BY <1>6 DEF LowestOf
    <2> QED BY <1>5, <2>1, FS_EmptySet
  <1> DEFINE i == j - 1
             Low == LowestOf(S, f, i)
  <1>8. i \in Nat /\ i \in 0..Cardinality(S) /\ i < Cardinality(S) /\ i < j /\ j = i + 1 /\ j \in Nat
    BY <1>0, <1>5, <1>7
  <1>9. Cardinality(Low) = i
    <2>1. <<i, j>> \in less
      BY <1>8
    <2>2. i \notin Bad
      BY <1>4, <2>1
    <2> QED BY <1>8, <2>2
  <1>10. Low \in SUBSET S /\ IsFiniteSet(Low) /\ IsFiniteSet(S \ Low)
    <2>1. Low \in SUBSET S /\ S \ Low \in SUBSET S
      BY DEF LowestOf
    <2> QED BY <2>1, FS_Subset
  <1>11. S \ Low # {}
    <2>1. Low # S
      BY <1>0, <1>8, <1>9
    <2> QED BY <1>10, <2>1
  <1> HIDE DEF Bad, less, i
  <1>12. PICK x \in S \ Low : \A y \in S \ Low : f[x] <= f[y]
    <2> DEFINE g == [y \in S \ Low |-> f[y]]
    <2>1. g \in [S \ Low -> Int] /\ \A y \in S \ Low : g[y] = f[y]
      BY <1>10
    <2> HIDE DEF g, Low
    <2>2. \E x \in S \ Low : \A y \in S \ Low : g[x] <= g[y]
      BY <1>10, <1>11, <2>1, LeastOf
    <2> QED BY <2>1, <2>2
  <1>13. x \in S /\ f[x] \in Int /\ \A y \in S : f[y] \in Int
    BY <1>12
  <1>14. Below(S, f, x) = Low
    <2>1. ASSUME NEW y \in Below(S, f, x) PROVE y \in Low
      <3>1. y \in S /\ f[y] < f[x]
        BY DEF Below
      <3> QED BY <1>12, <1>13, <3>1
    <2>2. ASSUME NEW y \in Low PROVE y \in Below(S, f, x)
      <3>1. y \in S /\ Cardinality(Below(S, f, y)) < i
        BY <2>2 DEF LowestOf
      <3>2. y # x
        BY <1>12, <2>2
      <3>3. SUFFICES ASSUME f[x] < f[y] PROVE FALSE
        BY <1>13, <3>1, <3>2 DEF Below
      <3>4. Below(S, f, x) \in SUBSET Below(S, f, y)
        BY <1>13, <3>1, <3>3 DEF Below
      <3>5. Cardinality(Below(S, f, x)) <= Cardinality(Below(S, f, y))
        BY <1>6, <3>1, <3>4, FS_Subset
      <3>6. Cardinality(Below(S, f, x)) < i
        BY <1>6, <1>8, <1>13, <3>1, <3>5
      <3> QED BY <1>12, <1>13, <3>6 DEF LowestOf
    <2> QED BY <2>1, <2>2
  <1>15. x \notin Low /\ IsFiniteSet(Low \cup {x}) /\ Cardinality(Low \cup {x}) = j
    <2>1. x \notin Low
      BY <1>12
    <2> HIDE DEF Low
    <2> QED BY <1>8, <1>9, <1>10, <2>1, FS_AddElement
  <1>16. LowestOf(S, f, j) = Low \cup {x}
    <2>1. ASSUME NEW y \in Low \cup {x} PROVE y \in LowestOf(S, f, j)
      <3>1. y \in S /\ Cardinality(Below(S, f, y)) <= i
        <4>1. CASE y = x
          BY <1>8, <1>9, <1>13, <1>14, <4>1
        <4>2. CASE y \in Low
          <5>1. y \in S /\ Cardinality(Below(S, f, y)) < i
            BY <4>2 DEF LowestOf
          <5> QED BY <1>6, <1>8, <5>1
        <4> QED BY <2>1, <4>1, <4>2
      <3> QED BY <1>6, <1>8, <3>1 DEF LowestOf
    <2>2. ASSUME NEW y \in LowestOf(S, f, j), y \notin Low \cup {x} PROVE FALSE
      <3>1. y \in S /\ Cardinality(Below(S, f, y)) < j /\ y # x /\ y \notin Low
        BY <2>2 DEF LowestOf
      <3>2. f[x] < f[y]
        BY <1>12, <1>13, <3>1
      <3>3. \A z \in Low : f[z] < f[x] /\ z \in S
        BY <1>10, <1>14 DEF Below
      <3>4. Low \cup {x} \in SUBSET Below(S, f, y)
        BY <1>13, <3>1, <3>2, <3>3 DEF Below
      <3>5. Cardinality(Low \cup {x}) <= Cardinality(Below(S, f, y))
        BY <1>6, <3>1, <3>4, FS_Subset
      <3> QED BY <1>6, <1>8, <1>15, <3>1, <3>5
    <2> QED BY <2>1, <2>2
  <1> QED BY <1>5, <1>15, <1>16

\* At most one of finitely many.
LEMMA OneAtMost ==
    ASSUME NEW S, IsFiniteSet(S)
    PROVE  Cardinality(S) <= 1 <=> \A m, n \in S : m = n
  <1>1. Cardinality(S) \in Nat
    BY FS_CardinalityType
  <1>2. ASSUME Cardinality(S) <= 1 PROVE \A m, n \in S : m = n
    <2>1. CASE Cardinality(S) = 0
      BY <2>1, FS_EmptySet
    <2>2. CASE Cardinality(S) = 1
      BY <2>2, FS_Singleton
    <2> QED BY <1>1, <1>2, <2>1, <2>2
  <1>3. ASSUME \A m, n \in S : m = n PROVE Cardinality(S) <= 1
    <2>1. CASE S = {}
      BY <2>1, FS_EmptySet
    <2>2. CASE S # {}
      <3>1. PICK x \in S : S = {x}
        BY <1>3, <2>2
      <3> QED BY <3>1, FS_Singleton
    <2> QED BY <2>1, <2>2
  <1> QED BY <1>2, <1>3

-----------------------------------------------------------------------------
(* What the changes of the tables keep.  `old` and `new` are tables before and after.  *)

RowFields == {"birth", "of", "name", "state"}
TypedRows(tabs) ==
    /\ DOMAIN tabs = KeyedTables
    /\ \A t \in KeyedTables :
          /\ IsFiniteSet(DOMAIN tabs[t]) /\ DOMAIN tabs[t] \subseteq Nat \ {0}
          /\ \A n \in DOMAIN tabs[t] : SoundRow(t, tabs[t][n])
LEMMA SoundIs ==
    ASSUME NEW tabs
    PROVE  SoundRows(tabs) <=> TypedRows(tabs) /\ OneDefaultIn(tabs) /\ FeedsAgreeIn(tabs) /\ NoOrphansIn(tabs)
  BY DEF SoundRows, TypedRows
LEMMA FieldsAre == DOMAIN BlankRow = RowFields
  BY DEF BlankRow, RowFields
LEMMA ParentsAre ==
    /\ ParentTable["message"] = "conversation" /\ ParentTable["run"] = "conversation"
    /\ ParentTable["entry"] = "feed" /\ ParentTable["delivery"] = "hook"
    /\ ChildTable["conversation"] = "message" /\ ChildTable["feed"] = "entry" /\ ChildTable["hook"] = "delivery"
    /\ DOMAIN ChildTable = {"conversation", "feed", "hook"}
  BY DEF ParentTable, ChildTable

\* The entries of a feed are finitely many, and depend on the entries alone.
LEMMA EntriesFinite ==
    ASSUME NEW tabs, TypedRows(tabs), NEW f
    PROVE  IsFiniteSet(EntriesIn(tabs, f)) /\ Cardinality(EntriesIn(tabs, f)) \in Nat /\ EntriesIn(tabs, f) \subseteq DOMAIN tabs["entry"]
  <1>1. EntriesIn(tabs, f) \in SUBSET (DOMAIN tabs["entry"])
    BY DEF EntriesIn
  <1>2. IsFiniteSet(DOMAIN tabs["entry"])
    BY DEF TypedRows, KeyedTables
  <1> QED BY <1>1, <1>2, FS_Subset, FS_CardinalityType

\* One default: no two providers are marked.
LEMMA DefaultIs ==
    ASSUME NEW tabs, TypedRows(tabs)
    PROVE  OneDefaultIn(tabs) <=>
              \A m, n \in DOMAIN tabs["provider"] : tabs["provider"][m].state /\ tabs["provider"][n].state => m = n
  <1>1. DefaultsIn(tabs) \in SUBSET (DOMAIN tabs["provider"]) /\ IsFiniteSet(DOMAIN tabs["provider"])
    BY DEF DefaultsIn, TypedRows, KeyedTables
  <1>2. IsFiniteSet(DefaultsIn(tabs))
    BY <1>1, FS_Subset
  <1>3. OneDefaultIn(tabs) <=> \A m, n \in DefaultsIn(tabs) : m = n
    BY <1>2, OneAtMost DEF OneDefaultIn
  <1> QED BY <1>3 DEF DefaultsIn

\* The next id of a table is new.
LEMMA NewIdIsNew ==
    ASSUME TypedRows(tables), NEW t \in KeyedTables
    PROVE  NewId(t) \in Nat \ {0} /\ NewId(t) \notin RowIds(t)
  <1>1. IsFiniteSet(RowIds(t)) /\ RowIds(t) \subseteq Nat \ {0}
    BY DEF TypedRows, RowIds
  <1>2. CASE RowIds(t) = {}
    BY <1>2 DEF NewId
  <1>3. CASE RowIds(t) # {}
    <2> DEFINE f == [n \in RowIds(t) |-> 0 - n]
    <2>1. f \in [RowIds(t) -> Int] /\ \A n \in RowIds(t) : f[n] = 0 - n
      BY <1>1
    <2> HIDE DEF f
    <2>2. PICK n \in RowIds(t) : \A m \in RowIds(t) : f[n] <= f[m]
      BY <1>1, <1>3, <2>1, LeastOf
    <2>3. \A m \in RowIds(t) : m <= n
      BY <1>1, <2>1, <2>2
    <2> DEFINE top == CHOOSE k \in RowIds(t) : \A m \in RowIds(t) : m <= k
    <2>4. top \in RowIds(t) /\ \A m \in RowIds(t) : m <= top
      BY <2>3
    <2>5. NewId(t) = 1 + top
      BY <1>3 DEF NewId
    <2> HIDE DEF top
    <2>6. 1 + top \notin RowIds(t) /\ 1 + top \in Nat \ {0}
      BY <1>1, <2>4
    <2> QED BY <2>5, <2>6
  <1> QED BY <1>2, <1>3

\* A row is added under a new id.
AddsRow(old, new, t, id, r) ==
    /\ DOMAIN new = KeyedTables /\ \A u \in KeyedTables \ {t} : new[u] = old[u]
    /\ DOMAIN new[t] = DOMAIN old[t] \cup {id} /\ new[t][id] = r
    /\ \A n \in DOMAIN old[t] : new[t][n] = old[t][n]
    /\ id \in Nat \ {0} /\ id \notin DOMAIN old[t] /\ SoundRow(t, r)
LEMMA AddTyped ==
    ASSUME NEW old, NEW new, TypedRows(old), NEW t \in KeyedTables, NEW id, NEW r, AddsRow(old, new, t, id, r)
    PROVE  TypedRows(new)
  <1> SUFFICES ASSUME NEW u \in KeyedTables
               PROVE  /\ IsFiniteSet(DOMAIN new[u]) /\ DOMAIN new[u] \subseteq Nat \ {0}
                      /\ \A n \in DOMAIN new[u] : SoundRow(u, new[u][n])
    BY DEF TypedRows, AddsRow
  <1>1. CASE u # t
    BY <1>1 DEF TypedRows, AddsRow
  <1>2. CASE u = t
    <2>1. IsFiniteSet(DOMAIN old[t] \cup {id})
      BY FS_AddElement DEF TypedRows
    <2> QED BY <1>2, <2>1 DEF TypedRows, AddsRow
  <1> QED BY <1>1, <1>2

LEMMA AddKeeps ==
    ASSUME NEW old, NEW new, SoundRows(old), NEW t \in KeyedTables \ {"entry"}, NEW id, NEW r, AddsRow(old, new, t, id, r),
           t = "provider" => r.state = FALSE,
           t = "feed" => r.state = 0,
           t \in {"message", "delivery"} => r.of \in DOMAIN old[ParentTable[t]]
    PROVE  SoundRows(new)
  <1>1. TypedRows(old) /\ OneDefaultIn(old) /\ FeedsAgreeIn(old) /\ NoOrphansIn(old)
    BY SoundIs
  <1>2. TypedRows(new)
    BY <1>1, AddTyped
  <1>3. OneDefaultIn(new)
    <2>1. CASE t # "provider"
      <3>1. new["provider"] = old["provider"]
        BY <2>1 DEF AddsRow, KeyedTables
      <3> QED BY <1>1, <3>1 DEF OneDefaultIn, DefaultsIn
    <2>2. CASE t = "provider"
      <3>1. \A m \in DOMAIN new["provider"] :
               new["provider"][m].state => m \in DOMAIN old["provider"] /\ old["provider"][m].state
        BY <2>2 DEF AddsRow
      <3> QED BY <1>1, <1>2, <3>1, DefaultIs
    <2> QED BY <2>1, <2>2
  <1>4. FeedsAgreeIn(new)
    <2>1. new["entry"] = old["entry"] /\ \A f : EntriesIn(new, f) = EntriesIn(old, f)
      BY DEF AddsRow, KeyedTables, EntriesIn
    <2>2. ASSUME NEW f \in DOMAIN new["feed"] PROVE new["feed"][f].state = Cardinality(EntriesIn(new, f))
      <3>1. CASE t = "feed" /\ f = id
        <4>1. EntriesIn(old, f) = {}
          <5>1. \A n \in DOMAIN old["entry"] : old["entry"][n].of \in DOMAIN old["feed"]
            BY <1>1, ParentsAre DEF NoOrphansIn
          <5> QED BY <3>1, <5>1 DEF EntriesIn, AddsRow
        <4> QED BY <2>1, <3>1, <4>1, FS_EmptySet DEF AddsRow
      <3>2. CASE f \in DOMAIN old["feed"] /\ new["feed"][f] = old["feed"][f]
        BY <1>1, <2>1, <3>2 DEF FeedsAgreeIn
      <3>3. \/ t = "feed" /\ f = id
            \/ f \in DOMAIN old["feed"] /\ new["feed"][f] = old["feed"][f]
        <4>1. CASE t = "feed"
          BY <2>2, <4>1 DEF AddsRow
        <4>2. CASE t # "feed"
          BY <2>2, <4>2 DEF AddsRow, KeyedTables
        <4> QED BY <4>1, <4>2
      <3> QED BY <3>1, <3>2, <3>3
    <2> QED BY <1>1, <2>1, <2>2 DEF FeedsAgreeIn
  <1>5. NoOrphansIn(new)
    <2> SUFFICES ASSUME NEW u \in {"message", "entry", "delivery"}, NEW n \in DOMAIN new[u]
                 PROVE  new[u][n].of \in DOMAIN new[ParentTable[u]]
      BY DEF NoOrphansIn
    <2>1. u \in KeyedTables /\ ParentTable[u] \in KeyedTables
      BY ParentsAre DEF KeyedTables
    <2>2. DOMAIN old[ParentTable[u]] \subseteq DOMAIN new[ParentTable[u]]
      BY <2>1 DEF AddsRow
    <2>3. CASE u = t /\ n = id
      BY <2>2, <2>3 DEF AddsRow
    <2>4. CASE n \in DOMAIN old[u] /\ new[u][n] = old[u][n]
      BY <1>1, <2>2, <2>4 DEF NoOrphansIn
    <2>5. (u = t /\ n = id) \/ (n \in DOMAIN old[u] /\ new[u][n] = old[u][n])
      BY <2>1 DEF AddsRow
    <2> QED BY <2>3, <2>4, <2>5
  <1> QED BY <1>2, <1>3, <1>4, <1>5, SoundIs

\* Rows get other labels: ids, parents, marks of providers, counts of feeds and the guids of
\* entries stay.
Relabels(old, new) ==
    /\ DOMAIN new = KeyedTables
    /\ \A t \in KeyedTables : DOMAIN new[t] = DOMAIN old[t]
    /\ \A t \in KeyedTables : \A n \in DOMAIN old[t] : DOMAIN new[t][n] = RowFields /\ new[t][n].of = old[t][n].of
    /\ \A n \in DOMAIN old["provider"] : new["provider"][n].state = old["provider"][n].state
    /\ \A n \in DOMAIN old["feed"] : new["feed"][n].state = old["feed"][n].state
    /\ \A n \in DOMAIN old["entry"] : new["entry"][n].name = old["entry"][n].name
LEMMA RelabelKeeps ==
    ASSUME NEW old, NEW new, SoundRows(old), Relabels(old, new)
    PROVE  SoundRows(new)
  <1> USE DEF Relabels
  <1>1. TypedRows(old) /\ OneDefaultIn(old) /\ FeedsAgreeIn(old) /\ NoOrphansIn(old)
    BY SoundIs
  <1>2. TypedRows(new)
    <2> SUFFICES ASSUME NEW t \in KeyedTables
                 PROVE  /\ IsFiniteSet(DOMAIN new[t]) /\ DOMAIN new[t] \subseteq Nat \ {0}
                        /\ \A n \in DOMAIN new[t] : SoundRow(t, new[t][n])
      BY DEF TypedRows
    <2>1. \A n \in DOMAIN old[t] : SoundRow(t, old[t][n])
      BY <1>1 DEF TypedRows
    <2>2. \A n \in DOMAIN new[t] : SoundRow(t, new[t][n])
      BY <2>1, FieldsAre DEF SoundRow
    <2> QED BY <1>1, <2>2 DEF TypedRows
  <1>3. "provider" \in KeyedTables /\ "feed" \in KeyedTables /\ "entry" \in KeyedTables
    BY DEF KeyedTables
  <1>4. OneDefaultIn(new)
    BY <1>1, <1>2, <1>3, DefaultIs
  <1>5. \A f : EntriesIn(new, f) = EntriesIn(old, f)
    BY <1>3 DEF EntriesIn
  <1>6. FeedsAgreeIn(new)
    BY <1>1, <1>3, <1>5 DEF FeedsAgreeIn
  <1>7. NoOrphansIn(new)
    <2>1. \A t \in {"message", "entry", "delivery"} : t \in KeyedTables /\ ParentTable[t] \in KeyedTables
      BY ParentsAre DEF KeyedTables
    <2> QED BY <1>1, <2>1 DEF NoOrphansIn
  <1> QED BY <1>2, <1>4, <1>6, <1>7, SoundIs

\* Only the marks of providers change, and there is one at most.
LEMMA MarkKeeps ==
    ASSUME NEW old, NEW new, SoundRows(old), DOMAIN new = KeyedTables,
           \A t \in KeyedTables \ {"provider"} : new[t] = old[t],
           DOMAIN new["provider"] = DOMAIN old["provider"],
           \A n \in DOMAIN new["provider"] : DOMAIN new["provider"][n] = RowFields /\ new["provider"][n].state \in BOOLEAN,
           \A m, n \in DOMAIN new["provider"] : new["provider"][m].state /\ new["provider"][n].state => m = n
    PROVE  SoundRows(new)
  <1>1. TypedRows(old) /\ OneDefaultIn(old) /\ FeedsAgreeIn(old) /\ NoOrphansIn(old)
    BY SoundIs
  <1>2. TypedRows(new)
    <2> SUFFICES ASSUME NEW t \in KeyedTables
                 PROVE  /\ IsFiniteSet(DOMAIN new[t]) /\ DOMAIN new[t] \subseteq Nat \ {0}
                        /\ \A n \in DOMAIN new[t] : SoundRow(t, new[t][n])
      BY DEF TypedRows
    <2>1. CASE t # "provider"
      BY <1>1, <2>1 DEF TypedRows
    <2>2. CASE t = "provider"
      BY <1>1, <2>2, FieldsAre DEF TypedRows, SoundRow
    <2> QED BY <2>1, <2>2
  <1>3. new["feed"] = old["feed"] /\ new["entry"] = old["entry"]
    BY DEF KeyedTables
  <1>4. FeedsAgreeIn(new)
    BY <1>1, <1>3 DEF FeedsAgreeIn, EntriesIn
  <1>5. NoOrphansIn(new)
    <2>1. \A t \in {"message", "entry", "delivery"} :
             t \in KeyedTables \ {"provider"} /\ ParentTable[t] \in KeyedTables \ {"provider"}
      BY ParentsAre DEF KeyedTables
    <2> QED BY <1>1, <2>1 DEF NoOrphansIn
  <1> QED BY <1>1, <1>2, <1>4, <1>5, DefaultIs, SoundIs

\* A row is deleted, with its children.
DeletesRow(old, new, t, id) ==
    /\ DOMAIN new = KeyedTables
    /\ DOMAIN new[t] = DOMAIN old[t] \ {id}
    /\ \A u \in KeyedTables : \A n \in DOMAIN new[u] : n \in DOMAIN old[u] /\ new[u][n] = old[u][n]
    /\ \A u \in KeyedTables \ {t} :
          DOMAIN new[u] = IF t \in DOMAIN ChildTable /\ u = ChildTable[t]
                          THEN {n \in DOMAIN old[u] : old[u][n].of # id} ELSE DOMAIN old[u]
LEMMA DeleteKeeps ==
    ASSUME NEW old, NEW new, SoundRows(old), NEW t \in {"conversation", "provider", "profile", "feed", "hook"}, NEW id,
           DeletesRow(old, new, t, id)
    PROVE  SoundRows(new)
  <1>1. TypedRows(old) /\ OneDefaultIn(old) /\ FeedsAgreeIn(old) /\ NoOrphansIn(old)
    BY SoundIs
  <1>2. TypedRows(new)
    <2> SUFFICES ASSUME NEW u \in KeyedTables
                 PROVE  /\ IsFiniteSet(DOMAIN new[u]) /\ DOMAIN new[u] \subseteq Nat \ {0}
                        /\ \A n \in DOMAIN new[u] : SoundRow(u, new[u][n])
      BY DEF TypedRows, DeletesRow
    <2>1. DOMAIN new[u] \in SUBSET (DOMAIN old[u]) /\ IsFiniteSet(DOMAIN old[u])
      BY <1>1 DEF TypedRows, DeletesRow
    <2>2. IsFiniteSet(DOMAIN new[u])
      BY <2>1, FS_Subset
    <2> QED BY <1>1, <2>1, <2>2 DEF TypedRows, DeletesRow
  <1>3. OneDefaultIn(new)
    <2>1. \A n \in DOMAIN new["provider"] : n \in DOMAIN old["provider"] /\ new["provider"][n] = old["provider"][n]
      BY DEF DeletesRow, KeyedTables
    <2> QED BY <1>1, <1>2, <2>1, DefaultIs
  <1>4. FeedsAgreeIn(new)
    <2>1. \A n \in DOMAIN new["entry"] : n \in DOMAIN old["entry"] /\ new["entry"][n] = old["entry"][n]
      BY DEF DeletesRow, KeyedTables
    <2>2. ASSUME NEW f \in DOMAIN new["feed"] PROVE new["feed"][f].state = Cardinality(EntriesIn(new, f))
      <3>1. f \in DOMAIN old["feed"] /\ new["feed"][f] = old["feed"][f]
        BY DEF DeletesRow, KeyedTables
      <3>2. EntriesIn(new, f) = EntriesIn(old, f)
        <4>1. CASE t = "feed"
          <5>1. f # id /\ DOMAIN new["entry"] = {n \in DOMAIN old["entry"] : old["entry"][n].of # id}
            BY <4>1, ParentsAre DEF DeletesRow, KeyedTables
          <5> QED BY <2>1, <5>1 DEF EntriesIn
        <4>2. CASE t # "feed"
          <5>1. DOMAIN new["entry"] = DOMAIN old["entry"]
            BY <4>2, ParentsAre DEF DeletesRow, KeyedTables
          <5> QED BY <2>1, <5>1 DEF EntriesIn
        <4> QED BY <4>1, <4>2
      <3> QED BY <1>1, <3>1, <3>2 DEF FeedsAgreeIn
    <2> QED BY <1>1, <2>1, <2>2 DEF FeedsAgreeIn
  <1>5. NoOrphansIn(new)
    <2> SUFFICES ASSUME NEW u \in {"message", "entry", "delivery"}, NEW n \in DOMAIN new[u]
                 PROVE  new[u][n].of \in DOMAIN new[ParentTable[u]]
      BY DEF NoOrphansIn
    <2>1. u \in KeyedTables /\ ParentTable[u] \in KeyedTables /\ u # t
      BY ParentsAre DEF KeyedTables
    <2>2. n \in DOMAIN old[u] /\ new[u][n] = old[u][n] /\ old[u][n].of \in DOMAIN old[ParentTable[u]]
      BY <1>1, <2>1 DEF DeletesRow, NoOrphansIn
    <2>3. CASE t = ParentTable[u]
      <3>1. t \in DOMAIN ChildTable /\ u = ChildTable[t]
        BY <2>3, ParentsAre
      <3>2. old[u][n].of # id
        <4>1. DOMAIN new[u] = {m \in DOMAIN old[u] : old[u][m].of # id}
          BY <2>1, <3>1 DEF DeletesRow
        <4> QED BY <4>1
      <3> QED BY <2>2, <2>3, <3>2 DEF DeletesRow
    <2>4. CASE t # ParentTable[u]
      <3>1. ParentTable[u] \notin {ChildTable["conversation"], ChildTable["feed"], ChildTable["hook"]}
        BY ParentsAre
      <3>2. ~(t \in DOMAIN ChildTable /\ ParentTable[u] = ChildTable[t])
        BY <3>1, ParentsAre
      <3>3. DOMAIN new[ParentTable[u]] = DOMAIN old[ParentTable[u]]
        BY <2>1, <2>4, <3>2 DEF DeletesRow
      <3> QED BY <2>2, <3>3
    <2> QED BY <2>3, <2>4
  <1> QED BY <1>2, <1>3, <1>4, <1>5, SoundIs

\* An entry is added to its feed and counted, when no entry of the feed has its guid.
LEMMA EntryKeeps ==
    ASSUME NEW old, NEW new, SoundRows(old), NEW id, NEW r, NEW f \in DOMAIN old["feed"], DOMAIN new = KeyedTables,
           \A t \in KeyedTables \ {"feed", "entry"} : new[t] = old[t],
           id \in Nat \ {0}, id \notin DOMAIN old["entry"], SoundRow("entry", r), r.of = f,
           DOMAIN new["entry"] = DOMAIN old["entry"] \cup {id}, new["entry"][id] = r,
           \A n \in DOMAIN old["entry"] : new["entry"][n] = old["entry"][n],
           \A n \in EntriesIn(old, f) : old["entry"][n].name # r.name,
           DOMAIN new["feed"] = DOMAIN old["feed"],
           \A n \in DOMAIN old["feed"] : n # f => new["feed"][n] = old["feed"][n],
           DOMAIN new["feed"][f] = RowFields, new["feed"][f].state = old["feed"][f].state + 1
    PROVE  SoundRows(new)
  <1>1. TypedRows(old) /\ OneDefaultIn(old) /\ FeedsAgreeIn(old) /\ NoOrphansIn(old)
    BY SoundIs
  <1>2. TypedRows(new)
    <2> SUFFICES ASSUME NEW t \in KeyedTables
                 PROVE  /\ IsFiniteSet(DOMAIN new[t]) /\ DOMAIN new[t] \subseteq Nat \ {0}
                        /\ \A n \in DOMAIN new[t] : SoundRow(t, new[t][n])
      BY DEF TypedRows
    <2>1. CASE t \notin {"feed", "entry"}
      BY <1>1, <2>1 DEF TypedRows
    <2>2. CASE t = "entry"
      <3>1. IsFiniteSet(DOMAIN old["entry"] \cup {id})
        BY <1>1, FS_AddElement DEF TypedRows, KeyedTables
      <3> QED BY <1>1, <2>2, <3>1 DEF TypedRows
    <2>3. CASE t = "feed"
      <3>1. SoundRow("feed", new["feed"][f])
        BY FieldsAre DEF SoundRow
      <3> QED BY <1>1, <2>3, <3>1 DEF TypedRows
    <2> QED BY <2>1, <2>2, <2>3
  <1>3. OneDefaultIn(new)
    <2>1. new["provider"] = old["provider"]
      BY DEF KeyedTables
    <2> QED BY <1>1, <2>1 DEF OneDefaultIn, DefaultsIn
  <1>4. /\ EntriesIn(new, f) = EntriesIn(old, f) \cup {id} /\ id \notin EntriesIn(old, f)
        /\ \A g : g # f => EntriesIn(new, g) = EntriesIn(old, g)
    <2>1. id \notin EntriesIn(old, f)
      BY DEF EntriesIn
    <2>2. EntriesIn(new, f) = EntriesIn(old, f) \cup {id}
      BY DEF EntriesIn
    <2>3. ASSUME NEW g, g # f PROVE EntriesIn(new, g) = EntriesIn(old, g)
      BY <2>3 DEF EntriesIn
    <2> QED BY <2>1, <2>2, <2>3
  <1>5. FeedsAgreeIn(new)
    <2>1. ASSUME NEW g \in DOMAIN new["feed"] PROVE new["feed"][g].state = Cardinality(EntriesIn(new, g))
      <3>1. CASE g = f
        <4>1. Cardinality(EntriesIn(old, f) \cup {id}) = Cardinality(EntriesIn(old, f)) + 1
          BY <1>1, <1>4, EntriesFinite, FS_AddElement
        <4>2. old["feed"][f].state = Cardinality(EntriesIn(old, f))
          BY <1>1 DEF FeedsAgreeIn
        <4> QED BY <1>4, <3>1, <4>1, <4>2
      <3>2. CASE g # f
        BY <1>1, <1>4, <3>2 DEF FeedsAgreeIn
      <3> QED BY <3>1, <3>2
    <2>2. ASSUME NEW m \in DOMAIN new["entry"], NEW n \in DOMAIN new["entry"], m # n, new["entry"][m].of = new["entry"][n].of
          PROVE  new["entry"][m].name # new["entry"][n].name
      <3>1. CASE m # id /\ n # id
        BY <1>1, <2>2, <3>1 DEF FeedsAgreeIn
      <3>2. CASE m = id
        <4>1. n \in EntriesIn(old, f) /\ new["entry"][n] = old["entry"][n]
          BY <2>2, <3>2 DEF EntriesIn
        <4> QED BY <3>2, <4>1
      <3>3. CASE n = id
        <4>1. m \in EntriesIn(old, f) /\ new["entry"][m] = old["entry"][m]
          BY <2>2, <3>3 DEF EntriesIn
        <4> QED BY <3>3, <4>1
      <3> QED BY <3>1, <3>2, <3>3
    <2> QED BY <2>1, <2>2 DEF FeedsAgreeIn
  <1>6. NoOrphansIn(new)
    <2> SUFFICES ASSUME NEW u \in {"message", "entry", "delivery"}, NEW n \in DOMAIN new[u]
                 PROVE  new[u][n].of \in DOMAIN new[ParentTable[u]]
      BY DEF NoOrphansIn
    <2>1. CASE u = "entry"
      BY <1>1, <2>1, ParentsAre DEF NoOrphansIn
    <2>2. CASE u # "entry"
      <3>1. u \in KeyedTables \ {"feed", "entry"} /\ ParentTable[u] \in KeyedTables \ {"feed", "entry"}
        BY <2>2, ParentsAre DEF KeyedTables
      <3> QED BY <1>1, <3>1 DEF NoOrphansIn
    <2> QED BY <2>1, <2>2
  <1> QED BY <1>2, <1>3, <1>5, <1>6, SoundIs

\* The oldest entries of a feed go, as many as there are too many, and the feed counts what it keeps.
TooOld(tabs, f, keeps) ==
    {n \in EntriesIn(tabs, f) :
       Cardinality({m \in EntriesIn(tabs, f) : tabs["entry"][m].name < tabs["entry"][n].name})
          < Cardinality(EntriesIn(tabs, f)) - keeps}
Prunes(old, new, f, keeps) ==
    /\ DOMAIN new = KeyedTables /\ \A t \in KeyedTables \ {"feed", "entry"} : new[t] = old[t]
    /\ DOMAIN new["entry"] = DOMAIN old["entry"] \ TooOld(old, f, keeps)
    /\ \A n \in DOMAIN new["entry"] : new["entry"][n] = old["entry"][n]
    /\ DOMAIN new["feed"] = DOMAIN old["feed"]
    /\ \A n \in DOMAIN old["feed"] : n # f => new["feed"][n] = old["feed"][n]
    /\ DOMAIN new["feed"][f] = RowFields /\ new["feed"][f].state = keeps
LEMMA PruneKeeps ==
    ASSUME NEW old, NEW new, SoundRows(old), NEW f \in DOMAIN old["feed"], NEW keeps \in Nat,
           Cardinality(EntriesIn(old, f)) - keeps > 0, Prunes(old, new, f, keeps)
    PROVE  SoundRows(new)
  <1> DEFINE oldest == TooOld(old, f, keeps)
  <1> USE DEF Prunes
  <1>1. TypedRows(old) /\ OneDefaultIn(old) /\ FeedsAgreeIn(old) /\ NoOrphansIn(old)
    BY SoundIs
  <1> DEFINE S == EntriesIn(old, f)
             over == Cardinality(S) - keeps
             times == [n \in S |-> old["entry"][n].name]
  <1>2. IsFiniteSet(S) /\ Cardinality(S) \in Nat /\ S \subseteq DOMAIN old["entry"]
    BY <1>1, EntriesFinite
  <1>3. times \in [S -> Int] /\ \A m, n \in S : m # n => times[m] # times[n]
    <2>1. \A n \in S : old["entry"][n].name \in Int /\ old["entry"][n].of = f
      BY <1>1, <1>2 DEF TypedRows, SoundRow, KeyedTables, EntriesIn
    <2>2. \A m, n \in S : m # n => old["entry"][m].name # old["entry"][n].name
      BY <1>1, <1>2, <2>1 DEF FeedsAgreeIn
    <2> QED BY <2>1, <2>2
  <1>4. over \in 0..Cardinality(S)
    BY <1>2
  <1>5. oldest = LowestOf(S, times, over)
    <2>1. \A n \in S : {m \in S : old["entry"][m].name < old["entry"][n].name} = Below(S, times, n)
      BY DEF Below
    <2> QED BY <2>1 DEF LowestOf, TooOld
  <1>6. Cardinality(oldest) = over
    <2> HIDE DEF S, times, over
    <2>1. Cardinality(LowestOf(S, times, over)) = over
      BY <1>2, <1>3, <1>4, LowestCounted
    <2> QED BY <1>5, <2>1
  <1>7. oldest \subseteq S /\ Cardinality(S \ oldest) = keeps
    <2>1. oldest \subseteq S
      BY DEF TooOld
    <2>2. S \cap oldest = oldest
      BY <2>1
    <2>3. Cardinality(S \ oldest) = Cardinality(S) - Cardinality(S \cap oldest)
      <3> HIDE DEF S
      <3> QED BY <1>2, FS_Difference
    <2>4. over = Cardinality(S) - keeps
      OBVIOUS
    <2>5. Cardinality(S \ oldest) = Cardinality(S) - over
      BY <1>6, <2>2, <2>3
    <2> HIDE DEF S, over
    <2>6. Cardinality(S \ oldest) = keeps
      BY <1>2, <2>4, <2>5
    <2> QED BY <2>1, <2>6
  <1>8. TypedRows(new)
    <2> SUFFICES ASSUME NEW t \in KeyedTables
                 PROVE  /\ IsFiniteSet(DOMAIN new[t]) /\ DOMAIN new[t] \subseteq Nat \ {0}
                        /\ \A n \in DOMAIN new[t] : SoundRow(t, new[t][n])
      BY DEF TypedRows
    <2>1. CASE t \notin {"feed", "entry"}
      BY <1>1, <2>1 DEF TypedRows
    <2>2. CASE t = "entry"
      <3>1. IsFiniteSet(DOMAIN old["entry"]) /\ DOMAIN new["entry"] \in SUBSET (DOMAIN old["entry"])
        BY <1>1 DEF TypedRows, KeyedTables
      <3>2. IsFiniteSet(DOMAIN new["entry"])
        BY <3>1, FS_Subset
      <3> QED BY <1>1, <2>2, <3>1, <3>2 DEF TypedRows
    <2>3. CASE t = "feed"
      <3>1. SoundRow("feed", new["feed"][f])
        BY FieldsAre DEF SoundRow
      <3> QED BY <1>1, <2>3, <3>1 DEF TypedRows
    <2> QED BY <2>1, <2>2, <2>3
  <1>9. OneDefaultIn(new)
    <2>1. new["provider"] = old["provider"]
      BY DEF KeyedTables
    <2> QED BY <1>1, <2>1 DEF OneDefaultIn, DefaultsIn
  <1>10. EntriesIn(new, f) = S \ oldest
    BY DEF EntriesIn
  <1>11. \A g : g # f => EntriesIn(new, g) = EntriesIn(old, g)
    <2> SUFFICES ASSUME NEW g, g # f PROVE EntriesIn(new, g) = EntriesIn(old, g)
      OBVIOUS
    <2>1. \A n \in oldest : old["entry"][n].of = f
      BY <1>7 DEF EntriesIn
    <2> QED BY <2>1 DEF EntriesIn
  <1>12. FeedsAgreeIn(new)
    <2>1. ASSUME NEW g \in DOMAIN new["feed"] PROVE new["feed"][g].state = Cardinality(EntriesIn(new, g))
      <3>1. CASE g = f
        BY <1>7, <1>10, <3>1
      <3>2. CASE g # f
        BY <1>1, <1>11, <3>2 DEF FeedsAgreeIn
      <3> QED BY <3>1, <3>2
    <2>2. \A n \in DOMAIN new["entry"] : n \in DOMAIN old["entry"] /\ new["entry"][n] = old["entry"][n]
      OBVIOUS
    <2>3. \A m, n \in DOMAIN new["entry"] :
             m # n /\ new["entry"][m].of = new["entry"][n].of => new["entry"][m].name # new["entry"][n].name
      BY <1>1, <2>2 DEF FeedsAgreeIn
    <2> QED BY <2>1, <2>3 DEF FeedsAgreeIn
  <1>13. NoOrphansIn(new)
    <2> SUFFICES ASSUME NEW u \in {"message", "entry", "delivery"}, NEW n \in DOMAIN new[u]
                 PROVE  new[u][n].of \in DOMAIN new[ParentTable[u]]
      BY DEF NoOrphansIn
    <2>1. CASE u = "entry"
      BY <1>1, <2>1, ParentsAre DEF NoOrphansIn
    <2>2. CASE u # "entry"
      <3>1. u \in KeyedTables \ {"feed", "entry"} /\ ParentTable[u] \in KeyedTables \ {"feed", "entry"}
        BY <2>2, ParentsAre DEF KeyedTables
      <3> QED BY <1>1, <3>1 DEF NoOrphansIn
    <2> QED BY <2>1, <2>2
  <1> QED BY <1>8, <1>9, <1>12, <1>13, SoundIs

\* What a sound section works on.
LEMMA SectionTables ==
    ASSUME NEW s, SoundSection(s)
    PROVE  /\ s.do = "make" => s.table \in KeyedTables \ {"message", "entry"}
           /\ s.do = "copy" => s.table = "profile"
           /\ s.do = "say" => s.table = "message"
           /\ s.do = "set" => s.table \in {"conversation", "profile", "hook"}
           /\ s.do = "default" => s.table = "provider"
           /\ s.do = "patch" => s.table = "provider" /\ s.state \in BOOLEAN
           /\ s.do = "remove" => s.table \in {"conversation", "provider", "profile", "feed", "hook"}
           /\ s.do = "entry" => s.name \in Int
           /\ s.do \in {"make", "copy"} => /\ s.id # 0 <=> s.table \in {"run", "delivery"}
                                           /\ s.table = "provider" => s.state = FALSE
                                           /\ s.table = "feed" => s.state = 0
  <1>1. /\ DOMAIN TablesOf = {"make", "copy", "say", "set", "default", "patch", "remove"}
        /\ TablesOf["make"] = KeyedTables \ {"message", "entry"} /\ TablesOf["copy"] = {"profile"} /\ TablesOf["say"] = {"message"}
        /\ TablesOf["set"] = {"conversation", "profile", "hook"} /\ TablesOf["default"] = {"provider"}
        /\ TablesOf["patch"] = {"provider"}
        /\ TablesOf["remove"] = {"conversation", "provider", "profile", "feed", "hook"}
    BY DEF TablesOf
  <1>2. s.do \in DOMAIN TablesOf => s.table \in TablesOf[s.do]
    BY DEF SoundSection
  <1>3. /\ s.do = "make" => s.table \in KeyedTables \ {"message", "entry"}
        /\ s.do = "copy" => s.table = "profile"
        /\ s.do = "say" => s.table = "message"
        /\ s.do = "set" => s.table \in {"conversation", "profile", "hook"}
        /\ s.do = "default" => s.table = "provider"
        /\ s.do = "patch" => s.table = "provider"
        /\ s.do = "remove" => s.table \in {"conversation", "provider", "profile", "feed", "hook"}
    BY <1>1, <1>2
  <1> QED BY <1>3 DEF SoundSection

\* Rows of runs stay, and are marked by the binding alone.
RunsStay == /\ RowIds("run") \subseteq RowIds("run")'
            /\ \A n \in RowIds("run") : tables'["run"][n].state = tables["run"][n].state

LEMMA InsertKeeps ==
    ASSUME SoundRows(tables), NEW t \in KeyedTables \ {"entry"}, NEW of, NEW name, NEW state, Inserted(t, of, name, state),
           t = "provider" => state = FALSE,
           t = "feed" => state = 0,
           t \in {"message", "delivery"} => of \in RowIds(ParentTable[t])
    PROVE  SoundRows(tables') /\ RunsStay /\ NewId(t) \in RowIds(t)'
  <1> DEFINE r == [birth |-> births + 1, of |-> of, name |-> name, state |-> state]
  <1>1. TypedRows(tables)
    BY SoundIs
  <1>2. NewId(t) \in Nat \ {0} /\ NewId(t) \notin RowIds(t)
    BY <1>1, NewIdIsNew
  <1>3. SoundRow(t, r)
    BY FieldsAre DEF SoundRow, RowFields
  <1>4. /\ r.of = of /\ r.state = state
        /\ tables' = WithRow(t, NewId(t), r)
    BY DEF Inserted
  <1> HIDE DEF r
  <1>5. AddsRow(tables, tables', t, NewId(t), r)
    <2>1. DOMAIN tables = KeyedTables
      BY <1>1 DEF TypedRows
    <2>2. tables' = [tables EXCEPT ![t] = [n \in RowIds(t) \cup {NewId(t)} |-> IF n = NewId(t) THEN r ELSE tables[t][n]]]
      BY <1>4 DEF WithRow
    <2>3. /\ DOMAIN tables' = KeyedTables /\ \A u \in KeyedTables \ {t} : tables'[u] = tables[u]
          /\ tables'[t] = [n \in RowIds(t) \cup {NewId(t)} |-> IF n = NewId(t) THEN r ELSE tables[t][n]]
      BY <2>1, <2>2
    <2> QED BY <1>2, <1>3, <2>3 DEF AddsRow, RowIds
  <1>6. SoundRows(tables')
    BY <1>4, <1>5, AddKeeps DEF RowIds
  <1>7. RunsStay /\ NewId(t) \in RowIds(t)'
    BY <1>5 DEF AddsRow, RunsStay, RowIds, KeyedTables
  <1> QED BY <1>6, <1>7

\* A row that is there gets another value in one field.
SetsField(old, new, t, id, f, v) ==
    /\ DOMAIN new = KeyedTables /\ \A u \in KeyedTables \ {t} : new[u] = old[u]
    /\ DOMAIN new[t] = DOMAIN old[t] /\ \A n \in DOMAIN old[t] : n # id => new[t][n] = old[t][n]
    /\ DOMAIN new[t][id] = RowFields /\ new[t][id][f] = v
    /\ \A g \in RowFields : g # f => new[t][id][g] = old[t][id][g]
LEMMA FieldSet ==
    ASSUME TypedRows(tables), NEW t \in KeyedTables, NEW id \in RowIds(t), NEW v
    PROVE  /\ tables' = [tables EXCEPT ![t][id].name = v] => SetsField(tables, tables', t, id, "name", v)
           /\ tables' = [tables EXCEPT ![t][id].state = v] => SetsField(tables, tables', t, id, "state", v)
  <1>1. t \in DOMAIN tables /\ DOMAIN tables = KeyedTables /\ id \in DOMAIN tables[t] /\ DOMAIN tables[t][id] = RowFields
    BY FieldsAre DEF TypedRows, SoundRow, RowIds
  <1>2. ASSUME tables' = [tables EXCEPT ![t][id].name = v] PROVE SetsField(tables, tables', t, id, "name", v)
    BY <1>1, <1>2 DEF SetsField, RowFields
  <1>3. ASSUME tables' = [tables EXCEPT ![t][id].state = v] PROVE SetsField(tables, tables', t, id, "state", v)
    BY <1>1, <1>3 DEF SetsField, RowFields
  <1> QED BY <1>2, <1>3

\* Values that no property reads.
LEMMA LabelKeeps ==
    ASSUME SoundRows(tables), NEW t \in KeyedTables, NEW id \in RowIds(t), NEW f \in {"name", "state"}, NEW v,
           f = "name" => t # "entry", f = "state" => t \notin {"provider", "feed"},
           SetsField(tables, tables', t, id, f, v)
    PROVE  /\ SoundRows(tables') /\ RowIds("run") \subseteq RowIds("run")'
           /\ \A n \in RowIds("run") : t # "run" \/ n # id \/ f # "state" => tables'["run"][n].state = tables["run"][n].state
           /\ tables'[t][id][f] = v
  <1>1. TypedRows(tables)
    BY SoundIs
  <1>2. "of" \in RowFields /\ "name" \in RowFields /\ "state" \in RowFields /\ "of" # f
    BY DEF RowFields
  <1>3. {"provider", "feed", "entry", "run"} \subseteq KeyedTables
    BY DEF KeyedTables
  <1>4. \A u \in KeyedTables : \A n \in DOMAIN tables[u] : DOMAIN tables[u][n] = RowFields
    BY <1>1, FieldsAre DEF TypedRows, SoundRow
  <1>5. ASSUME NEW u \in KeyedTables, NEW n \in DOMAIN tables[u]
        PROVE  /\ DOMAIN tables'[u][n] = RowFields
               /\ \A g \in RowFields : g # f \/ u # t \/ n # id => tables'[u][n][g] = tables[u][n][g]
    <2>1. CASE u = t /\ n = id
      BY <2>1 DEF SetsField
    <2>2. CASE ~(u = t /\ n = id)
      <3>1. tables'[u][n] = tables[u][n]
        BY <2>2 DEF SetsField
      <3> QED BY <1>4, <3>1
    <2> QED BY <2>1, <2>2
  <1>6. DOMAIN tables' = KeyedTables /\ \A u \in KeyedTables : DOMAIN tables'[u] = DOMAIN tables[u]
    BY DEF SetsField
  <1>7. Relabels(tables, tables')
    <2>1. \A u \in KeyedTables : \A n \in DOMAIN tables[u] : DOMAIN tables'[u][n] = RowFields /\ tables'[u][n].of = tables[u][n].of
      BY <1>2, <1>5
    <2>2. \A n \in DOMAIN tables["provider"] : tables'["provider"][n].state = tables["provider"][n].state
      BY <1>2, <1>3, <1>5
    <2>3. \A n \in DOMAIN tables["feed"] : tables'["feed"][n].state = tables["feed"][n].state
      BY <1>2, <1>3, <1>5
    <2>4. \A n \in DOMAIN tables["entry"] : tables'["entry"][n].name = tables["entry"][n].name
      BY <1>2, <1>3, <1>5
    <2> QED BY <1>6, <2>1, <2>2, <2>3, <2>4 DEF Relabels
  <1>8. SoundRows(tables')
    BY <1>7, RelabelKeeps
  <1>9. \A n \in RowIds("run") : t # "run" \/ n # id \/ f # "state" => tables'["run"][n].state = tables["run"][n].state
    BY <1>2, <1>3, <1>5 DEF RowIds
  <1> QED BY <1>3, <1>6, <1>8, <1>9 DEF SetsField, RowIds

\* Steps that leave the tables alone.
LEMMA SameTables == ASSUME SoundRows(tables), UNCHANGED tables PROVE SoundRows(tables') /\ RunsStay
  BY DEF RunsStay, RowIds

\* Only the table of feeds, of providers or of entries changes.
LEMMA OtherTables ==
    ASSUME TypedRows(tables), \A t \in KeyedTables \ {"provider", "feed", "entry"} : tables'[t] = tables[t]
    PROVE  RunsStay
  BY DEF RunsStay, RowIds, KeyedTables

\* Every section keeps the tables sound.
LEMMA MakeKeeps ==
    ASSUME SoundRows(tables), NEW a, SoundSection(Now(a)), MakeSection(a)
    PROVE  SoundRows(tables') /\ RunsStay
  <1> DEFINE s == Now(a)
             name == IF s.do = "copy" THEN Try(a).slug ELSE s.name
  <1>1. s.do \in {"make", "copy"}
    BY DEF MakeSection, Does, Now
  <1>2. /\ s.table \in KeyedTables \ {"message", "entry"}
        /\ s.id # 0 <=> s.table \in {"run", "delivery"}
        /\ s.table = "provider" => s.state = FALSE
        /\ s.table = "feed" => s.state = 0
    BY <1>1, SectionTables DEF KeyedTables
  <1>3. CASE UNCHANGED tables
    BY <1>3, SameTables
  <1>4. CASE Inserted(s.table, s.id, name, s.state) /\ (s.id # 0 => There(ParentTable[s.table], s.id))
    <2>1. s.table \in {"message", "delivery"} => s.id \in RowIds(ParentTable[s.table])
      BY <1>2, <1>4 DEF There
    <2> HIDE DEF s, name
    <2> QED BY <1>2, <1>4, <2>1, InsertKeeps
  <1> QED BY <1>3, <1>4 DEF MakeSection

LEMMA SayKeeps ==
    ASSUME SoundRows(tables), NEW a, SaySection(a)
    PROVE  SoundRows(tables') /\ RunsStay
  <1>1. CASE UNCHANGED tables
    BY <1>1, SameTables
  <1>2. CASE There("conversation", Target(a)) /\ Inserted("message", Target(a), Now(a).name, 0)
    <2>1. "message" \in KeyedTables \ {"entry"} /\ Target(a) \in RowIds(ParentTable["message"])
      BY <1>2, ParentsAre DEF There, KeyedTables
    <2> QED BY <1>2, <2>1, InsertKeeps
  <1> QED BY <1>1, <1>2 DEF SaySection

LEMMA SetKeeps ==
    ASSUME SoundRows(tables), NEW a, SoundSection(Now(a)), SetSection(a)
    PROVE  SoundRows(tables') /\ RunsStay
  <1> DEFINE s == Now(a)
  <1>1. s.table \in {"conversation", "profile", "hook"} /\ s.table \in KeyedTables
    BY SectionTables DEF SetSection, Does, Now, KeyedTables
  <1>2. CASE UNCHANGED tables
    BY <1>2, SameTables
  <1>3. CASE There(s.table, s.id) /\ tables' = [tables EXCEPT ![s.table][s.id].name = s.name]
    <2>1. s.id \in RowIds(s.table)
      BY <1>3 DEF There
    <2> HIDE DEF s
    <2>2. SetsField(tables, tables', s.table, s.id, "name", s.name)
      BY <1>1, <1>3, <2>1, FieldSet, SoundIs
    <2>3. SoundRows(tables') /\ RowIds("run") \subseteq RowIds("run")'
      BY <1>1, <2>1, <2>2, LabelKeeps
    <2>4. \A n \in RowIds("run") : tables'["run"][n].state = tables["run"][n].state
      BY <1>1, <2>1, <2>2, LabelKeeps
    <2> QED BY <2>3, <2>4 DEF RunsStay
  <1> QED BY <1>2, <1>3 DEF SetSection

LEMMA RemoveKeeps ==
    ASSUME SoundRows(tables), NEW a, SoundSection(Now(a)), RemoveSection(a)
    PROVE  SoundRows(tables') /\ RunsStay
  <1> DEFINE s == Now(a)
  <1>1. s.table \in {"conversation", "provider", "profile", "feed", "hook"} /\ s.table \in KeyedTables
    BY SectionTables DEF RemoveSection, Does, Now, KeyedTables
  <1>2. CASE UNCHANGED tables
    BY <1>2, SameTables
  <1>3. CASE tables' = WithoutRows(s.table, s.id)
    <2> HIDE DEF s
    <2>1. DOMAIN tables = KeyedTables
      BY SoundIs DEF TypedRows
    <2>2. DOMAIN tables' = KeyedTables
      BY <1>3, <2>1 DEF WithoutRows
    <2>3. tables'[s.table] = [n \in RowIds(s.table) \ {s.id} |-> tables[s.table][n]]
      BY <1>1, <1>3, <2>1 DEF WithoutRows
    <2>4. ASSUME NEW u \in KeyedTables \ {s.table}
          PROVE  tables'[u] = IF s.table \in DOMAIN ChildTable /\ u = ChildTable[s.table]
                              THEN [n \in {m \in RowIds(u) : tables[u][m].of # s.id} |-> tables[u][n]] ELSE tables[u]
      BY <1>3, <2>1 DEF WithoutRows
    <2>5. ASSUME NEW u \in KeyedTables \ {s.table}
          PROVE  /\ DOMAIN tables'[u] = IF s.table \in DOMAIN ChildTable /\ u = ChildTable[s.table]
                                        THEN {n \in DOMAIN tables[u] : tables[u][n].of # s.id} ELSE DOMAIN tables[u]
                 /\ \A n \in DOMAIN tables'[u] : n \in DOMAIN tables[u] /\ tables'[u][n] = tables[u][n]
      BY <2>4 DEF RowIds
    <2>6. DOMAIN tables'[s.table] = DOMAIN tables[s.table] \ {s.id}
          /\ \A n \in DOMAIN tables'[s.table] : n \in DOMAIN tables[s.table] /\ tables'[s.table][n] = tables[s.table][n]
      BY <2>3 DEF RowIds
    <2>7. DeletesRow(tables, tables', s.table, s.id)
      BY <2>2, <2>5, <2>6 DEF DeletesRow
    <2>8. SoundRows(tables')
      BY <1>1, <2>7, DeleteKeeps
    <2>9. tables'["run"] = tables["run"]
      BY <1>1, <2>4, ParentsAre DEF KeyedTables
    <2> QED BY <2>8, <2>9 DEF RunsStay, RowIds
  <1> QED BY <1>2, <1>3 DEF RemoveSection

\* The marks of all providers are set at once.
MarksAs(new, marks) ==
    new = [tables EXCEPT !["provider"] = [n \in RowIds("provider") |-> [tables["provider"][n] EXCEPT !.state = marks[n]]]]
LEMMA MarksKeep ==
    ASSUME SoundRows(tables), NEW marks \in [RowIds("provider") -> BOOLEAN], MarksAs(tables', marks),
           \A m, n \in RowIds("provider") : marks[m] /\ marks[n] => m = n
    PROVE  SoundRows(tables') /\ RunsStay
  <1>1. TypedRows(tables) /\ DOMAIN tables = KeyedTables /\ "provider" \in KeyedTables /\ "run" \in KeyedTables
    BY SoundIs DEF TypedRows, KeyedTables
  <1>2. \A n \in RowIds("provider") : DOMAIN tables["provider"][n] = RowFields
    BY <1>1, FieldsAre DEF TypedRows, SoundRow, RowIds
  <1>3. /\ DOMAIN tables' = KeyedTables /\ \A t \in KeyedTables \ {"provider"} : tables'[t] = tables[t]
        /\ tables'["provider"] = [n \in RowIds("provider") |-> [tables["provider"][n] EXCEPT !.state = marks[n]]]
    BY <1>1 DEF MarksAs
  <1>4. /\ DOMAIN tables'["provider"] = DOMAIN tables["provider"]
        /\ \A n \in DOMAIN tables'["provider"] :
              DOMAIN tables'["provider"][n] = RowFields /\ tables'["provider"][n].state = marks[n] /\ marks[n] \in BOOLEAN
    BY <1>2, <1>3 DEF RowIds, RowFields
  <1>5. SoundRows(tables')
    BY <1>3, <1>4, MarkKeeps DEF RowIds
  <1>6. tables'["run"] = tables["run"]
    BY <1>1, <1>3
  <1> QED BY <1>5, <1>6 DEF RunsStay, RowIds

LEMMA DefaultKeeps ==
    ASSUME SoundRows(tables), NEW a, DefaultSection(a)
    PROVE  SoundRows(tables') /\ RunsStay
  <1>1. CASE UNCHANGED tables
    BY <1>1, SameTables
  <1>2. CASE tables' = [tables EXCEPT !["provider"] = [n \in RowIds("provider") |-> [@[n] EXCEPT !.state = (n = Target(a))]]]
    <2> DEFINE marks == [n \in RowIds("provider") |-> n = Target(a)]
    <2>1. marks \in [RowIds("provider") -> BOOLEAN] /\ \A m, n \in RowIds("provider") : marks[m] /\ marks[n] => m = n
      OBVIOUS
    <2>2. MarksAs(tables', marks)
      BY <1>2 DEF MarksAs
    <2> HIDE DEF marks
    <2> QED BY <2>1, <2>2, MarksKeep
  <1> QED BY <1>1, <1>2 DEF DefaultSection

LEMMA PatchKeeps ==
    ASSUME SoundRows(tables), NEW a, SoundSection(Now(a)), PatchSection(a)
    PROVE  SoundRows(tables') /\ RunsStay
  <1> DEFINE s == Now(a)
             cleared == [n \in RowIds("provider") |->
                           [tables["provider"][n] EXCEPT !.state = @ /\ (n = s.id \/ ~s.state)]]
             kept == [n \in RowIds("provider") |-> tables["provider"][n].state /\ (n = s.id \/ ~s.state)]
             patched == [n \in RowIds("provider") |->
                           IF n = s.id THEN s.state ELSE tables["provider"][n].state /\ (n = s.id \/ ~s.state)]
  <1>1. s.state \in BOOLEAN
    BY SectionTables DEF PatchSection, Does, Now
  <1>2. TypedRows(tables) /\ DOMAIN tables = KeyedTables /\ "provider" \in KeyedTables
    BY SoundIs DEF TypedRows, KeyedTables
  <1>3. \A n \in RowIds("provider") : tables["provider"][n].state \in BOOLEAN /\ DOMAIN tables["provider"][n] = RowFields
    BY <1>2, FieldsAre DEF TypedRows, SoundRow, RowIds
  <1>4. \A m, n \in RowIds("provider") : tables["provider"][m].state /\ tables["provider"][n].state => m = n
    BY <1>2, SoundIs, DefaultIs DEF RowIds
  <1> HIDE DEF s
  <1>5. CASE UNCHANGED tables
    BY <1>5, SameTables
  <1>6. CASE s.state /\ tables' = [tables EXCEPT !["provider"] = cleared]
    <2>1. kept \in [RowIds("provider") -> BOOLEAN] /\ \A m, n \in RowIds("provider") : kept[m] /\ kept[n] => m = n
      BY <1>1, <1>3, <1>4
    <2>2. MarksAs(tables', kept)
      BY <1>6 DEF MarksAs
    <2> HIDE DEF kept
    <2> QED BY <2>1, <2>2, MarksKeep
  <1>7. CASE There("provider", s.id) /\ tables' = [tables EXCEPT !["provider"] = [cleared EXCEPT ![s.id].state = s.state]]
    <2>1. patched \in [RowIds("provider") -> BOOLEAN] /\ \A m, n \in RowIds("provider") : patched[m] /\ patched[n] => m = n
      <3>1. patched \in [RowIds("provider") -> BOOLEAN]
        BY <1>1, <1>3
      <3>2. CASE s.state
        BY <1>4, <3>2
      <3>3. CASE ~s.state
        <4>1. s.state = FALSE
          BY <1>1, <3>3
        <4>2. \A m \in RowIds("provider") : patched[m] => tables["provider"][m].state
          <5>1. ASSUME NEW m \in RowIds("provider"), patched[m] PROVE tables["provider"][m].state
            <6>1. CASE m = s.id
              BY <4>1, <5>1, <6>1
            <6>2. CASE m # s.id
              BY <5>1, <6>2
            <6> QED BY <6>1, <6>2
          <5> QED BY <5>1
        <4> HIDE DEF patched
        <4> QED BY <1>4, <3>1, <4>2
      <3> QED BY <1>1, <3>1, <3>2, <3>3
    <2>2. [cleared EXCEPT ![s.id].state = s.state]
            = [n \in RowIds("provider") |-> [tables["provider"][n] EXCEPT !.state = patched[n]]]
      <3>1. \A n \in RowIds("provider") : n # s.id =>
               [cleared EXCEPT ![s.id].state = s.state][n] = [tables["provider"][n] EXCEPT !.state = patched[n]]
        OBVIOUS
      <3>2. s.id \in RowIds("provider")
        BY <1>7 DEF There
      <3>3. [cleared EXCEPT ![s.id].state = s.state][s.id] = [tables["provider"][s.id] EXCEPT !.state = s.state]
        BY <1>3, <3>2 DEF RowFields
      <3>4. patched[s.id] = s.state
        BY <3>2
      <3> QED BY <3>1, <3>2, <3>3, <3>4
    <2>3. MarksAs(tables', patched)
      BY <1>7, <2>2 DEF MarksAs
    <2> HIDE DEF patched
    <2> QED BY <2>1, <2>3, MarksKeep
  <1> QED BY <1>5, <1>6, <1>7 DEF PatchSection, s

LEMMA EntrySectionKeeps ==
    ASSUME SoundRows(tables), NEW a, SoundSection(Now(a)), EntrySection(a)
    PROVE  SoundRows(tables') /\ RunsStay
  <1> DEFINE s == Now(a)
             r == [birth |-> births + 1, of |-> s.id, name |-> s.name, state |-> FALSE]
  <1>1. TypedRows(tables) /\ DOMAIN tables = KeyedTables /\ "entry" \in KeyedTables /\ "feed" \in KeyedTables
    BY SoundIs DEF TypedRows, KeyedTables
  <1>2. s.name \in Int
    BY SectionTables DEF EntrySection, Does, Now
  <1>3. SoundRow("entry", r) /\ r.of = s.id /\ r.name = s.name
    BY <1>2, FieldsAre DEF SoundRow, RowFields
  <1> HIDE DEF s
  <1>4. CASE UNCHANGED tables
    BY <1>4, SameTables
  <1>5. CASE /\ There("feed", s.id) /\ \A n \in Entries(s.id) : tables["entry"][n].name # s.name
             /\ tables' = [WithRow("entry", NewId("entry"), r) EXCEPT !["feed"][s.id].state = @ + 1]
    <2> HIDE DEF r
    <2> DEFINE id == NewId("entry")
               rows1 == [n \in RowIds("entry") \cup {id} |-> IF n = id THEN r ELSE tables["entry"][n]]
    <2>1. id \in Nat \ {0} /\ id \notin DOMAIN tables["entry"]
      BY <1>1, NewIdIsNew DEF RowIds
    <2>2. s.id \in DOMAIN tables["feed"] /\ DOMAIN tables["feed"][s.id] = RowFields
      BY <1>1, <1>5, FieldsAre DEF There, RowIds, TypedRows, SoundRow
    <2>3. WithRow("entry", id, r) = [tables EXCEPT !["entry"] = rows1]
      BY DEF WithRow
    <2> HIDE DEF id, rows1
    <2>4. tables' = [[tables EXCEPT !["entry"] = rows1] EXCEPT !["feed"][s.id].state = @ + 1]
      BY <1>5, <2>3 DEF id
    <2>5. /\ DOMAIN tables' = KeyedTables /\ \A t \in KeyedTables \ {"feed", "entry"} : tables'[t] = tables[t]
          /\ tables'["entry"] = rows1
          /\ tables'["feed"] = [tables["feed"] EXCEPT ![s.id].state = @ + 1]
      BY <1>1, <2>4
    <2>6. /\ DOMAIN tables'["feed"] = DOMAIN tables["feed"]
          /\ \A n \in DOMAIN tables["feed"] : n # s.id => tables'["feed"][n] = tables["feed"][n]
          /\ DOMAIN tables'["feed"][s.id] = RowFields
          /\ tables'["feed"][s.id].state = tables["feed"][s.id].state + 1
      BY <2>2, <2>5 DEF RowFields
    <2>7. /\ DOMAIN tables'["entry"] = DOMAIN tables["entry"] \cup {id} /\ tables'["entry"][id] = r
          /\ \A n \in DOMAIN tables["entry"] : tables'["entry"][n] = tables["entry"][n]
      BY <2>1, <2>5 DEF rows1, RowIds
    <2>8. \A n \in EntriesIn(tables, s.id) : tables["entry"][n].name # r.name
      BY <1>3, <1>5 DEF Entries
    <2>9. SoundRows(tables')
      BY <1>3, <2>1, <2>2, <2>5, <2>6, <2>7, <2>8, EntryKeeps
    <2>10. RunsStay
      BY <1>1, <2>5, OtherTables
    <2> QED BY <2>9, <2>10
  <1> QED BY <1>4, <1>5 DEF EntrySection, s

LEMMA PruneSectionKeeps ==
    ASSUME SoundRows(tables), NEW a, PruneSection(a)
    PROVE  SoundRows(tables') /\ RunsStay
  <1> DEFINE f == Now(a).id
             over == Cardinality(Entries(f)) - FeedKeeps
             oldest == {n \in Entries(f) :
                          Cardinality({m \in Entries(f) : tables["entry"][m].name < tables["entry"][n].name}) < over}
  <1>1. TypedRows(tables) /\ DOMAIN tables = KeyedTables /\ "entry" \in KeyedTables /\ "feed" \in KeyedTables
    BY SoundIs DEF TypedRows, KeyedTables
  <1>2. CASE UNCHANGED tables
    BY <1>2, SameTables
  <1>3. CASE /\ There("feed", f) /\ ~(over <= 0)
             /\ tables' = [tables EXCEPT !["entry"] = [n \in RowIds("entry") \ oldest |-> @[n]], !["feed"][f].state = FeedKeeps]
    <2>1. f \in DOMAIN tables["feed"] /\ DOMAIN tables["feed"][f] = RowFields
      BY <1>1, <1>3, FieldsAre DEF There, RowIds, TypedRows, SoundRow
    <2>2. Cardinality(EntriesIn(tables, f)) \in Nat /\ FeedKeeps \in Nat
      BY <1>1, EntriesFinite, KeyedAssumption
    <2>3. Cardinality(EntriesIn(tables, f)) - FeedKeeps > 0
      BY <1>3, <2>2 DEF Entries
    <2>4. oldest = TooOld(tables, f, FeedKeeps)
      BY DEF Entries, TooOld
    <2> HIDE DEF f, over, oldest
    <2>5. /\ DOMAIN tables' = KeyedTables /\ \A t \in KeyedTables \ {"feed", "entry"} : tables'[t] = tables[t]
          /\ tables'["entry"] = [n \in RowIds("entry") \ oldest |-> tables["entry"][n]]
          /\ tables'["feed"] = [tables["feed"] EXCEPT ![f].state = FeedKeeps]
      BY <1>1, <1>3
    <2>6. /\ DOMAIN tables'["feed"] = DOMAIN tables["feed"]
          /\ \A n \in DOMAIN tables["feed"] : n # f => tables'["feed"][n] = tables["feed"][n]
          /\ DOMAIN tables'["feed"][f] = RowFields
          /\ tables'["feed"][f].state = FeedKeeps
      BY <2>1, <2>5 DEF RowFields
    <2>7. /\ DOMAIN tables'["entry"] = DOMAIN tables["entry"] \ oldest
          /\ \A n \in DOMAIN tables'["entry"] : tables'["entry"][n] = tables["entry"][n]
      BY <2>5 DEF RowIds
    <2>8. SoundRows(tables')
      <3>1. Prunes(tables, tables', f, FeedKeeps)
        BY <2>4, <2>5, <2>6, <2>7 DEF Prunes
      <3> QED BY <2>1, <2>2, <2>3, <3>1, PruneKeeps
    <2>9. RunsStay
      BY <1>1, <2>5, OtherTables
    <2> QED BY <2>8, <2>9
  <1> QED BY <1>2, <1>3 DEF PruneSection

LEMMA RecountKeeps ==
    ASSUME SoundRows(tables), NEW a, RecountSection(a)
    PROVE  SoundRows(tables') /\ RunsStay
  <1> DEFINE f == Now(a).id
  <1>1. CASE UNCHANGED tables
    BY <1>1, SameTables
  <1>2. CASE There("feed", f) /\ tables' = [tables EXCEPT !["feed"][f].state = Cardinality(Entries(f))]
    <2>1. TypedRows(tables) /\ DOMAIN tables = KeyedTables /\ "feed" \in KeyedTables /\ f \in RowIds("feed") /\ FeedsAgreeIn(tables)
      BY <1>2, SoundIs DEF TypedRows, KeyedTables, There
    <2>2. tables["feed"][f].state = Cardinality(Entries(f)) /\ f \in DOMAIN tables["feed"]
      BY <2>1 DEF FeedsAgreeIn, Entries, RowIds
    <2>3. DOMAIN tables["feed"][f] = RowFields
      BY <2>1, FieldsAre DEF TypedRows, SoundRow, RowIds
    <2> HIDE DEF f
    <2>4. SetsField(tables, tables', "feed", f, "state", tables["feed"][f].state)
      BY <1>2, <2>1, <2>2, FieldSet
    <2>5. \A u \in KeyedTables : \A n \in DOMAIN tables[u] : DOMAIN tables[u][n] = RowFields
      BY <2>1, FieldsAre DEF TypedRows, SoundRow
    <2>6. ASSUME NEW u \in KeyedTables, NEW n \in DOMAIN tables[u]
          PROVE  DOMAIN tables'[u][n] = RowFields /\ \A g \in RowFields : tables'[u][n][g] = tables[u][n][g]
      <3>1. CASE u = "feed" /\ n = f
        BY <2>4, <3>1 DEF SetsField, RowFields
      <3>2. CASE ~(u = "feed" /\ n = f)
        <4>1. tables'[u][n] = tables[u][n]
          BY <2>4, <3>2 DEF SetsField
        <4> QED BY <2>5, <4>1
      <3> QED BY <3>1, <3>2
    <2>7. DOMAIN tables' = KeyedTables /\ \A u \in KeyedTables : DOMAIN tables'[u] = DOMAIN tables[u]
      BY <2>4 DEF SetsField
    <2>8. {"provider", "feed", "entry"} \subseteq KeyedTables /\ {"of", "name", "state"} \subseteq RowFields
      BY DEF KeyedTables, RowFields
    <2>9. Relabels(tables, tables')
      BY <2>6, <2>7, <2>8 DEF Relabels
    <2>10. \A t \in KeyedTables \ {"provider", "feed", "entry"} : tables'[t] = tables[t]
      BY <2>4 DEF SetsField
    <2> QED BY <2>1, <2>9, <2>10, RelabelKeeps, OtherTables
  <1> QED BY <1>1, <1>2 DEF RecountSection

LEMMA MarkSectionKeeps ==
    ASSUME SoundRows(tables), NEW a, MarkSection(a)
    PROVE  SoundRows(tables') /\ RunsStay
  <1> DEFINE s == Now(a)
  <1>1. CASE UNCHANGED tables
    BY <1>1, SameTables
  <1>2. CASE There("entry", s.id) /\ tables' = [tables EXCEPT !["entry"][s.id].state = s.state]
    <2> HIDE DEF s
    <2>1. "entry" \in KeyedTables /\ s.id \in RowIds("entry") /\ TypedRows(tables)
      BY <1>2, SoundIs DEF KeyedTables, There
    <2>2. SetsField(tables, tables', "entry", s.id, "state", s.state)
      BY <1>2, <2>1, FieldSet
    <2>3. SoundRows(tables') /\ RowIds("run") \subseteq RowIds("run")'
      BY <2>1, <2>2, LabelKeeps
    <2>4. \A n \in RowIds("run") : tables'["run"][n].state = tables["run"][n].state
      BY <2>1, <2>2, LabelKeeps
    <2> QED BY <2>3, <2>4 DEF RunsStay
  <1> QED BY <1>1, <1>2 DEF MarkSection

LEMMA OutcomeKeeps ==
    ASSUME SoundRows(tables), NEW a, OutcomeSection(a)
    PROVE  SoundRows(tables') /\ RunsStay
  <1> DEFINE id == Target(a)
             v == Try(a).dispatched
  <1>1. CASE UNCHANGED tables
    BY <1>1, SameTables
  <1>2. CASE There("delivery", id) /\ tables' = [tables EXCEPT !["delivery"][id].state = v]
    <2> HIDE DEF id, v
    <2>1. "delivery" \in KeyedTables /\ id \in RowIds("delivery") /\ TypedRows(tables)
      BY <1>2, SoundIs DEF KeyedTables, There
    <2>2. SetsField(tables, tables', "delivery", id, "state", v)
      BY <1>2, <2>1, FieldSet
    <2>3. SoundRows(tables') /\ RowIds("run") \subseteq RowIds("run")'
      BY <2>1, <2>2, LabelKeeps
    <2>4. \A n \in RowIds("run") : tables'["run"][n].state = tables["run"][n].state
      BY <2>1, <2>2, LabelKeeps
    <2> QED BY <2>3, <2>4 DEF RunsStay
  <1> QED BY <1>1, <1>2 DEF OutcomeSection

LEMMA SectionsKeepTables ==
    ASSUME SoundRows(tables), NEW a, SoundSection(Now(a)), SectionStep(a)
    PROVE  SoundRows(tables') /\ RunsStay
  <1>1. CASE UNCHANGED tables
    BY <1>1, SameTables
  <1>2. CASE ReadSection(a) \/ CountSection(a) \/ HeardSection(a) \/ SlugSection(a) \/ PresetSection(a)
             \/ DownloadSection(a) \/ DispatchSection(a)
    BY <1>1, <1>2 DEF ReadSection, CountSection, HeardSection, SlugSection, PresetSection, DownloadSection,
                      DispatchSection, NoWrite
  <1> QED BY <1>2, MakeKeeps, SetKeeps, RemoveKeeps, SayKeeps, DefaultKeeps, PatchKeeps, EntrySectionKeeps, PruneSectionKeeps,
             RecountKeeps, MarkSectionKeeps, OutcomeKeeps DEF SectionStep

-----------------------------------------------------------------------------
(* What a command still has to do, and what a replay does after its answer.          *)

ActionParts(a) == {CommandOf(a).action[i] : i \in DOMAIN CommandOf(a).action}
FeedReads == {Reads("feed", id) : id \in Nat}
MakeIsLeft(todo) == \E i \in DOMAIN todo : todo[i].do = "make"
\* The rest of the action; a command that makes a run has made it when nothing is left.
WorkLeft(a) ==
    /\ Try(a).todo \in Seq(ActionParts(a) \cup FeedReads)
    /\ MakesRun(CommandOf(a).action) =>
          /\ Try(a).todo \in Seq(ActionParts(a))
          /\ Try(a).made \in RowIds("run") \/ MakeIsLeft(Try(a).todo)
WorkInv == \A a \in SentCommands : Try(a).at = "work" => WorkLeft(a)
AnswersInv == \A k \in DOMAIN claims :
    claims[k].done /\ MakesRun(claims[k].input) => claims[k].answer.made \in RowIds("run")

\* The commands sent are sound, and so is every section they come to.
LEMMA SentAreSound ==
    ASSUME KeyedTypes, NEW a \in SentCommands
    PROVE  SoundCommand(CommandOf(a))
  BY ScriptsAssumption DEF KeyedTypes, CommandOf, SentCommands
LEMMA FeedReadsSound == \A p \in FeedReads : SoundSection(p) /\ p.do = "read" /\ p.skips = 0
  <1> SUFFICES ASSUME NEW p \in FeedReads PROVE SoundSection(p) /\ p.do = "read" /\ p.skips = 0
    OBVIOUS
  <1>0. PICK id \in Nat : p = Reads("feed", id)
    BY DEF FeedReads
  <1>1. p.do = "read" /\ p.skips = 0 /\ p.id = id
    BY <1>0 DEF Reads, Section
  <1>2. DOMAIN p = DOMAIN Section("", "", 0)
    BY <1>0 DEF Reads, Section
  <1>3. "read" \notin DOMAIN TablesOf
    BY DEF TablesOf
  <1>4. p.do # "make" /\ p.do # "copy" /\ p.do # "patch" /\ p.do # "entry" /\ p.do \notin DOMAIN TablesOf
    BY <1>1, <1>3
  <1>5. p.skips \in Nat /\ p.id \in Nat
    BY <1>1
  <1>6. SoundSection(p)
    BY <1>2, <1>4, <1>5, Zenon DEF SoundSection
  <1> QED BY <1>1, <1>6
LEMMA PartsSound ==
    ASSUME KeyedTypes, NEW a \in SentCommands
    PROVE  /\ \A p \in ActionParts(a) \cup FeedReads : SoundSection(p)
           /\ MakesRun(CommandOf(a).action) =>
                 \A p \in ActionParts(a) :
                    p.skips = 0 /\ p.do \in {"read", "say", "heard", "make"} /\ (p.do = "make" => p.table = "run")
  <1>1. SoundCommand(CommandOf(a))
    BY SentAreSound
  <1>2. \A p \in ActionParts(a) : SoundSection(p)
    BY <1>1 DEF SoundCommand, ActionParts
  <1>3. MakesRun(CommandOf(a).action) =>
           \A p \in ActionParts(a) :
              p.skips = 0 /\ p.do \in {"read", "say", "heard", "make"} /\ (p.do = "make" => p.table = "run")
    BY DEF MakesRun, ActionParts
  <1> QED BY <1>2, <1>3, FeedReadsSound

\* The section a working command has come to.
LEMMA NowIsSound ==
    ASSUME KeyedTypes, NEW a \in SentCommands, WorkLeft(a), Try(a).todo # <<>>
    PROVE  /\ SoundSection(Now(a)) /\ Now(a).id \in Nat /\ Now(a).skips \in Nat
           /\ RestOf(a) \in Seq(ActionParts(a) \cup FeedReads)
           /\ \A m \in Nat \ {0} : SubSeq(Try(a).todo, m, Len(Try(a).todo)) \in Seq(ActionParts(a) \cup FeedReads)
           /\ MakesRun(CommandOf(a).action) =>
                 /\ RestOf(a) \in Seq(ActionParts(a))
                 /\ Now(a).skips = 0 /\ Now(a).do \in {"read", "say", "heard", "make"}
                 /\ Now(a).do = "make" => Now(a).table = "run"
                 /\ Now(a).do # "make" /\ MakeIsLeft(Try(a).todo) => MakeIsLeft(RestOf(a))
  <1> DEFINE All == ActionParts(a) \cup FeedReads
             todo == Try(a).todo
  <1>1. todo \in Seq(All) /\ todo # <<>>
    BY DEF WorkLeft
  <1>2. Head(todo) \in All /\ Tail(todo) \in Seq(All)
    BY <1>1, HeadTailProperties
  <1>3. \A p \in All : SoundSection(p)
    BY PartsSound
  <1>4. SoundSection(Now(a)) /\ Now(a).id \in Nat /\ Now(a).skips \in Nat
    BY <1>2, <1>3 DEF Now, SoundSection
  <1>5. ASSUME NEW m \in Nat \ {0} PROVE SubSeq(todo, m, Len(todo)) \in Seq(All)
    <2>1. Len(todo) \in Nat /\ \A i \in m .. Len(todo) : todo[i] \in All
      BY <1>1, LenProperties, ElementOfSeq
    <2> HIDE DEF todo, All
    <2> QED BY <2>1, SubSeqProperties
  <1>6. ASSUME MakesRun(CommandOf(a).action)
        PROVE  /\ RestOf(a) \in Seq(ActionParts(a))
               /\ Now(a).skips = 0 /\ Now(a).do \in {"read", "say", "heard", "make"}
               /\ Now(a).do = "make" => Now(a).table = "run"
               /\ Now(a).do # "make" /\ MakeIsLeft(Try(a).todo) => MakeIsLeft(RestOf(a))
    <2>1. todo \in Seq(ActionParts(a))
      BY <1>6 DEF WorkLeft
    <2>2. /\ Head(todo) \in ActionParts(a) /\ Tail(todo) \in Seq(ActionParts(a)) /\ Len(Tail(todo)) = Len(todo) - 1
          /\ \A i \in 1..Len(Tail(todo)) : Tail(todo)[i] = todo[i + 1]
      BY <1>1, <2>1, HeadTailProperties
    <2>3. Now(a).skips = 0 /\ Now(a).do \in {"read", "say", "heard", "make"} /\ (Now(a).do = "make" => Now(a).table = "run")
      BY <1>6, <2>2, PartsSound DEF Now
    <2>4. ASSUME Now(a).do # "make", MakeIsLeft(todo) PROVE MakeIsLeft(RestOf(a))
      <3>1. DOMAIN todo = 1..Len(todo) /\ Len(todo) \in Nat /\ Head(todo) = todo[1]
        BY <1>1, LenProperties
      <3>2. PICK i \in 1..Len(todo) : todo[i].do = "make"
        BY <2>4, <3>1 DEF MakeIsLeft
      <3>3. i # 1
        BY <2>4, <3>1, <3>2 DEF Now
      <3>4. i - 1 \in 1..Len(Tail(todo)) /\ Tail(todo)[i - 1] = todo[i]
        BY <2>2, <3>1, <3>3
      <3>5. DOMAIN Tail(todo) = 1..Len(Tail(todo))
        BY <2>2, LenProperties
      <3> QED BY <3>2, <3>4, <3>5 DEF MakeIsLeft, RestOf
    <2> QED BY <2>2, <2>3, <2>4 DEF RestOf
  <1> QED BY <1>2, <1>4, <1>5, <1>6 DEF RestOf

\* How a section leaves the rest of the action.
Advances(a) ==
    \/ tries'[a].at # "work"
    \/ /\ tries'[a].todo = RestOf(a)
       /\ MakesRun(CommandOf(a).action) =>
             IF Now(a).do = "make" THEN tries'[a].made \in RowIds("run")' ELSE tries'[a].made = Try(a).made
    \/ /\ ~MakesRun(CommandOf(a).action)
       /\ tries'[a].todo \in Seq(ActionParts(a) \cup FeedReads)
LEMMA AdvancesKeeps ==
    ASSUME KeyedTypes, NEW a \in SentCommands, WorkLeft(a), Try(a).todo # <<>>, Advances(a), Moves1(a), UNCHANGED script,
           RowIds("run") \subseteq RowIds("run")'
    PROVE  Try(a)'.at = "work" => WorkLeft(a)'
  <1>1. Try(a)' = tries'[a] /\ CommandOf(a)' = CommandOf(a) /\ ActionParts(a)' = ActionParts(a)
    BY OthersStay DEF ActionParts
  <1>2. FeedReads' = FeedReads /\ (MakesRun(CommandOf(a).action))' = MakesRun(CommandOf(a).action)
    BY <1>1 DEF FeedReads, Reads, Section, MakesRun
  <1>3. CASE tries'[a].at # "work"
    BY <1>1, <1>3
  <1>4. CASE /\ tries'[a].todo = RestOf(a)
             /\ MakesRun(CommandOf(a).action) =>
                   IF Now(a).do = "make" THEN tries'[a].made \in RowIds("run")' ELSE tries'[a].made = Try(a).made
    <2>1. tries'[a].todo \in Seq(ActionParts(a) \cup FeedReads)
      BY <1>4, NowIsSound
    <2>2. ASSUME MakesRun(CommandOf(a).action)
          PROVE  /\ tries'[a].todo \in Seq(ActionParts(a))
                 /\ tries'[a].made \in RowIds("run")' \/ MakeIsLeft(tries'[a].todo)
      <3>1. tries'[a].todo \in Seq(ActionParts(a))
        BY <1>4, <2>2, NowIsSound
      <3>2. Try(a).made \in RowIds("run") \/ MakeIsLeft(Try(a).todo)
        BY <2>2 DEF WorkLeft
      <3>3. CASE Now(a).do = "make"
        BY <1>4, <2>2, <3>1, <3>3
      <3>4. CASE Now(a).do # "make"
        BY <1>4, <2>2, <3>1, <3>2, <3>4, NowIsSound
      <3> QED BY <3>3, <3>4
    <2>3. MakeIsLeft(Try(a).todo)' = MakeIsLeft(tries'[a].todo)
      BY <1>1 DEF MakeIsLeft
    <2> QED BY <1>1, <1>2, <2>1, <2>2, <2>3 DEF WorkLeft
  <1>5. CASE ~MakesRun(CommandOf(a).action) /\ tries'[a].todo \in Seq(ActionParts(a) \cup FeedReads)
    BY <1>1, <1>2, <1>5 DEF WorkLeft
  <1> QED BY <1>3, <1>4, <1>5 DEF Advances

\* A failure ends the action, or skips to the next conversation of a bulk.
LEMMA FailsAdvances ==
    ASSUME KeyedTypes, NEW a \in SentCommands, Try(a).at = "work", WorkLeft(a), Try(a).todo # <<>>, Fails(a)
    PROVE  Advances(a)
  <1>1. DOMAIN Try(a) = TryFields /\ a \in DOMAIN tries
    BY DEF KeyedTypes, Try
  <1>2. CASE Now(a).skips > 0
    <2>1. tries'[a].todo = SubSeq(Try(a).todo, 2 + Now(a).skips, Len(Try(a).todo))
      <3>1. tries' = [tries EXCEPT ![a].todo = SubSeq(@, 2 + Now(a).skips, Len(@))]
        BY <1>2 DEF Fails
      <3>2. tries'[a] = [Try(a) EXCEPT !.todo = SubSeq(@, 2 + Now(a).skips, Len(@))]
        BY <1>1, <3>1 DEF Try
      <3> QED BY <1>1, <3>2 DEF TryFields
    <2>0. Now(a).skips \in Nat
      BY NowIsSound
    <2>2. 2 + Now(a).skips \in Nat \ {0} /\ Now(a).skips # 0
      BY <1>2, <2>0
    <2>3. ~MakesRun(CommandOf(a).action) /\ tries'[a].todo \in Seq(ActionParts(a) \cup FeedReads)
      BY <2>1, <2>2, NowIsSound
    <2> QED BY <2>3 DEF Advances
  <1>3. CASE ~(Now(a).skips > 0)
    BY <1>1, <1>3 DEF Fails, CommandAt, Advances, TryFields, Try
  <1> QED BY <1>2, <1>3

\* A section that goes on with another record.
LEMMA GoesToAdvances ==
    ASSUME KeyedTypes, NEW a \in SentCommands, Try(a).at = "work", WorkLeft(a), Try(a).todo # <<>>,
           NEW c, DOMAIN c = TryFields, GoesTo(a, c),
           MakesRun(CommandOf(a).action) =>
               IF Now(a).do = "make" THEN c.made \in RowIds("run")' ELSE c.made = Try(a).made
    PROVE  Advances(a)
  <1>1. a \in DOMAIN tries
    BY DEF KeyedTypes
  <1>2. tries'[a] = [c EXCEPT !.todo = RestOf(a)]
    BY <1>1 DEF GoesTo
  <1>3. tries'[a].todo = RestOf(a) /\ tries'[a].made = c.made
    BY <1>2 DEF TryFields
  <1> QED BY <1>3 DEF Advances

\* Every section goes on with the rest of the action, skips a part of it, or ends it.
LEMMA SectionAdvances ==
    ASSUME KeyedTypes, SoundRows(tables), NEW a \in SentCommands, WorkLeft(a), SectionStep(a)
    PROVE  Advances(a) /\ Try(a).todo # <<>> /\ Try(a).at = "work"
  <1>1. Try(a).at = "work" /\ Try(a).todo # <<>>
    BY DEF SectionStep, ReadSection, CountSection, MakeSection, SetSection, RemoveSection, SaySection, HeardSection,
           DefaultSection, PatchSection, SlugSection, PresetSection, DownloadSection, EntrySection, PruneSection,
           RecountSection, MarkSection, DispatchSection, OutcomeSection, Does
  <1> SUFFICES Advances(a)
    BY <1>1
  <1>2. /\ DOMAIN Try(a) = TryFields /\ DOMAIN Wrote(a) = TryFields /\ a \in DOMAIN tries
        /\ \A f \in TryFields \ {"writes"} : Wrote(a)[f] = Try(a)[f]
    BY <1>1, RecordsKeep DEF KeyedTypes
  <1> DEFINE Plain(c) == DOMAIN c = TryFields /\ c.made = Try(a).made
             MakesOne == MakesRun(CommandOf(a).action)
  <1>3. MakesOne => Now(a).do \in {"read", "say", "heard", "make"} /\ (Now(a).do = "make" => Now(a).table = "run")
    BY <1>1, NowIsSound
  <1>4. ASSUME NEW c, Plain(c), GoesTo(a, c), Now(a).do # "make" PROVE Advances(a)
    BY <1>1, <1>4, GoesToAdvances
  <1>5. Fails(a) => Advances(a)
    BY <1>1, FailsAdvances
  <1>6. Plain(Try(a)) /\ Plain(Wrote(a))
    BY <1>2 DEF TryFields
  <1>7. \A c, f, v : Plain(c) /\ f \in TryFields \ {"made"} => Plain([c EXCEPT ![f] = v])
    BY DEF TryFields
  <1>8. {"seen", "count", "said", "slug", "tried", "dispatched", "writes", "todo"} \subseteq TryFields \ {"made"}
    BY DEF TryFields
  <1>9. ASSUME ~MakesOne, tries'[a].todo \in Seq(ActionParts(a) \cup FeedReads) PROVE Advances(a)
    BY <1>9 DEF Advances
  <1> HIDE DEF Plain, MakesOne
  <1>10. CASE MakeSection(a)
    <2>1. CASE Fails(a)
      BY <1>5, <2>1
    <2> DEFINE s == Now(a)
               name == IF s.do = "copy" THEN Try(a).slug ELSE s.name
    <2>2. CASE /\ (s.id # 0 => There(ParentTable[s.table], s.id))
               /\ Inserted(s.table, s.id, name, s.state) /\ GoesTo(a, [Wrote(a) EXCEPT !.made = NewId(s.table)])
      <3>1. DOMAIN [Wrote(a) EXCEPT !.made = NewId(s.table)] = TryFields /\ [Wrote(a) EXCEPT !.made = NewId(s.table)].made = NewId(s.table)
        BY <1>2 DEF TryFields
      <3>2. MakesOne => s.do = "make" /\ s.table = "run"
        BY <1>3, <1>10 DEF MakeSection, Does, Now
      <3>3. MakesOne => NewId(s.table) \in RowIds("run")'
        <4>1. ASSUME MakesOne PROVE NewId("run") \in RowIds("run")'
          <5>1. "run" \in KeyedTables \ {"entry"} /\ Inserted("run", s.id, name, s.state)
            BY <2>2, <3>2, <4>1 DEF KeyedTables
          <5> HIDE DEF s, name
          <5> QED BY <5>1, InsertKeeps
        <4> QED BY <3>2, <4>1
      <3>4. GoesTo(a, [Wrote(a) EXCEPT !.made = NewId(s.table)])
        BY <2>2
      <3>5. MakesRun(CommandOf(a).action) =>
               IF Now(a).do = "make" THEN [Wrote(a) EXCEPT !.made = NewId(s.table)].made \in RowIds("run")'
               ELSE [Wrote(a) EXCEPT !.made = NewId(s.table)].made = Try(a).made
        BY <3>1, <3>2, <3>3 DEF MakesOne
      <3> HIDE DEF s, name
      <3> QED BY <1>1, <3>1, <3>4, <3>5, GoesToAdvances
    <2> QED BY <1>10, <2>1, <2>2 DEF MakeSection
  <1>11. CASE SlugSection(a) \/ PresetSection(a) \/ DownloadSection(a)
    <2>1. ~MakesOne /\ Now(a).do # "make"
      BY <1>3, <1>11 DEF SlugSection, PresetSection, DownloadSection, Does, Now
    <2>2. \A c : DOMAIN c = TryFields /\ GoesTo(a, c) => Advances(a)
      BY <1>1, <2>1, GoesToAdvances DEF MakesOne
    <2>3. ASSUME tries' = [tries EXCEPT ![a].tried = @ + 1] PROVE Advances(a)
      <3>1. tries'[a] = [Try(a) EXCEPT !.tried = @ + 1]
        BY <1>2, <2>3 DEF Try
      <3>2. tries'[a].todo = Try(a).todo
        BY <1>2, <3>1 DEF TryFields
      <3> QED BY <1>9, <2>1, <3>2 DEF WorkLeft
    <2>4. ASSUME tries' = [tries EXCEPT ![a].todo = SubSeq(@, 5, Len(@))] PROVE Advances(a)
      <3>1. tries'[a] = [Try(a) EXCEPT !.todo = SubSeq(Try(a).todo, 5, Len(Try(a).todo))]
        BY <1>2, <2>4 DEF Try
      <3>2. tries'[a].todo = SubSeq(Try(a).todo, 5, Len(Try(a).todo))
        BY <1>2, <3>1 DEF TryFields
      <3>0. 5 \in Nat \ {0}
        OBVIOUS
      <3>3. SubSeq(Try(a).todo, 5, Len(Try(a).todo)) \in Seq(ActionParts(a) \cup FeedReads)
        BY <1>1, <3>0, NowIsSound
      <3> QED BY <1>9, <2>1, <3>2, <3>3
    <2>5. ASSUME tries' = [tries EXCEPT ![a].todo = <<Reads("feed", Now(a).id)>>] PROVE Advances(a)
      <3>1. tries'[a] = [Try(a) EXCEPT !.todo = <<Reads("feed", Now(a).id)>>]
        BY <1>2, <2>5 DEF Try
      <3>2. tries'[a].todo = <<Reads("feed", Now(a).id)>>
        BY <1>2, <3>1 DEF TryFields
      <3>3. Now(a).id \in Nat
        BY <1>1, NowIsSound
      <3>4. Reads("feed", Now(a).id) \in ActionParts(a) \cup FeedReads
        BY <3>3 DEF FeedReads
      <3>5. <<Reads("feed", Now(a).id)>> \in Seq(ActionParts(a) \cup FeedReads)
        BY <3>4
      <3> QED BY <1>9, <2>1, <3>2, <3>5
    <2>6. CASE \E c : DOMAIN c = TryFields /\ GoesTo(a, c)
      BY <2>2, <2>6
    <2>7. DOMAIN [Try(a) EXCEPT !.slug = Try(a).seen.name \o <<"copy", Try(a).tried>>] = TryFields
      BY <1>2
    <2> QED BY <1>2, <1>11, <2>2, <2>3, <2>4, <2>5, <2>7 DEF SlugSection, PresetSection, DownloadSection
  <1> USE <1>4, <1>5, <1>6, <1>7, <1>8
  <1>12. CASE ReadSection(a) \/ CountSection(a)
    <2>1. Now(a).do # "make"
      BY <1>12 DEF ReadSection, CountSection, Does, Now
    <2> QED BY <1>12, <2>1 DEF ReadSection, CountSection
  <1>13. CASE SetSection(a) \/ RemoveSection(a) \/ SaySection(a) \/ HeardSection(a)
    <2>1. Now(a).do # "make"
      BY <1>13 DEF SetSection, RemoveSection, SaySection, HeardSection, Does, Now
    <2> QED BY <1>13, <2>1 DEF SetSection, RemoveSection, SaySection, HeardSection
  <1>14. CASE DefaultSection(a) \/ PruneSection(a) \/ RecountSection(a) \/ MarkSection(a) \/ OutcomeSection(a)
    <2>1. Now(a).do # "make"
      BY <1>14 DEF DefaultSection, PruneSection, RecountSection, MarkSection, OutcomeSection, Does, Now
    <2> QED BY <1>14, <2>1 DEF DefaultSection, PruneSection, RecountSection, MarkSection, OutcomeSection
  <1>15. CASE PatchSection(a)
    <2>1. Now(a).do # "make"
      BY <1>15 DEF PatchSection, Does, Now
    <2>2. ASSUME tries' = [tries EXCEPT ![a] = [Wrote(a) EXCEPT !.at = "failing"]] PROVE Advances(a)
      BY <1>2, <2>2 DEF Advances, TryFields
    <2> QED BY <1>15, <2>1, <2>2 DEF PatchSection
  <1>16. CASE EntrySection(a)
    <2>1. Now(a).do # "make"
      BY <1>16 DEF EntrySection, Does, Now
    <2> QED BY <1>16, <2>1 DEF EntrySection
  <1>17. CASE DispatchSection(a)
    <2>1. Now(a).do # "make"
      BY <1>17 DEF DispatchSection, Does, Now
    <2>2. PICK how \in {"completed", "failed"} :
             GoesTo(a, [Try(a) EXCEPT !.dispatched = how, !.writes = @ + (IF how = "completed" THEN 1 ELSE 0)])
      BY <1>17 DEF DispatchSection
    <2>3. Plain([Try(a) EXCEPT !.dispatched = how, !.writes = @ + (IF how = "completed" THEN 1 ELSE 0)])
      BY <1>2 DEF Plain, TryFields
    <2> QED BY <2>1, <2>2, <2>3
  <1> QED BY <1>10, <1>11, <1>12, <1>13, <1>14, <1>15, <1>16, <1>17 DEF SectionStep

\* What a command that does not move has left, and what stored answers name, stays so.
LEMMA WorkStays ==
    ASSUME KeyedTypes, NEW a \in SentCommands, WorkLeft(a), UNCHANGED script, CommandOf(a)' = CommandOf(a),
           Try(a)'.todo = Try(a).todo, Try(a)'.made = Try(a).made,
           RowIds("run") \subseteq RowIds("run")'
    PROVE  WorkLeft(a)'
  <1>1. ActionParts(a)' = ActionParts(a) /\ FeedReads' = FeedReads
    BY DEF ActionParts, FeedReads, Reads, Section
  <1>2. /\ (MakesRun(CommandOf(a).action))' = MakesRun(CommandOf(a).action)
        /\ MakeIsLeft(Try(a).todo)' = MakeIsLeft(Try(a).todo)
    BY DEF MakesRun, MakeIsLeft
  <1>3. MakesRun(CommandOf(a).action) => Try(a)'.made \in RowIds("run")' \/ MakeIsLeft(Try(a).todo)'
    BY <1>2 DEF WorkLeft
  <1> QED BY <1>1, <1>2, <1>3 DEF WorkLeft
LEMMA AnswersStay ==
    ASSUME AnswersInv, RowIds("run") \subseteq RowIds("run")',
           \A k \in DOMAIN claims' : claims'[k].done => k \in DOMAIN claims /\ claims'[k] = claims[k]
    PROVE  AnswersInv'
  <1>1. \A k \in DOMAIN claims' : claims'[k].done => (MakesRun(claims[k].input))' = MakesRun(claims[k].input)
    BY DEF MakesRun
  <1> QED BY <1>1 DEF AnswersInv

LEMMA WorkOfOthers ==
    ASSUME KeyedTypes, WorkInv, NEW a \in SentCommands, Moves1(a), UNCHANGED script, RowIds("run") \subseteq RowIds("run")',
           Try(a)'.at = "work" => WorkLeft(a)'
    PROVE  WorkInv'
  <1>1. /\ SentCommands' = SentCommands /\ \A b \in SentCommands : CommandOf(b)' = CommandOf(b)
        /\ \A b \in SentCommands \ {a} : Try(b)' = Try(b)
    BY OthersStay
  <1>2. \A b \in SentCommands \ {a} : Try(b)'.at = "work" => WorkLeft(b)'
    BY <1>1, WorkStays DEF WorkInv
  <1> QED BY <1>1, <1>2 DEF WorkInv

LEMMA SectionsKeepWork ==
    ASSUME KeyedTypes, KeysInv, SoundRows(tables), WorkInv, AnswersInv, NEW a \in SentCommands, SectionStep(a)
    PROVE  SoundRows(tables') /\ RunsStay /\ WorkInv' /\ AnswersInv' /\ Worked(a) /\ UNCHANGED <<script, claims>>
  <1>1. Worked(a) /\ Moves1(a) /\ UNCHANGED <<script, claims>> /\ Try(a).at = "work"
    BY SectionMoves DEF Worked
  <1>2. WorkLeft(a)
    BY <1>1 DEF WorkInv
  <1>3. Advances(a) /\ Try(a).todo # <<>>
    BY <1>2, SectionAdvances
  <1>4. SoundSection(Now(a))
    BY <1>2, <1>3, NowIsSound
  <1>5. SoundRows(tables') /\ RunsStay
    BY <1>4, SectionsKeepTables
  <1>6. RowIds("run") \subseteq RowIds("run")'
    BY <1>5 DEF RunsStay
  <1>7. Try(a)'.at = "work" => WorkLeft(a)'
    BY <1>1, <1>2, <1>3, <1>6, AdvancesKeeps
  <1>8. WorkInv'
    BY <1>1, <1>6, <1>7, WorkOfOthers
  <1>9. AnswersInv'
    BY <1>1, <1>6, AnswersStay
  <1> QED BY <1>1, <1>5, <1>8, <1>9

LEMMA ReserveKeepsWork ==
    ASSUME KeyedTypes, KeysInv, WorkInv, AnswersInv, NEW a \in SentCommands, ReserveKey(a)
    PROVE  WorkInv' /\ AnswersInv'
  <1>1. Try(a).at = "idle" /\ UNCHANGED <<script, tables>> /\ DOMAIN Try(a) = TryFields /\ a \in DOMAIN tries
    BY DEF ReserveKey, KeyedTypes, Try
  <1>2. RowIds("run") \subseteq RowIds("run")'
    BY <1>1 DEF RowIds
  <1>3. CASE /\ claims' = [k \in DOMAIN claims \cup {KeyOf(a)} |->
                             IF k = KeyOf(a) THEN [input |-> CommandOf(a).action, done |-> FALSE, answer |-> NoAnswer] ELSE claims[k]]
             /\ tries' = [tries EXCEPT ![a].at = "work", ![a].todo = CommandOf(a).action]
    <2>1. Moves1(a) /\ tries'[a].todo = CommandOf(a).action
      BY <1>1, <1>3 DEF Moves1, TryFields, Try
    <2>2. Try(a)' = tries'[a] /\ CommandOf(a)' = CommandOf(a)
      BY <1>1, <2>1, OthersStay
    <2>3. CommandOf(a).action \in Seq(ActionParts(a))
      <3> DEFINE x == CommandOf(a).action
      <3>1. Len(x) \in Nat /\ x = [i \in 1..Len(x) |-> x[i]]
        BY SentAreSound DEF SoundCommand
      <3>2. \A i \in 1..Len(x) : x[i] \in ActionParts(a)
        BY <3>1 DEF ActionParts
      <3> HIDE DEF x
      <3>3. [i \in 1..Len(x) |-> x[i]] \in Seq(ActionParts(a))
        BY <3>1, <3>2, IsASeq
      <3>4. x \in Seq(ActionParts(a))
        BY <3>1, <3>3
      <3> QED BY <3>4 DEF x
    <2>4. ActionParts(a) \subseteq ActionParts(a) \cup FeedReads
      OBVIOUS
    <2>5. CommandOf(a).action \in Seq(ActionParts(a) \cup FeedReads)
      BY <2>3, <2>4
    <2>6. MakesRun(CommandOf(a).action) => MakeIsLeft(CommandOf(a).action)
      BY DEF MakesRun, MakeIsLeft
    <2>7. /\ ActionParts(a)' = ActionParts(a) /\ FeedReads' = FeedReads
          /\ (MakesRun(CommandOf(a).action))' = MakesRun(CommandOf(a).action)
      BY <2>2 DEF ActionParts, FeedReads, Reads, Section, MakesRun
    <2>8. MakeIsLeft(Try(a).todo)' = MakeIsLeft(CommandOf(a).action)
      BY <2>1, <2>2 DEF MakeIsLeft
    <2>9. WorkLeft(a)'
      BY <2>1, <2>2, <2>3, <2>5, <2>6, <2>7, <2>8 DEF WorkLeft
    <2>10. \A k \in DOMAIN claims' : claims'[k].done => k \in DOMAIN claims /\ claims'[k] = claims[k]
      BY <1>3
    <2> QED BY <1>1, <1>2, <2>1, <2>9, <2>10, WorkOfOthers, AnswersStay
  <1>4. CASE UNCHANGED claims /\ (IsGiven(a, ClaimOf(a).answer) \/ CommandAt(a, "refused"))
    <2>1. Moves1(a) /\ tries'[a].at # "work"
      <3>1. CASE CommandAt(a, "refused")
        BY <1>1, <3>1 DEF Moves1, TryFields, Try, CommandAt
      <3>2. CASE IsGiven(a, ClaimOf(a).answer)
        <4> DEFINE at == IF CommandOf(a).then = <<>> THEN "ok" ELSE "then"
        <4>1. at # "work"
          OBVIOUS
        <4>2. tries' = [tries EXCEPT ![a].answer = ClaimOf(a).answer, ![a].made = ClaimOf(a).answer.made,
                                     ![a].todo = CommandOf(a).then, ![a].at = at]
          BY <3>2 DEF IsGiven
        <4> HIDE DEF at
        <4> QED BY <1>1, <4>1, <4>2 DEF Moves1, TryFields, Try
      <3> QED BY <1>4, <3>1, <3>2
    <2>2. Try(a)' = tries'[a]
      BY <1>1, <2>1, OthersStay
    <2> QED BY <1>1, <1>2, <1>4, <2>1, <2>2, WorkOfOthers, AnswersStay
  <1> QED BY <1>3, <1>4 DEF ReserveKey, ClaimOf

LEMMA CompleteKeepsWork ==
    ASSUME KeyedTypes, KeysInv, WorkInv, AnswersInv, NEW a \in SentCommands, CompleteKey(a)
    PROVE  WorkInv' /\ AnswersInv'
  <1> DEFINE answer == [made |-> Try(a).made, row |-> Try(a).seen, count |-> Try(a).count]
  <1>1. Try(a).at = "work" /\ Try(a).todo = <<>> /\ UNCHANGED <<script, tables>> /\ DOMAIN Try(a) = TryFields /\ a \in DOMAIN tries
    BY DEF CompleteKey, KeyedTypes, Try
  <1>2. RowIds("run") \subseteq RowIds("run")'
    BY <1>1 DEF RowIds
  <1>3. HoldsPending(a) /\ WorkLeft(a)
    BY <1>1 DEF Holding, KeysInv, WorkInv
  <1>4. CASE claims' = [claims EXCEPT ![KeyOf(a)].done = TRUE, ![KeyOf(a)].answer = answer] /\ IsGiven(a, answer)
    <2>1. Moves1(a) /\ tries'[a].at # "work"
      <3> DEFINE at == IF CommandOf(a).then = <<>> THEN "ok" ELSE "then"
      <3>1. at # "work"
        OBVIOUS
      <3>2. tries' = [tries EXCEPT ![a].answer = answer, ![a].made = answer.made,
                                   ![a].todo = CommandOf(a).then, ![a].at = at]
        BY <1>4 DEF IsGiven
      <3> HIDE DEF at, answer
      <3> QED BY <1>1, <3>1, <3>2 DEF Moves1, TryFields, Try
    <2>2. Try(a)' = tries'[a]
      BY <1>1, <2>1, OthersStay
    <2>3. answer.made = Try(a).made
      OBVIOUS
    <2> HIDE DEF answer
    <2>4. /\ DOMAIN claims' = DOMAIN claims
          /\ \A k \in DOMAIN claims : k # KeyOf(a) => claims'[k] = claims[k]
          /\ claims'[KeyOf(a)].answer = answer /\ claims'[KeyOf(a)].input = CommandOf(a).action
      BY <1>3, <1>4 DEF HoldsPending, ClaimOf, KeyedTypes
    <2>5. MakesRun(CommandOf(a).action) => Try(a).made \in RowIds("run")
      <3>1. ~MakeIsLeft(<<>>)
        BY DEF MakeIsLeft
      <3> QED BY <1>1, <1>3, <3>1 DEF WorkLeft
    <2>6. \A k \in DOMAIN claims' : (MakesRun(claims[k].input))' = MakesRun(claims'[k].input)
      BY DEF MakesRun
    <2>7. AnswersInv'
      <3> SUFFICES ASSUME NEW k \in DOMAIN claims', claims'[k].done, MakesRun(claims'[k].input)
                   PROVE  claims'[k].answer.made \in RowIds("run")
        BY <1>2, <2>6 DEF AnswersInv
      <3>1. CASE k = KeyOf(a)
        BY <2>3, <2>4, <2>5, <3>1
      <3>2. CASE k # KeyOf(a)
        BY <2>4, <3>2 DEF AnswersInv
      <3> QED BY <3>1, <3>2
    <2> QED BY <1>1, <1>2, <2>1, <2>2, <2>7, WorkOfOthers
  <1>5. CASE CommandAt(a, "unknown") /\ UNCHANGED claims
    <2>1. Moves1(a) /\ tries'[a].at = "unknown"
      BY <1>1, <1>5 DEF Moves1, TryFields, Try, CommandAt
    <2>2. Try(a)' = tries'[a]
      BY <1>1, <2>1, OthersStay
    <2> QED BY <1>1, <1>2, <1>5, <2>1, <2>2, WorkOfOthers, AnswersStay
  <1> QED BY <1>4, <1>5 DEF CompleteKey

LEMMA ReleaseKeepsWork ==
    ASSUME KeyedTypes, WorkInv, AnswersInv, NEW a \in SentCommands, ReleaseKey(a)
    PROVE  WorkInv' /\ AnswersInv'
  <1>1. UNCHANGED <<script, tables>> /\ DOMAIN Try(a) = TryFields /\ a \in DOMAIN tries
    BY DEF ReleaseKey, KeyedTypes, Try
  <1>2. RowIds("run") \subseteq RowIds("run")'
    BY <1>1 DEF RowIds
  <1>3. Moves1(a) /\ tries'[a].at = "failed"
    BY <1>1 DEF Moves1, TryFields, Try, CommandAt, ReleaseKey
  <1>4. Try(a)' = tries'[a]
    BY <1>1, <1>3, OthersStay
  <1>5. \A k \in DOMAIN claims' : k \in DOMAIN claims /\ claims'[k] = claims[k]
    BY DEF ReleaseKey, Forgets
  <1> QED BY <1>1, <1>2, <1>3, <1>4, <1>5, WorkOfOthers, AnswersStay

-----------------------------------------------------------------------------
(* The steps of a replay after its answer, in order.                                 *)

\* What is left of a sequence after some of its members, and what is left of that.
LEMMA LeftOfLeft ==
    ASSUME NEW S, NEW s \in Seq(S), NEW k \in 1..Len(s), NEW n \in Nat
    PROVE  LET t == SubSeq(s, k, Len(s)) IN
           /\ t # <<>> /\ Head(t) = s[k] /\ Tail(t) = SubSeq(s, k + 1, Len(s))
           /\ SubSeq(t, 2 + n, Len(t)) = SubSeq(s, k + 1 + n, Len(s))
           /\ k + 1 + n > Len(s) => SubSeq(s, k + 1 + n, Len(s)) = <<>>
  <1> DEFINE t == SubSeq(s, k, Len(s))
  <1>1. Len(s) \in Nat /\ k \in Nat /\ k <= Len(s) /\ k >= 1 /\ \A i \in 1..Len(s) : s[i] \in S
    BY LenProperties, ElementOfSeq
  <1>2. t \in Seq(S) /\ Len(t) = Len(s) - k + 1
    <2>1. k \in Int /\ Len(s) \in Int /\ \A i \in k..Len(s) : s[i] \in S
      BY <1>1
    <2>2. t \in Seq(S) /\ Len(t) = IF k <= Len(s) THEN Len(s) - k + 1 ELSE 0
      BY <2>1, SubSeqProperties
    <2> QED BY <1>1, <2>2
  <1>3. t # <<>>
    <2>1. Len(t) # 0
      BY <1>1, <1>2
    <2> HIDE DEF t
    <2> QED BY <1>2, <2>1, EmptySeq
  <1>4. Head(t) = s[k] /\ Tail(t) = SubSeq(s, k + 1, Len(s))
    <2>1. Len(s) \in k..Len(s)
      BY <1>1
    <2> QED BY <2>1, HeadTailOfSubSeq
  <1>5. k + 1 + n > Len(s) => SubSeq(s, k + 1 + n, Len(s)) = <<>>
    BY <1>1, SubSeqEmpty
  <1>6. SubSeq(t, 2 + n, Len(t)) = SubSeq(s, k + 1 + n, Len(s))
    <2>1. CASE k + 1 + n > Len(s)
      <3>1. SubSeq(t, 2 + n, Len(t)) = <<>>
        <4>1. 2 + n \in Int /\ Len(t) \in Int /\ Len(t) < 2 + n
          BY <1>1, <1>2, <2>1
        <4> HIDE DEF t
        <4> QED BY <4>1, SubSeqEmpty
      <3> QED BY <1>5, <2>1, <3>1
    <2>2. CASE k + 1 + n <= Len(s)
      <3>1. /\ 2 + n \in 1 .. Len(s) - k + 1 /\ Len(s) - k + 1 \in 1 .. Len(s) - k + 1
            /\ k \in 1..Len(s) /\ Len(s) \in 1..Len(s)
        BY <1>1, <2>2
      <3>2. SubSeq(SubSeq(s, k, Len(s)), 2 + n, Len(s) - k + 1) = SubSeq(s, k + (2 + n) - 1, k + (Len(s) - k + 1) - 1)
        BY <3>1, SubSeqOfSubSeq
      <3>3. k + (2 + n) - 1 = k + 1 + n /\ k + (Len(s) - k + 1) - 1 = Len(s)
        BY <1>1
      <3> QED BY <1>2, <3>2, <3>3
    <2> QED BY <1>1, <2>1, <2>2
  <1> QED BY <1>3, <1>4, <1>5, <1>6

Rebinds == <<Section("rebind", "run", 0), Section("undriven", "", 0), Section("drive", "", 0)>>
IsLeftOf(todo, steps) == \E k \in 1..Len(steps) : todo = SubSeq(steps, k, Len(steps))
LeftToSpawn(todo, chat) == IsLeftOf(todo, SpawnReplay(chat)) \/ IsLeftOf(todo, Rebinds)
SpawnDos == <<"linked", "read", "link", "exec", "start", "record", "bind", "drive">>
RebindDos == <<"rebind", "undriven", "drive">>

LEMMA SpawnIs ==
    ASSUME NEW chat
    PROVE  \E S : /\ SpawnReplay(chat) \in Seq(S) /\ Len(SpawnReplay(chat)) = 8
                  /\ \A i \in 1..8 : SpawnReplay(chat)[i].do = SpawnDos[i]
                  /\ SpawnReplay(chat)[1].skips = 2
  <1> DEFINE e1 == [Section("linked", "", chat) EXCEPT !.skips = 2]
             e2 == Reads("conversation", chat)
             e3 == Section("link", "", chat)
             e4 == Section("exec", "", 0)
             e5 == Section("start", "", 0)
             e6 == Section("record", "", 0)
             e7 == Section("bind", "run", 0)
             e8 == Section("drive", "", 0)
             s == <<e1, e2, e3, e4, e5, e6, e7, e8>>
  <1>1. SpawnReplay(chat) = s
    BY DEF SpawnReplay
  <1>2. /\ e1.do = "linked" /\ e2.do = "read" /\ e3.do = "link" /\ e4.do = "exec"
        /\ e5.do = "start" /\ e6.do = "record" /\ e7.do = "bind" /\ e8.do = "drive" /\ e1.skips = 2
    BY DEF Section, Reads
  <1> HIDE DEF e1, e2, e3, e4, e5, e6, e7, e8
  <1>3. s \in Seq({e1, e2, e3, e4, e5, e6, e7, e8}) /\ Len(s) = 8
    OBVIOUS
  <1>4. s[1].do = SpawnDos[1] /\ s[2].do = SpawnDos[2] /\ s[3].do = SpawnDos[3] /\ s[4].do = SpawnDos[4] /\ s[1].skips = 2
    BY <1>2 DEF SpawnDos
  <1>5. s[5].do = SpawnDos[5] /\ s[6].do = SpawnDos[6] /\ s[7].do = SpawnDos[7] /\ s[8].do = SpawnDos[8]
    BY <1>2 DEF SpawnDos
  <1> HIDE DEF s
  <1>6. \A i \in 1..8 : s[i].do = SpawnDos[i]
    <2>1. \A i \in 1..8 : i = 1 \/ i = 2 \/ i = 3 \/ i = 4 \/ i = 5 \/ i = 6 \/ i = 7 \/ i = 8
      OBVIOUS
    <2> QED BY <1>4, <1>5, <2>1
  <1> QED BY <1>1, <1>3, <1>4, <1>6
LEMMA RebindsAre ==
    \E S : /\ Rebinds \in Seq(S) /\ Len(Rebinds) = 3
           /\ \A i \in 1..3 : Rebinds[i].do = RebindDos[i]
  <1> DEFINE e1 == Section("rebind", "run", 0)
             e2 == Section("undriven", "", 0)
             e3 == Section("drive", "", 0)
  <1>1. e1.do = "rebind" /\ e2.do = "undriven" /\ e3.do = "drive" /\ Rebinds = <<e1, e2, e3>>
    BY DEF Section, Rebinds
  <1> HIDE DEF e1, e2, e3
  <1>2. Rebinds \in Seq({e1, e2, e3}) /\ Len(Rebinds) = 3 /\ \A i \in 1..3 : Rebinds[i].do = RebindDos[i]
    BY <1>1 DEF RebindDos
  <1> QED BY <1>2

\* What follows on what.
NextDo == [linked |-> "read", read |-> "link", link |-> "exec", exec |-> "start", start |-> "record",
           record |-> "bind", bind |-> "drive", rebind |-> "undriven", undriven |-> "drive"]
LEMMA ReplayOrder ==
    ASSUME NEW chat, NEW todo, LeftToSpawn(todo, chat)
    PROVE  LET now == Head(todo)
               Rest(n) == SubSeq(todo, 2 + n, Len(todo))
           IN /\ todo # <<>> /\ now.do \in DOMAIN NextDo \cup {"drive"} /\ Tail(todo) = Rest(0)
              /\ now.do # "drive" => /\ Rest(0) # <<>> /\ LeftToSpawn(Rest(0), chat)
                                     /\ Head(Rest(0)).do = NextDo[now.do]
              /\ now.do = "linked" => /\ now.skips = 2 /\ Rest(2) # <<>> /\ LeftToSpawn(Rest(2), chat)
                                      /\ Head(Rest(2)).do = "exec"
              /\ now.do = "drive" => Rest(0) = <<>>
              /\ now.do = "undriven" => Rest(1) = <<>>
  <1> DEFINE now == Head(todo)
             Rest(n) == SubSeq(todo, 2 + n, Len(todo))
             Goal == /\ todo # <<>> /\ now.do \in DOMAIN NextDo \cup {"drive"} /\ Tail(todo) = Rest(0)
                     /\ now.do # "drive" => /\ Rest(0) # <<>> /\ LeftToSpawn(Rest(0), chat)
                                            /\ Head(Rest(0)).do = NextDo[now.do]
                     /\ now.do = "linked" => /\ now.skips = 2 /\ Rest(2) # <<>> /\ LeftToSpawn(Rest(2), chat)
                                             /\ Head(Rest(2)).do = "exec"
                     /\ now.do = "drive" => Rest(0) = <<>>
                     /\ now.do = "undriven" => Rest(1) = <<>>
  <1>1. CASE IsLeftOf(todo, SpawnReplay(chat))
    <2> DEFINE s == SpawnReplay(chat)
    <2>1. PICK S : s \in Seq(S) /\ Len(s) = 8 /\ (\A i \in 1..8 : s[i].do = SpawnDos[i]) /\ s[1].skips = 2
      BY SpawnIs
    <2>2. PICK k \in 1..8 : todo = SubSeq(s, k, Len(s))
      BY <1>1, <2>1 DEF IsLeftOf
    <2>0. \A m \in 1..8 : IsLeftOf(SubSeq(s, m, Len(s)), s)
      BY <2>1 DEF IsLeftOf
    <2>3. \A m \in 1..8 : LeftToSpawn(SubSeq(s, m, Len(s)), chat)
      BY <2>0 DEF LeftToSpawn
    <2> HIDE DEF s
    <2>i. s \in Seq(S) /\ Len(s) = 8 /\ k \in 1..Len(s)
      BY <2>1, <2>2
    <2>4. todo # <<>> /\ now = s[k] /\ Tail(todo) = SubSeq(s, k + 1, Len(s))
      <3>1. LET t == SubSeq(s, k, Len(s)) IN t # <<>> /\ Head(t) = s[k] /\ Tail(t) = SubSeq(s, k + 1, Len(s))
        BY <2>i, LeftOfLeft, 0 \in Nat
      <3> QED BY <2>2, <3>1
    <2>5. \A n \in Nat : Rest(n) = SubSeq(s, k + 1 + n, Len(s)) /\ (k + 1 + n > 8 => Rest(n) = <<>>)
      <3>1. \A n \in Nat : LET t == SubSeq(s, k, Len(s)) IN
               /\ SubSeq(t, 2 + n, Len(t)) = SubSeq(s, k + 1 + n, Len(s))
               /\ k + 1 + n > Len(s) => SubSeq(s, k + 1 + n, Len(s)) = <<>>
        BY <2>i, LeftOfLeft
      <3> QED BY <2>2, <2>i, <3>1
    <2>6. \A m \in 1..8 : SubSeq(s, m, Len(s)) # <<>> /\ Head(SubSeq(s, m, Len(s))) = s[m]
      <3>1. \A m \in 1..Len(s) : LET t == SubSeq(s, m, Len(s)) IN t # <<>> /\ Head(t) = s[m]
        BY <2>i, LeftOfLeft, 0 \in Nat
      <3> QED BY <2>i, <3>1
    <2>7. Rest(0) = SubSeq(s, k + 1, Len(s)) /\ Rest(2) = SubSeq(s, k + 3, Len(s)) /\ (k = 8 => Rest(0) = <<>>)
      <3>1. 0 \in Nat /\ 2 \in Nat /\ k + 1 + 0 = k + 1 /\ k + 1 + 2 = k + 3 /\ (k = 8 => k + 1 + 0 > 8)
        BY <2>2
      <3> HIDE DEF Rest
      <3> QED BY <2>5, <3>1
    <2>8. now.do = SpawnDos[k]
      BY <2>1, <2>4
    <2>9. k # 8 => Rest(0) # <<>> /\ LeftToSpawn(Rest(0), chat) /\ Head(Rest(0)).do = SpawnDos[k + 1]
      <3>1. ASSUME k # 8 PROVE k + 1 \in 1..8
        BY <2>2, <3>1
      <3> HIDE DEF Rest
      <3> QED BY <2>1, <2>3, <2>6, <2>7, <3>1
    <2>10. k = 1 => now.skips = 2 /\ Rest(2) # <<>> /\ LeftToSpawn(Rest(2), chat) /\ Head(Rest(2)).do = "exec"
      <3>1. k = 1 => k + 3 \in 1..8 /\ SpawnDos[k + 3] = "exec"
        BY DEF SpawnDos
      <3> HIDE DEF Rest
      <3> QED BY <2>1, <2>3, <2>4, <2>6, <2>7, <3>1
    <2>11. /\ k # 8 => SpawnDos[k] # "drive" /\ SpawnDos[k] \in DOMAIN NextDo /\ NextDo[SpawnDos[k]] = SpawnDos[k + 1]
           /\ SpawnDos[k] # "undriven" /\ (SpawnDos[k] = "linked" <=> k = 1) /\ (SpawnDos[k] = "drive" <=> k = 8)
      BY <2>2 DEF SpawnDos, NextDo
    <2> HIDE DEF Rest, now
    <2>12. todo # <<>> /\ now.do \in DOMAIN NextDo \cup {"drive"} /\ Tail(todo) = Rest(0)
      BY <2>4, <2>7, <2>8, <2>11
    <2>13. now.do # "drive" => Rest(0) # <<>> /\ LeftToSpawn(Rest(0), chat) /\ Head(Rest(0)).do = NextDo[now.do]
      BY <2>8, <2>9, <2>11
    <2>14. /\ now.do = "linked" => now.skips = 2 /\ Rest(2) # <<>> /\ LeftToSpawn(Rest(2), chat) /\ Head(Rest(2)).do = "exec"
           /\ now.do = "drive" => Rest(0) = <<>>
           /\ now.do # "undriven"
      BY <2>7, <2>8, <2>10, <2>11
    <2>15. Goal
      BY <2>12, <2>13, <2>14
    <2> QED BY <2>15 DEF Rest, now
  <1>2. CASE IsLeftOf(todo, Rebinds)
    <2> DEFINE s == Rebinds
    <2>1. PICK S : s \in Seq(S) /\ Len(s) = 3 /\ (\A i \in 1..3 : s[i].do = RebindDos[i])
      BY RebindsAre
    <2>2. PICK k \in 1..3 : todo = SubSeq(s, k, Len(s))
      BY <1>2, <2>1 DEF IsLeftOf
    <2>0. \A m \in 1..3 : IsLeftOf(SubSeq(s, m, Len(s)), s)
      BY <2>1 DEF IsLeftOf
    <2>3. \A m \in 1..3 : LeftToSpawn(SubSeq(s, m, Len(s)), chat)
      BY <2>0 DEF LeftToSpawn
    <2> HIDE DEF s
    <2>i. s \in Seq(S) /\ Len(s) = 3 /\ k \in 1..Len(s)
      BY <2>1, <2>2
    <2>4. todo # <<>> /\ now = s[k] /\ Tail(todo) = SubSeq(s, k + 1, Len(s))
      <3>1. LET t == SubSeq(s, k, Len(s)) IN t # <<>> /\ Head(t) = s[k] /\ Tail(t) = SubSeq(s, k + 1, Len(s))
        BY <2>i, LeftOfLeft, 0 \in Nat
      <3> QED BY <2>2, <3>1
    <2>5. \A n \in Nat : Rest(n) = SubSeq(s, k + 1 + n, Len(s)) /\ (k + 1 + n > 3 => Rest(n) = <<>>)
      <3>1. \A n \in Nat : LET t == SubSeq(s, k, Len(s)) IN
               /\ SubSeq(t, 2 + n, Len(t)) = SubSeq(s, k + 1 + n, Len(s))
               /\ k + 1 + n > Len(s) => SubSeq(s, k + 1 + n, Len(s)) = <<>>
        BY <2>i, LeftOfLeft
      <3> QED BY <2>2, <2>i, <3>1
    <2>6. \A m \in 1..3 : SubSeq(s, m, Len(s)) # <<>> /\ Head(SubSeq(s, m, Len(s))) = s[m]
      <3>1. \A m \in 1..Len(s) : LET t == SubSeq(s, m, Len(s)) IN t # <<>> /\ Head(t) = s[m]
        BY <2>i, LeftOfLeft, 0 \in Nat
      <3> QED BY <2>i, <3>1
    <2>7. /\ Rest(0) = SubSeq(s, k + 1, Len(s)) /\ (k = 3 => Rest(0) = <<>>) /\ (k = 2 => Rest(1) = <<>>)
      <3>1. 0 \in Nat /\ 1 \in Nat /\ k + 1 + 0 = k + 1 /\ (k = 3 => k + 1 + 0 > 3) /\ (k = 2 => k + 1 + 1 > 3)
        BY <2>2
      <3> HIDE DEF Rest
      <3> QED BY <2>5, <3>1
    <2>8. now.do = RebindDos[k]
      BY <2>1, <2>4
    <2>9. k # 3 => Rest(0) # <<>> /\ LeftToSpawn(Rest(0), chat) /\ Head(Rest(0)).do = RebindDos[k + 1]
      <3>1. ASSUME k # 3 PROVE k + 1 \in 1..3
        BY <2>2, <3>1
      <3> HIDE DEF Rest
      <3> QED BY <2>1, <2>3, <2>6, <2>7, <3>1
    <2>11. /\ k # 3 => RebindDos[k] # "drive" /\ RebindDos[k] \in DOMAIN NextDo /\ NextDo[RebindDos[k]] = RebindDos[k + 1]
           /\ RebindDos[k] # "linked" /\ (RebindDos[k] = "undriven" <=> k = 2) /\ (RebindDos[k] = "drive" <=> k = 3)
      BY <2>2 DEF RebindDos, NextDo
    <2> HIDE DEF Rest, now
    <2>12. todo # <<>> /\ now.do \in DOMAIN NextDo \cup {"drive"} /\ Tail(todo) = Rest(0)
      BY <2>4, <2>7, <2>8, <2>11
    <2>13. now.do # "drive" => Rest(0) # <<>> /\ LeftToSpawn(Rest(0), chat) /\ Head(Rest(0)).do = NextDo[now.do]
      BY <2>8, <2>9, <2>11
    <2>14. /\ now.do # "linked"
           /\ now.do = "drive" => Rest(0) = <<>>
           /\ now.do = "undriven" => Rest(1) = <<>>
      BY <2>7, <2>8, <2>11
    <2>15. Goal
      BY <2>12, <2>13, <2>14
    <2> QED BY <2>15 DEF Rest, now
  <1> QED BY <1>1, <1>2 DEF LeftToSpawn

-----------------------------------------------------------------------------
(* Where a replay is after its answer, and what is true once it has ended.           *)

RowOf(a) == Try(a).answer.made
Recorded(a) == RowOf(a) \in DOMAIN execRuns /\ execRuns[RowOf(a)] = Try(a).run
Bound(a) == Broken \/ tables["run"][RowOf(a)].state = execRuns[RowOf(a)]
Driven(a) == RowOf(a) \in DOMAIN execRuns /\ driving[execRuns[RowOf(a)]] > 0 /\ Bound(a)
Spawning(a) ==
    /\ CommandOf(a).then # <<>> /\ LeftToSpawn(Try(a).todo, CommandOf(a).then[1].id)
    /\ Now(a).do = "record" => Try(a).run \in 1..auxRuns
    /\ Now(a).do \in {"bind", "rebind", "undriven", "drive"} => Recorded(a)
    /\ Now(a).do \in {"undriven", "drive"} => Bound(a)
IsReplayed(a) == Try(a).at = "ok" /\ CommandOf(a).then # <<>> /\ ~Try(a).before
ReplaysInv ==
    /\ \A a \in SentCommands : Try(a).at = "then" => Spawning(a)
    /\ \A a \in SentCommands : IsReplayed(a) => Driven(a)
RunTypes ==
    /\ auxRuns \in Nat /\ driving \in Seq(Nat) /\ Len(driving) = auxRuns
    /\ \A r \in DOMAIN execRuns : execRuns[r] \in 1..auxRuns
    /\ DOMAIN mishaps = {"broken", "crashed"}

\* Recorded runs stay recorded, driven and bound.
ReplaysGrow ==
    /\ DOMAIN execRuns \subseteq DOMAIN execRuns' /\ \A r \in DOMAIN execRuns : execRuns'[r] = execRuns[r]
    /\ auxRuns <= auxRuns' /\ \A r \in 1..auxRuns : driving'[r] >= driving[r]
    /\ Broken => Broken'
    /\ \A n \in RowIds("run") \cap DOMAIN execRuns :
          tables["run"][n].state = execRuns[n] => tables'["run"][n].state = execRuns[n]

LEMMA LeftPrimed ==
    ASSUME NEW a, NEW chat
    PROVE  LeftToSpawn(Try(a).todo, chat)' = LeftToSpawn(Try(a)'.todo, chat)
  BY DEF LeftToSpawn, IsLeftOf, SpawnReplay, Rebinds, Reads, Section

\* The row of a stored answer is there.
LEMMA RowIsThere ==
    ASSUME KeyedTypes, KeysInv, AnswersInv, NEW a \in SentCommands, IsAnswered(a), CommandOf(a).then # <<>>
    PROVE  RowOf(a) \in RowIds("run")
  <1>1. MakesRun(CommandOf(a).action)
    BY SentAreSound DEF SoundCommand
  <1>2. IsSettled(a)
    BY DEF KeysInv
  <1> QED BY <1>1, <1>2 DEF IsSettled, ClaimOf, AnswersInv, RowOf

\* A command that does not move keeps what it had.
LEMMA ReplayStays ==
    ASSUME RunTypes, RunTypes', ReplaysGrow, NEW a, Try(a)' = Try(a), CommandOf(a)' = CommandOf(a), RowOf(a) \in RowIds("run")
    PROVE  (Spawning(a) => Spawning(a)') /\ (Driven(a) => Driven(a)')
  <1>1. RowOf(a)' = RowOf(a) /\ Now(a)' = Now(a)
    BY DEF RowOf, Now
  <1>2. Recorded(a) => Recorded(a)'
    BY <1>1 DEF Recorded, ReplaysGrow
  <1>3. Bound(a) /\ RowOf(a) \in DOMAIN execRuns => Bound(a)'
    BY <1>1 DEF Bound, ReplaysGrow
  <1>4. Try(a).run \in 1..auxRuns => Try(a).run \in 1..auxRuns'
    BY DEF RunTypes, ReplaysGrow
  <1>5. LeftToSpawn(Try(a).todo, CommandOf(a).then[1].id) => LeftToSpawn(Try(a).todo, CommandOf(a).then[1].id)'
    BY LeftPrimed DEF LeftToSpawn, IsLeftOf, SpawnReplay, Rebinds, Reads, Section
  <1>6. ASSUME Spawning(a) PROVE Spawning(a)'
    <2>1. Now(a).do \in {"undriven", "drive"} => RowOf(a) \in DOMAIN execRuns
      BY <1>6 DEF Spawning, Recorded
    <2> QED BY <1>1, <1>2, <1>3, <1>4, <1>5, <1>6, <2>1 DEF Spawning
  <1>7. ASSUME Driven(a) PROVE Driven(a)'
    <2> DEFINE r == RowOf(a)
               k == execRuns[r]
    <2>1. r \in DOMAIN execRuns /\ driving[k] > 0 /\ Bound(a) /\ k \in 1..auxRuns
      BY <1>7 DEF Driven, RunTypes
    <2>2. r \in DOMAIN execRuns' /\ execRuns'[r] = k /\ driving'[k] >= driving[k] /\ k \in 1..auxRuns'
      BY <2>1 DEF ReplaysGrow, RunTypes
    <2>3. driving[k] \in Nat /\ driving'[k] \in Nat
      <3>1. k \in 1..Len(driving) /\ k \in 1..Len(driving')
        BY <2>1, <2>2 DEF RunTypes
      <3> HIDE DEF k
      <3> QED BY <3>1, ElementOfSeq DEF RunTypes
    <2>4. driving'[k] > 0
      BY <2>1, <2>2, <2>3
    <2> QED BY <1>1, <1>3, <2>1, <2>2, <2>4 DEF Driven
  <1> QED BY <1>6, <1>7

\* One command moves, and the replays stand as they should.
LEMMA ReplaysFollow ==
    ASSUME KeyedTypes, KeysInv, AnswersInv, RunTypes, ReplaysInv, NEW a \in SentCommands, Moves1(a), UNCHANGED script,
           RunTypes', ReplaysGrow,
           Try(a)'.at = "then" => Spawning(a)',
           IsReplayed(a)' => Driven(a)'
    PROVE  ReplaysInv'
  <1>1. /\ SentCommands' = SentCommands
        /\ \A b \in SentCommands : CommandOf(b)' = CommandOf(b)
        /\ \A b \in SentCommands \ {a} : Try(b)' = Try(b)
    BY OthersStay
  <1>2. ASSUME NEW b \in SentCommands \ {a}
        PROVE  /\ Try(b)'.at = "then" => Spawning(b)'
               /\ IsReplayed(b)' => Driven(b)'
    <2>1. Try(b)' = Try(b) /\ CommandOf(b)' = CommandOf(b)
      BY <1>1
    <2>2. CASE Try(b).at = "then"
      <3>1. Spawning(b) /\ IsAnswered(b) /\ CommandOf(b).then # <<>>
        BY <2>2 DEF ReplaysInv, Spawning, IsAnswered
      <3>2. RowOf(b) \in RowIds("run")
        BY <3>1, RowIsThere
      <3>3. Spawning(b)'
        BY <2>1, <3>1, <3>2, ReplayStays
      <3> QED BY <2>1, <2>2, <3>3 DEF IsReplayed
    <2>3. CASE IsReplayed(b)
      <3>1. Driven(b) /\ IsAnswered(b) /\ CommandOf(b).then # <<>>
        BY <2>3 DEF ReplaysInv, IsReplayed, IsAnswered
      <3>2. RowOf(b) \in RowIds("run")
        BY <3>1, RowIsThere
      <3>3. Driven(b)'
        BY <2>1, <3>1, <3>2, ReplayStays
      <3> QED BY <2>1, <2>3, <3>3 DEF IsReplayed
    <2>4. IsReplayed(b)' = IsReplayed(b)
      BY <2>1 DEF IsReplayed
    <2> QED BY <2>1, <2>2, <2>3, <2>4
  <1> QED BY <1>1, <1>2 DEF ReplaysInv

\* Steps that touch no run.
LEMMA QuietGrow ==
    ASSUME RunTypes, RunsStay, UNCHANGED linkVars, UNCHANGED mishaps \/ mishaps' = [mishaps EXCEPT !.broken = TRUE]
    PROVE  RunTypes' /\ ReplaysGrow
  <1>1. RunTypes'
    BY DEF RunTypes, linkVars
  <1>2. \A r \in 1..auxRuns : driving'[r] >= driving[r]
    <2>1. \A r \in 1..auxRuns : driving[r] \in Nat
      BY ElementOfSeq DEF RunTypes
    <2> QED BY <2>1 DEF linkVars
  <1>3. Broken => Broken'
    BY DEF RunTypes, Broken
  <1>4. \A n \in RowIds("run") \cap DOMAIN execRuns :
          tables["run"][n].state = execRuns[n] => tables'["run"][n].state = execRuns[n]
    BY DEF RunsStay
  <1>5. auxRuns <= auxRuns' /\ UNCHANGED execRuns
    BY DEF RunTypes, linkVars
  <1> QED BY <1>1, <1>2, <1>3, <1>4, <1>5 DEF ReplaysGrow
LEMMA SameRuns == ASSUME UNCHANGED tables PROVE RunsStay
  BY DEF RunsStay, RowIds

-----------------------------------------------------------------------------
(* The steps of a replay, one by one.                                                *)

Rest(a, n) == SubSeq(Try(a).todo, 2 + n, Len(Try(a).todo))
\* Its record goes on to what is left.
LEMMA GoesOnTo ==
    ASSUME KeyedTypes, NEW a \in SentCommands, NEW n \in Nat, GoesOn(a, n), UNCHANGED script
    PROVE  /\ Moves1(a) /\ CommandOf(a)' = CommandOf(a)
           /\ Try(a)'.todo = Rest(a, n) /\ Try(a)'.at = IF Rest(a, n) = <<>> THEN "ok" ELSE "then"
           /\ Try(a)'.run = Try(a).run /\ Try(a)'.before = Try(a).before
           /\ RowOf(a)' = RowOf(a) /\ Now(a)' = Head(Rest(a, n))
  <1>1. a \in DOMAIN tries /\ DOMAIN Try(a) = TryFields
    BY DEF KeyedTypes, Try
  <1>2. tries' = [tries EXCEPT ![a].todo = Rest(a, n), ![a].at = EndsThen(Rest(a, n))]
    BY DEF GoesOn, Rest
  <1>3. /\ Moves1(a) /\ tries'[a].todo = Rest(a, n) /\ tries'[a].at = EndsThen(Rest(a, n))
        /\ tries'[a].run = Try(a).run /\ tries'[a].before = Try(a).before /\ tries'[a].answer = Try(a).answer
    <2> DEFINE todo == Rest(a, n)
               at == EndsThen(Rest(a, n))
    <2>1. tries' = [tries EXCEPT ![a].todo = todo, ![a].at = at]
      BY <1>2
    <2> HIDE DEF todo, at
    <2>2. /\ Moves1(a) /\ tries'[a].todo = todo /\ tries'[a].at = at
          /\ tries'[a].run = Try(a).run /\ tries'[a].before = Try(a).before /\ tries'[a].answer = Try(a).answer
      BY <1>1, <2>1 DEF Moves1, TryFields, Try
    <2> QED BY <2>2 DEF todo, at
  <1>4. CommandOf(a)' = CommandOf(a) /\ Try(a)' = tries'[a]
    BY <1>3, OthersStay
  <1> QED BY <1>3, <1>4 DEF EndsThen, RowOf, Now

\* It fails: nothing is said of it any more.
LEMMA ReplayFails ==
    ASSUME KeyedTypes, KeysInv, AnswersInv, RunTypes, ReplaysInv, NEW a \in SentCommands, CommandAt(a, "failed"),
           UNCHANGED <<script, tables, linkVars>>, UNCHANGED mishaps \/ mishaps' = [mishaps EXCEPT !.broken = TRUE]
    PROVE  RunTypes' /\ ReplaysInv'
  <1>1. Moves1(a) /\ tries'[a].at = "failed"
    BY DEF CommandAt, Moves1, KeyedTypes, TryFields
  <1>2. Try(a)' = tries'[a]
    BY <1>1, OthersStay
  <1>3. RunTypes' /\ ReplaysGrow
    BY QuietGrow, SameRuns
  <1>4. (Try(a)'.at = "then" => Spawning(a)') /\ (IsReplayed(a)' => Driven(a)')
    BY <1>1, <1>2 DEF IsReplayed
  <1> QED BY <1>1, <1>3, <1>4, ReplaysFollow

\* It goes on to the next step that the last one was taken for.
LEMMA ReplayPasses ==
    ASSUME KeyedTypes, KeysInv, AnswersInv, RunTypes, ReplaysInv, NEW a \in SentCommands, Try(a).at = "then",
           NEW n \in Nat, GoesOn(a, n), UNCHANGED script, RunTypes', ReplaysGrow,
           LeftToSpawn(Rest(a, n), CommandOf(a).then[1].id) /\ Rest(a, n) # <<>>,
           Head(Rest(a, n)).do = "record" => Try(a).run \in 1..auxRuns,
           Head(Rest(a, n)).do \in {"bind", "rebind", "undriven", "drive"} => Recorded(a)',
           Head(Rest(a, n)).do \in {"undriven", "drive"} => Bound(a)'
    PROVE  RunTypes' /\ ReplaysInv'
  <1>1. /\ Moves1(a) /\ CommandOf(a)' = CommandOf(a) /\ Try(a)'.todo = Rest(a, n) /\ Try(a)'.at = "then"
        /\ Try(a)'.run = Try(a).run /\ Now(a)' = Head(Rest(a, n))
    BY GoesOnTo
  <1>2. CommandOf(a).then # <<>>
    BY DEF ReplaysInv, Spawning
  <1>3. LeftToSpawn(Try(a).todo, CommandOf(a).then[1].id)'
    <2> DEFINE chat == CommandOf(a).then[1].id
    <2>1. chat' = chat
      BY <1>1
    <2>2. LeftToSpawn(Try(a)'.todo, chat)
      BY <1>1
    <2>3. LeftToSpawn(Try(a).todo, chat)' = LeftToSpawn(Try(a)'.todo, chat')
      BY <2>1 DEF LeftToSpawn, IsLeftOf, SpawnReplay, Rebinds, Reads, Section
    <2> QED BY <2>1, <2>2, <2>3
  <1>4. Try(a).run \in 1..auxRuns => Try(a).run \in 1..auxRuns'
    BY DEF RunTypes, ReplaysGrow
  <1>5. Spawning(a)'
    BY <1>1, <1>2, <1>3, <1>4 DEF Spawning
  <1>6. ~IsReplayed(a)'
    BY <1>1 DEF IsReplayed
  <1> QED BY <1>1, <1>5, <1>6, ReplaysFollow

\* It has ended.
LEMMA ReplayEnds ==
    ASSUME KeyedTypes, KeysInv, AnswersInv, RunTypes, ReplaysInv, NEW a \in SentCommands, Try(a).at = "then",
           NEW n \in Nat, GoesOn(a, n), UNCHANGED script, RunTypes', ReplaysGrow,
           Rest(a, n) = <<>>, Driven(a)'
    PROVE  RunTypes' /\ ReplaysInv'
  <1>1. Moves1(a) /\ Try(a)'.at = "ok"
    BY GoesOnTo
  <1> QED BY <1>1, ReplaysFollow

LEMMA ReplayIs ==
    ASSUME ReplaysInv, NEW a \in SentCommands, Try(a).at = "then"
    PROVE  LET chat == CommandOf(a).then[1].id IN
           /\ Spawning(a) /\ Try(a).todo # <<>> /\ Now(a).do \in DOMAIN NextDo \cup {"drive"} /\ RestOf(a) = Rest(a, 0)
           /\ Now(a).do # "drive" => /\ Rest(a, 0) # <<>> /\ LeftToSpawn(Rest(a, 0), chat)
                                     /\ Head(Rest(a, 0)).do = NextDo[Now(a).do]
           /\ Now(a).do = "linked" => /\ Now(a).skips = 2 /\ Rest(a, 2) # <<>> /\ LeftToSpawn(Rest(a, 2), chat)
                                      /\ Head(Rest(a, 2)).do = "exec"
           /\ Now(a).do = "drive" => Rest(a, 0) = <<>>
           /\ Now(a).do = "undriven" => Rest(a, 1) = <<>>
  <1>1. Spawning(a) /\ LeftToSpawn(Try(a).todo, CommandOf(a).then[1].id)
    BY DEF ReplaysInv, Spawning
  <1> QED BY <1>1, ReplayOrder DEF Now, RestOf, Rest
LEMMA NextDosAre ==
    /\ NextDo["linked"] = "read" /\ NextDo["read"] = "link" /\ NextDo["link"] = "exec" /\ NextDo["exec"] = "start"
    /\ NextDo["start"] = "record" /\ NextDo["record"] = "bind" /\ NextDo["bind"] = "drive"
    /\ NextDo["rebind"] = "undriven" /\ NextDo["undriven"] = "drive"
  BY DEF NextDo

LEMMA LinkingKeeps ==
    ASSUME KeyedTypes, KeysInv, AnswersInv, RunTypes, ReplaysInv, NEW a \in SentCommands,
           LinkedSection(a) \/ ChatSection(a) \/ LinkSection(a)
    PROVE  RunTypes' /\ ReplaysInv'
  <1>1. Try(a).at = "then" /\ UNCHANGED <<script, tables, mishaps, execRuns, auxRuns, driving>>
    BY DEF LinkedSection, ChatSection, LinkSection, Follows, KeepsTables, linkVars
  <1>2. RunTypes' /\ ReplaysGrow
    <2>1. RunTypes'
      BY <1>1 DEF RunTypes
    <2>2. \A r \in 1..auxRuns : driving[r] \in Nat
      BY ElementOfSeq DEF RunTypes
    <2> QED BY <1>1, <2>1, <2>2 DEF ReplaysGrow, RunTypes, Broken, RowIds
  <1>3. /\ Now(a).do # "drive" => /\ Rest(a, 0) # <<>> /\ LeftToSpawn(Rest(a, 0), CommandOf(a).then[1].id)
                                  /\ Head(Rest(a, 0)).do = NextDo[Now(a).do]
        /\ Now(a).do = "linked" => /\ Now(a).skips = 2 /\ Rest(a, 2) # <<>> /\ LeftToSpawn(Rest(a, 2), CommandOf(a).then[1].id)
                                   /\ Head(Rest(a, 2)).do = "exec"
    BY <1>1, ReplayIs
  <1>4. ASSUME Now(a).do \in {"linked", "read", "link"}, GoesOn(a, 0) PROVE RunTypes' /\ ReplaysInv'
    <2>1. Head(Rest(a, 0)).do \in {"read", "link", "exec"} /\ 0 \in Nat
      BY <1>3, <1>4, NextDosAre
    <2> QED BY <1>1, <1>2, <1>3, <1>4, <2>1, ReplayPasses
  <1>5. ASSUME Now(a).do = "linked", GoesOn(a, 2) PROVE RunTypes' /\ ReplaysInv'
    <2>1. 2 \in Nat /\ Head(Rest(a, 2)).do = "exec"
      BY <1>3, <1>5
    <2> QED BY <1>1, <1>2, <1>3, <1>5, <2>1, ReplayPasses
  <1>6. CASE LinkedSection(a)
    <2>1. Now(a).do = "linked" /\ Now(a).skips = 2
      BY <1>3, <1>6 DEF LinkedSection, Follows, Now
    <2>2. GoesOn(a, 2) \/ GoesOn(a, 0)
      BY <1>6, <2>1 DEF LinkedSection
    <2> QED BY <1>4, <1>5, <2>1, <2>2
  <1>7. CASE ChatSection(a)
    <2>1. Now(a).do = "read" /\ (GoesOn(a, 0) \/ CommandAt(a, "failed")) /\ UNCHANGED linkVars
      BY <1>7 DEF ChatSection, Follows, Now
    <2> QED BY <1>1, <1>4, <2>1, ReplayFails
  <1>8. CASE LinkSection(a)
    BY <1>4, <1>8 DEF LinkSection, Follows, Now
  <1> QED BY <1>6, <1>7, <1>8

\* A run recorded before is taken up.
LEMMA ExecKeeps ==
    ASSUME KeyedTypes, KeysInv, AnswersInv, RunTypes, ReplaysInv, NEW a \in SentCommands, ExecSection(a)
    PROVE  RunTypes' /\ ReplaysInv'
  <1>1. Try(a).at = "then" /\ Now(a).do = "exec" /\ UNCHANGED <<script, tables, mishaps, linkVars>>
    BY DEF ExecSection, Follows, KeepsTables, Now
  <1>2. RunTypes' /\ ReplaysGrow
    BY <1>1, QuietGrow, SameRuns
  <1>3. CASE RowOf(a) \in DOMAIN execRuns /\ tries' = [tries EXCEPT ![a].run = execRuns[RowOf(a)], ![a].todo = Rebinds]
    <2>1. a \in DOMAIN tries /\ DOMAIN Try(a) = TryFields
      BY DEF KeyedTypes, Try
    <2>2. /\ Moves1(a) /\ tries'[a].run = execRuns[RowOf(a)] /\ tries'[a].todo = Rebinds /\ tries'[a].at = "then"
          /\ tries'[a].answer = Try(a).answer
      <3> DEFINE k == execRuns[RowOf(a)]
                 todo == Rebinds
      <3>1. tries' = [tries EXCEPT ![a].run = k, ![a].todo = todo]
        BY <1>3
      <3> HIDE DEF k, todo
      <3>2. /\ Moves1(a) /\ tries'[a].run = k /\ tries'[a].todo = todo /\ tries'[a].at = "then"
            /\ tries'[a].answer = Try(a).answer
        BY <1>1, <2>1, <3>1 DEF Moves1, TryFields, Try
      <3> QED BY <3>2 DEF k, todo
    <2>3. Try(a)' = tries'[a] /\ CommandOf(a)' = CommandOf(a)
      BY <1>1, <2>2, OthersStay
    <2>4. Now(a)' = Head(Rebinds) /\ Head(Rebinds).do = "rebind"
      <3>1. PICK S : Rebinds \in Seq(S) /\ Len(Rebinds) = 3 /\ \A i \in 1..3 : Rebinds[i].do = RebindDos[i]
        BY RebindsAre
      <3>2. Head(Rebinds) = Rebinds[1] /\ Rebinds[1].do = "rebind"
        BY <3>1 DEF RebindDos
      <3>3. Now(a)' = Head(Try(a)'.todo)
        BY DEF Now
      <3> QED BY <2>2, <2>3, <3>2, <3>3
    <2>5. CommandOf(a).then # <<>>
      BY <1>1 DEF ReplaysInv, Spawning
    <2>6. \A c : LeftToSpawn(Rebinds, c)
      <3>1. Rebinds = SubSeq(Rebinds, 1, Len(Rebinds)) /\ 1 \in 1..Len(Rebinds)
        BY RebindsAre, SubSeqFull
      <3>2. IsLeftOf(Rebinds, Rebinds)
        BY <3>1 DEF IsLeftOf
      <3> QED BY <3>2 DEF LeftToSpawn
    <2>7. LeftToSpawn(Try(a).todo, CommandOf(a).then[1].id)'
      <3>1. Try(a)'.todo = Rebinds /\ CommandOf(a)' = CommandOf(a)
        BY <2>2, <2>3
      <3> DEFINE chat == CommandOf(a).then[1].id
      <3>2. LeftToSpawn(Try(a)'.todo, chat)
        BY <2>6, <3>1
      <3>3. chat' = chat
        BY <3>1
      <3>4. LeftToSpawn(Try(a).todo, chat)' = LeftToSpawn(Try(a)'.todo, chat')
        BY <3>3 DEF LeftToSpawn, IsLeftOf, SpawnReplay, Rebinds, Reads, Section
      <3> QED BY <3>2, <3>3, <3>4
    <2>8. Recorded(a)'
      BY <1>1, <1>3, <2>2, <2>3 DEF Recorded, RowOf, linkVars
    <2>9. Spawning(a)'
      BY <2>3, <2>4, <2>5, <2>7, <2>8 DEF Spawning
    <2>10. ~IsReplayed(a)'
      BY <2>2, <2>3 DEF IsReplayed
    <2> QED BY <1>1, <1>2, <2>2, <2>9, <2>10, ReplaysFollow
  <1>4. CASE GoesOn(a, 0)
    <2>1. /\ LeftToSpawn(Rest(a, 0), CommandOf(a).then[1].id) /\ Rest(a, 0) # <<>>
          /\ Head(Rest(a, 0)).do = "start" /\ 0 \in Nat
      BY <1>1, ReplayIs, NextDosAre
    <2> QED BY <1>1, <1>2, <1>4, <2>1, ReplayPasses
  <1> QED BY <1>3, <1>4 DEF ExecSection, RowOf, Rebinds

\* A run is started, and recorded.
LEMMA StartKeeps ==
    ASSUME KeyedTypes, KeysInv, AnswersInv, RunTypes, ReplaysInv, NEW a \in SentCommands, StartSection(a)
    PROVE  RunTypes' /\ ReplaysInv'
  <1>1. /\ Try(a).at = "then" /\ Now(a).do = "start" /\ UNCHANGED <<script, tables, mishaps, execRuns>>
        /\ auxRuns' = auxRuns + 1 /\ driving' = Append(driving, 0)
    BY DEF StartSection, Follows, KeepsTables, Now
  <1>2. RunTypes'
    <2>1. driving' \in Seq(Nat) /\ Len(driving') = Len(driving) + 1
      BY <1>1, AppendProperties DEF RunTypes
    <2> QED BY <1>1, <2>1 DEF RunTypes
  <1>3. ReplaysGrow
    <2>1. \A r \in 1..auxRuns : driving'[r] >= driving[r]
      <3> SUFFICES ASSUME NEW r \in 1..auxRuns PROVE driving'[r] >= driving[r]
        OBVIOUS
      <3>1. driving[r] \in Nat /\ r \in 1..Len(driving)
        BY ElementOfSeq DEF RunTypes
      <3>2. driving'[r] = driving[r]
        BY <1>1, <3>1, AppendProperties DEF RunTypes
      <3> QED BY <3>1, <3>2
    <2>2. auxRuns <= auxRuns'
      BY <1>1 DEF RunTypes
    <2> QED BY <1>1, <2>1, <2>2 DEF ReplaysGrow, Broken, RowIds
  <1>4. Moves1(a) /\ tries'[a].run = auxRuns + 1 /\ tries'[a].todo = RestOf(a) /\ tries'[a].at = "then"
    <2>1. a \in DOMAIN tries /\ DOMAIN Try(a) = TryFields
      BY DEF KeyedTypes, Try
    <2> DEFINE todo == RestOf(a)
    <2>2. tries' = [tries EXCEPT ![a].run = auxRuns + 1, ![a].todo = todo]
      BY DEF StartSection
    <2> HIDE DEF todo
    <2>3. Moves1(a) /\ tries'[a].run = auxRuns + 1 /\ tries'[a].todo = todo /\ tries'[a].at = "then"
      BY <1>1, <2>1, <2>2 DEF Moves1, TryFields, Try
    <2> QED BY <2>3 DEF todo
  <1>5. Try(a)' = tries'[a] /\ CommandOf(a)' = CommandOf(a)
    BY <1>1, <1>4, OthersStay
  <1>6. /\ Spawning(a) /\ RestOf(a) = Rest(a, 0) /\ LeftToSpawn(Rest(a, 0), CommandOf(a).then[1].id)
        /\ Head(Rest(a, 0)).do = "record"
    BY <1>1, ReplayIs, NextDosAre
  <1>7. Now(a)' = Head(Rest(a, 0))
    BY <1>4, <1>5, <1>6 DEF Now
  <1>8. LeftToSpawn(Try(a).todo, CommandOf(a).then[1].id)'
    <2> DEFINE chat == CommandOf(a).then[1].id
    <2>1. LeftToSpawn(Try(a)'.todo, chat)
      BY <1>4, <1>5, <1>6
    <2>2. chat' = chat
      BY <1>5
    <2>3. LeftToSpawn(Try(a).todo, chat)' = LeftToSpawn(Try(a)'.todo, chat')
      BY <2>2 DEF LeftToSpawn, IsLeftOf, SpawnReplay, Rebinds, Reads, Section
    <2> QED BY <2>1, <2>2, <2>3
  <1>9. Spawning(a)'
    <2>1. auxRuns + 1 \in 1..auxRuns'
      BY <1>1 DEF RunTypes
    <2>2. CommandOf(a).then # <<>>
      BY <1>6 DEF Spawning
    <2> QED BY <1>4, <1>5, <1>6, <1>7, <1>8, <2>1, <2>2 DEF Spawning
  <1>10. ~IsReplayed(a)'
    BY <1>4, <1>5 DEF IsReplayed
  <1> QED BY <1>1, <1>2, <1>3, <1>4, <1>9, <1>10, ReplaysFollow

LEMMA RecordKeeps ==
    ASSUME KeyedTypes, KeysInv, AnswersInv, RunTypes, ReplaysInv, NEW a \in SentCommands, RecordSection(a)
    PROVE  RunTypes' /\ ReplaysInv'
  <1> DEFINE row == RowOf(a)
  <1>1. Try(a).at = "then" /\ Now(a).do = "record" /\ UNCHANGED <<script, tables, mishaps, auxRuns, driving, chatLinks>>
    BY DEF RecordSection, Follows, KeepsTables, Now
  <1>2. CASE CommandAt(a, "failed") /\ UNCHANGED execRuns
    BY <1>1, <1>2, ReplayFails DEF linkVars
  <1>3. CASE /\ row \notin DOMAIN execRuns /\ GoesOn(a, 0)
             /\ execRuns' = [r \in DOMAIN execRuns \cup {row} |-> IF r = row THEN Try(a).run ELSE execRuns[r]]
    <2>1. Try(a).run \in 1..auxRuns
      BY <1>1 DEF ReplaysInv, Spawning
    <2>2. RunTypes'
      BY <1>1, <1>3, <2>1 DEF RunTypes
    <2>3. ReplaysGrow
      <3>1. \A r \in 1..auxRuns : driving[r] \in Nat
        BY ElementOfSeq DEF RunTypes
      <3>2. DOMAIN execRuns \subseteq DOMAIN execRuns' /\ \A r \in DOMAIN execRuns : execRuns'[r] = execRuns[r]
        BY <1>3
      <3> QED BY <1>1, <3>1, <3>2 DEF ReplaysGrow, RunTypes, Broken, RowIds
    <2>4. Recorded(a)'
      <3>1. Try(a)'.run = Try(a).run /\ RowOf(a)' = row
        BY <1>1, <1>3, GoesOnTo
      <3>2. row \in DOMAIN execRuns' /\ execRuns'[row] = Try(a).run
        BY <1>3
      <3> HIDE DEF row
      <3> QED BY <3>1, <3>2 DEF Recorded
    <2>5. /\ LeftToSpawn(Rest(a, 0), CommandOf(a).then[1].id) /\ Rest(a, 0) # <<>>
          /\ Head(Rest(a, 0)).do = "bind" /\ 0 \in Nat
      BY <1>1, ReplayIs, NextDosAre
    <2> QED BY <1>1, <1>3, <2>2, <2>3, <2>4, <2>5, ReplayPasses
  <1> QED BY <1>2, <1>3 DEF RecordSection, RowOf

\* The row of the replay is bound to its run; no other row of a run is touched.
LEMMA BindKeeps ==
    ASSUME KeyedTypes, KeysInv, SoundRows(tables), AnswersInv, RunTypes, ReplaysInv, NEW a \in SentCommands, BindSection(a)
    PROVE  RunTypes' /\ ReplaysInv' /\ SoundRows(tables') /\ RowIds("run") \subseteq RowIds("run")'
  <1> DEFINE row == RowOf(a)
  <1>1. /\ Try(a).at = "then" /\ Now(a).do \in {"bind", "rebind"} /\ GoesOn(a, 0) /\ UNCHANGED <<script, mishaps, linkVars>>
        /\ tables' = [tables EXCEPT !["run"][row].state = Try(a).run]
    BY DEF BindSection, Follows, Now, RowOf
  <1>2. Spawning(a) /\ Recorded(a) /\ CommandOf(a).then # <<>>
    BY <1>1 DEF ReplaysInv, Spawning
  <1>3. row \in RowIds("run")
    BY <1>1, <1>2, RowIsThere DEF IsAnswered
  <1>4. SetsField(tables, tables', "run", row, "state", Try(a).run)
    <2>1. TypedRows(tables) /\ "run" \in KeyedTables
      BY SoundIs DEF KeyedTables
    <2> HIDE DEF row
    <2> QED BY <1>1, <1>3, <2>1, FieldSet
  <1>5. /\ SoundRows(tables') /\ RowIds("run") \subseteq RowIds("run")'
        /\ \A n \in RowIds("run") : n # row => tables'["run"][n].state = tables["run"][n].state
        /\ tables'["run"][row].state = Try(a).run
    <2>1. "run" \in KeyedTables
      BY DEF KeyedTables
    <2> HIDE DEF row
    <2> QED BY <1>3, <1>4, <2>1, LabelKeeps
  <1>6. RunTypes'
    BY <1>1 DEF RunTypes, linkVars
  <1>7. ReplaysGrow
    <2>1. \A r \in 1..auxRuns : driving[r] \in Nat
      BY ElementOfSeq DEF RunTypes
    <2>2. \A n \in RowIds("run") \cap DOMAIN execRuns :
             tables["run"][n].state = execRuns[n] => tables'["run"][n].state = execRuns[n]
      BY <1>2, <1>5 DEF Recorded
    <2> QED BY <1>1, <2>1, <2>2 DEF ReplaysGrow, RunTypes, Broken, linkVars
  <1>8. Recorded(a)' /\ Bound(a)'
    <2>1. Try(a)'.run = Try(a).run /\ RowOf(a)' = row
      BY <1>1, GoesOnTo
    <2>2. Recorded(a)'
      BY <1>1, <1>2, <2>1 DEF Recorded, linkVars
    <2>3. tables'["run"][row].state = execRuns'[row]
      BY <1>1, <1>2, <1>5 DEF Recorded, linkVars
    <2> HIDE DEF row
    <2> QED BY <2>1, <2>2, <2>3 DEF Bound
  <1>9. /\ LeftToSpawn(Rest(a, 0), CommandOf(a).then[1].id) /\ Rest(a, 0) # <<>>
        /\ Head(Rest(a, 0)).do \in {"drive", "undriven"} /\ 0 \in Nat
    BY <1>1, ReplayIs, NextDosAre
  <1>10. RunTypes' /\ ReplaysInv'
    BY <1>1, <1>6, <1>7, <1>8, <1>9, ReplayPasses
  <1> QED BY <1>5, <1>10

\* A run that no task drives is given one.
LEMMA UndrivenKeeps ==
    ASSUME KeyedTypes, KeysInv, AnswersInv, RunTypes, ReplaysInv, NEW a \in SentCommands, UndrivenSection(a)
    PROVE  RunTypes' /\ ReplaysInv'
  <1>1. Try(a).at = "then" /\ Now(a).do = "undriven" /\ UNCHANGED <<script, tables, mishaps, linkVars>>
    BY DEF UndrivenSection, Follows, KeepsTables, Now
  <1>2. RunTypes' /\ ReplaysGrow
    BY <1>1, QuietGrow, SameRuns
  <1>3. Recorded(a) /\ Bound(a)
    BY <1>1 DEF ReplaysInv, Spawning
  <1>4. CASE GoesOn(a, 0)
    <2>1. Try(a)'.run = Try(a).run /\ RowOf(a)' = RowOf(a)
      BY <1>1, <1>4, GoesOnTo
    <2>2. Recorded(a)' /\ Bound(a)'
      BY <1>1, <1>3, <2>1 DEF Recorded, Bound, Broken, linkVars
    <2>3. /\ LeftToSpawn(Rest(a, 0), CommandOf(a).then[1].id) /\ Rest(a, 0) # <<>>
          /\ Head(Rest(a, 0)).do = "drive" /\ 0 \in Nat
      BY <1>1, ReplayIs, NextDosAre
    <2> QED BY <1>1, <1>2, <1>4, <2>2, <2>3, ReplayPasses
  <1>5. CASE GoesOn(a, 1) /\ driving[Try(a).run] > 0
    <2>1. Try(a)'.run = Try(a).run /\ RowOf(a)' = RowOf(a) /\ 1 \in Nat
      BY <1>1, <1>5, GoesOnTo
    <2>2. Driven(a)'
      BY <1>1, <1>3, <1>5, <2>1 DEF Driven, Recorded, Bound, Broken, linkVars
    <2>3. Rest(a, 1) = <<>>
      BY <1>1, ReplayIs
    <2> QED BY <1>1, <1>2, <1>5, <2>1, <2>2, <2>3, ReplayEnds
  <1> QED BY <1>4, <1>5 DEF UndrivenSection
LEMMA DriveKeeps ==
    ASSUME KeyedTypes, KeysInv, AnswersInv, RunTypes, ReplaysInv, NEW a \in SentCommands, DriveSection(a)
    PROVE  RunTypes' /\ ReplaysInv'
  <1> DEFINE k == Try(a).run
  <1>1. /\ Try(a).at = "then" /\ Now(a).do = "drive" /\ GoesOn(a, 0) /\ UNCHANGED <<script, tables, mishaps, execRuns, auxRuns>>
        /\ driving' = [driving EXCEPT ![k] = @ + 1]
    BY DEF DriveSection, Follows, KeepsTables, Now
  <1>2. Recorded(a) /\ Bound(a)
    BY <1>1 DEF ReplaysInv, Spawning
  <1>3. k \in 1..Len(driving) /\ driving[k] \in Nat /\ driving[k] + 1 \in Nat
    <2>1. k \in 1..auxRuns
      BY <1>2 DEF Recorded, RunTypes
    <2> HIDE DEF k
    <2> QED BY <2>1, ElementOfSeq DEF RunTypes
  <1>4. /\ driving' \in Seq(Nat) /\ Len(driving') = Len(driving)
        /\ \A r \in 1..Len(driving) : driving'[r] = IF r = k THEN driving[k] + 1 ELSE driving[r]
    <2> HIDE DEF k
    <2> QED BY <1>1, <1>3, ExceptSeq DEF RunTypes
  <1>5. RunTypes'
    BY <1>1, <1>4 DEF RunTypes
  <1>6. ReplaysGrow
    <2>1. \A r \in 1..auxRuns : driving'[r] >= driving[r]
      <3> HIDE DEF k
      <3>1. \A r \in 1..auxRuns : driving[r] \in Nat
        BY ElementOfSeq DEF RunTypes
      <3> QED BY <1>3, <1>4, <3>1 DEF RunTypes
    <2> QED BY <1>1, <2>1 DEF ReplaysGrow, RunTypes, Broken, RowIds
  <1>7. Driven(a)'
    <2>1. RowOf(a)' = RowOf(a)
      BY <1>1, GoesOnTo
    <2>2. driving'[k] > 0
      <3> HIDE DEF k
      <3> QED BY <1>3, <1>4
    <2>3. RowOf(a) \in DOMAIN execRuns' /\ execRuns'[RowOf(a)] = k
      BY <1>1, <1>2 DEF Recorded
    <2>4. Bound(a)'
      BY <1>1, <1>2, <2>1 DEF Bound, Broken
    <2> HIDE DEF k
    <2> QED BY <2>1, <2>2, <2>3, <2>4 DEF Driven
  <1>8. Rest(a, 0) = <<>> /\ 0 \in Nat
    BY <1>1, ReplayIs
  <1> QED BY <1>1, <1>5, <1>6, <1>7, <1>8, ReplayEnds

-----------------------------------------------------------------------------
(* Every step keeps the whole.                                                       *)

KeyedInv == KeyedTypes /\ KeysInv /\ SoundRows(tables) /\ WorkInv /\ AnswersInv /\ RunTypes /\ ReplaysInv

LEMMA RowsPrimed == SoundRows(tables') = SoundRows(tables)'
  BY DEF SoundRows, SoundRow, OneDefaultIn, DefaultsIn, FeedsAgreeIn, EntriesIn, NoOrphansIn, KeyedTables, ParentTable, BlankRow

\* A command that is at work, or is answered, leaves the runs as they are.
LEMMA QuietKeepsReplays ==
    ASSUME KeyedTypes, KeysInv, AnswersInv, RunTypes, ReplaysInv, NEW a \in SentCommands, Moves1(a), UNCHANGED <<script, linkVars>>,
           UNCHANGED mishaps \/ mishaps' = [mishaps EXCEPT !.broken = TRUE], RunsStay,
           tries'[a].at \in {"ok", "then"} => /\ tries'[a].todo = CommandOf(a).then
                                              /\ tries'[a].at = "then" <=> CommandOf(a).then # <<>>
    PROVE  RunTypes' /\ ReplaysInv'
  <1>1. Try(a)' = tries'[a] /\ CommandOf(a)' = CommandOf(a)
    BY OthersStay
  <1>2. RunTypes' /\ ReplaysGrow
    BY QuietGrow
  <1>3. ~IsReplayed(a)'
    BY <1>1 DEF IsReplayed
  <1>4. ASSUME tries'[a].at = "then" PROVE Spawning(a)'
    <2> DEFINE chat == CommandOf(a).then[1].id
    <2>1. CommandOf(a).then # <<>> /\ Try(a)'.todo = CommandOf(a).then
      BY <1>1, <1>4
    <2>2. CommandOf(a).then = SpawnReplay(chat)
      BY <2>1, SentAreSound DEF SoundCommand
    <2>3. PICK S : /\ SpawnReplay(chat) \in Seq(S) /\ Len(SpawnReplay(chat)) = 8
                   /\ \A i \in 1..8 : SpawnReplay(chat)[i].do = SpawnDos[i]
      <3> HIDE DEF chat
      <3> QED BY SpawnIs
    <2>4. IsLeftOf(SpawnReplay(chat), SpawnReplay(chat))
      <3>1. SpawnReplay(chat) = SubSeq(SpawnReplay(chat), 1, Len(SpawnReplay(chat))) /\ 1 \in 1..Len(SpawnReplay(chat))
        BY <2>3, SubSeqFull
      <3> QED BY <3>1 DEF IsLeftOf
    <2>5. LeftToSpawn(Try(a)'.todo, chat)
      BY <2>1, <2>2, <2>4 DEF LeftToSpawn
    <2>6. Head(SpawnReplay(chat)).do = "linked"
      <3>1. Head(SpawnReplay(chat)) = SpawnReplay(chat)[1]
        BY <2>3
      <3>2. SpawnReplay(chat)[1].do = "linked"
        BY <2>3 DEF SpawnDos
      <3> QED BY <3>1, <3>2
    <2>7. Now(a)'.do = "linked"
      <3>1. Now(a)' = Head(Try(a)'.todo)
        BY DEF Now
      <3> HIDE DEF chat
      <3> QED BY <2>1, <2>2, <2>6, <3>1
    <2>8. LeftToSpawn(Try(a).todo, CommandOf(a).then[1].id)'
      <3>1. chat' = chat
        BY <1>1
      <3>2. LeftToSpawn(Try(a).todo, chat)' = LeftToSpawn(Try(a)'.todo, chat')
        BY <3>1 DEF LeftToSpawn, IsLeftOf, SpawnReplay, Rebinds, Reads, Section
      <3> QED BY <2>5, <3>1, <3>2
    <2> QED BY <1>1, <2>1, <2>7, <2>8 DEF Spawning
  <1> QED BY <1>1, <1>2, <1>3, <1>4, ReplaysFollow

LEMMA AnsweredTodo ==
    ASSUME KeyedTypes, NEW a \in SentCommands, NEW answer, IsGiven(a, answer)
    PROVE  /\ Moves1(a) /\ tries'[a].todo = CommandOf(a).then /\ tries'[a].at \in {"ok", "then"}
           /\ tries'[a].at = "then" <=> CommandOf(a).then # <<>>
  <1> DEFINE at == IF CommandOf(a).then = <<>> THEN "ok" ELSE "then"
             todo == CommandOf(a).then
  <1>1. at \in {"ok", "then"} /\ (at = "then" <=> CommandOf(a).then # <<>>)
    OBVIOUS
  <1>2. tries' = [tries EXCEPT ![a].answer = answer, ![a].made = answer.made, ![a].todo = todo, ![a].at = at]
    BY DEF IsGiven
  <1>3. a \in DOMAIN tries /\ DOMAIN tries[a] = TryFields
    BY DEF KeyedTypes
  <1> HIDE DEF at, todo
  <1>4. Moves1(a) /\ tries'[a].todo = todo /\ tries'[a].at = at
    BY <1>2, <1>3 DEF Moves1, TryFields
  <1> QED BY <1>1, <1>4 DEF todo

LEMMA KeyStepsKeep ==
    ASSUME KeyedInv, NEW a \in SentCommands, ReserveKey(a) \/ CompleteKey(a) \/ ReleaseKey(a)
    PROVE  KeyedInv'
  <1>1. KeyedTypes /\ KeysInv /\ SoundRows(tables) /\ WorkInv /\ AnswersInv /\ RunTypes /\ ReplaysInv
    BY DEF KeyedInv
  <1>2. KeyedTypes' /\ KeysInv'
    BY <1>1, ReserveKeeps, CompleteKeeps, ReleaseKeeps
  <1>3. WorkInv' /\ AnswersInv'
    BY <1>1, ReserveKeepsWork, CompleteKeepsWork, ReleaseKeepsWork
  <1>4. UNCHANGED <<script, tables, linkVars>> /\ (UNCHANGED mishaps \/ mishaps' = [mishaps EXCEPT !.broken = TRUE])
    BY DEF ReserveKey, CompleteKey, ReleaseKey
  <1>5. RunsStay
    BY <1>4, SameRuns
  <1>6. /\ Moves1(a)
        /\ tries'[a].at \in {"ok", "then"} => /\ tries'[a].todo = CommandOf(a).then
                                              /\ tries'[a].at = "then" <=> CommandOf(a).then # <<>>
    <2>1. a \in DOMAIN tries /\ DOMAIN tries[a] = TryFields
      BY <1>1 DEF KeyedTypes
    <2>2. ASSUME NEW at \in {"refused", "failed", "unknown"}, CommandAt(a, at) PROVE Moves1(a) /\ tries'[a].at = at
      BY <2>1, <2>2 DEF CommandAt, Moves1, TryFields
    <2>3. ASSUME tries' = [tries EXCEPT ![a].at = "work", ![a].todo = CommandOf(a).action] PROVE Moves1(a) /\ tries'[a].at = "work"
      BY <2>1, <2>3 DEF Moves1, TryFields
    <2>4. CASE ReserveKey(a)
      <3>1. \/ tries' = [tries EXCEPT ![a].at = "work", ![a].todo = CommandOf(a).action]
            \/ IsGiven(a, claims[KeyOf(a)].answer) \/ CommandAt(a, "refused")
        BY <2>4 DEF ReserveKey
      <3> QED BY <1>1, <2>2, <2>3, <3>1, AnsweredTodo
    <2>5. CASE CompleteKey(a)
      <3>1. IsGiven(a, [made |-> Try(a).made, row |-> Try(a).seen, count |-> Try(a).count]) \/ CommandAt(a, "unknown")
        BY <2>5 DEF CompleteKey
      <3> QED BY <1>1, <2>2, <3>1, AnsweredTodo
    <2>6. CASE ReleaseKey(a)
      BY <2>2, <2>6 DEF ReleaseKey
    <2> QED BY <2>4, <2>5, <2>6
  <1>7. RunTypes' /\ ReplaysInv'
    BY <1>1, <1>4, <1>5, <1>6, QuietKeepsReplays
  <1>8. SoundRows(tables)'
    BY <1>1, <1>4, RowsPrimed
  <1> QED BY <1>2, <1>3, <1>7, <1>8 DEF KeyedInv

LEMMA SectionKeepsAll ==
    ASSUME KeyedInv, NEW a \in SentCommands, SectionStep(a)
    PROVE  KeyedInv'
  <1>1. KeyedTypes /\ KeysInv /\ SoundRows(tables) /\ WorkInv /\ AnswersInv /\ RunTypes /\ ReplaysInv
    BY DEF KeyedInv
  <1>2. SoundRows(tables') /\ RunsStay /\ WorkInv' /\ AnswersInv' /\ Worked(a) /\ UNCHANGED <<script, claims>>
    BY <1>1, SectionsKeepWork
  <1>3. KeyedTypes' /\ KeysInv'
    BY <1>1, <1>2, MovesKeepKeys
  <1>4. UNCHANGED linkVars /\ (UNCHANGED mishaps \/ mishaps' = [mishaps EXCEPT !.broken = TRUE])
    BY DEF SectionStep, ReadSection, CountSection, MakeSection, SetSection, RemoveSection, SaySection, HeardSection,
           DefaultSection, PatchSection, SlugSection, PresetSection, DownloadSection, EntrySection, PruneSection,
           RecountSection, MarkSection, DispatchSection, OutcomeSection, NoWrite, Stays
  <1>5. Moves1(a) /\ tries'[a].at \notin {"ok", "then"}
    BY <1>2 DEF Worked
  <1>6. RunTypes' /\ ReplaysInv'
    BY <1>1, <1>2, <1>4, <1>5, QuietKeepsReplays
  <1> QED BY <1>2, <1>3, <1>6, RowsPrimed DEF KeyedInv

LEMMA ReplayKeepsAll ==
    ASSUME KeyedInv, NEW a \in SentCommands, ReplayStep(a)
    PROVE  KeyedInv'
  <1>1. KeyedTypes /\ KeysInv /\ SoundRows(tables) /\ WorkInv /\ AnswersInv /\ RunTypes /\ ReplaysInv
    BY DEF KeyedInv
  <1>2. Replayed(a) /\ UNCHANGED <<script, claims>>
    BY <1>1, ReplayMoves
  <1>3. KeyedTypes' /\ KeysInv'
    BY <1>1, <1>2, MovesKeepKeys
  <1>4. RunTypes' /\ ReplaysInv' /\ SoundRows(tables') /\ RowIds("run") \subseteq RowIds("run")'
    <2>1. CASE BindSection(a)
      BY <1>1, <2>1, BindKeeps
    <2>2. CASE UNCHANGED tables /\ RunTypes' /\ ReplaysInv'
      BY <1>1, <2>2 DEF RowIds
    <2>3. CASE LinkedSection(a) \/ ChatSection(a) \/ LinkSection(a)
      <3>1. UNCHANGED tables
        BY <2>3 DEF LinkedSection, ChatSection, LinkSection, KeepsTables
      <3> QED BY <1>1, <2>2, <2>3, <3>1, LinkingKeeps
    <2>4. CASE ExecSection(a) \/ StartSection(a) \/ RecordSection(a)
      <3>1. UNCHANGED tables
        BY <2>4 DEF ExecSection, StartSection, RecordSection, KeepsTables
      <3> QED BY <1>1, <2>2, <2>4, <3>1, ExecKeeps, StartKeeps, RecordKeeps
    <2>5. CASE UndrivenSection(a) \/ DriveSection(a)
      <3>1. UNCHANGED tables
        BY <2>5 DEF UndrivenSection, DriveSection, KeepsTables
      <3> QED BY <1>1, <2>2, <2>5, <3>1, UndrivenKeeps, DriveKeeps
    <2> QED BY <2>1, <2>3, <2>4, <2>5 DEF ReplayStep
  <1>5. WorkInv' /\ AnswersInv'
    <2>1. Moves1(a) /\ tries'[a].at # "work"
      BY <1>2 DEF Replayed
    <2>2. Try(a)' = tries'[a]
      BY <1>1, <1>2, <2>1, OthersStay
    <2> QED BY <1>1, <1>2, <1>4, <2>1, <2>2, WorkOfOthers, AnswersStay
  <1> QED BY <1>3, <1>4, <1>5, RowsPrimed DEF KeyedInv

LEMMA BreakKeepsAll ==
    ASSUME KeyedInv, NEW a \in SentCommands, SectionBreaks(a)
    PROVE  KeyedInv'
  <1>1. KeyedTypes /\ KeysInv /\ SoundRows(tables) /\ WorkInv /\ AnswersInv /\ RunTypes /\ ReplaysInv
    BY DEF KeyedInv
  <1>2. (Worked(a) \/ Replayed(a)) /\ Moves1(a)
    BY <1>1, BreakMoves DEF Worked, Replayed
  <1>3. UNCHANGED <<script, tables, claims, linkVars>> /\ mishaps' = [mishaps EXCEPT !.broken = TRUE]
    BY DEF SectionBreaks
  <1>4. KeyedTypes' /\ KeysInv'
    BY <1>1, <1>2, <1>3, MovesKeepKeys
  <1>5. RunsStay /\ RowIds("run") \subseteq RowIds("run")'
    BY <1>3, SameRuns DEF RunsStay
  <1>6. Try(a)' = tries'[a]
    BY <1>1, <1>2, <1>3, OthersStay
  <1>7. AnswersInv'
    BY <1>1, <1>3, <1>5, AnswersStay
  <1>8. CASE Try(a).at = "work" /\ Try(a).todo # <<>> /\ Fails(a)
    <2>1. WorkLeft(a) /\ Worked(a)
      BY <1>1, <1>2, <1>8 DEF WorkInv, Replayed
    <2>2. Advances(a)
      BY <1>1, <1>8, <2>1, FailsAdvances
    <2>3. Try(a)'.at = "work" => WorkLeft(a)'
      BY <1>1, <1>2, <1>3, <1>5, <1>8, <2>1, <2>2, AdvancesKeeps
    <2>4. WorkInv'
      BY <1>1, <1>2, <1>3, <1>5, <2>3, WorkOfOthers
    <2>5. tries'[a].at \notin {"ok", "then"}
      BY <2>1 DEF Worked
    <2>6. RunTypes' /\ ReplaysInv'
      BY <1>1, <1>2, <1>3, <1>5, <2>5, QuietKeepsReplays
    <2> QED BY <1>1, <1>3, <1>4, <1>7, <2>4, <2>6, RowsPrimed DEF KeyedInv
  <1>9. CASE Try(a).at = "then" /\ (CommandAt(a, "failed") \/ (Now(a).do = "rebind" /\ GoesOn(a, 0)))
    <2>1. tries'[a].at # "work"
      BY <1>2, <1>9 DEF Worked, Replayed
    <2>2. WorkInv'
      BY <1>1, <1>2, <1>3, <1>5, <1>6, <2>1, WorkOfOthers
    <2>3. CASE CommandAt(a, "failed")
      <3>1. RunTypes' /\ ReplaysInv'
        BY <1>1, <1>3, <2>3, ReplayFails
      <3> QED BY <1>1, <1>3, <1>4, <1>7, <2>2, <3>1, RowsPrimed DEF KeyedInv
    <2>4. CASE Now(a).do = "rebind" /\ GoesOn(a, 0)
      <3>1. RunTypes' /\ ReplaysGrow
        BY <1>1, <1>3, <1>5, QuietGrow
      <3>2. Recorded(a)' /\ Bound(a)'
        <4>1. Recorded(a)
          BY <1>1, <1>9, <2>4 DEF ReplaysInv, Spawning
        <4>2. Try(a)'.run = Try(a).run /\ RowOf(a)' = RowOf(a) /\ 0 \in Nat
          BY <1>1, <1>3, <2>4, GoesOnTo
        <4>3. Recorded(a)'
          BY <1>3, <4>1, <4>2 DEF Recorded, linkVars
        <4>4. Broken'
          BY <1>1, <1>3 DEF Broken, RunTypes
        <4> QED BY <4>3, <4>4 DEF Bound
      <3>3. /\ LeftToSpawn(Rest(a, 0), CommandOf(a).then[1].id) /\ Rest(a, 0) # <<>>
            /\ Head(Rest(a, 0)).do = "undriven" /\ 0 \in Nat
        BY <1>1, <1>9, <2>4, ReplayIs, NextDosAre
      <3>4. RunTypes' /\ ReplaysInv'
        BY <1>1, <1>3, <1>9, <2>4, <3>1, <3>2, <3>3, ReplayPasses
      <3> QED BY <1>1, <1>3, <1>4, <1>7, <2>2, <3>4, RowsPrimed DEF KeyedInv
    <2> QED BY <1>9, <2>3, <2>4
  <1> QED BY <1>8, <1>9 DEF SectionBreaks, Follows, Now

LEMMA CrashKeepsAll ==
    ASSUME KeyedInv, KeyedCrash
    PROVE  KeyedInv'
  <1>1. KeyedTypes /\ KeysInv /\ SoundRows(tables) /\ WorkInv /\ AnswersInv /\ RunTypes /\ ReplaysInv
    BY DEF KeyedInv
  <1>2. KeyedTypes' /\ KeysInv'
    BY <1>1, KeyedCrashKeeps
  <1>3. /\ SentCommands' = SentCommands /\ UNCHANGED <<script, tables, claims, execRuns>>
        /\ \A a \in SentCommands :
              /\ Try(a)' = tries'[a]
              /\ IF Try(a).at \in {"work", "failing", "then"} THEN tries'[a].at = "gone"
                 ELSE tries'[a].at = Try(a).at /\ (tries'[a].at = "idle" \/ tries'[a].before)
    BY <1>1, KeyedCrashMoves
  <1>4. \A a \in SentCommands : tries'[a].at # "work" /\ tries'[a].at # "then" /\ (tries'[a].at = "ok" => tries'[a].before)
    BY <1>3
  <1>5. WorkInv' /\ ReplaysInv'
    BY <1>3, <1>4 DEF WorkInv, ReplaysInv, IsReplayed
  <1>6. AnswersInv'
    <2>1. RowIds("run") \subseteq RowIds("run")'
      BY <1>3 DEF RowIds
    <2> QED BY <1>1, <1>3, <2>1, AnswersStay
  <1>7. RunTypes'
    <2>1. driving' = [r \in DOMAIN driving |-> 0] /\ auxRuns' = auxRuns /\ mishaps' = [mishaps EXCEPT !.crashed = TRUE]
      BY DEF KeyedCrash
    <2>2. DOMAIN driving = 1..Len(driving) /\ Len(driving) \in Nat
      BY <1>1, LenProperties DEF RunTypes
    <2>3. driving' \in Seq(Nat) /\ Len(driving') = Len(driving)
      <3>1. driving' = [r \in 1..Len(driving) |-> 0] /\ \A r \in 1..Len(driving) : 0 \in Nat
        BY <2>1, <2>2
      <3> QED BY <2>2, <3>1, IsASeq
    <2> QED BY <1>1, <1>3, <2>1, <2>3 DEF RunTypes
  <1> QED BY <1>1, <1>2, <1>3, <1>5, <1>6, <1>7, RowsPrimed DEF KeyedInv

LEMMA KeyedStart == KeyedInit => KeyedInv
  <1> SUFFICES ASSUME KeyedInit PROVE KeyedInv
    OBVIOUS
  <1>1. /\ script \in Scripts /\ tables = script.rows /\ claims = NoneYet /\ execRuns = NoneYet /\ auxRuns = 0 /\ driving = <<>>
        /\ mishaps = [broken |-> FALSE, crashed |-> FALSE]
    BY DEF KeyedInit
  <1>2. /\ DOMAIN tries = SentCommands
        /\ \A a \in SentCommands : /\ DOMAIN tries[a] = TryFields /\ Try(a) = tries[a]
                                   /\ tries[a].at = "idle" /\ tries[a].writes = 0 /\ tries[a].answer = NoAnswer
    BY DEF KeyedInit, SentCommands, TryFields, Try
  <1>3. DOMAIN claims = {} /\ DOMAIN execRuns = {}
    BY <1>1 DEF NoneYet
  <1>4. KeyedTypes
    BY <1>1, <1>2, <1>3 DEF KeyedTypes
  <1>5. KeysInv
    BY <1>2 DEF KeysInv, Holding, IsAnswered, Staked
  <1>6. SoundRows(tables)
    BY <1>1, ScriptsAssumption
  <1>7. WorkInv /\ AnswersInv /\ ReplaysInv
    BY <1>2, <1>3 DEF WorkInv, AnswersInv, ReplaysInv, IsReplayed
  <1>8. RunTypes
    BY <1>1, <1>3 DEF RunTypes
  <1> QED BY <1>4, <1>5, <1>6, <1>7, <1>8 DEF KeyedInv

LEMMA KeyedStays == KeyedInv /\ UNCHANGED keyedVars => KeyedInv'
  <1> SUFFICES ASSUME KeyedInv, UNCHANGED keyedVars PROVE KeyedInv'
    OBVIOUS
  <1>1. KeyedTypes /\ KeysInv /\ SoundRows(tables) /\ WorkInv /\ AnswersInv /\ RunTypes /\ ReplaysInv
    BY DEF KeyedInv
  <1>2. UNCHANGED <<script, tables, claims, tries, execRuns, auxRuns, driving, mishaps>>
    BY DEF keyedVars
  <1>3. KeyedTypes'
    BY <1>1, <1>2 DEF KeyedTypes, SentCommands
  <1>4. /\ SentCommands' = SentCommands /\ RowIds("run")' = RowIds("run")
        /\ \A a \in SentCommands : Try(a)' = Try(a) /\ CommandOf(a)' = CommandOf(a) /\ KeyOf(a)' = KeyOf(a)
    BY <1>2 DEF SentCommands, RowIds, Try, CommandOf, KeyOf
  <1>5. KeysInv'
    <2>1. \A a \in SentCommands :
             /\ Holding(a)' = Holding(a) /\ HoldsPending(a)' = HoldsPending(a) /\ IsAnswered(a)' = IsAnswered(a)
             /\ IsSettled(a)' = IsSettled(a) /\ Staked(a)' = Staked(a)
      BY <1>2, <1>4 DEF Holding, HoldsPending, IsSettled, IsAnswered, Staked, ClaimOf, NoAnswer, BlankRow
    <2>2. NoAnswer' = NoAnswer
      BY DEF NoAnswer, BlankRow
    <2> QED BY <1>1, <1>2, <1>4, <2>1, <2>2 DEF KeysInv
  <1>10. WorkInv'
    <2>1. \A a \in SentCommands : WorkLeft(a) => WorkLeft(a)'
      BY <1>1, <1>2, <1>4, WorkStays
    <2> QED BY <1>1, <1>4, <2>1 DEF WorkInv
  <1>6. AnswersInv'
    BY <1>1, <1>2 DEF AnswersInv, MakesRun, RowIds
  <1>7. RunTypes'
    BY <1>1, <1>2 DEF RunTypes
  <1>8. ReplaysInv'
    <2>1. SentCommands' = SentCommands /\ \A a \in SentCommands : Try(a)' = Try(a) /\ CommandOf(a)' = CommandOf(a)
      BY <1>2 DEF SentCommands, Try, CommandOf
    <2>2. ReplaysGrow
      <3>1. RunsStay
        BY <1>2, SameRuns
      <3>2. UNCHANGED linkVars
        BY DEF keyedVars, linkVars
      <3> QED BY <1>1, <1>2, <3>1, <3>2, QuietGrow
    <2>3. ASSUME NEW a \in SentCommands, IsAnswered(a), CommandOf(a).then # <<>>
          PROVE  (Spawning(a) => Spawning(a)') /\ (Driven(a) => Driven(a)')
      BY <1>1, <1>7, <2>1, <2>2, <2>3, RowIsThere, ReplayStays
    <2>4. ASSUME NEW a \in SentCommands, Try(a).at = "then" PROVE Spawning(a)'
      BY <1>1, <2>3, <2>4 DEF ReplaysInv, Spawning, IsAnswered
    <2>5. ASSUME NEW a \in SentCommands, IsReplayed(a) PROVE Driven(a)'
      BY <1>1, <2>3, <2>5 DEF ReplaysInv, IsReplayed, IsAnswered
    <2> QED BY <2>1, <2>4, <2>5 DEF ReplaysInv, IsReplayed
  <1> QED BY <1>1, <1>2, <1>3, <1>5, <1>6, <1>7, <1>8, <1>10, RowsPrimed DEF KeyedInv

LEMMA CommandsFollow == KeyedInv => CommandsHold
  <1> SUFFICES ASSUME KeyedInv PROVE CommandsHold
    OBVIOUS
  <1>1. KeyedTypes /\ KeysInv /\ SoundRows(tables) /\ RunTypes /\ ReplaysInv
    BY DEF KeyedInv
  <1> DEFINE Other(p) == p[1] \in SentCommands /\ p[2] \in SentCommands /\ p[1] # p[2] /\ KeyOf(p[1]) = KeyOf(p[2])
  <1>2. \A p \in Rivals : Other(p)
    BY DEF Rivals
  <1> HIDE DEF Other
  <1>3. SameAnswer
    <2> SUFFICES ASSUME NEW p \in Rivals, IsAnswered(p[1]), IsAnswered(p[2])
                 PROVE  Try(p[1]).answer = Try(p[2]).answer /\ CommandOf(p[1]).action = CommandOf(p[2]).action
      BY DEF SameAnswer
    <2> DEFINE a == p[1]
               b == p[2]
    <2>1. a \in SentCommands /\ b \in SentCommands /\ KeyOf(a) = KeyOf(b)
      BY <1>2 DEF Other
    <2> HIDE DEF a, b
    <2>2. IsAnswered(a) /\ IsAnswered(b)
      BY DEF a, b
    <2>3. Try(a).answer = Try(b).answer /\ CommandOf(a).action = CommandOf(b).action
      BY <1>1, <2>1, <2>2 DEF KeysInv, IsSettled, ClaimOf
    <2> QED BY <2>3 DEF a, b
  <1>4. EffectsOnce
    <2> SUFFICES ASSUME NEW p \in Rivals, Try(p[1]).writes > 0, Try(p[2]).writes > 0
                 PROVE  \E i \in 1..2 : Try(p[i]).at = "failed" /\ Try(p[i]).answer = NoAnswer
      BY DEF EffectsOnce
    <2>1. ~(Staked(p[1]) /\ Staked(p[2]))
      <3> DEFINE a == p[1]
                 b == p[2]
      <3>1. a \in SentCommands /\ b \in SentCommands /\ KeyOf(a) = KeyOf(b) /\ a # b
        BY <1>2 DEF Other
      <3> HIDE DEF a, b
      <3>2. ~(Staked(a) /\ Staked(b))
        BY <1>1, <3>1 DEF KeysInv
      <3> QED BY <3>2 DEF a, b
    <2>2. \E i \in {1, 2} : ~Staked(p[i])
      BY <2>1
    <2>3. PICK i \in 1..2 : ~Staked(p[i])
      BY <2>2
    <2>4. Try(p[i]).writes > 0
      BY <2>3
    <2> QED BY <2>3, <2>4 DEF Staked
  <1>5. OneDefault /\ FeedsAgree /\ NoOrphans
    BY <1>1 DEF SoundRows, OneDefault, FeedsAgree, NoOrphans
  <1>6. ReplaysRun
    BY <1>1 DEF ReplaysInv, IsReplayed, Driven, Bound, RowOf, ReplaysRun
  <1> QED BY <1>3, <1>4, <1>5, <1>6 DEF CommandsHold

\* The commands keep their word, whatever overlaps, breaks and dies: attempts with one key are
\* answered alike and change the tables once, one provider is the default, feeds agree with
\* their entries, no child row is without its parent, and a replay that answered is driven and
\* bound (idempotency.rs, cool-store domains, inspector_replay).
THEOREM CommandsKeepTheirWord == KeyedSpec => []CommandsHold
  <1>1. KeyedInv /\ [KeyedNext]_keyedVars => KeyedInv'
    <2> SUFFICES ASSUME KeyedInv, [KeyedNext]_keyedVars PROVE KeyedInv'
      OBVIOUS
    <2>1. ASSUME NEW a \in SentCommands, ReserveKey(a) \/ CompleteKey(a) \/ ReleaseKey(a) PROVE KeyedInv'
      BY <2>1, KeyStepsKeep
    <2>2. ASSUME NEW a \in SentCommands, SectionStep(a) PROVE KeyedInv'
      BY <2>2, SectionKeepsAll
    <2>3. ASSUME NEW a \in SentCommands, ReplayStep(a) PROVE KeyedInv'
      BY <2>3, ReplayKeepsAll
    <2>4. ASSUME NEW a \in SentCommands, SectionBreaks(a) PROVE KeyedInv'
      BY <2>4, BreakKeepsAll
    <2>5. CASE KeyedCrash
      BY <2>5, CrashKeepsAll
    <2>6. CASE UNCHANGED keyedVars
      BY <2>6, KeyedStays
    <2> QED BY <2>1, <2>2, <2>3, <2>4, <2>5, <2>6 DEF KeyedNext
  <1> QED BY <1>1, KeyedStart, CommandsFollow, PTL DEF KeyedSpec

-----------------------------------------------------------------------------
(* Plans: the order of their steps *)

\* The least of some numbers, and counting up, without an operator to instantiate.
LEMMA LeastNumber ==
    ASSUME NEW S \in SUBSET Nat, S # {}
    PROVE  \E m \in S : \A n \in S : m <= n
  <1> DEFINE less == {p \in Nat \X Nat : p[1] < p[2]}
  <1>1. IsWellFoundedOn(less, Nat)
    <2>1. OpToRel(<, Nat) = less
      BY Zenon DEF OpToRel
    <2> QED BY <2>1, NatLessThanWellFounded, Zenon
  <1>2. \E m \in S : \A n \in S : ~(<<n, m>> \in less)
    <2> HIDE DEF less
    <2> QED BY <1>1, WFMin, Zenon
  <1>3. PICK m \in S : \A n \in S : ~(<<n, m>> \in less)
    BY <1>2
  <1>4. ASSUME NEW n \in S
        PROVE  m <= n
    <2>1. ~(<<n, m>> \in less) /\ m \in Nat /\ n \in Nat
      BY <1>3
    <2>2. ~(n < m)
      BY <2>1
    <2> QED BY <2>1, <2>2
  <1> QED BY <1>4

LEMMA CountingUp ==
    ASSUME NEW S, 0 \in S, \A n \in Nat : n \in S => n + 1 \in S
    PROVE  Nat \subseteq S
  <1> SUFFICES ASSUME NEW k \in Nat, k \notin S
               PROVE  FALSE
    OBVIOUS
  <1>1. (Nat \ S) \in SUBSET Nat /\ Nat \ S # {}
    OBVIOUS
  <1>2. PICK m \in Nat \ S : \A n \in Nat \ S : m <= n
    BY <1>1, LeastNumber, Zenon
  <1>3. m # 0 /\ m - 1 \in Nat /\ (m - 1) + 1 = m
    BY <1>2
  <1>4. m - 1 \in S
    <2>1. ~(m <= m - 1)
      BY <1>2
    <2> QED BY <1>2, <1>3, <2>1
  <1> QED BY <1>2, <1>3, <1>4

\* What TakenBy is: every n has such a function on 0..n, made from the one of n - 1.
LEMMA TakenIs ==
    /\ TakenBy[0] = << >>
    /\ \A n \in 0..StepCount : n # 0 => TakenBy[n] = Take(TakenBy[n - 1])
  <1> DEFINE Made(f, m) == f = [n \in 0..m |-> IF n = 0 THEN << >> ELSE Take(f[n - 1])]
             S == {m \in Nat : \E f : Made(f, m)}
  <1>1. 0 \in S
    <2> DEFINE f == [n \in 0..0 |-> << >>]
    <2>1. Made(f, 0)
      OBVIOUS
    <2> QED BY <2>1
  <1>2. ASSUME NEW m \in Nat, m \in S
        PROVE  m + 1 \in S
    <2>1. PICK g : Made(g, m)
      BY <1>2
    <2> DEFINE f == [n \in 0..(m + 1) |-> IF n = m + 1 THEN Take(g[m]) ELSE g[n]]
    <2>2. ASSUME NEW n \in 0..(m + 1)
          PROVE  f[n] = IF n = 0 THEN << >> ELSE Take(f[n - 1])
      <3>1. CASE n = m + 1
        <4>1. n # 0 /\ n - 1 = m /\ m \in 0..(m + 1) /\ m # m + 1
          BY <3>1
        <4>2. f[n] = Take(g[m]) /\ f[n - 1] = g[m]
          BY <3>1, <4>1
        <4> QED BY <4>1, <4>2
      <3>2. CASE n # m + 1
        <4>1. n \in 0..m /\ f[n] = g[n]
          BY <3>2
        <4>2. g[n] = IF n = 0 THEN << >> ELSE Take(g[n - 1])
          BY <2>1, <4>1
        <4>3. n # 0 => f[n - 1] = g[n - 1]
          BY <4>1
        <4> QED BY <4>1, <4>2, <4>3
      <3> QED BY <3>1, <3>2
    <2>3. Made(f, m + 1)
      BY <2>2, Zenon
    <2>4. \E h : Made(h, m + 1)
      <3> HIDE DEF Made, f
      <3> QED BY <2>3, Zenon
    <2> QED BY <2>4
  <1>3. StepCount \in S
    <2> HIDE DEF S
    <2>1. Nat \subseteq S
      BY <1>1, <1>2, CountingUp
    <2> QED BY <2>1, PlanAssumption
  <1>4. Made(TakenBy, StepCount)
    <2>1. \E f : Made(f, StepCount)
      BY <1>3
    <2>2. TakenBy = CHOOSE f : Made(f, StepCount)
      BY DEF TakenBy
    <2> QED BY <2>1, <2>2, Zenon
  <1> QED BY <1>4, PlanAssumption

LEMMA LeastReady ==
    ASSUME NEW done, Ready(done) # {}
    PROVE  Min(Ready(done)) \in Ready(done)
  <1>1. Ready(done) \in SUBSET Nat
    BY PlanAssumption DEF Ready, Positions
  <1>2. \E m \in Ready(done) : \A n \in Ready(done) : m <= n
    BY <1>1, LeastNumber, Zenon
  <1> QED BY <1>2 DEF Min

\* A sequence of positions, each after what it depends on and none twice.
Ordered(s) ==
    /\ s \in Seq(Positions)
    /\ \A i \in 1..Len(s) : \A d \in Known(s[i]) : \E j \in 1..(i - 1) : s[j] = d
    /\ \A i, j \in 1..Len(s) : s[i] = s[j] => i = j
LEMMA TakeKeeps ==
    ASSUME NEW s, Ordered(s), Ready(s) # {}
    PROVE  Ordered(Take(s)) /\ Len(Take(s)) = Len(s) + 1
  <1> DEFINE p == Min(Ready(s))
             t == Append(s, p)
  <1>1. p \in Positions /\ p \notin ToSet(s) /\ Known(p) \subseteq ToSet(s)
    BY LeastReady DEF Ready
  <1> HIDE DEF p
  <1>2. /\ s \in Seq(Positions) /\ Len(s) \in Nat /\ ToSet(s) = {s[i] : i \in 1..Len(s)}
    BY DEF Ordered, ToSet
  <1>3. t \in Seq(Positions) /\ Len(t) = Len(s) + 1 /\ t[Len(s) + 1] = p
    BY <1>1, <1>2
  <1>4. \A i \in 1..Len(s) : t[i] = s[i]
    BY <1>1, <1>2
  <1> HIDE DEF t
  <1>5. ASSUME NEW i \in 1..Len(t), NEW d \in Known(t[i])
        PROVE  \E j \in 1..(i - 1) : t[j] = d
    <2>1. CASE i = Len(s) + 1
      <3>1. PICK j \in 1..Len(s) : s[j] = d
        BY <1>1, <1>2, <1>3, <1>5, <2>1
      <3> QED BY <1>2, <1>4, <2>1, <3>1
    <2>2. CASE i # Len(s) + 1
      <3>1. i \in 1..Len(s) /\ t[i] = s[i]
        BY <1>2, <1>3, <1>4, <2>2
      <3>2. PICK j \in 1..(i - 1) : s[j] = d
        BY <3>1, <1>5 DEF Ordered
      <3>3. j \in 1..Len(s)
        BY <1>2, <3>1
      <3> QED BY <1>4, <3>2, <3>3
    <2> QED BY <2>1, <2>2
  <1>6. ASSUME NEW i \in 1..Len(t), NEW j \in 1..Len(t), t[i] = t[j]
        PROVE  i = j
    <2>1. \A k \in 1..Len(s) : t[k] # p
      BY <1>1, <1>2, <1>4
    <2>2. \A k \in 1..Len(t) : k = Len(s) + 1 \/ k \in 1..Len(s)
      BY <1>2, <1>3
    <2> QED BY <1>3, <1>4, <1>6, <2>1, <2>2 DEF Ordered
  <1>7. Take(s) = t
    BY DEF Take, t, p
  <1> QED BY <1>3, <1>5, <1>6, <1>7 DEF Ordered

\* After StepCount takes no step is ready: each of them took one, or there was none left.
LEMMA SortedIs == Ordered(Sorted) /\ Ready(Sorted) = {}
  <1> DEFINE OK(n) == Ordered(TakenBy[n]) /\ (Len(TakenBy[n]) = n \/ Ready(TakenBy[n]) = {})
             S == {n \in Nat : n <= StepCount => OK(n)}
  <1>1. 0 \in S
    <2>1. TakenBy[0] = << >>
      BY TakenIs
    <2>2. OK(0)
      BY <2>1 DEF Ordered
    <2> QED BY <2>2
  <1>2. ASSUME NEW n \in Nat, n \in S
        PROVE  n + 1 \in S
    <2> SUFFICES ASSUME n + 1 <= StepCount
                 PROVE  OK(n + 1)
      OBVIOUS
    <2>1. OK(n) /\ TakenBy[n + 1] = Take(TakenBy[n])
      <3>1. n <= StepCount /\ n + 1 \in 0..StepCount /\ n + 1 # 0 /\ (n + 1) - 1 = n
        BY PlanAssumption
      <3> QED BY <1>2, <3>1, TakenIs
    <2>2. CASE Ready(TakenBy[n]) = {}
      BY <2>1, <2>2 DEF Take
    <2>3. CASE Ready(TakenBy[n]) # {}
      BY <2>1, <2>3, TakeKeeps
    <2> QED BY <2>2, <2>3
  <1>3. OK(StepCount)
    <2>1. Nat \subseteq S
      <3> HIDE DEF S
      <3> QED BY <1>1, <1>2, CountingUp
    <2> QED BY <2>1, PlanAssumption
  <1>4. Ordered(Sorted) /\ (Len(Sorted) = StepCount \/ Ready(Sorted) = {})
    BY <1>3 DEF Sorted
  <1>5. CASE Len(Sorted) = StepCount
    <2>1. Sorted \in [Positions -> Positions] /\ ToSet(Sorted) = {Sorted[i] : i \in Positions}
      BY <1>4, <1>5 DEF Ordered, Positions, ToSet
    <2>2. IsFiniteSet(Positions) /\ Cardinality(Positions) = StepCount
      BY FS_Interval, PlanAssumption DEF Positions
    <2>3. Sorted \in Injection(Positions, ToSet(Sorted))
      BY <1>4, <1>5, <2>1 DEF Ordered, Positions, Injection, IsInjective
    <2>4. ToSet(Sorted) \subseteq Positions
      BY <2>1
    <2>5. IsFiniteSet(ToSet(Sorted)) /\ Cardinality(ToSet(Sorted)) <= StepCount
      BY <2>2, <2>4, FS_Subset
    <2>6. StepCount <= Cardinality(ToSet(Sorted))
      BY <2>2, <2>3, <2>5, FS_Injection
    <2>7. ToSet(Sorted) = Positions
      <3>1. Cardinality(ToSet(Sorted)) \in Nat
        BY <2>5, FS_CardinalityType
      <3> QED BY <2>2, <2>4, <2>5, <2>6, <3>1, FS_Subset, PlanAssumption
    <2> QED BY <1>4, <2>7 DEF Ready
  <1> QED BY <1>4, <1>5

\* A step outside Sorted waits for another one outside of it, and so for a cycle: of what it
\* waits for there, take one that waits for the fewest; what that one depends on waits for
\* no more, hence for as many, and so for itself.
LEMMA RemainingReachCycles ==
    ASSUME NEW p \in Remaining
    PROVE  OnCycle(p) \/ \E q \in WaitsFor(p) : OnCycle(q)
  <1>1. \A q \in Positions : Known(q) \subseteq WaitsFor(q) /\ WaitsFor(q) \subseteq Positions
    BY DEF WaitsFor, Known
  <1>2. \A q \in Positions : \A r \in WaitsFor(q) : Known(r) \subseteq WaitsFor(q)
    BY DEF WaitsFor, Known
  <1>3. \A q \in Positions : \A r \in WaitsFor(q) : WaitsFor(r) \subseteq WaitsFor(q)
    <2> SUFFICES ASSUME NEW q \in Positions, NEW r \in WaitsFor(q), NEW x \in WaitsFor(r)
                 PROVE  x \in WaitsFor(q)
      OBVIOUS
    <2>1. Known(r) \subseteq WaitsFor(q) /\ \A s \in WaitsFor(q) : Known(s) \subseteq WaitsFor(q)
      BY <1>2
    <2>2. WaitsFor(q) \in SUBSET Positions
      BY <1>1
    <2> HIDE DEF WaitsFor
    <2>3. \A S \in SUBSET Positions :
             Known(r) \subseteq S /\ (\A s \in S : Known(s) \subseteq S) => x \in S
      BY DEF WaitsFor
    <2> QED BY <2>1, <2>2, <2>3
  <1>4. \A q \in Remaining : q \in Positions /\ \E d \in Known(q) : d \in Remaining
    <2> SUFFICES ASSUME NEW q \in Remaining
                 PROVE  q \in Positions /\ \E d \in Known(q) : d \in Remaining
      OBVIOUS
    <2>1. q \in Positions /\ q \notin ToSet(Sorted)
      BY DEF Remaining
    <2>2. ~(Known(q) \subseteq ToSet(Sorted))
      BY <2>1, SortedIs DEF Ready
    <2> QED BY <2>1, <2>2 DEF Remaining, Known
  <1>5. \A q \in Positions : IsFiniteSet(WaitsFor(q)) /\ Cardinality(WaitsFor(q)) \in Nat
    <2>1. IsFiniteSet(Positions)
      BY FS_Interval, PlanAssumption DEF Positions
    <2> QED BY <1>1, <2>1, FS_Subset, FS_CardinalityType
  <1> HIDE DEF WaitsFor
  <1> DEFINE L == {q \in Remaining : q = p \/ q \in WaitsFor(p)}
             N == {Cardinality(WaitsFor(q)) : q \in L}
  <1>6. p \in L /\ N \in SUBSET Nat /\ N # {}
    BY <1>4, <1>5
  <1>7. PICK q \in L : \A r \in L : Cardinality(WaitsFor(q)) <= Cardinality(WaitsFor(r))
    <2>1. PICK m \in N : \A n \in N : m <= n
      <3> HIDE DEF N
      <3> QED BY <1>6, LeastNumber
    <2> QED BY <2>1
  <1>8. PICK d \in Known(q) : d \in Remaining
    BY <1>4, <1>7
  <1>9. q \in Positions /\ d \in Positions /\ p \in Positions
    BY <1>4, <1>7, <1>8
  <1>10. d \in WaitsFor(q) /\ d \in WaitsFor(p)
    BY <1>1, <1>2, <1>7, <1>8, <1>9
  <1>11. WaitsFor(d) = WaitsFor(q)
    <2>1. d \in L
      BY <1>8, <1>10
    <2>2. Cardinality(WaitsFor(q)) <= Cardinality(WaitsFor(d))
      BY <1>7, <2>1
    <2>3. WaitsFor(d) \subseteq WaitsFor(q)
      BY <1>3, <1>9, <1>10
    <2>4. Cardinality(WaitsFor(d)) <= Cardinality(WaitsFor(q))
      BY <1>5, <1>9, <2>3, FS_Subset
    <2>5. Cardinality(WaitsFor(d)) = Cardinality(WaitsFor(q))
      BY <1>5, <1>9, <2>2, <2>4
    <2> QED BY <1>5, <1>9, <2>3, <2>5, FS_Subset
  <1> QED BY <1>10, <1>11 DEF OnCycle

-----------------------------------------------------------------------------
(* Plans: a loop works through that order *)

\* What comes after Sorted is a sequence, whatever its members are.
LEMMA OrderIs ==
    /\ \E S : Order \in Seq(S)
    /\ Len(Sorted) \in Nat /\ Len(Sorted) <= Len(Order)
    /\ \A i \in 1..Len(Sorted) : Order[i] = Sorted[i]
  <1> DEFINE Nth(i) == CHOOSE p \in Remaining : Cardinality({q \in Remaining : q < p}) = i - 1
             n == Cardinality(Remaining)
             rest == [i \in 1..n |-> Nth(i)]
             S == Positions \cup {Nth(i) : i \in 1..n}
  <1>1. n \in Nat
    <2>1. IsFiniteSet(Positions)
      BY FS_Interval, PlanAssumption DEF Positions
    <2> QED BY <2>1, FS_Subset, FS_CardinalityType DEF Remaining
  <1>2. rest \in Seq(S) /\ Sorted \in Seq(S)
    <2> HIDE DEF Nth, n
    <2>1. Sorted \in Seq(Positions)
      BY SortedIs DEF Ordered
    <2>2. Positions \subseteq S /\ \A i \in 1..n : Nth(i) \in S
      OBVIOUS
    <2> HIDE DEF S
    <2>3. rest \in [1..n -> S]
      BY <2>2
    <2>4. Sorted \in Seq(S)
      BY <2>1, <2>2
    <2> QED BY <1>1, <2>3, <2>4
  <1>3. Order = Sorted \o rest
    BY DEF Order
  <1> HIDE DEF rest, S
  <1> QED BY <1>2, <1>3

Working == {"step", "launch", "direct", "child"}
LoopFields == {"at", "left", "known", "outcome", "wrote"}
PassedStatus == {"completed", "skipped"}
\* A loop has steps 1 .. m of the order behind it, all completed or skipped; but for the
\* current step, which may be under way.
Passed(o, m, order) ==
    /\ o.left = SubSeq(order, m + 1, Len(order))
    /\ o.at # "step" => m < Len(order)
    /\ \A j \in 1..m : order[j] \in Positions =>
          o.known[order[j]] \in PassedStatus \/ (o.at # "step" /\ order[j] = order[m + 1])
LoopOK(o, order) ==
    /\ DOMAIN o = LoopFields /\ DOMAIN o.known = Positions
    /\ o.at \in Working => \E m \in 0..Len(order) : Passed(o, m, order)
PlanInv ==
    /\ DOMAIN stepStatus = Positions
    /\ DOMAIN execution = Executions /\ DOMAIN loop = Executions
    /\ \A k \in Executions : DOMAIN execution[k] = {"at", "loaded"} /\ DOMAIN execution[k].loaded = Positions
    /\ \A k \in Executions : LoopOK(loop[k], Order)
    /\ SkipsOnlyCycles

LEMMA SameGraph ==
    ASSUME depends' = depends
    PROVE  /\ Order' = Order
           /\ \A p : Known(p)' = Known(p)
           /\ \A p : OnCycle(p)' = OnCycle(p) /\ WaitsFor(p)' = WaitsFor(p)
  <1>1. \A p : Known(p)' = Known(p)
    BY DEF Known
  <1>2. Order' = Order
    BY DEF Order, Remaining, Sorted, TakenBy, Take, Ready, Known
  <1>3. \A p : WaitsFor(p)' = WaitsFor(p)
    BY <1>1 DEF WaitsFor
  <1> QED BY <1>1, <1>2, <1>3 DEF OnCycle

\* The current step, and the loop when it is behind it.
LEMMA LeftIs ==
    ASSUME NEW o, NEW m \in 0..Len(Order), o.left = SubSeq(Order, m + 1, Len(Order))
    PROVE  /\ Len(Order) \in Nat
           /\ o.left # << >> <=> m < Len(Order)
           /\ o.left # << >> =>
                 /\ Head(o.left) = Order[m + 1]
                 /\ m + 1 \in 0..Len(Order)
                 /\ Tail(o.left) = SubSeq(Order, (m + 1) + 1, Len(Order))
  <1>1. PICK S : Order \in Seq(S)
    BY OrderIs
  <1> HIDE DEF Order
  <1>2. Len(Order) \in Nat /\ \A i \in 1..Len(Order) : Order[i] \in S
    BY <1>1
  <1>3. CASE m = Len(Order)
    <2>1. m + 1 \in Int /\ Len(Order) \in Int /\ Len(Order) < m + 1
      BY <1>2, <1>3
    <2>2. SubSeq(Order, m + 1, Len(Order)) = << >>
      BY <2>1, SubSeqEmpty
    <2> QED BY <1>2, <1>3, <2>2
  <1>4. CASE m < Len(Order)
    <2>1. m + 1 \in 1..Len(Order) /\ Len(Order) \in (m + 1)..Len(Order)
      BY <1>2, <1>4
    <2>2. /\ Head(o.left) = Order[m + 1]
          /\ Tail(o.left) = SubSeq(Order, (m + 1) + 1, Len(Order))
      BY <1>1, <2>1, HeadTailOfSubSeq
    <2>3. o.left # << >>
      <3>1. m + 1 \in Int /\ Len(Order) \in Int /\ \A i \in (m + 1)..Len(Order) : Order[i] \in S
        BY <1>2
      <3>2. Len(SubSeq(Order, m + 1, Len(Order))) = IF m + 1 <= Len(Order) THEN Len(Order) - (m + 1) + 1 ELSE 0
        BY <3>1, SubSeqProperties
      <3>3. Len(SubSeq(Order, m + 1, Len(Order))) # 0
        BY <1>2, <1>4, <3>2
      <3>4. Len(<< >>) = 0
        OBVIOUS
      <3> QED BY <3>3, <3>4, Zenon
    <2> QED BY <1>2, <1>4, <2>1, <2>2, <2>3
  <1> QED BY <1>2, <1>3, <1>4

\* A step whose dependencies are not all behind it is outside Sorted, or depends on one
\* that is.
LEMMA SkippedWaits ==
    ASSUME NEW o, NEW m \in 0..Len(Order), o.at = "step", Passed(o, m, Order), o.left # << >>,
           NEW p \in Positions, p = Head(o.left), ~DependenciesMet(p, o.known)
    PROVE  OnCycle(p) \/ \E q \in WaitsFor(p) : OnCycle(q)
  <1>1. m < Len(Order) /\ p = Order[m + 1] /\ Len(Order) \in Nat
    BY LeftIs DEF Passed
  <1>2. PICK d \in Known(p) : o.known[d] \notin PassedStatus
    BY DEF DependenciesMet, PassedStatus
  <1>3. \A j \in 1..m : Order[j] # d
    BY <1>2 DEF Passed, Known
  <1>4. Ordered(Sorted) /\ Len(Sorted) \in Nat /\ ToSet(Sorted) = {Sorted[i] : i \in 1..Len(Sorted)}
    BY SortedIs, OrderIs DEF Ordered, ToSet
  <1>5. ASSUME p \in ToSet(Sorted)
        PROVE  FALSE
    <2>1. PICK i \in 1..Len(Sorted) : Sorted[i] = p
      BY <1>4, <1>5
    <2>2. PICK j \in 1..(i - 1) : Sorted[j] = d
      BY <1>2, <1>4, <2>1 DEF Ordered
    <2>3. j \in 1..Len(Sorted) /\ Order[j] = d
      BY <1>4, <2>1, <2>2, OrderIs
    <2>4. j > m
      BY <1>3, <2>3
    <2>5. m + 1 \in 1..Len(Sorted) /\ Order[m + 1] = Sorted[m + 1]
      BY <1>4, <2>1, <2>2, <2>4, OrderIs
    <2>6. i = m + 1
      BY <1>1, <1>4, <2>1, <2>5 DEF Ordered
    <2> QED BY <2>2, <2>4, <2>6
  <1> QED BY <1>5, RemainingReachCycles DEF Remaining

-----------------------------------------------------------------------------
(* The steps *)

LEMMA PlanStarts == PlanInit => PlanInv
  <1> SUFFICES ASSUME PlanInit PROVE PlanInv
    OBVIOUS
  <1>1. DOMAIN stepStatus = Positions /\ \A p \in Positions : stepStatus[p] = "pending"
    BY DEF PlanInit, Fresh
  <1>2. /\ DOMAIN execution = Executions
        /\ \A k \in Executions : DOMAIN execution[k] = {"at", "loaded"} /\ DOMAIN execution[k].loaded = Positions
    BY DEF PlanInit, Fresh
  <1>3. DOMAIN loop = Executions /\ \A k \in Executions : LoopOK(loop[k], Order)
    BY DEF PlanInit, LoopOK, NoLoop, LoopFields, Fresh, Working
  <1> QED BY <1>1, <1>2, <1>3 DEF PlanInv, SkipsOnlyCycles

\* One loop has moved, one status was written.
LEMMA LoopMoves ==
    ASSUME PlanInv, depends' = depends, NEW k \in Executions, NEW o, loop' = [loop EXCEPT ![k] = o],
           LoopOK(o, Order)
    PROVE  DOMAIN loop' = Executions /\ \A j \in Executions : LoopOK(loop[j], Order)'
  <1>1. Order' = Order
    BY SameGraph
  <1>2. DOMAIN loop' = Executions /\ \A j \in Executions : LoopOK(loop'[j], Order)
    BY DEF PlanInv
  <1> QED BY <1>1, <1>2

LEMMA StatusMoves ==
    ASSUME PlanInv, depends' = depends, NEW p, NEW status, stepStatus' = [stepStatus EXCEPT ![p] = status],
           status = "skipped" /\ p \in Positions => OnCycle(p) \/ \E q \in WaitsFor(p) : OnCycle(q)
    PROVE  DOMAIN stepStatus' = Positions /\ SkipsOnlyCycles'
  <1>1. DOMAIN stepStatus' = Positions /\ \A x \in Positions : stepStatus'[x] = IF x = p THEN status ELSE stepStatus[x]
    BY DEF PlanInv
  <1>2. \A x \in Positions : stepStatus'[x] = "skipped" => OnCycle(x) \/ \E q \in WaitsFor(x) : OnCycle(q)
    BY <1>1 DEF PlanInv, SkipsOnlyCycles
  <1> QED BY <1>1, <1>2, SameGraph DEF SkipsOnlyCycles

\* The loop at a step that it takes up or leaves.
LEMMA StepMoves ==
    ASSUME PlanInv, NEW k \in Executions, loop[k].at = "step", loop[k].left # << >>, NEW at \in Working,
           NEW status, at = "step" => status \in PassedStatus
    PROVE  LET o == [loop[k] EXCEPT !.at = at, !.left = IF at = "step" THEN Tail(@) ELSE @,
                                    !.known = Knows(k, status)]
           IN  LoopOK(o, Order)
  <1> DEFINE p == loop[k]
             c == Current(k)
             known == Knows(k, status)
             o == [p EXCEPT !.at = at, !.left = IF at = "step" THEN Tail(@) ELSE @, !.known = Knows(k, status)]
  <1>1. DOMAIN p = LoopFields /\ DOMAIN p.known = Positions
    BY DEF PlanInv, LoopOK
  <1>2. PICK m \in 0..Len(Order) : Passed(p, m, Order)
    BY DEF PlanInv, LoopOK, Working
  <1>3. Len(Order) \in Nat /\ m < Len(Order) /\ c = Order[m + 1] /\ Tail(p.left) = SubSeq(Order, (m + 1) + 1, Len(Order))
    BY <1>2, LeftIs DEF Passed, Current
  <1>4. /\ DOMAIN o = LoopFields /\ o.at = at /\ o.known = known
        /\ o.left = IF at = "step" THEN Tail(p.left) ELSE p.left
    BY <1>1 DEF LoopFields
  <1>5. DOMAIN known = Positions /\ \A x \in Positions : known[x] = IF x = c THEN status ELSE p.known[x]
    BY <1>1 DEF Knows
  <1> HIDE DEF o, known, c, Order
  <1>6. CASE at = "step"
    <2>1. m + 1 \in 0..Len(Order) /\ o.left = SubSeq(Order, (m + 1) + 1, Len(Order))
      BY <1>3, <1>4, <1>6
    <2>2. \A j \in 1..(m + 1) : Order[j] \in Positions => o.known[Order[j]] \in PassedStatus
      <3> SUFFICES ASSUME NEW j \in 1..(m + 1), Order[j] \in Positions
                   PROVE  o.known[Order[j]] \in PassedStatus
        OBVIOUS
      <3>1. CASE j = m + 1
        BY <1>3, <1>4, <1>5, <1>6, <3>1
      <3>2. CASE j # m + 1
        <4>1. j \in 1..m
          BY <3>2
        <4> QED BY <1>2, <1>4, <1>5, <1>6, <4>1 DEF Passed
      <3> QED BY <3>1, <3>2
    <2>3. Passed(o, m + 1, Order)
      BY <1>4, <1>6, <2>1, <2>2 DEF Passed
    <2> QED BY <1>4, <1>5, <2>1, <2>3 DEF LoopOK, o, c
  <1>7. CASE at # "step"
    <2>1. \A j \in 1..m : Order[j] \in Positions => o.known[Order[j]] \in PassedStatus \/ Order[j] = Order[m + 1]
      BY <1>2, <1>3, <1>4, <1>5 DEF Passed
    <2>2. Passed(o, m, Order)
      BY <1>2, <1>3, <1>4, <1>7, <2>1 DEF Passed
    <2> QED BY <1>4, <1>5, <2>2 DEF LoopOK, o, c
  <1> QED BY <1>6, <1>7

\* A loop at the current step that goes back to the boundary behind it, or to another place
\* of the same step, or to no step.
LEMMA SuccessMoves ==
    ASSUME PlanInv, NEW k \in Executions, loop[k].at \in Working \ {"step"}
    PROVE  LET o == [loop[k] EXCEPT !.at = "step", !.left = Tail(@), !.known = Knows(k, "completed")]
           IN  LoopOK(o, Order)
  <1> DEFINE p == loop[k]
             c == Current(k)
             known == Knows(k, "completed")
             o == [p EXCEPT !.at = "step", !.left = Tail(@), !.known = Knows(k, "completed")]
  <1>1. DOMAIN p = LoopFields /\ DOMAIN p.known = Positions
    BY DEF PlanInv, LoopOK
  <1>2. PICK m \in 0..Len(Order) : Passed(p, m, Order)
    BY DEF PlanInv, LoopOK
  <1>3. /\ Len(Order) \in Nat /\ m < Len(Order) /\ c = Order[m + 1] /\ m + 1 \in 0..Len(Order)
        /\ Tail(p.left) = SubSeq(Order, (m + 1) + 1, Len(Order))
    BY <1>2, LeftIs DEF Passed, Current
  <1>4. DOMAIN o = LoopFields /\ o.at = "step" /\ o.known = known /\ o.left = Tail(p.left)
    BY <1>1 DEF LoopFields
  <1>5. DOMAIN known = Positions /\ \A x \in Positions : known[x] = IF x = c THEN "completed" ELSE p.known[x]
    BY <1>1 DEF Knows
  <1> HIDE DEF o, known, c, Order
  <1>6. ASSUME NEW j \in 1..(m + 1), Order[j] \in Positions
        PROVE  o.known[Order[j]] \in PassedStatus
    <2>1. CASE Order[j] = c
      BY <1>4, <1>5, <1>6, <2>1 DEF PassedStatus
    <2>2. CASE Order[j] # c
      <3>1. j \in 1..m
        BY <1>3, <2>2
      <3> QED BY <1>2, <1>3, <1>4, <1>5, <1>6, <2>2, <3>1 DEF Passed
    <2> QED BY <2>1, <2>2
  <1>7. Passed(o, m + 1, Order)
    BY <1>3, <1>4, <1>6 DEF Passed
  <1> QED BY <1>3, <1>4, <1>5, <1>7 DEF LoopOK, o, c

LEMMA PlaceMoves ==
    ASSUME PlanInv, NEW k \in Executions, NEW at, at = "step" \/ at \in Working => loop[k].at \in Working \ {"step"} /\ at # "step"
    PROVE  LET o == [loop[k] EXCEPT !.at = at] IN LoopOK(o, Order)
  <1> DEFINE p == loop[k]
             o == [p EXCEPT !.at = at]
  <1>1. LoopOK(p, Order)
    BY DEF PlanInv
  <1>2. DOMAIN o = LoopFields /\ o.at = at /\ o.known = p.known /\ o.left = p.left
    BY <1>1 DEF LoopOK, LoopFields
  <1> HIDE DEF o, p, Order
  <1>3. LoopOK(o, Order)
    BY <1>1, <1>2 DEF LoopOK, Passed, Working, p
  <1> QED BY <1>3 DEF o, p

LEMMA StepKeeps ==
    ASSUME PlanInv, NEW k \in Executions, StepSkips(k) \/ StepStarts(k)
    PROVE  PlanInv'
  <1> DEFINE o == loop[k]
             c == Current(k)
  <1>1. /\ depends' = depends /\ execution' = execution
        /\ o.at = "step" /\ o.left # << >>
    BY DEF StepSkips, StepStarts, LoopFrame
  <1>2. CASE StepSkips(k)
    <2> DEFINE next == [o EXCEPT !.at = "step", !.left = IF "step" = "step" THEN Tail(@) ELSE @,
                                 !.known = Knows(k, "skipped")]
    <2>1. LoopOK(next, Order)
      BY <1>1, StepMoves DEF Working, PassedStatus
    <2>2. loop' = [loop EXCEPT ![k] = next]
      <3>1. next = [o EXCEPT !.left = Tail(@), !.known = Knows(k, "skipped")]
        BY <1>1 DEF PlanInv, LoopOK, LoopFields
      <3> QED BY <1>2, <3>1 DEF StepSkips, Turns
    <2> HIDE DEF next
    <2>3. DOMAIN loop' = Executions /\ \A j \in Executions : LoopOK(loop[j], Order)'
      BY <1>1, <2>1, <2>2, LoopMoves
    <2>4. c \in Positions => OnCycle(c) \/ \E q \in WaitsFor(c) : OnCycle(q)
      <3>1. PICK m \in 0..Len(Order) : Passed(o, m, Order)
        BY <1>1 DEF PlanInv, LoopOK, Working
      <3>2. ~DependenciesMet(c, o.known) /\ c = Head(o.left)
        BY <1>2 DEF StepSkips, Current
      <3> HIDE DEF c
      <3> QED BY <1>1, <3>1, <3>2, SkippedWaits
    <2>5. DOMAIN stepStatus' = Positions /\ SkipsOnlyCycles'
      BY <1>1, <1>2, <2>4, StatusMoves DEF StepSkips, Records
    <2> QED BY <1>1, <2>3, <2>5 DEF PlanInv
  <1>3. CASE StepStarts(k)
    <2> DEFINE at == IF c \in delegated THEN "launch" ELSE "direct"
               next == [o EXCEPT !.at = at, !.left = IF at = "step" THEN Tail(@) ELSE @,
                                 !.known = Knows(k, "running")]
    <2>1. LoopOK(next, Order)
      BY <1>1, StepMoves DEF Working
    <2>2. loop' = [loop EXCEPT ![k] = next]
      <3>1. next = [o EXCEPT !.at = at, !.known = Knows(k, "running")]
        BY DEF PlanInv, LoopOK, LoopFields
      <3> QED BY <1>3, <3>1 DEF StepStarts, Turns
    <2> HIDE DEF next
    <2>3. DOMAIN loop' = Executions /\ \A j \in Executions : LoopOK(loop[j], Order)'
      BY <1>1, <2>1, <2>2, LoopMoves
    <2>5. DOMAIN stepStatus' = Positions /\ SkipsOnlyCycles'
      BY <1>1, <1>3, StatusMoves DEF StepStarts, Records
    <2> QED BY <1>1, <2>3, <2>5 DEF PlanInv
  <1> QED BY <1>2, <1>3

\* A loop that leaves its steps; its end, a failure included.
LEMMA EndKeeps ==
    ASSUME PlanInv, NEW k \in Executions, depends' = depends, execution' = execution,
           NEW o, loop' = [loop EXCEPT ![k] = o], DOMAIN o = LoopFields, DOMAIN o.known = Positions,
           o.at \notin Working,
           \/ stepStatus' = stepStatus
           \/ \E p, status : status # "skipped" /\ stepStatus' = [stepStatus EXCEPT ![p] = status]
    PROVE  PlanInv'
  <1>1. LoopOK(o, Order)
    BY DEF LoopOK
  <1>2. DOMAIN loop' = Executions /\ \A j \in Executions : LoopOK(loop[j], Order)'
    BY <1>1, LoopMoves
  <1>3. DOMAIN stepStatus' = Positions /\ SkipsOnlyCycles'
    <2>1. CASE stepStatus' = stepStatus
      BY <2>1, SameGraph DEF PlanInv, SkipsOnlyCycles
    <2>2. CASE \E p, status : status # "skipped" /\ stepStatus' = [stepStatus EXCEPT ![p] = status]
      BY <2>2, StatusMoves
    <2> QED BY <2>1, <2>2
  <1> QED BY <1>2, <1>3 DEF PlanInv

LEMMA FailureKeeps ==
    ASSUME PlanInv, NEW k \in Executions, depends' = depends, execution' = execution, StepFails(k)
    PROVE  PlanInv'
  <1> DEFINE p == loop[k]
  <1>1. DOMAIN loop = Executions /\ DOMAIN p = LoopFields /\ DOMAIN p.known = Positions
    BY DEF PlanInv, LoopOK
  <1>2. CASE Stops(k)
    <2> DEFINE o == [p EXCEPT !.at = "finish", !.outcome = "cancelled"]
    <2>1. loop' = [loop EXCEPT ![k] = o] /\ stepStatus' = stepStatus
      BY <1>2 DEF StepFails, Ends, Turns
    <2>2. DOMAIN o = LoopFields /\ DOMAIN o.known = Positions /\ o.at \notin Working
      BY <1>1 DEF LoopFields, Working, Knows
    <2> HIDE DEF o
    <2> QED BY <2>1, <2>2, EndKeeps
  <1>3. CASE ~Stops(k)
    <2> DEFINE o == [p EXCEPT !.at = "finish", !.outcome = "failed", !.known = Knows(k, "failed")]
    <2>1. loop' = [loop EXCEPT ![k] = o] /\ stepStatus' = [stepStatus EXCEPT ![Current(k)] = "failed"]
      BY <1>3 DEF StepFails, Records, Turns
    <2>2. DOMAIN o = LoopFields /\ DOMAIN o.known = Positions /\ o.at \notin Working
      BY <1>1 DEF LoopFields, Working, Knows
    <2> HIDE DEF o
    <2> QED BY <2>1, <2>2, EndKeeps
  <1> QED BY <1>2, <1>3

LEMMA SuccessKeeps ==
    ASSUME PlanInv, NEW k \in Executions, depends' = depends, execution' = execution,
           loop[k].at \in Working \ {"step"}, StepSucceeds(k)
    PROVE  PlanInv'
  <1> DEFINE o == [loop[k] EXCEPT !.at = "step", !.left = Tail(@), !.known = Knows(k, "completed")]
  <1>1. LoopOK(o, Order)
    BY SuccessMoves
  <1>2. loop' = [loop EXCEPT ![k] = o] /\ stepStatus' = [stepStatus EXCEPT ![Current(k)] = "completed"]
    BY DEF StepSucceeds, Records, Turns
  <1> HIDE DEF o
  <1>3. DOMAIN loop' = Executions /\ \A j \in Executions : LoopOK(loop[j], Order)'
    BY <1>1, <1>2, LoopMoves
  <1>4. DOMAIN stepStatus' = Positions /\ SkipsOnlyCycles'
    BY <1>2, StatusMoves
  <1> QED BY <1>3, <1>4 DEF PlanInv

ExecutionsTyped ==
    /\ DOMAIN execution = Executions
    /\ \A k \in Executions : DOMAIN execution[k] = {"at", "loaded"} /\ DOMAIN execution[k].loaded = Positions
LEMMA QuietKeeps ==
    ASSUME PlanInv, depends' = depends, loop' = loop, stepStatus' \in {stepStatus, Fresh}, ExecutionsTyped'
    PROVE  PlanInv'
  <1>1. DOMAIN stepStatus' = Positions /\ SkipsOnlyCycles'
    <2>1. CASE stepStatus' = stepStatus
      BY <2>1, SameGraph DEF PlanInv, SkipsOnlyCycles
    <2>2. CASE stepStatus' = Fresh
      BY <2>2 DEF Fresh, SkipsOnlyCycles
    <2> QED BY <2>1, <2>2
  <1>2. \A k \in Executions : LoopOK(loop[k], Order)'
    <2>1. Order' = Order
      BY SameGraph
    <2>2. \A k \in Executions : LoopOK(loop[k], Order)
      BY DEF PlanInv
    <2> HIDE DEF Order, LoopOK
    <2> QED BY <2>1, <2>2
  <1> QED BY <1>1, <1>2 DEF PlanInv, ExecutionsTyped

LEMMA SpawnKeeps ==
    ASSUME PlanInv, NEW k \in Executions, ExecuteSpawns(k) \/ NoWorkspace(k)
    PROVE  PlanInv'
  <1>1. depends' = depends /\ stepStatus' = stepStatus /\ execution' = [execution EXCEPT ![k].at = "answered"]
    BY DEF ExecuteSpawns, NoWorkspace
  <1>2. ExecutionsTyped'
    BY <1>1 DEF PlanInv, ExecutionsTyped
  <1>3. PICK o : loop' = [loop EXCEPT ![k] = o] /\ LoopOK(o, Order)
    <2>1. CASE ExecuteSpawns(k)
      <3> DEFINE o == [NoLoop EXCEPT !.at = "step", !.left = Order, !.known = execution[k].loaded]
      <3>1. DOMAIN o = LoopFields /\ DOMAIN o.known = Positions /\ o.at = "step" /\ o.left = Order
        BY DEF NoLoop, LoopFields, PlanInv
      <3>2. Order = SubSeq(Order, 0 + 1, Len(Order)) /\ 0 \in 0..Len(Order)
        <4>1. PICK S : Order \in Seq(S)
          BY OrderIs
        <4> HIDE DEF Order
        <4> QED BY <4>1
      <3>3. loop' = [loop EXCEPT ![k] = o]
        BY <2>1 DEF ExecuteSpawns
      <3> HIDE DEF o, Order
      <3>4. Passed(o, 0, Order)
        BY <3>1, <3>2 DEF Passed
      <3> QED BY <3>1, <3>2, <3>3, <3>4 DEF LoopOK
    <2>2. CASE NoWorkspace(k)
      <3> DEFINE o == [NoLoop EXCEPT !.at = "finish", !.outcome = "failed"]
      <3>1. DOMAIN o = LoopFields /\ DOMAIN o.known = Positions /\ o.at \notin Working
        BY DEF NoLoop, LoopFields, Fresh, Working
      <3>2. loop' = [loop EXCEPT ![k] = o]
        BY <2>2 DEF NoWorkspace
      <3> HIDE DEF o, Order
      <3> QED BY <3>1, <3>2 DEF LoopOK
    <2> QED BY <2>1, <2>2
  <1>4. DOMAIN loop' = Executions /\ \A j \in Executions : LoopOK(loop[j], Order)'
    BY <1>1, <1>3, LoopMoves
  <1>5. SkipsOnlyCycles'
    BY <1>1, SameGraph DEF PlanInv, SkipsOnlyCycles
  <1> QED BY <1>1, <1>2, <1>4, <1>5 DEF PlanInv, ExecutionsTyped

LEMMA CrashKeeps ==
    ASSUME PlanInv, PlanCrash
    PROVE  PlanInv'
  <1>1. depends' = depends /\ stepStatus' = stepStatus
    BY DEF PlanCrash
  <1>2. ExecutionsTyped'
    BY DEF PlanCrash, PlanInv, ExecutionsTyped
  <1>3. DOMAIN loop' = Executions /\ \A k \in Executions : LoopOK(loop[k], Order)'
    <2>1. DOMAIN loop' = Executions
      BY DEF PlanCrash
    <2>2. ASSUME NEW k \in Executions
          PROVE  LoopOK(loop'[k], Order')
      <3> DEFINE o == [loop[k] EXCEPT !.at = IF @ = "none" THEN @ ELSE "done"]
      <3>1. loop'[k] = o
        BY DEF PlanCrash
      <3>2. DOMAIN o = LoopFields /\ DOMAIN o.known = Positions /\ o.at \notin Working
        BY DEF PlanInv, LoopOK, LoopFields, Working
      <3> HIDE DEF o, Order
      <3> QED BY <3>1, <3>2 DEF LoopOK
    <2> QED BY <2>1, <2>2
  <1>4. SkipsOnlyCycles'
    BY <1>1, SameGraph DEF PlanInv, SkipsOnlyCycles
  <1> QED BY <1>1, <1>2, <1>3, <1>4 DEF PlanInv, ExecutionsTyped

\* A step of a loop that records nothing about a step of the plan.
LEMMA TurnKeeps ==
    ASSUME PlanInv, NEW k \in Executions,
           LoopStops(k) \/ FinishReads(k) \/ FinishWrites(k) \/ FinishRecords(k)
    PROVE  PlanInv'
  <1>1. DOMAIN loop[k] = LoopFields /\ DOMAIN loop[k].known = Positions
    BY DEF PlanInv, LoopOK
  <1>2. depends' = depends /\ execution' = execution /\ stepStatus' = stepStatus
    BY DEF LoopStops, FinishReads, FinishWrites, FinishRecords, LoopFrame
  <1>3. \E o : /\ loop' = [loop EXCEPT ![k] = o] /\ DOMAIN o = LoopFields /\ DOMAIN o.known = Positions
               /\ o.at \notin Working
    <2>1. CASE LoopStops(k)
      <3> DEFINE outcome == IF loop[k].left = << >> THEN "completed" ELSE "cancelled"
                 o == [loop[k] EXCEPT !.at = "finish", !.outcome = outcome]
      <3>1. loop' = [loop EXCEPT ![k] = o]
        BY <2>1 DEF LoopStops, Ends, Turns
      <3>2. DOMAIN o = LoopFields /\ DOMAIN o.known = Positions /\ o.at \notin Working
        BY <1>1 DEF LoopFields, Working
      <3> HIDE DEF o
      <3> QED BY <3>1, <3>2
    <2>2. CASE FinishReads(k)
      <3> DEFINE o == [loop[k] EXCEPT !.at = "write", !.wrote = planStatus \in PlanEnded,
                                      !.outcome = IF planStatus \in PlanEnded THEN planStatus ELSE @]
      <3>1. loop' = [loop EXCEPT ![k] = o]
        BY <2>2 DEF FinishReads, Turns
      <3>2. DOMAIN o = LoopFields /\ DOMAIN o.known = Positions /\ o.at \notin Working
        BY <1>1 DEF LoopFields, Working
      <3> HIDE DEF o
      <3> QED BY <3>1, <3>2
    <2>3. CASE FinishWrites(k) \/ FinishRecords(k)
      <3>1. PICK at \in {"record", "done"} : loop' = [loop EXCEPT ![k] = [loop[k] EXCEPT !.at = at]]
        BY <2>3 DEF FinishWrites, FinishRecords, Turns
      <3> DEFINE o == [loop[k] EXCEPT !.at = at]
      <3>2. DOMAIN o = LoopFields /\ DOMAIN o.known = Positions /\ o.at \notin Working
        BY <1>1 DEF LoopFields, Working
      <3>3. loop' = [loop EXCEPT ![k] = o]
        BY <3>1
      <3> HIDE DEF o
      <3> QED BY <3>2, <3>3
    <2> QED BY <2>1, <2>2, <2>3
  <1> QED BY <1>2, <1>3, EndKeeps

\* The current step is carried out, by the loop itself or by a child.
LEMMA WorkKeeps ==
    ASSUME PlanInv, NEW k \in Executions,
           DirectEnds(k) \/ Launches(k) \/ Polls(k) \/ ChildTimesOut(k)
    PROVE  PlanInv'
  <1>1. depends' = depends /\ execution' = execution /\ loop[k].at \in Working \ {"step"}
    BY DEF DirectEnds, Launches, Polls, ChildTimesOut, LoopFrame, Working
  <1>2. \/ StepSucceeds(k) \/ StepFails(k)
        \/ stepStatus' = stepStatus /\ loop' = [loop EXCEPT ![k] = [loop[k] EXCEPT !.at = "child"]]
    BY DEF DirectEnds, Launches, Polls, ChildTimesOut, Turns
  <1>3. CASE StepSucceeds(k)
    BY <1>1, <1>3, SuccessKeeps
  <1>4. CASE StepFails(k)
    BY <1>1, <1>4, FailureKeeps
  <1>5. CASE stepStatus' = stepStatus /\ loop' = [loop EXCEPT ![k] = [loop[k] EXCEPT !.at = "child"]]
    <2> DEFINE o == [loop[k] EXCEPT !.at = "child"]
    <2>1. LoopOK(o, Order)
      BY <1>1, PlaceMoves
    <2>2. loop' = [loop EXCEPT ![k] = o]
      BY <1>5
    <2> HIDE DEF o
    <2>3. DOMAIN loop' = Executions /\ \A j \in Executions : LoopOK(loop[j], Order)'
      BY <1>1, <2>1, <2>2, LoopMoves
    <2>4. SkipsOnlyCycles'
      BY <1>1, <1>5, SameGraph DEF PlanInv, SkipsOnlyCycles
    <2> QED BY <1>1, <1>5, <2>3, <2>4 DEF PlanInv
  <1> QED BY <1>2, <1>3, <1>4, <1>5

LEMMA PlanKeeps == PlanInv /\ [PlanNext]_planVars => PlanInv'
  <1> SUFFICES ASSUME PlanInv, [PlanNext]_planVars PROVE PlanInv'
    OBVIOUS
  <1>1. ASSUME depends' = depends, loop' = loop, stepStatus' \in {stepStatus, Fresh}, execution' = execution
        PROVE  PlanInv'
    BY <1>1, QuietKeeps DEF PlanInv, ExecutionsTyped
  <1>2. CASE UNCHANGED planVars
    BY <1>1, <1>2 DEF planVars
  <1>3. CASE UpdateReads \/ UpdateWrites \/ Approves \/ CancelsPlan
    BY <1>1, <1>3 DEF UpdateReads, UpdateWrites, Approves, CancelsPlan, SetStatus
  <1>4. CASE PlanCrash
    BY <1>4, CrashKeeps
  <1>5. ASSUME NEW p \in Positions, ChildEnds(p)
        PROVE  PlanInv'
    BY <1>1, <1>5 DEF ChildEnds, LoopFrame
  <1>6. ASSUME NEW k \in Executions, CancelsRun(k)
        PROVE  PlanInv'
    BY <1>1, <1>6 DEF CancelsRun
  <1>7. ASSUME NEW k \in Executions, ExecuteReads(k) \/ ExecuteOpens(k) \/ ExecuteMarks(k)
        PROVE  PlanInv'
    <2>1. depends' = depends /\ loop' = loop /\ stepStatus' = stepStatus
      BY <1>7 DEF ExecuteReads, ExecuteOpens, ExecuteMarks
    <2>2. ExecutionsTyped'
      BY <1>7 DEF ExecuteReads, ExecuteOpens, ExecuteMarks, PlanInv, ExecutionsTyped
    <2> QED BY <2>1, <2>2, QuietKeeps
  <1>8. ASSUME NEW k \in Executions, ExecuteSpawns(k) \/ NoWorkspace(k)
        PROVE  PlanInv'
    BY <1>8, SpawnKeeps
  <1>9. ASSUME NEW k \in Executions, LoopStep(k) \/ ChildTimesOut(k)
        PROVE  PlanInv'
    BY <1>9, StepKeeps, WorkKeeps, TurnKeeps DEF LoopStep
  <1> QED BY <1>2, <1>3, <1>4, <1>5, <1>6, <1>7, <1>8, <1>9 DEF PlanNext

\* A plan passes over no step that neither is on a cycle of dependencies nor waits for one:
\* topological_order puts every other step after all it depends on, and a failed step ends
\* the plan (run_plan).
THEOREM PlansPassOverCycles == PlanSpec => []SkipsOnlyCycles
  <1>1. PlanInv => SkipsOnlyCycles
    BY DEF PlanInv
  <1> QED BY PlanStarts, PlanKeeps, <1>1, PTL DEF PlanSpec
================================================================================
