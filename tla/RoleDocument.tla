---------------------------- MODULE RoleDocument ----------------------------
(***************************************************************************)
(* The JSON document of a role (server/game_state.py): how a stored        *)
(* document is normalised when it is read, how a patch is merged into it,  *)
(* and what the start-up frames show of it.                                *)
(*                                                                         *)
(* A field lives in its section of the document (model) and, for old       *)
(* callers, under a top-level alias.  Reading lets the alias win over the  *)
(* section; merging and storing let the section win over the alias.  The   *)
(* row also holds the diamonds as a column and the RoleBase message as     *)
(* bytes (blob), from which a missing section is filled.                   *)
(*                                                                         *)
(* Statements that read and write the row are one step here; RoleState has *)
(* what comes between them.  The strings of a guide, and the parts of a    *)
(* document that no alias stands for, are left out, but for the heroes and *)
(* lineups that the start-up frames are made from.                         *)
(***************************************************************************)
EXTENDS GameProto

CONSTANTS
    Absent,          \* the value of a key that a document does not have
    GuideKey,        \* keys of the guide
    FixtureBase,     \* the RoleBase of the fixture, as bytes
    FixtureBag,      \* its RoleBag
    HeroFrame,       \* the body of its message 27
    HeroSeed,        \* the heroes and lineups that message carries
    StartupFrame,    \* the body of its message 25
    Uid,             \* the game uid of the role
    LegacyDocument,  \* documents an older server left in the row
    LegacyDiamond,   \* and the diamonds it left in the column beside them
    CapturedBase,    \* the RoleBase messages of the captured answers
    Reward,          \* a battle's coins, diamonds and strength
    HeroId,          \* heroes a client may raise, held or not
    LevelNum,        \* the levels a hero level up adds
    Lineup,          \* lineups a client may save
    Quantity,        \* the diamonds of a paid order
    MaxVersion       \* nothing starts past this version (bound)

Part == {"level", "coin", "diamond", "strength", "lineup", "guide"}

\* What stands in for a missing key when the aliases are made.
Zero == [level |-> 0, coin |-> 0, diamond |-> 0, strength |-> 0,
         lineup |-> << >>, guide |-> {}]

Values == [level: Nat, coin: Nat, diamond: Nat, strength: Nat,
           lineup: Seq(Nat), guide: SUBSET GuideKey]

Typed(fields) ==
    /\ fields = [p \in Part |-> fields[p]]
    /\ \A p \in Part : fields[p] = Absent \/ [Zero EXCEPT ![p] = fields[p]] \in Values

\* Heroes and lineups have positive numbers.
IsHeroPart(hero) ==
    LET IsMap(m, S) ==
          m \in [DOMAIN m -> S] /\ IsFiniteSet(DOMAIN m) /\ DOMAIN m \subseteq Nat \ {0}
    IN /\ hero = [heroes |-> hero.heroes, lineups |-> hero.lineups, active |-> hero.active]
       /\ IsMap(hero.heroes, Nat) /\ IsMap(hero.lineups, Seq(Nat)) /\ hero.active \in Nat

\* A document that has all its sections has all their fields, and heroes.
IsDocument(doc) ==
    /\ doc = [whole |-> doc.whole, model |-> doc.model, alias |-> doc.alias,
              hero |-> doc.hero]
    /\ doc.whole \in BOOLEAN
    /\ Typed(doc.model) /\ Typed(doc.alias) /\ IsHeroPart(doc.hero)
    /\ doc.whole => /\ \A p \in Part : doc.model[p] # Absent
                    /\ DOMAIN doc.hero.heroes # {}

\* A key that is absent is no value of any; the capture has heroes; and an
\* older server wrote documents, whose diamonds need not be the column's.
ASSUME DocumentAssumption ==
    /\ Absent \notin Nat /\ Absent \notin Seq(Nat)
    /\ \A guide \in SUBSET GuideKey : guide # Absent
    /\ IsHeroPart(HeroSeed) /\ DOMAIN HeroSeed.heroes # {}
    /\ \A doc \in LegacyDocument : IsDocument(doc)
    /\ LegacyDiamond \subseteq Nat

ASSUME FixtureAssumption ==
    /\ FixtureBase \in Seq(Byte) /\ FixtureBag \in Seq(Byte)
    /\ HeroFrame \in Seq(Byte) /\ StartupFrame \in Seq(Byte)
    /\ CapturedBase \subseteq Seq(Byte)
    /\ WellFormed(FixtureBag) /\ WellFormed(HeroFrame) /\ WellFormed(StartupFrame)
    /\ \A b \in {FixtureBase} \cup CapturedBase :
         WellFormed(b) /\ WellFormed(GetBytes(b, 9))
    /\ \A number \in {4, 5, 125} : HasBytes(StartupFrame, number)
    /\ HeroSeed = DecodeRoleHero(HeroFrame)
    /\ Uid \in Nat /\ Fits(Uid) /\ Quantity \in Nat /\ LevelNum \in Nat /\ MaxVersion \in Nat
    /\ HeroId \subseteq Nat \ {0} /\ Lineup \subseteq Seq(Nat)
    /\ Reward \in [{"coin", "diamond", "strength"} -> Int]
    /\ Reward["coin"] >= 0 /\ Reward["diamond"] >= 0

VARIABLES
    row,     \* the row of game_roles
    online,  \* the role is logged in
    due,     \* game orders of the role that are not settled yet
    wrote    \* the fields the last step was to write, and the values (history)

vars == <<row, online, due, wrote>>

Nothing == << >>

\* What get_game_role finds of a role that does not exist yet.
NoRow == [none |-> TRUE]

-----------------------------------------------------------------------------
\* game_state.py

\* _sync_aliases: every alias becomes what the section holds.
SyncAliases(doc) ==
    [doc EXCEPT !.alias = [p \in Part |->
        IF doc.model[p] = Absent THEN Zero[p] ELSE doc.model[p]]]

\* default_role_state, from the RoleBase message of the row.
Default(blob) ==
    [level |-> GetVarint(GetBytes(blob, 9), 1), coin |-> GetVarint(blob, 7),
     diamond |-> GetVarint(blob, 8), strength |-> 100, lineup |-> << >>, guide |-> {}]

\* A key of the document over what was there before; a guide is merged.
Over(p, value, old) ==
    IF value = Absent THEN old ELSE IF p = "guide" THEN old \cup value ELSE value

\* Mutant of Filled: the defaults win over the document.
FilledByDefault(doc, blob) ==
    [p \in Part |-> Over(p, Over(p, Default(blob)[p], Default(blob)[p]), Default(blob)[p])]

\* The sections over the defaults, and the aliases over both.
Filled(doc, blob) ==
    [p \in Part |-> Over(p, doc.alias[p], Over(p, doc.model[p], Default(blob)[p]))]

\* The heroes and lineups of the start-up capture, for a document without any.
Seeded(hero) ==
    IF DOMAIN hero.heroes # {} THEN hero
    ELSE [heroes |-> HeroSeed.heroes,
          lineups |-> MapOver(HeroSeed.lineups, hero.lineups),
          active |-> IF HeroSeed.active # 0 THEN HeroSeed.active ELSE hero.active]

\* The active lineup of a document whose hero part was seeded becomes its
\* normal one.
SeededLineup(doc, hero, normal) ==
    IF DOMAIN doc.hero.heroes = {} /\ hero.active \in DOMAIN hero.lineups
    THEN hero.lineups[hero.active] ELSE normal

\* Mutant of Normalize: the aliases are made before the heroes are seeded.
NormalizeEarly(doc, blob) ==
    LET hero == Seeded(doc.hero)
        early == SyncAliases([whole |-> TRUE, alias |-> doc.alias, hero |-> hero,
                              model |-> Filled(doc, blob)])
    IN [early EXCEPT !.model.lineup = SeededLineup(doc, hero, @)]

\* normalize_role_state: the state that every reader of the row works with.
Normalize(doc, blob) ==
    LET With(hero) ==
          [whole |-> TRUE, alias |-> doc.alias, hero |-> hero,
           model |-> [Filled(doc, blob) EXCEPT !.lineup = SeededLineup(doc, hero, @)]]
    IN SyncAliases(With(Seeded(doc.hero)))

State(r) == Normalize(r.doc, r.blob)

\* Mutant of Merge: the aliases are left as they are.
MergeUnsynced(doc, patch, hero) ==
    LET old(p) == IF doc.model[p] = Absent THEN Zero[p] ELSE doc.model[p]
        model == [p \in Part |->
                    IF p \in DOMAIN patch THEN Over(p, patch[p], old(p)) ELSE doc.model[p]]
    IN [doc EXCEPT !.model = model,
                   !.hero.heroes = MapOver(hero.heroes, @),
                   !.hero.lineups = MapOver(hero.lineups, @)]

\* merge_role_state: a patch of fields; heroes and lineups are merged by id.
Merge(doc, patch, hero) ==
    LET old(p) == IF doc.model[p] = Absent THEN Zero[p] ELSE doc.model[p]
        model == [p \in Part |->
                    IF p \in DOMAIN patch THEN Over(p, patch[p], old(p)) ELSE doc.model[p]]
    IN SyncAliases([doc EXCEPT !.model = model,
                               !.hero.heroes = MapOver(hero.heroes, @),
                               !.hero.lineups = MapOver(hero.lineups, @)])

\* patch_role_base_from_state, of the fields that a state here has: the uid, the
\* coins, the diamonds, and the level in a message of its own.  The code writes
\* the others it knows the meaning of the same way, and adds those the message
\* does not have: name, signature and sex (2, 3, 4), head (16), hero experience
\* (26), area (29), times (130, 149, 150, 153), and the experience (9.2).
PatchRoleBase(blob, model) ==
    LET Leveled(base) == PatchBytes(base, 9, PatchVarint(GetBytes(base, 9), 1, model.level))
    IN Leveled(PatchVarint(PatchVarint(PatchVarint(blob, 1, Uid), 7, model.coin),
                           8, model.diamond))

-----------------------------------------------------------------------------
\* The start-up frames; _send_startup.

\* The bag as the document holds it, or as the blob does when it has no item.
StartupBag ==
    LET Or(wire) == IF wire = << >> THEN FixtureBag ELSE wire
    IN Or(EncodeRoleBag(DecodeRoleBag(FixtureBag)))

\* The bag of the fixture is the one of its message 25: some of each item.  The
\* one that is sent is short enough for a field.
ASSUME BagAssumption ==
    LET items == DecodeRoleBag(FixtureBag).items
    IN /\ FixtureBag = GetBytes(StartupFrame, 5)
       /\ \A k \in DOMAIN items : k > 0 /\ items[k].quantity > 0
       /\ Fits(Len(StartupBag))

Strength(n) == VarintField(1, n) \o VarintField(2, 100)

\* Each part replaces the field of message 25 that the capture had for it.
StartupBody(r) ==
    LET Put(body, number, b) == IF HasBytes(body, number) THEN PatchBytes(body, number, b)
                                ELSE body
        Bag(body, bag) == IF bag = << >> THEN body ELSE Put(body, 5, bag)
        Body(s) == Put(Bag(Put(StartupFrame, 4, PatchRoleBase(r.blob, s)), StartupBag),
                       125, Strength(s.strength))
    IN Body(State(r).model)

\* Message 27, with the replay of the captured one.
StartupHeroBody(r) == EncodeStartupHero(State(r).hero, GetBytes(HeroFrame, 2))

-----------------------------------------------------------------------------
\* The writers of the row.

\* ensure_game_role: a new row, with the fixture's messages and diamonds.
CreateRole ==
    /\ row = NoRow
    /\ row' = [diamond |-> GetVarint(FixtureBase, 8), blob |-> FixtureBase, version |-> 0,
               doc |-> [whole |-> FALSE, model |-> [p \in Part |-> Absent],
                        alias |-> [p \in Part |-> Absent], hero |-> NoHeroes]]
    /\ wrote' = Nothing
    /\ UNCHANGED <<online, due>>

\* _handle_login: a document that lacks a section is stored normalised, under
\* the same version.
Login ==
    /\ row # NoRow
    /\ ~online
    /\ online' = TRUE
    /\ row' = IF row.doc.whole THEN row ELSE [row EXCEPT !.doc = State(row)]
    /\ wrote' = Nothing
    /\ UNCHANGED due

\* The client is gone, or the server is started again.
Logout ==
    /\ online
    /\ online' = FALSE
    /\ wrote' = Nothing
    /\ UNCHANGED <<row, due>>

\* A gameplay handler may run.
Playing == online /\ row.version < MaxVersion

\* merge_game_state of a patch of fields, and of heroes and lineups.
Store(patch, hero) ==
    /\ row' = [row EXCEPT !.doc = Merge(@, patch, hero), !.version = @ + 1]
    /\ wrote' = patch
    /\ UNCHANGED <<online, due>>

\* The first victory of a level; there is always one left.
HandleRiskWin ==
    LET Won(s) == [coin |-> s.coin + Reward["coin"], diamond |-> s.diamond + Reward["diamond"],
                   strength |-> Max({0, s.strength + Reward["strength"]})]
        Rewarded(s, patch) ==
          /\ row' = [diamond |-> patch.diamond,
                     blob |-> PatchRoleBase(row.blob, MapOver(patch, s)),
                     doc |-> Merge(row.doc, patch, NoHeroes),
                     version |-> row.version + 1]
          /\ wrote' = patch
          /\ UNCHANGED <<online, due>>
    IN Playing /\ Rewarded(State(row).model, Won(State(row).model))

HandleGuideSave ==
    /\ Playing
    /\ \E g \in GuideKey :
         Store([guide |-> State(row).model.guide \cup {g}], NoHeroes)

\* Message 109 saves the normal lineup, 111 the battle one.
HandleLineup ==
    /\ Playing
    /\ \E line \in Lineup :
         LET named == [NoHeroes EXCEPT !.lineups = [id \in {1} |-> line]]
         IN Store([lineup |-> line], named) \/ Store(Nothing, named)

\* A hero gains levels; one that the role does not hold starts from level 1.
HandleHeroLevelUp ==
    LET Level(heroes, h) == IF h \in DOMAIN heroes THEN heroes[h] ELSE 1
    IN /\ Playing
       /\ \E h \in HeroId :
            Store(Nothing, [NoHeroes EXCEPT !.heroes =
                              [id \in {h} |-> Level(State(row).hero.heroes, h) + LevelNum]])

\* _handle_change_nickname: the RoleBase message is written from the state.
HandleChangeNickname ==
    /\ Playing
    /\ row' = [row EXCEPT !.doc = Merge(@, Nothing, NoHeroes),
                          !.blob = PatchRoleBase(@, State(row).model),
                          !.version = @ + 1]
    /\ wrote' = Nothing
    /\ UNCHANGED <<online, due>>

\* _persist_captured_role_base: a RoleBase of a captured answer replaces the
\* stored message, and its level the alias of the level in the document.
PersistCapturedRoleBase(captured) ==
    LET Blob(s) == PatchVarint(PatchVarint(PatchVarint(captured, 1, Uid), 7, s.alias.coin),
                               8, s.alias.diamond)
        level == GetVarint(GetBytes(captured, 9), 1)
        named == HasBytes(captured, 9)
        Persisted(s) ==
          row' = [diamond |-> s.alias.diamond, blob |-> Blob(s),
                  doc |-> IF named THEN [s EXCEPT !.alias.level = level] ELSE s,
                  version |-> row.version + 1]
    IN /\ Playing
       /\ Persisted(State(row))
       /\ wrote' = IF named THEN [level |-> level] ELSE Nothing
       /\ UNCHANGED <<online, due>>

\* _handle_order; the order's own row is in Payments.
CreateGameOrder ==
    /\ Playing
    /\ due = 0
    /\ due' = 1
    /\ wrote' = Nothing
    /\ UNCHANGED <<row, online>>

\* settle_game_payment, whether the role is logged in or never was since the
\* document exists.
Settle ==
    LET patch == [diamond |-> row.diamond + Quantity]
    IN /\ row # NoRow
       /\ due = 1
       /\ due' = 0
       /\ row' = [row EXCEPT !.diamond = patch.diamond, !.doc = Merge(@, patch, NoHeroes),
                             !.version = @ + 1]
       /\ wrote' = patch
       /\ UNCHANGED online

-----------------------------------------------------------------------------

\* No role, or one of a database that an older server wrote, with an order of
\* its own.  Storage.initialize adds the columns that are missing and keeps what
\* is in the others, so the diamonds are not always those of the RoleBase.
Init ==
    /\ \/ row = NoRow /\ due = 0
       \/ /\ \E doc \in LegacyDocument, d \in LegacyDiamond :
               row = [diamond |-> d, blob |-> FixtureBase, doc |-> doc, version |-> 0]
          /\ due \in {0, 1}
    /\ online = FALSE
    /\ wrote = Nothing

Handler ==
    \/ HandleRiskWin
    \/ HandleGuideSave
    \/ HandleLineup
    \/ HandleHeroLevelUp
    \/ HandleChangeNickname
    \/ \E b \in CapturedBase : PersistCapturedRoleBase(b)
    \/ CreateGameOrder

Next == CreateRole \/ Login \/ Logout \/ Handler \/ Settle

Spec == Init /\ [][Next]_vars

-----------------------------------------------------------------------------
(* Properties *)

\* Type correctness: the row has a document, whole while the role plays, and
\* the stored RoleBase can be parsed to its end, which every reader of the row
\* relies on.
TypeOK ==
    /\ online \in BOOLEAN /\ due \in {0, 1}
    /\ row # NoRow =>
         /\ IsDocument(row.doc) /\ row.diamond \in Nat /\ row.version \in Nat
         /\ WellFormed(row.blob) /\ WellFormed(GetBytes(row.blob, 9))
    /\ online => row # NoRow /\ row.doc.whole

\* The field p of a document is the same in its section and under its alias.
InStep(doc, p) == doc.model[p] # Absent /\ doc.model[p] = doc.alias[p]

\* What a reader makes of the document after a step, when before it he made
\* the state old of it: the fields that the step was to write have the values
\* it was to write, and field p, when not among them, the value it had.
Narrow(old, p) ==
    row' = NoRow \/ State(row').model[p] = IF p \in DOMAIN wrote' THEN wrote'[p] ELSE old[p]

\* Merging is narrow: reading after a step gives what the step wrote and, of
\* the rest, what reading gave before, for every field whose alias was in step.
\* A login's migration writes nothing that reading did not give already.
MergeIsNarrow ==
    [][ row # NoRow =>
          \A p \in Part : (InStep(row.doc, p) \/ p \in DOMAIN wrote')
                          => Narrow(State(row).model, p) ]_vars

\* The same for every field of a role that has logged in: a patch changes the
\* fields that its request names and no other.
OnlyNamedFieldsChange ==
    [][ row # NoRow /\ row.doc.whole =>
          \A p \in Part : Narrow(State(row).model, p) ]_vars

Confirmed == {1, 7, 8, 9}

\* The numbers of a state, read out of message 25.
ShowsNumbers(body, model) ==
    LET base == GetBytes(body, 4)
    IN /\ GetVarint(base, 1) = Uid
       /\ GetVarint(base, 7) = model.coin
       /\ GetVarint(base, 8) = model.diamond
       /\ GetVarint(GetBytes(base, 9), 1) = model.level
       /\ GetVarint(GetBytes(body, 125), 1) = model.strength

\* Every field of a message is where it was, and has what it had unless its
\* number is among those; and so is the number of every field after them.
Keeps(new, old, numbers) ==
    LET Same(f, g) == /\ g.number = f.number /\ g.type = f.type
                      /\ f.number \notin numbers => g.value = f.value
        Kept(fs, gs) == /\ \A i \in DOMAIN fs : i \in DOMAIN gs /\ Same(fs[i], gs[i])
                        /\ \A i \in DOMAIN gs \ DOMAIN fs : gs[i].number \in numbers
    IN Kept(Fields(old), Fields(new))

\* The client is shown what is stored: parsing the start-up messages, nested
\* and patched as they are, gives the state that was normalised, the heroes
\* and lineups and the bag as they are in the document, and the fields nobody
\* has recovered yet unchanged and in their places.
StartupShowsState ==
    LET Shows(body, s) ==
          /\ ShowsNumbers(body, s.model)
          /\ Keeps(GetBytes(body, 4), row.blob, Confirmed)
          /\ DecodeRoleBag(GetBytes(body, 5)) = DecodeRoleBag(FixtureBag)
          /\ DecodeRoleHero(StartupHeroBody(row)) = s.hero
    IN row # NoRow => Shows(StartupBody(row), State(row))

\* Reading is stable: the state of a state is the state, so a login that
\* stores it, and a handler that stores it whole, change nothing that anybody
\* reads.
ReadingIsStable ==
    row # NoRow => Normalize(State(row), row.blob) = State(row)

\* The diamonds that a reader of the document finds are the column's, and so is
\* what the next merge makes the alias of.
DiamondsAgree(r) ==
    \/ r = NoRow
    \/ /\ State(r).model.diamond = r.diamond
       /\ r.doc.whole => InStep(r.doc, "diamond")

\* The diamonds stay in step, from the creation of a role on: settlements count
\* up the column, rewards and captured messages the document, start-ups and
\* nicknames copy the document into the RoleBase, and no sequence of them takes
\* the one from the other, or takes a diamond away.  A role of an older server
\* whose RoleBase was not kept up is in step from its first settlement or
\* reward on.
DiamondsStayInStep ==
    [][ /\ DiamondsAgree(row) \/ "diamond" \in DOMAIN wrote' => DiamondsAgree(row')
        /\ DiamondsAgree(row) /\ row # NoRow => row'.diamond >= row.diamond ]_vars

=============================================================================
