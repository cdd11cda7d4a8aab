------------------------- MODULE RoleDocumentProofs -------------------------
(***************************************************************************)
(* Proofs about RoleDocument: that reading a document is stable, that      *)
(* merging is narrow and that the diamonds stay in step, for every         *)
(* document of an older server, every patch and every message.             *)
(***************************************************************************)
EXTENDS RoleDocument, GameProtoProofs

LEMMA RoleBaseType ==
    ASSUME NEW blob \in Seq(Byte), NEW model, Uid \in Nat,
           model.level \in Nat, model.coin \in Nat, model.diamond \in Nat
    PROVE  PatchRoleBase(blob, model) \in Seq(Byte)
<1> DEFINE one == PatchVarint(blob, 1, Uid)
           two == PatchVarint(one, 7, model.coin)
           base == PatchVarint(two, 8, model.diamond)
           exp == GetBytes(base, 9)
<1>0. 1 \in Nat \ {0} /\ 7 \in Nat \ {0} /\ 8 \in Nat \ {0} /\ 9 \in Nat \ {0}
  OBVIOUS
<1>1. base \in Seq(Byte)
  <2>1. one \in Seq(Byte)
    BY <1>0, PatchedType
  <2> HIDE DEF one
  <2>2. two \in Seq(Byte)
    BY <1>0, <2>1, PatchedType
  <2> HIDE DEF two
  <2> QED
    BY <1>0, <2>2, PatchedType
<1> HIDE DEF base
<1>2. exp \in Seq(Byte)
  BY <1>0, <1>1, GotType
<1> HIDE DEF exp
<1>3. PatchVarint(exp, 1, model.level) \in Seq(Byte)
  BY <1>0, <1>2, PatchedType
<1>4. PatchBytes(base, 9, PatchVarint(exp, 1, model.level)) \in Seq(Byte)
  BY <1>0, <1>1, <1>3, PatchedType
<1> QED
  BY <1>4 DEF PatchRoleBase, exp, base

-----------------------------------------------------------------------------
(* Documents.                                                                *)

\* The values that a field of a document may have.
PartType(p) ==
    IF p = "lineup" THEN Seq(Nat) ELSE IF p = "guide" THEN SUBSET GuideKey ELSE Nat

LEMMA TypedParts ==
    ASSUME NEW fields
    PROVE  Typed(fields) <=> /\ fields = [p \in Part |-> fields[p]]
                             /\ \A p \in Part : fields[p] = Absent \/ fields[p] \in PartType(p)
<1>1. ASSUME NEW p \in Part
      PROVE  [Zero EXCEPT ![p] = fields[p]] \in Values <=> fields[p] \in PartType(p)
  <2> DEFINE v == fields[p]
  <2> HIDE DEF v
  <2>1. << >> \in Seq(Nat) /\ {} \in SUBSET GuideKey
    OBVIOUS
  <2>2. [Zero EXCEPT ![p] = v] \in Values <=> v \in PartType(p)
    <3>1. CASE p = "level"
      BY <2>1, <3>1 DEF Zero, Values, PartType
    <3>2. CASE p = "coin"
      BY <2>1, <3>2 DEF Zero, Values, PartType
    <3>3. CASE p = "diamond"
      BY <2>1, <3>3 DEF Zero, Values, PartType
    <3>4. CASE p = "strength"
      BY <2>1, <3>4 DEF Zero, Values, PartType
    <3>5. CASE p = "lineup"
      BY <2>1, <3>5 DEF Zero, Values, PartType
    <3>6. CASE p = "guide"
      BY <2>1, <3>6 DEF Zero, Values, PartType
    <3> QED
      BY <3>1, <3>2, <3>3, <3>4, <3>5, <3>6 DEF Part
  <2> QED
    BY <2>2 DEF v
<1> QED
  BY <1>1 DEF Typed

LEMMA Present ==
    ASSUME NEW p \in Part, NEW v \in PartType(p)
    PROVE  v # Absent
  BY DocumentAssumption DEF PartType

LEMMA ZeroType ==
    \A p \in Part : Zero[p] \in PartType(p)
<1> SUFFICES ASSUME NEW p \in Part PROVE Zero[p] \in PartType(p)
  OBVIOUS
<1>1. CASE p = "lineup"
  <2>1. Zero[p] = << >> /\ << >> \in Seq(Nat)
    BY <1>1 DEF Zero
  <2> QED
    BY <1>1, <2>1 DEF PartType
<1>2. CASE p = "guide"
  BY <1>2 DEF Zero, PartType
<1>3. CASE p \in {"level", "coin", "diamond", "strength"}
  BY <1>3 DEF Zero, PartType
<1> QED
  BY <1>1, <1>2, <1>3 DEF Part

LEMMA DefaultType ==
    ASSUME NEW blob \in Seq(Byte)
    PROVE  /\ \A p \in Part : Default(blob)[p] \in PartType(p)
           /\ Default(blob)["guide"] = {}
           /\ Default(blob)["diamond"] = GetVarint(blob, 8)
<1>1. << >> \in Seq(Nat)
  OBVIOUS
<1>2. 1 \in Nat \ {0} /\ 7 \in Nat \ {0} /\ 8 \in Nat \ {0} /\ 9 \in Nat \ {0}
  OBVIOUS
<1>3. GetVarint(blob, 7) \in Nat /\ GetVarint(blob, 8) \in Nat
      /\ GetVarint(GetBytes(blob, 9), 1) \in Nat
  BY <1>2, GotType
<1> QED
  BY <1>1, <1>3 DEF Default, Part, PartType

LEMMA OverType ==
    ASSUME NEW p \in Part, NEW value \in PartType(p) \cup {Absent}, NEW old \in PartType(p)
    PROVE  /\ Over(p, value, old) \in PartType(p)
           /\ value # Absent /\ p # "guide" => Over(p, value, old) = value
  BY DEF Over, PartType

LEMMA FilledType ==
    ASSUME NEW doc, IsDocument(doc), NEW blob \in Seq(Byte)
    PROVE  /\ Filled(doc, blob) = [p \in Part |-> Filled(doc, blob)[p]]
           /\ \A p \in Part : Filled(doc, blob)[p] \in PartType(p)
           /\ \A p \in Part : doc.alias[p] # Absent /\ p # "guide"
                              => Filled(doc, blob)[p] = doc.alias[p]
<1>1. \A p \in Part : /\ doc.model[p] \in PartType(p) \cup {Absent}
                      /\ doc.alias[p] \in PartType(p) \cup {Absent}
  BY TypedParts DEF IsDocument
<1>2. ASSUME NEW p \in Part
      PROVE  /\ Filled(doc, blob)[p] \in PartType(p)
             /\ doc.alias[p] # Absent /\ p # "guide" => Filled(doc, blob)[p] = doc.alias[p]
  <2> DEFINE inner == Over(p, doc.model[p], Default(blob)[p])
  <2>1. inner \in PartType(p)
    BY <1>1, DefaultType, OverType
  <2>2. Filled(doc, blob)[p] = Over(p, doc.alias[p], inner)
    BY DEF Filled
  <2> HIDE DEF inner
  <2> QED
    BY <1>1, <2>1, <2>2, OverType
<1>3. Filled(doc, blob) = [p \in Part |-> Filled(doc, blob)[p]]
  BY DEF Filled
<1> QED
  BY <1>2, <1>3

\* A field that is the same in both places is read as it is.
LEMMA FilledInStep ==
    ASSUME NEW doc, IsDocument(doc), NEW blob \in Seq(Byte), NEW p \in Part, InStep(doc, p)
    PROVE  Filled(doc, blob)[p] = doc.model[p]
<1>1. CASE p # "guide"
  BY <1>1, FilledType DEF InStep
<1>2. CASE p = "guide"
  <2>1. Filled(doc, blob)[p] = (Default(blob)[p] \cup doc.model[p]) \cup doc.alias[p]
    BY <1>2 DEF Filled, InStep, Over
  <2>2. Default(blob)[p] = {}
    BY <1>2, DefaultType
  <2> QED
    BY <2>1, <2>2 DEF InStep
<1> QED
  BY <1>1, <1>2

-----------------------------------------------------------------------------
(* Heroes and lineups: finite maps from positive numbers.                    *)

Keyed(m, S) == m \in [DOMAIN m -> S] /\ IsFiniteSet(DOMAIN m) /\ DOMAIN m \subseteq Nat \ {0}

LEMMA HeroPartDef ==
    ASSUME NEW hero
    PROVE  IsHeroPart(hero) <=>
             /\ hero = [heroes |-> hero.heroes, lineups |-> hero.lineups, active |-> hero.active]
             /\ Keyed(hero.heroes, Nat) /\ Keyed(hero.lineups, Seq(Nat)) /\ hero.active \in Nat
  BY DEF IsHeroPart, Keyed

LEMMA KeyedNone == \A S : Keyed(<< >>, S)
<1> TAKE S
<1>1. DOMAIN << >> = {} /\ << >> \in [DOMAIN << >> -> S]
  OBVIOUS
<1>2. IsFiniteSet({})
  BY FS_EmptySet
<1> QED
  BY <1>1, <1>2 DEF Keyed

LEMMA KeyedOne ==
    ASSUME NEW S, NEW k \in Nat \ {0}, NEW v \in S
    PROVE  Keyed([id \in {k} |-> v], S)
<1>1. IsFiniteSet({k})
  BY FS_Singleton
<1> QED
  BY <1>1 DEF Keyed

LEMMA KeyedOver ==
    ASSUME NEW S, NEW f, Keyed(f, S), NEW g, Keyed(g, S)
    PROVE  Keyed(MapOver(f, g), S)
<1> DEFINE h == MapOver(f, g)
           D == DOMAIN f
           E == DOMAIN g
<1>1. f \in [D -> S] /\ g \in [E -> S] /\ IsFiniteSet(D) /\ IsFiniteSet(E)
      /\ D \subseteq Nat \ {0} /\ E \subseteq Nat \ {0}
  BY DEF Keyed
<1> HIDE DEF D, E
<1>2. IsFiniteSet(E \cup D)
  BY <1>1, FS_Union
<1>3. h = [k \in D \cup E |-> IF k \in D THEN f[k] ELSE g[k]]
  BY DEF MapOver, D, E
<1>4. DOMAIN h = D \cup E /\ h \in [D \cup E -> S] /\ D \cup E = E \cup D
  BY <1>1, <1>3
<1> HIDE DEF h
<1>5. Keyed(h, S)
  BY <1>1, <1>2, <1>4 DEF Keyed
<1> QED
  BY <1>5 DEF h

LEMMA SeededType ==
    ASSUME NEW hero, IsHeroPart(hero)
    PROVE  /\ IsHeroPart(Seeded(hero)) /\ DOMAIN Seeded(hero).heroes # {}
           /\ Seeded(Seeded(hero)) = Seeded(hero)
<1>1. CASE DOMAIN hero.heroes # {}
  BY <1>1 DEF Seeded
<1>2. CASE DOMAIN hero.heroes = {}
  <2> DEFINE s == Seeded(hero)
             l == MapOver(HeroSeed.lineups, hero.lineups)
             a == IF HeroSeed.active # 0 THEN HeroSeed.active ELSE hero.active
  <2>1. s = [heroes |-> HeroSeed.heroes, lineups |-> l, active |-> a]
    BY <1>2 DEF Seeded
  <2>2. IsHeroPart(HeroSeed) /\ DOMAIN HeroSeed.heroes # {}
    BY DocumentAssumption
  <2>3. Keyed(l, Seq(Nat))
    <3>1. Keyed(HeroSeed.lineups, Seq(Nat)) /\ Keyed(hero.lineups, Seq(Nat))
      BY <2>2, HeroPartDef
    <3> QED
      BY <3>1, KeyedOver
  <2>4. a \in Nat
    BY <2>2, HeroPartDef
  <2>5. Keyed(HeroSeed.heroes, Nat)
    BY <2>2, HeroPartDef
  <2> HIDE DEF s, l, a
  <2>6. IsHeroPart(s) /\ DOMAIN s.heroes # {}
    BY <2>1, <2>2, <2>3, <2>4, <2>5, HeroPartDef
  <2>7. Seeded(s) = s
    BY <2>6 DEF Seeded
  <2> QED
    BY <2>6, <2>7 DEF s
<1> QED
  BY <1>1, <1>2

\* What a reader makes of the fields.
Model(doc, blob) ==
    [Filled(doc, blob) EXCEPT !["lineup"] = SeededLineup(doc, Seeded(doc.hero), @)]

LEMMA ModelType ==
    ASSUME NEW doc, IsDocument(doc), NEW blob \in Seq(Byte)
    PROVE  /\ Model(doc, blob) = [p \in Part |-> Model(doc, blob)[p]]
           /\ \A p \in Part : Model(doc, blob)[p] \in PartType(p)
           /\ \A p \in Part : p # "lineup" \/ DOMAIN doc.hero.heroes # {}
                              => Model(doc, blob)[p] = Filled(doc, blob)[p]
           /\ Model(doc, blob)["lineup"] =
                SeededLineup(doc, Seeded(doc.hero), Filled(doc, blob)["lineup"])
<1> DEFINE F == Filled(doc, blob)
           line == SeededLineup(doc, Seeded(doc.hero), F["lineup"])
<1>1. F = [p \in Part |-> F[p]] /\ \A p \in Part : F[p] \in PartType(p)
  BY FilledType
<1>2. Model(doc, blob) = [p \in Part |-> IF p = "lineup" THEN line ELSE F[p]]
  <2> HIDE DEF F
  <2>1. [F EXCEPT !["lineup"] = SeededLineup(doc, Seeded(doc.hero), @)] =
          [p \in Part |-> IF p = "lineup" THEN line ELSE F[p]]
    BY <1>1
  <2> QED
    BY <2>1 DEF Model, F
<1>3. "lineup" \in Part
  BY DEF Part
<1>4. line \in PartType("lineup")
  <2>1. IsHeroPart(Seeded(doc.hero))
    BY SeededType DEF IsDocument
  <2>2. F["lineup"] \in Seq(Nat)
    BY <1>1, <1>3 DEF PartType
  <2> HIDE DEF F
  <2> QED
    BY <2>1, <2>2 DEF SeededLineup, IsHeroPart, PartType
<1>5. DOMAIN doc.hero.heroes # {} => line = F["lineup"]
  BY DEF SeededLineup
<1> HIDE DEF F, line
<1>6. Model(doc, blob) = [p \in Part |-> Model(doc, blob)[p]]
  BY <1>2
<1>7. \A p \in Part : Model(doc, blob)[p] \in PartType(p)
  BY <1>1, <1>2, <1>4
<1>8. \A p \in Part : p # "lineup" \/ DOMAIN doc.hero.heroes # {} => Model(doc, blob)[p] = F[p]
  BY <1>2, <1>5
<1>9. Model(doc, blob)["lineup"] = line
  BY <1>2, <1>3
<1> QED
  BY <1>6, <1>7, <1>8, <1>9 DEF F, line

\* Reading makes a whole document of it, whose aliases are the sections.
LEMMA NormalizeIs ==
    ASSUME NEW doc, IsDocument(doc), NEW blob \in Seq(Byte)
    PROVE  /\ Normalize(doc, blob) = [whole |-> TRUE, alias |-> Model(doc, blob),
                                      hero |-> Seeded(doc.hero), model |-> Model(doc, blob)]
           /\ IsDocument(Normalize(doc, blob))
           /\ \A p \in Part : InStep(Normalize(doc, blob), p)
<1> DEFINE M == Model(doc, blob)
           H == Seeded(doc.hero)
           D == [whole |-> TRUE, alias |-> doc.alias, hero |-> H, model |-> M]
           N == [whole |-> TRUE, alias |-> M, hero |-> H, model |-> M]
<1>1. M = [p \in Part |-> M[p]] /\ \A p \in Part : M[p] \in PartType(p)
  BY ModelType
<1>2. \A p \in Part : M[p] # Absent
  BY <1>1, Present
<1>3. Normalize(doc, blob) = SyncAliases(D)
  BY DEF Normalize, Model
<1>4. IsHeroPart(H) /\ DOMAIN H.heroes # {}
  BY SeededType DEF IsDocument
<1> HIDE DEF M, H
<1>5. SyncAliases(D) = N
  <2>1. [p \in Part |-> IF M[p] = Absent THEN Zero[p] ELSE M[p]] = M
    BY <1>1, <1>2
  <2>2. SyncAliases(D) = [D EXCEPT !.alias = M]
    BY <2>1 DEF SyncAliases
  <2> QED
    BY <2>2
<1>6. Typed(M)
  BY <1>1, TypedParts
<1>7. IsDocument(N)
  BY <1>2, <1>4, <1>6 DEF IsDocument
<1>8. \A p \in Part : InStep(N, p)
  BY <1>2 DEF InStep
<1> QED
  BY <1>3, <1>5, <1>7, <1>8 DEF M, H

\* A document in which every field is in step is what is read of it.
LEMMA InStepIsRead ==
    ASSUME NEW doc, IsDocument(doc), NEW blob \in Seq(Byte), doc.whole,
           \A p \in Part : InStep(doc, p)
    PROVE  Normalize(doc, blob) = doc
<1>1. DOMAIN doc.hero.heroes # {} /\ doc.whole = TRUE
  BY DEF IsDocument
<1>2. Seeded(doc.hero) = doc.hero
  BY <1>1 DEF Seeded
<1>3. \A p \in Part : Model(doc, blob)[p] = doc.model[p] /\ doc.alias[p] = doc.model[p]
  BY <1>1, FilledInStep, ModelType DEF InStep
<1>4. /\ doc.model = [p \in Part |-> doc.model[p]] /\ doc.alias = [p \in Part |-> doc.alias[p]]
      /\ Model(doc, blob) = [p \in Part |-> Model(doc, blob)[p]]
  BY ModelType, TypedParts DEF IsDocument
<1>5. Model(doc, blob) = doc.model /\ doc.alias = doc.model
  BY <1>3, <1>4
<1>6. Normalize(doc, blob) = [whole |-> TRUE, alias |-> doc.model, hero |-> doc.hero,
                              model |-> doc.model]
  BY <1>2, <1>5, NormalizeIs
<1>7. doc = [whole |-> doc.whole, model |-> doc.model, alias |-> doc.alias, hero |-> doc.hero]
  BY DEF IsDocument
<1> QED
  BY <1>1, <1>5, <1>6, <1>7

LEMMA ReadTwice ==
    ASSUME NEW doc, IsDocument(doc), NEW blob \in Seq(Byte), NEW other \in Seq(Byte)
    PROVE  Normalize(Normalize(doc, blob), other) = Normalize(doc, blob)
<1>1. Normalize(doc, blob).whole
  BY NormalizeIs
<1> QED
  BY <1>1, NormalizeIs, InStepIsRead

-----------------------------------------------------------------------------
(* Merging.                                                                  *)

LEMMA HeroesMerged ==
    ASSUME NEW old, IsHeroPart(old), NEW hero, IsHeroPart(hero),
           NEW h, h = [heroes |-> MapOver(hero.heroes, old.heroes),
                       lineups |-> MapOver(hero.lineups, old.lineups), active |-> old.active]
    PROVE  /\ IsHeroPart(h)
           /\ DOMAIN old.heroes # {} => DOMAIN h.heroes # {}
           /\ hero = NoHeroes => h = old
<1>1. /\ hero.heroes \in [DOMAIN hero.heroes -> Nat]
      /\ old.heroes \in [DOMAIN old.heroes -> Nat]
      /\ hero.lineups \in [DOMAIN hero.lineups -> Seq(Nat)]
      /\ old.lineups \in [DOMAIN old.lineups -> Seq(Nat)]
  BY DEF IsHeroPart
<1> DEFINE heroes == MapOver(hero.heroes, old.heroes)
           lineups == MapOver(hero.lineups, old.lineups)
<1>2. Keyed(heroes, Nat) /\ DOMAIN heroes = DOMAIN hero.heroes \cup DOMAIN old.heroes
  <2>1. Keyed(hero.heroes, Nat) /\ Keyed(old.heroes, Nat)
    BY HeroPartDef
  <2>2. Keyed(heroes, Nat)
    BY <2>1, KeyedOver
  <2> QED
    BY <2>2 DEF MapOver
<1>3. Keyed(lineups, Seq(Nat))
  <2>1. Keyed(hero.lineups, Seq(Nat)) /\ Keyed(old.lineups, Seq(Nat))
    BY HeroPartDef
  <2> QED
    BY <2>1, KeyedOver
<1>4. hero = NoHeroes => heroes = old.heroes /\ lineups = old.lineups
  <2> SUFFICES ASSUME hero = NoHeroes PROVE heroes = old.heroes /\ lineups = old.lineups
    OBVIOUS
  <2>1. hero.heroes = << >> /\ hero.lineups = << >> /\ DOMAIN << >> = {}
    BY DEF NoHeroes
  <2>2. heroes = [k \in DOMAIN old.heroes |-> old.heroes[k]]
    BY <2>1 DEF MapOver
  <2>3. lineups = [k \in DOMAIN old.lineups |-> old.lineups[k]]
    BY <2>1 DEF MapOver
  <2> QED
    BY <1>1, <2>2, <2>3
<1> HIDE DEF heroes, lineups
<1>5. h = [heroes |-> heroes, lineups |-> lineups, active |-> old.active]
  BY DEF heroes, lineups
<1>6. IsHeroPart(h)
  BY <1>2, <1>3, <1>5, HeroPartDef
<1>7. DOMAIN old.heroes # {} => DOMAIN h.heroes # {}
  BY <1>2, <1>5
<1>8. hero = NoHeroes => h = old
  <2>1. old = [heroes |-> old.heroes, lineups |-> old.lineups, active |-> old.active]
    BY DEF IsHeroPart
  <2> QED
    BY <1>4, <1>5, <2>1
<1> QED
  BY <1>6, <1>7, <1>8

\* A patch names fields and gives them values of their types.
IsPatch(patch) == DOMAIN patch \subseteq Part /\ \A p \in DOMAIN patch : patch[p] \in PartType(p)

LEMMA MergedIs ==
    ASSUME NEW doc, IsDocument(doc), NEW patch, IsPatch(patch), NEW hero, IsHeroPart(hero),
           NEW d, d = Merge(doc, patch, hero)
    PROVE  /\ IsDocument(d) /\ d.whole = doc.whole
           /\ DOMAIN doc.hero.heroes # {} => DOMAIN d.hero.heroes # {}
           /\ hero = NoHeroes => d.hero = doc.hero
           /\ \A p \in Part : d.model[p] # Absent => InStep(d, p)
           /\ \A p \in Part \ DOMAIN patch : d.model[p] = doc.model[p]
           /\ \A p \in DOMAIN patch :
                d.model[p] = Over(p, patch[p],
                                  IF doc.model[p] = Absent THEN Zero[p] ELSE doc.model[p])
           /\ \A p \in DOMAIN patch : d.model[p] # Absent /\ (p # "guide" => d.model[p] = patch[p])
<1> DEFINE old(p) == IF doc.model[p] = Absent THEN Zero[p] ELSE doc.model[p]
           M == [p \in Part |-> IF p \in DOMAIN patch THEN Over(p, patch[p], old(p))
                                ELSE doc.model[p]]
           A == [p \in Part |-> IF M[p] = Absent THEN Zero[p] ELSE M[p]]
           H == [heroes |-> MapOver(hero.heroes, doc.hero.heroes),
                 lineups |-> MapOver(hero.lineups, doc.hero.lineups),
                 active |-> doc.hero.active]
<1>1. /\ doc = [whole |-> doc.whole, model |-> doc.model, alias |-> doc.alias,
                hero |-> doc.hero]
      /\ doc.hero = [heroes |-> doc.hero.heroes, lineups |-> doc.hero.lineups,
                     active |-> doc.hero.active]
      /\ doc.whole \in BOOLEAN /\ IsHeroPart(doc.hero)
      /\ doc.whole => /\ \A p \in Part : doc.model[p] # Absent
                      /\ DOMAIN doc.hero.heroes # {}
  BY DEF IsDocument, IsHeroPart
<1>2. d = [whole |-> doc.whole, model |-> M, alias |-> A, hero |-> H]
  <2> DEFINE D == [whole |-> doc.whole, model |-> M, alias |-> doc.alias, hero |-> H]
  <2> HIDE DEF M
  <2>1. d = SyncAliases([doc EXCEPT !.model = M,
                               !.hero.heroes = MapOver(hero.heroes, @),
                               !.hero.lineups = MapOver(hero.lineups, @)])
    BY DEF Merge, M
  <2>2. [doc EXCEPT !.model = M,
                    !.hero.heroes = MapOver(hero.heroes, @),
                    !.hero.lineups = MapOver(hero.lineups, @)] = D
    <3> DEFINE h == doc.hero
               n == [doc EXCEPT !.model = M,
                                !.hero.heroes = MapOver(hero.heroes, @),
                                !.hero.lineups = MapOver(hero.lineups, @)]
               w == doc.whole  m == doc.model  a == doc.alias
               x == h.heroes   y == h.lineups  z == h.active
    <3>1. doc = [whole |-> w, model |-> m, alias |-> a, hero |-> h]
      BY <1>1
    <3>2. h = [heroes |-> x, lineups |-> y, active |-> z]
      BY <1>1
    <3>3. H = [heroes |-> MapOver(hero.heroes, x), lineups |-> MapOver(hero.lineups, y),
               active |-> z]
      OBVIOUS
    <3>4. n = [doc EXCEPT !.model = M,
                          !.hero.heroes = MapOver(hero.heroes, @),
                          !.hero.lineups = MapOver(hero.lineups, @)]
      OBVIOUS
    <3>5. D = [whole |-> w, model |-> M, alias |-> a, hero |-> H]
      OBVIOUS
    <3> HIDE DEF n, w, m, a, x, y, z, h, D, H
    <3>6. n = [whole |-> w, model |-> M, alias |-> a,
               hero |-> [heroes |-> MapOver(hero.heroes, x),
                         lineups |-> MapOver(hero.lineups, y), active |-> z]]
      BY <3>1, <3>2, <3>4
    <3>7. n = D
      BY <3>3, <3>5, <3>6
    <3> QED
      BY <3>7 DEF n
  <2>3. SyncAliases(D) = [D EXCEPT !.alias = A]
    BY DEF SyncAliases
  <2> HIDE DEF A, H
  <2> QED
    BY <2>1, <2>2, <2>3
<1>3. \A p \in Part : doc.model[p] \in PartType(p) \cup {Absent}
  BY TypedParts DEF IsDocument
<1>4. \A p \in DOMAIN patch : /\ p \in Part /\ patch[p] \in PartType(p) /\ patch[p] # Absent
                              /\ M[p] = Over(p, patch[p], old(p))
  BY Present DEF IsPatch
<1>5. \A p \in Part \ DOMAIN patch : M[p] = doc.model[p]
  OBVIOUS
<1>6. \A p \in Part : old(p) \in PartType(p)
  BY <1>3, ZeroType
<1>7. \A p \in DOMAIN patch : M[p] \in PartType(p) /\ (p # "guide" => M[p] = patch[p])
  BY <1>4, <1>6, OverType
<1>8. \A p \in Part : A[p] = IF M[p] = Absent THEN Zero[p] ELSE M[p]
  OBVIOUS
<1>9. M = [p \in Part |-> M[p]] /\ A = [p \in Part |-> A[p]]
  OBVIOUS
<1>10. IsHeroPart(H) /\ (DOMAIN doc.hero.heroes # {} => DOMAIN H.heroes # {})
       /\ (hero = NoHeroes => H = doc.hero)
  BY <1>1, HeroesMerged
<1> HIDE DEF M, A, H, old
<1>11. \A p \in Part : M[p] \in PartType(p) \cup {Absent}
  BY <1>3, <1>5, <1>7
<1>12. \A p \in Part : A[p] \in PartType(p)
  BY <1>8, <1>11, ZeroType
<1>13. Typed(M) /\ Typed(A)
  BY <1>9, <1>11, <1>12, TypedParts
<1>14. \A p \in DOMAIN patch : M[p] # Absent
  BY <1>4, <1>7, Present
<1>15. IsDocument(d)
  <2>1. doc.whole => \A p \in Part : M[p] # Absent
    BY <1>1, <1>5, <1>14
  <2> QED
    BY <1>1, <1>2, <1>10, <1>13, <2>1 DEF IsDocument
<1>16. \A p \in Part : M[p] # Absent => InStep(d, p)
  BY <1>2, <1>8 DEF InStep
<1>17. d.model = M /\ d.hero = H /\ d.whole = doc.whole
  BY <1>2
<1> QED
  BY <1>4, <1>5, <1>7, <1>10, <1>14, <1>15, <1>16, <1>17 DEF old

\* What is read after a merge: the patch, and what was read before of a field
\* that was in step.
LEMMA MergeReads ==
    ASSUME NEW doc, IsDocument(doc), NEW patch, IsPatch(patch), NEW hero, IsHeroPart(hero),
           NEW blob \in Seq(Byte), NEW other \in Seq(Byte),
           \/ DOMAIN doc.hero.heroes # {}
           \/ hero = NoHeroes /\ "lineup" \notin DOMAIN patch,
           "guide" \in DOMAIN patch => Normalize(doc, blob).model["guide"] \subseteq patch["guide"],
           NEW p \in Part, InStep(doc, p) \/ p \in DOMAIN patch
    PROVE  Normalize(Merge(doc, patch, hero), other).model[p] =
             IF p \in DOMAIN patch THEN patch[p] ELSE Normalize(doc, blob).model[p]
<1> DEFINE d == Merge(doc, patch, hero)
           M == Model(doc, blob)
           N == Model(d, other)
<1>1. IsDocument(d) /\ InStep(d, p)
  BY MergedIs DEF InStep
<1>2. Normalize(d, other).model = N /\ Normalize(doc, blob).model = M
  BY <1>1, NormalizeIs
<1>3. Filled(d, other)[p] = d.model[p]
  BY <1>1, FilledInStep
<1>4. CASE p \in DOMAIN patch
  <2>1. d.model[p] = patch[p]
    <3>1. CASE p # "guide"
      BY <1>4, <3>1, MergedIs
    <3>2. CASE p = "guide"
      <4> DEFINE old == IF doc.model[p] = Absent THEN Zero[p] ELSE doc.model[p]
      <4>1. patch[p] # Absent
        BY <1>4, Present DEF IsPatch
      <4>2. d.model[p] = Over(p, patch[p], old)
        BY <1>4, MergedIs
      <4>3. d.model[p] = old \cup patch[p]
        BY <3>2, <4>1, <4>2 DEF Over
      <4>4. old \subseteq M[p]
        <5>1. M[p] = Filled(doc, blob)[p]
          BY <3>2, ModelType
        <5>2. Zero[p] = {}
          BY <3>2 DEF Zero
        <5>3. doc.model[p] # Absent => doc.model[p] \subseteq Filled(doc, blob)[p]
          BY <3>2 DEF Filled, Over
        <5> QED
          BY <5>1, <5>2, <5>3
      <4>5. M[p] \subseteq patch[p]
        BY <1>2, <1>4, <3>2
      <4> QED
        BY <4>3, <4>4, <4>5
    <3> QED
      BY <3>1, <3>2
  <2>2. p # "lineup" \/ DOMAIN d.hero.heroes # {}
    BY <1>4, MergedIs
  <2>3. N[p] = Filled(d, other)[p]
    BY <1>1, <2>2, ModelType
  <2> QED
    BY <1>2, <1>3, <1>4, <2>1, <2>3
<1>5. CASE p \notin DOMAIN patch
  <2>1. d.model[p] = doc.model[p] /\ InStep(doc, p)
    BY <1>5, MergedIs
  <2>2. Filled(doc, blob)[p] = Filled(d, other)[p]
    BY <1>3, <2>1, FilledInStep
  <2>3. CASE p # "lineup" \/ DOMAIN doc.hero.heroes # {}
    <3>1. p # "lineup" \/ DOMAIN d.hero.heroes # {}
      BY <2>3, MergedIs
    <3>2. M[p] = Filled(doc, blob)[p] /\ N[p] = Filled(d, other)[p]
      BY <1>1, <2>3, <3>1, ModelType
    <3> QED
      BY <1>2, <1>5, <2>2, <3>2
  <2>4. CASE p = "lineup" /\ DOMAIN doc.hero.heroes = {}
    <3>1. d.hero = doc.hero
      BY <2>4, MergedIs
    <3>2. /\ M[p] = SeededLineup(doc, Seeded(doc.hero), Filled(doc, blob)["lineup"])
          /\ N[p] = SeededLineup(d, Seeded(d.hero), Filled(d, other)["lineup"])
      BY <1>1, <2>4, ModelType
    <3>3. M[p] = N[p]
      BY <2>2, <2>4, <3>1, <3>2 DEF SeededLineup
    <3> QED
      BY <1>2, <1>5, <3>3
  <2> QED
    BY <2>3, <2>4
<1> QED
  BY <1>4, <1>5

-----------------------------------------------------------------------------
(* The row.                                                                  *)

GoodRow(r) ==
    /\ r \in [diamond : Nat, blob : Seq(Byte), version : Nat, doc : {r.doc}]
    /\ IsDocument(r.doc)

\* The inductive invariant.
Rows ==
    /\ online \in BOOLEAN /\ due \in {0, 1}
    /\ row # NoRow => GoodRow(row)
    /\ online => row # NoRow /\ row.doc.whole

LEMMA GoodIsRow ==
    ASSUME NEW r, GoodRow(r)
    PROVE  r # NoRow
<1>1. "diamond" \in DOMAIN r
  BY DEF GoodRow
<1>2. DOMAIN NoRow = {"none"}
  BY DEF NoRow
<1> QED
  BY <1>1, <1>2

LEMMA NoHeroesType == IsHeroPart(NoHeroes)
<1> QED
  BY KeyedNone, HeroPartDef DEF NoHeroes

\* The state that a row is read as.
LEMMA ReadRow ==
    ASSUME NEW r, GoodRow(r)
    PROVE  /\ IsDocument(State(r)) /\ State(r).whole
           /\ DOMAIN State(r).hero.heroes # {}
           /\ State(r).model = Model(r.doc, r.blob) /\ State(r).alias = State(r).model
           /\ \A p \in Part : State(r).model[p] \in PartType(p) /\ InStep(State(r), p)
<1>1. r.blob \in Seq(Byte) /\ IsDocument(r.doc) /\ r.diamond \in Nat
  BY DEF GoodRow
<1>2. /\ State(r) = [whole |-> TRUE, alias |-> Model(r.doc, r.blob),
                     hero |-> Seeded(r.doc.hero), model |-> Model(r.doc, r.blob)]
      /\ IsDocument(State(r))
      /\ \A p \in Part : InStep(State(r), p)
  BY <1>1, NormalizeIs DEF State
<1>3. \A p \in Part : State(r).model[p] \in PartType(p)
  BY <1>1, <1>2, ModelType
<1>4. DOMAIN State(r).hero.heroes # {}
  BY <1>2 DEF IsDocument
<1>5. State(r).whole /\ State(r).model = Model(r.doc, r.blob) /\ State(r).alias = State(r).model
  BY <1>2
<1> QED
  BY <1>2, <1>3, <1>4, <1>5

LEMMA MergedRow ==
    ASSUME NEW r, GoodRow(r), NEW patch, IsPatch(patch), NEW hero, IsHeroPart(hero),
           NEW n, n \in [diamond : Nat, blob : Seq(Byte), version : Nat,
                         doc : {Merge(r.doc, patch, hero)}]
    PROVE  /\ GoodRow(n) /\ n.doc.whole = r.doc.whole
           /\ n.doc.whole => \A p \in Part : InStep(n.doc, p)
<1> DEFINE d == Merge(r.doc, patch, hero)
<1>1. IsDocument(r.doc)
  BY DEF GoodRow
<1>2. /\ IsDocument(d) /\ d.whole = r.doc.whole
      /\ \A p \in Part : d.model[p] # Absent => InStep(d, p)
  BY <1>1, MergedIs
<1> HIDE DEF d
<1>3. n.doc = d /\ n \in [diamond : Nat, blob : Seq(Byte), version : Nat, doc : {n.doc}]
  BY DEF d
<1>4. d.whole => \A p \in Part : InStep(d, p)
  BY <1>2 DEF IsDocument
<1> QED
  BY <1>2, <1>3, <1>4 DEF GoodRow

\* What a step of MergeIsNarrow says.
NarrowStep ==
    row # NoRow => \A p \in Part : (InStep(row.doc, p) \/ p \in DOMAIN wrote')
                                   => Narrow(State(row).model, p)

\* What a step of DiamondsStayInStep says.
DiamondStep ==
    /\ DiamondsAgree(row) \/ "diamond" \in DOMAIN wrote' => DiamondsAgree(row')
    /\ DiamondsAgree(row) /\ row # NoRow => row'.diamond >= row.diamond

\* A step that merges a patch.
LEMMA MergeStep ==
    ASSUME GoodRow(row), NEW patch, IsPatch(patch), NEW hero, IsHeroPart(hero),
           row' \in [diamond : Nat, blob : Seq(Byte), version : Nat,
                     doc : {Merge(row.doc, patch, hero)}],
           \/ "diamond" \in DOMAIN patch /\ row'.diamond = patch["diamond"]
           \/ row.doc.whole /\ "diamond" \notin DOMAIN patch /\ row'.diamond = row.diamond,
           DiamondsAgree(row) => row'.diamond >= row.diamond,
           row.doc.whole \/ (hero = NoHeroes /\ "lineup" \notin DOMAIN patch),
           "guide" \in DOMAIN patch => State(row).model["guide"] \subseteq patch["guide"],
           wrote' = patch
    PROVE  GoodRow(row') /\ row'.doc.whole = row.doc.whole /\ NarrowStep /\ DiamondStep
<1>1. /\ GoodRow(row') /\ row'.doc.whole = row.doc.whole
      /\ row'.doc.whole => \A p \in Part : InStep(row'.doc, p)
  <2> DEFINE n == row'
  <2>1. n \in [diamond : Nat, blob : Seq(Byte), version : Nat,
               doc : {Merge(row.doc, patch, hero)}]
    OBVIOUS
  <2> HIDE DEF n
  <2>2. /\ GoodRow(n) /\ n.doc.whole = row.doc.whole
        /\ n.doc.whole => \A p \in Part : InStep(n.doc, p)
    BY <2>1, MergedRow
  <2> QED
    BY <2>2 DEF n
<1>2. row.blob \in Seq(Byte) /\ IsDocument(row.doc)
      /\ (row.doc.whole => DOMAIN row.doc.hero.heroes # {})
  BY DEF GoodRow, IsDocument
<1>3. row'.blob \in Seq(Byte) /\ row'.doc = Merge(row.doc, patch, hero)
  OBVIOUS
<1>4. ASSUME NEW p \in Part, InStep(row.doc, p) \/ p \in DOMAIN wrote'
      PROVE  Narrow(State(row).model, p)
  <2>1. Normalize(Merge(row.doc, patch, hero), row'.blob).model[p] =
          IF p \in DOMAIN patch THEN patch[p] ELSE Normalize(row.doc, row.blob).model[p]
    BY <1>2, <1>3, <1>4, MergeReads DEF State
  <2>2. State(row').model[p] = IF p \in DOMAIN patch THEN patch[p] ELSE State(row).model[p]
    BY <1>3, <2>1 DEF State
  <2> QED
    BY <2>2 DEF Narrow
<1>5. NarrowStep
  BY <1>4 DEF NarrowStep
<1>6. DiamondsAgree(row) \/ "diamond" \in DOMAIN wrote' => DiamondsAgree(row')
  <2>0. "diamond" \in Part /\ row # NoRow /\ row' # NoRow
    BY <1>1, GoodIsRow DEF Part
  <2>1. row'.doc.whole => InStep(row'.doc, "diamond")
    BY <1>1, <2>0
  <2>2. CASE "diamond" \in DOMAIN patch
    <3>1. State(row').model["diamond"] = row'.diamond
      BY <1>4, <2>0, <2>2 DEF Narrow
    <3> QED
      BY <2>1, <3>1 DEF DiamondsAgree
  <2>3. CASE "diamond" \notin DOMAIN patch /\ DiamondsAgree(row)
    <3>1. InStep(row.doc, "diamond") /\ State(row).model["diamond"] = row'.diamond
      BY <2>0, <2>3 DEF DiamondsAgree
    <3>2. State(row').model["diamond"] = row'.diamond
      BY <1>4, <2>0, <2>3, <3>1 DEF Narrow
    <3> QED
      BY <2>1, <3>2 DEF DiamondsAgree
  <2> QED
    BY <2>2, <2>3
<1> QED
  BY <1>1, <1>5, <1>6 DEF DiamondStep

-----------------------------------------------------------------------------
(* The steps.                                                                *)

LEMMA NothingType == IsPatch(Nothing) /\ DOMAIN Nothing = {}
  BY DEF IsPatch, Nothing

LEMMA NextVersion ==
    ASSUME NEW r, NEW D, r \in [diamond : Nat, blob : Seq(Byte), version : Nat, doc : D]
    PROVE  r.version + 1 \in Nat
<1>1. r.version \in Nat
  OBVIOUS
<1> QED
  BY <1>1

LEMMA WrittenRow ==
    ASSUME NEW r, GoodRow(r), NEW d, NEW n,
           \/ n = [r EXCEPT !.doc = d, !.version = @ + 1]
           \/ \E blob \in Seq(Byte) : n = [r EXCEPT !.doc = d, !.blob = blob, !.version = @ + 1]
           \/ \E diamond : n = [r EXCEPT !.diamond = diamond, !.doc = d, !.version = @ + 1]
    PROVE  n \in [diamond : {n.diamond}, blob : Seq(Byte), version : Nat, doc : {d}]
<1>1. r \in [diamond : Nat, blob : Seq(Byte), version : Nat, doc : {r.doc}]
  BY DEF GoodRow
<1> DEFINE v == r.version + 1
<1> HIDE DEF v
<1>2. v \in Nat
  BY <1>1, NextVersion DEF v
<1>3. \/ n = [r EXCEPT !.doc = d, !.version = v]
      \/ \E blob \in Seq(Byte) : n = [r EXCEPT !.doc = d, !.blob = blob, !.version = v]
      \/ \E diamond : n = [r EXCEPT !.diamond = diamond, !.doc = d, !.version = v]
  BY DEF v
<1>4. CASE n = [r EXCEPT !.doc = d, !.version = v]
  BY <1>1, <1>2, <1>4
<1>5. ASSUME NEW blob \in Seq(Byte), n = [r EXCEPT !.doc = d, !.blob = blob, !.version = v]
      PROVE  n \in [diamond : {n.diamond}, blob : Seq(Byte), version : Nat, doc : {d}]
  BY <1>1, <1>2, <1>5
<1>6. ASSUME NEW diamond, n = [r EXCEPT !.diamond = diamond, !.doc = d, !.version = v]
      PROVE  n \in [diamond : {n.diamond}, blob : Seq(Byte), version : Nat, doc : {d}]
  BY <1>1, <1>2, <1>6
<1> QED
  BY <1>3, <1>4, <1>5, <1>6

\* A patch that names no field, or some that are the handler's own.
LEMMA StoreStep ==
    ASSUME Rows, online, NEW patch, IsPatch(patch), NEW hero, IsHeroPart(hero),
           "diamond" \notin DOMAIN patch,
           "guide" \in DOMAIN patch => State(row).model["guide"] \subseteq patch["guide"],
           Store(patch, hero)
    PROVE  Rows' /\ NarrowStep /\ DiamondStep
<1>1. GoodRow(row) /\ row.doc.whole
  BY DEF Rows
<1>2. row' \in [diamond : {row'.diamond}, blob : Seq(Byte), version : Nat,
                doc : {Merge(row.doc, patch, hero)}]
      /\ row'.diamond = row.diamond /\ wrote' = patch
      /\ online' = online /\ due' = due
  BY <1>1, WrittenRow DEF Store, GoodRow
<1>i. /\ row' \in [diamond : Nat, blob : Seq(Byte), version : Nat,
                   doc : {Merge(row.doc, patch, hero)}]
      /\ row'.diamond >= row.diamond
  <2>1. row.diamond \in Nat
    BY <1>1 DEF GoodRow
  <2> QED
    BY <1>2, <2>1
<1>3. GoodRow(row') /\ row'.doc.whole = row.doc.whole /\ NarrowStep /\ DiamondStep
  BY <1>1, <1>2, <1>i, MergeStep
<1> QED
  BY <1>1, <1>2, <1>3, GoodIsRow DEF Rows

LEMMA RiskWinStep ==
    ASSUME Rows, HandleRiskWin
    PROVE  Rows' /\ NarrowStep /\ DiamondStep
<1> DEFINE s == State(row).model
           strength == Max({0, s.strength + Reward["strength"]})
           patch == [coin |-> s.coin + Reward["coin"], diamond |-> s.diamond + Reward["diamond"],
                     strength |-> strength]
<1>1. GoodRow(row) /\ row.doc.whole /\ online
  BY DEF Rows, HandleRiskWin, Playing
<1>2. \A p \in Part : s[p] \in PartType(p)
  BY <1>1, ReadRow
<1>3. s.coin \in Nat /\ s.diamond \in Nat /\ s.strength \in Nat /\ s.level \in Nat
  BY <1>2 DEF Part, PartType
<1>4. Reward["coin"] \in Nat /\ Reward["diamond"] \in Nat /\ Reward["strength"] \in Int
  BY FixtureAssumption
<1> HIDE DEF s
<1>5. strength \in Nat
  <2>1. \A x \in Int : Max({0, x}) \in Nat
    <3> TAKE x \in Int
    <3> DEFINE top == IF x > 0 THEN x ELSE 0
    <3>1. top \in {0, x} /\ \A y \in {0, x} : y <= top
      OBVIOUS
    <3>2. \A m \in {0, x} : (\A y \in {0, x} : y <= m) => m \in Nat
      OBVIOUS
    <3> HIDE DEF top
    <3> QED
      BY <3>1, <3>2 DEF Max
  <2> QED
    BY <1>3, <1>4, <2>1
<1> HIDE DEF strength
<1>6. IsPatch(patch) /\ DOMAIN patch = {"coin", "diamond", "strength"}
  BY <1>3, <1>4, <1>5 DEF IsPatch, Part, PartType
<1>7. /\ row' = [diamond |-> patch.diamond, blob |-> PatchRoleBase(row.blob, MapOver(patch, s)),
                 doc |-> Merge(row.doc, patch, NoHeroes), version |-> row.version + 1]
      /\ wrote' = patch /\ online' = online /\ due' = due
  BY DEF HandleRiskWin, s, strength
<1> DEFINE m == MapOver(patch, s)
<1>8. m.level \in Nat /\ m.coin \in Nat /\ m.diamond \in Nat
  <2>1. DOMAIN s = Part
    BY <1>1, ReadRow, ModelType DEF GoodRow, s
  <2>2. m.level = s.level /\ m.coin = patch.coin /\ m.diamond = patch.diamond
    BY <1>6, <2>1 DEF MapOver, Part
  <2> QED
    BY <1>3, <1>4, <2>2
<1> HIDE DEF m
<1>9. PatchRoleBase(row.blob, m) \in Seq(Byte)
  BY <1>1, <1>8, RoleBaseType, FixtureAssumption DEF GoodRow
<1> HIDE DEF patch
<1>10. /\ row' \in [diamond : {row'.diamond}, blob : Seq(Byte), version : Nat,
                    doc : {Merge(row.doc, patch, NoHeroes)}]
       /\ row'.diamond = patch["diamond"]
  BY <1>1, <1>7, <1>9 DEF GoodRow, m
<1>d. /\ patch["diamond"] \in Nat
      /\ DiamondsAgree(row) => patch["diamond"] >= row.diamond
  <2>1. patch["diamond"] = s.diamond + Reward["diamond"]
    BY DEF patch
  <2>2. DiamondsAgree(row) => s.diamond = row.diamond
    BY <1>1, GoodIsRow DEF DiamondsAgree, s
  <2> QED
    BY <1>3, <1>4, <2>1, <2>2
<1>11. GoodRow(row') /\ row'.doc.whole = row.doc.whole /\ NarrowStep /\ DiamondStep
  BY <1>1, <1>6, <1>7, <1>10, <1>d, MergeStep, NoHeroesType
<1> QED
  BY <1>1, <1>7, <1>11, GoodIsRow DEF Rows

LEMMA GuideSaveStep ==
    ASSUME Rows, HandleGuideSave
    PROVE  Rows' /\ NarrowStep /\ DiamondStep
<1>1. GoodRow(row) /\ online
  BY DEF Rows, HandleGuideSave, Playing
<1>2. PICK g \in GuideKey : Store([guide |-> State(row).model.guide \cup {g}], NoHeroes)
  BY DEF HandleGuideSave
<1> DEFINE patch == [guide |-> State(row).model.guide \cup {g}]
<1>3. State(row).model["guide"] \in SUBSET GuideKey
  BY <1>1, ReadRow DEF Part, PartType
<1>4. DOMAIN patch = {"guide"} /\ patch["guide"] \in SUBSET GuideKey
      /\ State(row).model["guide"] \subseteq patch["guide"]
  BY <1>3
<1>5. Store(patch, NoHeroes)
  BY <1>2
<1> HIDE DEF patch
<1>6. IsPatch(patch)
  BY <1>4 DEF IsPatch, Part, PartType
<1> QED
  BY <1>1, <1>4, <1>5, <1>6, StoreStep, NoHeroesType

LEMMA LineupStep ==
    ASSUME Rows, HandleLineup
    PROVE  Rows' /\ NarrowStep /\ DiamondStep
<1>1. online
  BY DEF HandleLineup, Playing
<1> DEFINE Named(line) == [NoHeroes EXCEPT !.lineups = [id \in {1} |-> line]]
<1>2. PICK line \in Lineup : \/ Store([lineup |-> line], Named(line))
                             \/ Store(Nothing, Named(line))
  BY DEF HandleLineup
<1>3. line \in Seq(Nat)
  BY FixtureAssumption
<1>4. IsHeroPart(Named(line))
  <2> DEFINE named == Named(line)
             lines == [id \in {1} |-> line]
  <2>1. Keyed(lines, Seq(Nat))
    <3>1. 1 \in Nat \ {0}
      OBVIOUS
    <3> QED
      BY <1>3, <3>1, KeyedOne
  <2> HIDE DEF lines
  <2>2. named = [NoHeroes EXCEPT !.lineups = lines]
    BY DEF lines
  <2> HIDE DEF named
  <2>3. named = [heroes |-> << >>, lineups |-> lines, active |-> 0]
    BY <2>2 DEF NoHeroes
  <2>4. IsHeroPart(named)
    BY <2>1, <2>3, KeyedNone, HeroPartDef
  <2> QED
    BY <2>4 DEF named
<1> HIDE DEF Named
<1>5. CASE Store(Nothing, Named(line))
  BY <1>1, <1>4, <1>5, NothingType, StoreStep
<1>6. CASE Store([lineup |-> line], Named(line))
  <2> DEFINE patch == [lineup |-> line]
  <2>1. DOMAIN patch = {"lineup"} /\ patch["lineup"] \in Seq(Nat)
    BY <1>3
  <2>2. Store(patch, Named(line))
    BY <1>6
  <2> HIDE DEF patch
  <2>3. IsPatch(patch)
    BY <2>1 DEF IsPatch, Part, PartType
  <2> QED
    BY <1>1, <1>4, <2>1, <2>2, <2>3, StoreStep
<1> QED
  BY <1>2, <1>5, <1>6

LEMMA Amounts ==
    /\ Uid \in Nat /\ Quantity \in Nat /\ LevelNum \in Nat /\ MaxVersion \in Nat
    /\ HeroId \subseteq Nat \ {0} /\ Lineup \subseteq Seq(Nat)
BY FixtureAssumption

LEMMA HeroLevelUpStep ==
    ASSUME Rows, HandleHeroLevelUp
    PROVE  Rows' /\ NarrowStep /\ DiamondStep
<1>1. online /\ GoodRow(row)
  BY DEF HandleHeroLevelUp, Playing, Rows
<1> DEFINE heroes == State(row).hero.heroes
           Level(h) == IF h \in DOMAIN heroes THEN heroes[h] ELSE 1
           Raised(h) == [NoHeroes EXCEPT !.heroes = [id \in {h} |-> Level(h) + LevelNum]]
<1>2. PICK h \in HeroId : Store(Nothing, Raised(h))
  BY DEF HandleHeroLevelUp
<1>3. Level(h) \in Nat
  <2>1. heroes \in [DOMAIN heroes -> Nat]
    BY <1>1, ReadRow DEF IsDocument, IsHeroPart
  <2> HIDE DEF heroes
  <2> QED
    BY <2>1
<1>4. IsHeroPart(Raised(h))
  <2> DEFINE raised == Raised(h)
             level == Level(h) + LevelNum
             one == [id \in {h} |-> level]
  <2>1. level \in Nat
    BY <1>3, Amounts
  <2>2. raised = [NoHeroes EXCEPT !.heroes = one]
    OBVIOUS
  <2> HIDE DEF level, raised
  <2>3. Keyed(one, Nat)
    <3>1. h \in Nat \ {0}
      BY Amounts
    <3> HIDE DEF level
    <3> QED
      BY <2>1, <3>1, KeyedOne
  <2> HIDE DEF one
  <2>4. raised = [heroes |-> one, lineups |-> << >>, active |-> 0]
    BY <2>2 DEF NoHeroes
  <2>5. IsHeroPart(raised)
    BY <2>3, <2>4, KeyedNone, HeroPartDef
  <2> QED
    BY <2>5 DEF raised
<1> HIDE DEF Raised
<1> QED
  BY <1>1, <1>2, <1>4, NothingType, StoreStep

LEMMA NicknameStep ==
    ASSUME Rows, HandleChangeNickname
    PROVE  Rows' /\ NarrowStep /\ DiamondStep
<1>1. GoodRow(row) /\ row.doc.whole /\ online
  BY DEF Rows, HandleChangeNickname, Playing
<1> DEFINE s == State(row).model
           blob == PatchRoleBase(row.blob, s)
<1>2. s.coin \in Nat /\ s.diamond \in Nat /\ s.level \in Nat
  BY <1>1, ReadRow DEF Part, PartType
<1>3. /\ row' = [row EXCEPT !.doc = Merge(@, Nothing, NoHeroes), !.blob = blob,
                            !.version = @ + 1]
      /\ wrote' = Nothing /\ online' = online /\ due' = due
  BY DEF HandleChangeNickname
<1> HIDE DEF s
<1>4. blob \in Seq(Byte)
  BY <1>1, <1>2, RoleBaseType, FixtureAssumption DEF GoodRow
<1> HIDE DEF blob
<1>5. /\ row' \in [diamond : {row'.diamond}, blob : Seq(Byte), version : Nat,
                   doc : {Merge(row.doc, Nothing, NoHeroes)}]
      /\ row'.diamond = row.diamond
  BY <1>1, <1>3, <1>4, WrittenRow DEF GoodRow
<1>i. /\ row' \in [diamond : Nat, blob : Seq(Byte), version : Nat,
                   doc : {Merge(row.doc, Nothing, NoHeroes)}]
      /\ row'.diamond >= row.diamond
  <2>1. row.diamond \in Nat
    BY <1>1 DEF GoodRow
  <2> QED
    BY <1>5, <2>1
<1>6. GoodRow(row') /\ row'.doc.whole = row.doc.whole /\ NarrowStep /\ DiamondStep
  BY <1>1, <1>3, <1>5, <1>i, MergeStep, NothingType, NoHeroesType
<1> QED
  BY <1>1, <1>3, <1>6, GoodIsRow DEF Rows

LEMMA SettleStep ==
    ASSUME Rows, Settle
    PROVE  Rows' /\ NarrowStep /\ DiamondStep
<1> DEFINE patch == [diamond |-> row.diamond + Quantity]
<1>1. GoodRow(row)
  BY DEF Rows, Settle
<1>2. row.diamond \in Nat /\ row.diamond + Quantity \in Nat
  BY <1>1, FixtureAssumption DEF GoodRow
<1>3. DOMAIN patch = {"diamond"} /\ patch["diamond"] \in Nat /\ patch["diamond"] >= row.diamond
  <2>1. Quantity \in Nat
    BY FixtureAssumption
  <2> QED
    BY <1>2, <2>1
<1>4. /\ row' = [row EXCEPT !.diamond = patch.diamond, !.doc = Merge(@, patch, NoHeroes),
                            !.version = @ + 1]
      /\ wrote' = patch /\ online' = online /\ due' = 0
  BY DEF Settle
<1> HIDE DEF patch
<1>5. IsPatch(patch)
  BY <1>3 DEF IsPatch, Part, PartType
<1>6. /\ row' \in [diamond : {row'.diamond}, blob : Seq(Byte), version : Nat,
                   doc : {Merge(row.doc, patch, NoHeroes)}]
      /\ row'.diamond = patch["diamond"]
  BY <1>1, <1>4, WrittenRow DEF GoodRow
<1>7. GoodRow(row') /\ row'.doc.whole = row.doc.whole /\ NarrowStep /\ DiamondStep
  BY <1>1, <1>3, <1>4, <1>5, <1>6, MergeStep, NoHeroesType
<1> QED
  BY <1>4, <1>7, GoodIsRow DEF Rows

LEMMA PersistStep ==
    ASSUME Rows, NEW captured \in CapturedBase, PersistCapturedRoleBase(captured)
    PROVE  Rows' /\ NarrowStep /\ DiamondStep
<1> DEFINE s == State(row)
           named == HasBytes(captured, 9)
           level == GetVarint(GetBytes(captured, 9), 1)
           doc == IF named THEN [s EXCEPT !.alias.level = level] ELSE s
           one == PatchVarint(captured, 1, Uid)
           two == PatchVarint(one, 7, s.alias.coin)
           blob == PatchVarint(two, 8, s.alias.diamond)
<1>1. GoodRow(row) /\ row.doc.whole /\ online
  BY DEF Rows, PersistCapturedRoleBase, Playing
<1>2. /\ IsDocument(s) /\ s.whole /\ DOMAIN s.hero.heroes # {} /\ s.alias = s.model
      /\ \A p \in Part : s.model[p] \in PartType(p) /\ InStep(s, p)
  BY <1>1, ReadRow
<1>3. s.alias.coin \in Nat /\ s.alias.diamond \in Nat
  BY <1>2 DEF Part, PartType
<1>4. captured \in Seq(Byte) /\ Uid \in Nat
  BY FixtureAssumption
<1>5. 1 \in Nat \ {0} /\ 7 \in Nat \ {0} /\ 8 \in Nat \ {0} /\ 9 \in Nat \ {0}
  OBVIOUS
<1>6. level \in Nat
  BY <1>4, <1>5, GotType
<1>7. /\ row' = [diamond |-> s.alias.diamond, blob |-> blob, doc |-> doc,
                 version |-> row.version + 1]
      /\ wrote' = IF named THEN [level |-> level] ELSE Nothing
      /\ online' = online /\ due' = due
  BY DEF PersistCapturedRoleBase
<1> HIDE DEF s, named, level
<1>8. blob \in Seq(Byte)
  <2>1. one \in Seq(Byte)
    BY <1>4, <1>5, PatchedType
  <2> HIDE DEF one
  <2>2. two \in Seq(Byte)
    BY <1>3, <1>5, <2>1, PatchedType
  <2> HIDE DEF two
  <2> QED
    BY <1>3, <1>5, <2>2, PatchedType
<1> HIDE DEF blob
\* Nothing but the alias of the level changes.
<1>9. /\ IsDocument(doc) /\ doc.whole /\ DOMAIN doc.hero.heroes # {} /\ doc.model = s.model
      /\ \A p \in Part : doc.alias[p] = IF named /\ p = "level" THEN level ELSE s.model[p]
  <2>1. CASE ~named
    BY <1>2, <2>1
  <2>2. CASE named
    <3> DEFINE a == [s.alias EXCEPT !["level"] = level]
    <3>1. /\ s = [whole |-> s.whole, model |-> s.model, alias |-> s.alias, hero |-> s.hero]
          /\ s.model = [p \in Part |-> s.model[p]] /\ Typed(s.model) /\ IsHeroPart(s.hero)
          /\ \A p \in Part : s.model[p] # Absent
      BY <1>2, TypedParts DEF IsDocument
    <3>2. doc = [s EXCEPT !.alias = a]
      BY <2>2
    <3>3. a = [p \in Part |-> IF p = "level" THEN level ELSE s.model[p]]
      BY <1>2, <3>1
    <3>4. a = [p \in Part |-> a[p]]
          /\ \A p \in Part : a[p] = IF p = "level" THEN level ELSE s.model[p]
      BY <3>3
    <3> HIDE DEF a, doc
    <3>5. Typed(a)
      <4>1. \A p \in Part : a[p] \in PartType(p)
        BY <1>2, <1>6, <3>4 DEF PartType
      <4> QED
        BY <3>4, <4>1, TypedParts
    <3>6. doc = [whole |-> s.whole, model |-> s.model, alias |-> a, hero |-> s.hero]
      <4> DEFINE w == s.whole  m == s.model  b == s.alias  h == s.hero
      <4>1. s = [whole |-> w, model |-> m, alias |-> b, hero |-> h]
        BY <3>1
      <4> HIDE DEF w, m, b, h
      <4>2. doc = [whole |-> w, model |-> m, alias |-> a, hero |-> h]
        BY <3>2, <4>1
      <4> QED
        BY <4>2 DEF w, m, h
    <3>7. IsDocument(doc)
      BY <1>2, <3>1, <3>5, <3>6 DEF IsDocument
    <3> QED
      BY <1>2, <2>2, <3>4, <3>6, <3>7
  <2> QED
    BY <2>1, <2>2
<1> HIDE DEF doc
<1>10. row'.doc = doc /\ row'.blob = blob /\ row'.diamond = s.model["diamond"]
       /\ row' \in [diamond : Nat, blob : Seq(Byte), version : Nat, doc : {row'.doc}]
  <2>1. row.version + 1 \in Nat
    <3>1. row.version \in Nat
      BY <1>1 DEF GoodRow
    <3> QED
      BY <3>1
  <2>2. s.alias.diamond = s.model["diamond"]
    BY <1>2
  <2> QED
    BY <1>3, <1>7, <1>8, <2>1, <2>2
<1>12. GoodRow(row')
  BY <1>9, <1>10 DEF GoodRow
<1>13. ASSUME NEW p \in Part PROVE Narrow(s.model, p)
  <2>1. State(row').model = Model(doc, blob)
    BY <1>8, <1>9, <1>10, NormalizeIs DEF State
  <2>2. Model(doc, blob)[p] = Filled(doc, blob)[p]
    BY <1>8, <1>9, ModelType
  <2>3. p \in DOMAIN wrote' <=> named /\ p = "level"
    BY <1>7 DEF Nothing
  <2>4. CASE named /\ p = "level"
    <3>1. doc.alias[p] = level /\ level # Absent /\ p # "guide"
      BY <1>6, <1>9, <2>4, Present DEF PartType
    <3>2. Filled(doc, blob)[p] = level
      BY <1>8, <1>9, <3>1, FilledType
    <3>3. wrote'[p] = level
      BY <1>7, <2>4
    <3> QED
      BY <2>1, <2>2, <2>3, <2>4, <3>2, <3>3 DEF Narrow
  <2>5. CASE ~(named /\ p = "level")
    <3>1. InStep(doc, p)
      BY <1>2, <1>9, <2>5 DEF InStep
    <3>2. Filled(doc, blob)[p] = s.model[p]
      BY <1>8, <1>9, <3>1, FilledInStep
    <3> QED
      BY <2>1, <2>2, <2>3, <2>5, <3>2 DEF Narrow
  <2> QED
    BY <2>4, <2>5
<1>14. NarrowStep
  BY <1>13 DEF NarrowStep, s
\* The column becomes the document's, whatever it was.
<1>15. DiamondStep
  <2>0. "diamond" \in Part /\ "diamond" # "level" /\ row # NoRow /\ row' # NoRow
    BY <1>1, <1>12, GoodIsRow DEF Part
  <2>1. InStep(row'.doc, "diamond")
    BY <1>2, <1>9, <1>10, <2>0 DEF InStep
  <2>2. "diamond" \notin DOMAIN wrote'
    BY <1>7, <2>0 DEF Nothing
  <2>3. State(row').model["diamond"] = row'.diamond
    BY <1>10, <1>13, <2>0, <2>2 DEF Narrow
  <2>4. DiamondsAgree(row')
    BY <2>1, <2>3 DEF DiamondsAgree
  <2>5. DiamondsAgree(row) => row'.diamond = row.diamond
    BY <1>10, <2>0 DEF DiamondsAgree, s
  <2>6. row.diamond \in Nat
    BY <1>1 DEF GoodRow
  <2> QED
    BY <2>4, <2>5, <2>6 DEF DiamondStep
<1> QED
  BY <1>1, <1>7, <1>9, <1>10, <1>12, <1>14, <1>15, GoodIsRow DEF Rows

LEMMA LoginStep ==
    ASSUME Rows, Login
    PROVE  Rows' /\ NarrowStep /\ DiamondStep
<1>1. GoodRow(row) /\ row.blob \in Seq(Byte) /\ IsDocument(row.doc)
  BY DEF Rows, Login, GoodRow
<1>2. /\ online' = TRUE /\ due' = due /\ wrote' = Nothing
      /\ row' = IF row.doc.whole THEN row ELSE [row EXCEPT !.doc = State(row)]
  BY DEF Login
<1>3. CASE row.doc.whole
  <2>1. row' = row
    BY <1>2, <1>3
  <2>2. DiamondStep
    <3>1. row.diamond \in Nat
      BY <1>1 DEF GoodRow
    <3> QED
      BY <1>2, <2>1, <3>1, NothingType DEF DiamondStep
  <2> QED
    BY <1>1, <1>2, <1>3, <2>1, <2>2, NothingType, GoodIsRow DEF Rows, NarrowStep, Narrow
<1>4. CASE ~row.doc.whole
  <2>1. row' = [row EXCEPT !.doc = State(row)]
    BY <1>2, <1>4
  <2> DEFINE s == State(row)
  <2>2. /\ IsDocument(s) /\ s.whole
        /\ \A p \in Part : s.model[p] \in PartType(p) /\ InStep(s, p)
    BY <1>1, ReadRow
  <2>3. s = Normalize(row.doc, row.blob)
    BY DEF State
  <2> HIDE DEF s
  <2>4. /\ row' \in [diamond : Nat, blob : Seq(Byte), version : Nat, doc : {row'.doc}]
        /\ row'.doc = s /\ row'.blob = row.blob /\ row'.diamond = row.diamond
    BY <1>1, <2>1 DEF GoodRow, s
  <2>5. GoodRow(row')
    BY <2>2, <2>4 DEF GoodRow
  <2>6. State(row') = s
    BY <1>1, <2>3, <2>4, ReadTwice DEF State
  <2>7. NarrowStep
    BY <1>2, <2>6, NothingType DEF NarrowStep, Narrow, s
  <2>8. DiamondStep
    <3>1. "diamond" \in Part /\ row # NoRow /\ row.diamond \in Nat
      BY <1>1, GoodIsRow DEF Part, GoodRow
    <3>2. InStep(row'.doc, "diamond")
      BY <2>2, <2>4, <3>1
    <3>3. DiamondsAgree(row) => State(row').model.diamond = row'.diamond
      BY <2>4, <2>6, <3>1 DEF DiamondsAgree, s
    <3>4. DiamondsAgree(row) => DiamondsAgree(row')
      BY <3>2, <3>3 DEF DiamondsAgree
    <3> QED
      BY <1>2, <2>4, <3>1, <3>4, NothingType DEF DiamondStep
  <2> QED
    BY <1>2, <2>2, <2>4, <2>5, <2>7, <2>8, GoodIsRow DEF Rows
<1> QED
  BY <1>3, <1>4

\* A new role has the capture's diamonds, and a document with nothing in it.
LEMMA CreatedRow ==
    ASSUME NEW r, r = [diamond |-> GetVarint(FixtureBase, 8), blob |-> FixtureBase, version |-> 0,
                       doc |-> [whole |-> FALSE, model |-> [p \in Part |-> Absent],
                                alias |-> [p \in Part |-> Absent], hero |-> NoHeroes]]
    PROVE  GoodRow(r) /\ DiamondsAgree(r)
<1> DEFINE empty == [p \in Part |-> Absent]
<1>1. GetVarint(FixtureBase, 8) \in Nat /\ FixtureBase \in Seq(Byte)
  BY GotType, FixtureAssumption
<1>2. empty = [p \in Part |-> empty[p]] /\ \A p \in Part : empty[p] = Absent
  OBVIOUS
<1>3. "diamond" \in Part
  BY DEF Part
<1> HIDE DEF empty
<1>4. r.doc = [whole |-> FALSE, model |-> empty, alias |-> empty, hero |-> NoHeroes]
      /\ r.diamond = GetVarint(FixtureBase, 8) /\ r.blob = FixtureBase
      /\ r \in [diamond : Nat, blob : Seq(Byte), version : Nat, doc : {r.doc}]
  BY <1>1 DEF empty
<1>5. Typed(empty)
  BY <1>2, TypedParts
<1>6. IsDocument(r.doc)
  BY <1>4, <1>5, NoHeroesType DEF IsDocument
<1>7. GoodRow(r)
  BY <1>4, <1>6 DEF GoodRow
<1>8. State(r).model["diamond"] = r.diamond
  <2>1. "diamond" # "lineup" /\ "diamond" # "guide"
    OBVIOUS
  <2>2. State(r).model["diamond"] = Filled(r.doc, r.blob)["diamond"]
    <3>1. State(r).model = Model(r.doc, r.blob) /\ r.blob \in Seq(Byte)
      BY <1>1, <1>4, <1>7, ReadRow
    <3>2. Model(r.doc, r.blob)["diamond"] = Filled(r.doc, r.blob)["diamond"]
      BY <1>3, <1>6, <2>1, <3>1, ModelType
    <3> QED
      BY <3>1, <3>2
  <2>3. Filled(r.doc, r.blob)["diamond"] =
          Over("diamond", Absent, Over("diamond", Absent, Default(r.blob)["diamond"]))
    BY <1>2, <1>3, <1>4 DEF Filled
  <2>4. Default(r.blob)["diamond"] = GetVarint(r.blob, 8)
    BY <1>1, <1>4, DefaultType
  <2> QED
    BY <1>4, <2>2, <2>3, <2>4 DEF Over
<1>9. DiamondsAgree(r)
  BY <1>4, <1>8 DEF DiamondsAgree
<1> QED
  BY <1>7, <1>9

LEMMA LegacyRow ==
    ASSUME NEW doc \in LegacyDocument, NEW d \in LegacyDiamond,
           NEW r, r = [diamond |-> d, blob |-> FixtureBase, doc |-> doc, version |-> 0]
    PROVE  GoodRow(r)
<1>1. d \in Nat /\ FixtureBase \in Seq(Byte) /\ IsDocument(doc)
  BY DocumentAssumption, FixtureAssumption
<1>2. r \in [diamond : Nat, blob : Seq(Byte), version : Nat, doc : {r.doc}]
  BY <1>1
<1> QED
  BY <1>1, <1>2 DEF GoodRow

LEMMA RowsInit == Init => Rows
<1> SUFFICES ASSUME Init PROVE Rows
  OBVIOUS
<1>1. online = FALSE
  BY DEF Init
<1>2. CASE row = NoRow /\ due = 0
  BY <1>1, <1>2 DEF Rows
<1>3. ASSUME NEW doc \in LegacyDocument, NEW d \in LegacyDiamond, due \in {0, 1},
             row = [diamond |-> d, blob |-> FixtureBase, doc |-> doc, version |-> 0]
      PROVE  Rows
  BY <1>1, <1>3, LegacyRow DEF Rows
<1> QED
  BY <1>2, <1>3 DEF Init

LEMMA RowsStep ==
    Rows /\ [Next]_vars => Rows' /\ (UNCHANGED vars \/ (NarrowStep /\ DiamondStep))
<1> SUFFICES ASSUME Rows, [Next]_vars
             PROVE  Rows' /\ (UNCHANGED vars \/ (NarrowStep /\ DiamondStep))
  OBVIOUS
<1>1. ASSUME row' = row, wrote' = Nothing PROVE NarrowStep /\ DiamondStep
  <2>1. row # NoRow => row.diamond \in Nat
    BY DEF Rows, GoodRow
  <2> QED
    BY <1>1, <2>1, NothingType DEF NarrowStep, Narrow, DiamondStep
<1>2. CASE CreateRole
  <2>1. /\ row' = [diamond |-> GetVarint(FixtureBase, 8), blob |-> FixtureBase, version |-> 0,
                   doc |-> [whole |-> FALSE, model |-> [p \in Part |-> Absent],
                            alias |-> [p \in Part |-> Absent], hero |-> NoHeroes]]
        /\ online' = online /\ due' = due /\ row = NoRow
    BY <1>2 DEF CreateRole
  <2>2. GoodRow(row') /\ DiamondsAgree(row')
    BY <2>1, CreatedRow
  <2>3. NarrowStep /\ DiamondStep
    BY <2>1, <2>2 DEF NarrowStep, DiamondStep
  <2>4. Rows'
    <3>1. ~online \/ row.doc.whole
      BY DEF Rows
    <3> QED
      BY <2>1, <2>2 DEF Rows
  <2> QED
    BY <2>3, <2>4
<1>3. CASE Login
  BY <1>3, LoginStep
<1>4. CASE Logout
  BY <1>1, <1>4 DEF Logout, Rows
<1>5. CASE Handler
  <2>1. CASE CreateGameOrder
    BY <1>1, <2>1 DEF CreateGameOrder, Rows
  <2> QED
    BY <1>5, <2>1, RiskWinStep, GuideSaveStep, LineupStep, HeroLevelUpStep, NicknameStep,
       PersistStep DEF Handler
<1>6. CASE Settle
  BY <1>6, SettleStep
<1>7. CASE UNCHANGED vars
  BY <1>7 DEF vars, Rows
<1> QED
  BY <1>2, <1>3, <1>4, <1>5, <1>6, <1>7 DEF Next

\* The row is always one that can be read: its document is typed, and whole
\* while the role plays.
THEOREM RowsHold == Spec => []Rows
<1>1. Rows /\ [Next]_vars => Rows'
  BY RowsStep
<1> QED
  BY <1>1, RowsInit, PTL DEF Spec

\* Reading a document twice gives what reading it once gave, so a migration or
\* a handler that stores what it read changes nothing (normalize_role_state).
THEOREM ReadingStable == Spec => []ReadingIsStable
<1>1. Rows => ReadingIsStable
  <2> SUFFICES ASSUME Rows, row # NoRow
               PROVE  Normalize(State(row), row.blob) = State(row)
    BY DEF ReadingIsStable
  <2>1. GoodRow(row) /\ row.blob \in Seq(Byte) /\ IsDocument(row.doc)
    BY DEF Rows, GoodRow
  <2> QED
    BY <2>1, ReadTwice DEF State
<1> QED
  BY <1>1, RowsHold, PTL

\* Every step of the system changes of the state that is read what it was to
\* write, and nothing else but a field whose alias a captured level had put out
\* of step: whatever the patch, the document and the messages are.
THEOREM MergesAreNarrow == Spec => MergeIsNarrow
<1>1. Rows /\ [Next]_vars => [NarrowStep]_vars
  BY RowsStep
<1>2. [][NarrowStep]_vars => MergeIsNarrow
  BY PTL DEF MergeIsNarrow, NarrowStep
<1> QED
  BY <1>1, <1>2, RowsHold, PTL DEF Spec

\* The diamonds of the column and of the document stay in step and never fall,
\* whatever settlements, rewards, captured messages and migrations follow each
\* other; and every settlement and reward puts them in step, whatever an older
\* server left (settle_game_payment, _handle_risk_win, merge_role_state).
THEOREM DiamondsInStep == Spec => DiamondsStayInStep
<1>1. Rows /\ [Next]_vars => [DiamondStep]_vars
  BY RowsStep
<1>2. [][DiamondStep]_vars => DiamondsStayInStep
  BY PTL DEF DiamondsStayInStep, DiamondStep
<1> QED
  BY <1>1, <1>2, RowsHold, PTL DEF Spec

-----------------------------------------------------------------------------
(* The RoleBase message.                                                     *)

\* A RoleBase message that can be parsed to its end, and the level's in it.
Parses(blob) ==
    /\ blob \in Seq(Byte)
    /\ WellFormed(blob) /\ WellFormed(GetBytes(blob, 9))

\* The confirmed numbers of a state, in a message of a length that fits too.
FitsBase(blob, model) ==
    /\ model.level \in Nat /\ model.coin \in Nat /\ model.diamond \in Nat
    /\ Fits(model.level) /\ Fits(model.coin) /\ Fits(model.diamond)
    /\ Fits(Len(PatchRoleBase(blob, model)))

\* What is read of a RoleBase message into which a state was written, and that
\* what nobody has recovered yet stays.
ReadsAs(base, blob, model) ==
    /\ Parses(base) /\ Keeps(base, blob, Confirmed)
    /\ GetVarint(base, 1) = Uid
    /\ GetVarint(base, 7) = model.coin
    /\ GetVarint(base, 8) = model.diamond
    /\ GetVarint(GetBytes(base, 9), 1) = model.level
    /\ \A n : n \notin {1, 7, 8} => GetVarint(base, n) = GetVarint(blob, n)
    /\ \A n : n # 9 => GetBytes(base, n) = GetBytes(blob, n)
    /\ \A n : n # 1 => GetVarint(GetBytes(base, 9), n) = GetVarint(GetBytes(blob, 9), n)
    /\ \A n : GetBytes(GetBytes(base, 9), n) = GetBytes(GetBytes(blob, 9), n)

LEMMA EditedKeeps ==
    ASSUME NEW data, NEW new, NEW k, NEW number, NEW type, NEW v,
           EditedMessage(data, new, k, number, type, v)
    PROVE  Keeps(new, data, {number})
<1> DEFINE fs == Fields(data)
           gs == Fields(new)
<1>1. data \in Seq(Byte) /\ new \in Seq(Byte) /\ Edited(fs, gs, k, number, type, v)
  BY DEF EditedMessage
<1>2. DOMAIN fs = 1..Len(fs) /\ DOMAIN gs = 1..Len(gs) /\ Len(fs) \in Nat /\ Len(gs) \in Nat
  BY <1>1, FieldsType
<1> DEFINE x == Len(fs)
           y == Len(gs)
<1>6. DOMAIN fs = 1..x /\ DOMAIN gs = 1..y /\ x \in Nat /\ y \in Nat
  BY <1>2
<1>7. k \in 1..y /\ (x = y \/ (x = y - 1 /\ k = y))
  BY <1>1 DEF Edited
<1> HIDE DEF fs, gs
<1>3. /\ k \in 1..Len(gs) /\ gs[k].number = number /\ gs[k].type = type
      /\ Len(fs) = Len(gs) \/ (Len(fs) = Len(gs) - 1 /\ k = Len(gs))
      /\ k \in 1..Len(fs) => fs[k].number = number /\ fs[k].type = type
      /\ \A j \in 1..Len(gs) : j # k =>
           gs[j].number = fs[j].number /\ gs[j].type = fs[j].type /\ gs[j].value = fs[j].value
  BY <1>1 DEF Edited
<1>4. ASSUME NEW i \in DOMAIN fs
      PROVE  /\ i \in DOMAIN gs /\ gs[i].number = fs[i].number /\ gs[i].type = fs[i].type
             /\ fs[i].number \notin {number} => gs[i].value = fs[i].value
  <2>1. i \in 1..Len(gs)
    <3> HIDE DEF x, y
    <3>1. i \in 1..x
      BY <1>4, <1>6
    <3>2. i \in 1..y
      BY <1>6, <1>7, <3>1
    <3> QED
      BY <3>2 DEF y
  <2>2. CASE i = k
    BY <1>2, <1>3, <2>1, <2>2
  <2>3. CASE i # k
    BY <1>2, <1>3, <2>1, <2>3
  <2> QED
    BY <2>2, <2>3
<1>5. ASSUME NEW i \in DOMAIN gs \ DOMAIN fs PROVE gs[i].number \in {number}
  <2>1. i = k
    <3> HIDE DEF x, y
    <3>1. i \in 1..y /\ ~(i \in 1..x)
      BY <1>5, <1>6
    <3> QED
      BY <1>6, <1>7, <3>1
  <2> QED
    BY <1>3, <2>1
<1> QED
  BY <1>4, <1>5 DEF Keeps, fs, gs

LEMMA KeepsOn ==
    ASSUME NEW a, NEW b, NEW c, NEW M, NEW N, Keeps(b, a, M), Keeps(c, b, N)
    PROVE  Keeps(c, a, M \cup N)
<1> DEFINE fs == Fields(a)
           gs == Fields(b)
           hs == Fields(c)
<1>1. /\ \A i \in DOMAIN fs : /\ i \in DOMAIN gs /\ gs[i].number = fs[i].number
                              /\ gs[i].type = fs[i].type
                              /\ fs[i].number \notin M => gs[i].value = fs[i].value
      /\ \A i \in DOMAIN gs \ DOMAIN fs : gs[i].number \in M
  BY DEF Keeps
<1>2. /\ \A i \in DOMAIN gs : /\ i \in DOMAIN hs /\ hs[i].number = gs[i].number
                              /\ hs[i].type = gs[i].type
                              /\ gs[i].number \notin N => hs[i].value = gs[i].value
      /\ \A i \in DOMAIN hs \ DOMAIN gs : hs[i].number \in N
  BY DEF Keeps
<1> HIDE DEF fs, gs, hs
<1>3. \A i \in DOMAIN fs : /\ i \in DOMAIN hs /\ hs[i].number = fs[i].number
                           /\ hs[i].type = fs[i].type
                           /\ fs[i].number \notin M \cup N => hs[i].value = fs[i].value
  BY <1>1, <1>2
<1>4. \A i \in DOMAIN hs \ DOMAIN fs : hs[i].number \in M \cup N
  BY <1>1, <1>2
<1> QED
  BY <1>3, <1>4 DEF Keeps, fs, hs

NumberIn(new, data, number, n) ==
    /\ Whole(new) /\ Keeps(new, data, {number})
    /\ GetVarint(new, number) = n
    /\ \A other : other # number => GetVarint(new, other) = GetVarint(data, other)
    /\ \A other : GetBytes(new, other) = GetBytes(data, other)

BytesIn(new, data, number, b) ==
    /\ Whole(new) /\ Keeps(new, data, {number})
    /\ GetBytes(new, number) = b
    /\ \A other : other # number => GetBytes(new, other) = GetBytes(data, other)
    /\ \A other : GetVarint(new, other) = GetVarint(data, other)

LEMMA PatchedNumberOf ==
    ASSUME NEW data, Whole(data), NEW number \in 1..1000, NEW n, Short(n)
    PROVE  NumberIn(PatchVarint(data, number, n), data, number, n)
<1>1. number \in Nat \ {0} /\ 8 * number \in Nat /\ 8 * number < 128 * 128
  OBVIOUS
<1>2. Fits(8 * number)
  BY <1>1, SmallFits
<1>3. data \in Seq(Byte) /\ WellFormed(data) /\ n \in Nat /\ Fits(n)
  BY DEF Whole, Short
<1> DEFINE new == PatchVarint(data, number, n)
<1>4. new \in Seq(Byte)
  BY <1>1, <1>3, PatchedType
<1>5. /\ WellFormed(new)
      /\ GetVarint(new, number) = n
      /\ \A other : other # number => GetVarint(new, other) = GetVarint(data, other)
      /\ \A other : GetBytes(new, other) = GetBytes(data, other)
  BY <1>1, <1>2, <1>3, PatchedNumber
<1>7. Keeps(new, data, {number})
  BY <1>1, <1>2, <1>3, PatchedNumberEdits, EditedKeeps
<1> HIDE DEF new
<1>6. NumberIn(new, data, number, n)
  BY <1>4, <1>5, <1>7 DEF NumberIn, Whole
<1> QED
  BY <1>6 DEF new

LEMMA PatchedBytesOf ==
    ASSUME NEW data, Whole(data), NEW number \in 1..1000, NEW b \in Seq(Byte), Short(Len(b))
    PROVE  BytesIn(PatchBytes(data, number, b), data, number, b)
<1>1. number \in Nat \ {0} /\ 8 * number + 2 \in Nat /\ 8 * number + 2 < 128 * 128
  OBVIOUS
<1>2. Fits(8 * number + 2)
  BY <1>1, SmallFits
<1>3. data \in Seq(Byte) /\ WellFormed(data) /\ Fits(Len(b))
  BY DEF Whole, Short
<1> DEFINE new == PatchBytes(data, number, b)
<1>4. new \in Seq(Byte)
  BY <1>1, <1>3, PatchedType
<1>5. /\ WellFormed(new)
      /\ GetBytes(new, number) = b
      /\ \A other : other # number => GetBytes(new, other) = GetBytes(data, other)
      /\ \A other : GetVarint(new, other) = GetVarint(data, other)
  BY <1>1, <1>2, <1>3, PatchedBytes
<1>7. Keeps(new, data, {number})
  BY <1>1, <1>2, <1>3, PatchedBytesEdits, EditedKeeps
<1> HIDE DEF new
<1>6. BytesIn(new, data, number, b)
  BY <1>4, <1>5, <1>7 DEF BytesIn, Whole
<1> QED
  BY <1>6 DEF new

\* A message that fits in ten bytes of length carries messages that do.
LEMMA CarriedFits ==
    ASSUME NEW data, Whole(data), NEW number \in Nat \ {0}, NEW b \in Seq(Byte),
           Fits(Len(PatchBytes(data, number, b)))
    PROVE  Short(Len(b))
<1> DEFINE new == PatchBytes(data, number, b)
           m == Len(b)
           n == Len(new)
<1>1. data \in Seq(Byte)
  BY DEF Whole
<1>2. new \in Seq(Byte)
  BY <1>1, PatchedType
<1>3. m <= n
  BY <1>1, CarriedLength
<1> HIDE DEF new
<1>4. n \in Nat /\ m \in Nat
  BY <1>2
<1>5. Fits(n)
  BY DEF new
<1> HIDE DEF m, n
<1>6. m \in 0..n
  BY <1>3, <1>4
<1>7. Fits(m)
  BY <1>4, <1>5, <1>6, FitsBelow
<1>8. Short(m)
  BY <1>4, <1>7 DEF Short
<1> QED
  BY <1>8 DEF m

LEMMA RoleBaseReads ==
    ASSUME NEW blob, Parses(blob), NEW model, FitsBase(blob, model)
    PROVE  ReadsAs(PatchRoleBase(blob, model), blob, model)
<1> DEFINE one == PatchVarint(blob, 1, Uid)
           two == PatchVarint(one, 7, model.coin)
           three == PatchVarint(two, 8, model.diamond)
           old == GetBytes(three, 9)
           exp == PatchVarint(old, 1, model.level)
           base == PatchBytes(three, 9, exp)
<1>0. /\ 1 \in 1..1000 /\ 7 \in 1..1000 /\ 8 \in 1..1000 /\ 9 \in 1..1000
      /\ 9 \in Nat \ {0}
  OBVIOUS
<1>u. Short(Uid)
  BY FixtureAssumption DEF Short
<1>w. Whole(blob) /\ Whole(GetBytes(blob, 9))
  <2>1. GetBytes(blob, 9) \in Seq(Byte)
    BY <1>0, GotType DEF Parses
  <2> QED
    BY <2>1 DEF Whole, Parses
<1>m. Short(model.coin) /\ Short(model.diamond) /\ Short(model.level)
  BY DEF FitsBase, Short
<1>1. base = PatchRoleBase(blob, model)
  BY DEF PatchRoleBase
<1>2. NumberIn(one, blob, 1, Uid)
  BY <1>0, <1>u, <1>w, PatchedNumberOf
<1> HIDE DEF one
<1>3. NumberIn(two, one, 7, model.coin)
  <2>1. Whole(one)
    BY <1>2 DEF NumberIn
  <2> QED
    BY <1>0, <1>m, <2>1, PatchedNumberOf
<1> HIDE DEF two
<1>4. NumberIn(three, two, 8, model.diamond)
  <2>1. Whole(two)
    BY <1>3 DEF NumberIn
  <2> QED
    BY <1>0, <1>m, <2>1, PatchedNumberOf
<1> HIDE DEF three
<1>5. old = GetBytes(blob, 9) /\ Whole(old)
  BY <1>2, <1>3, <1>4, <1>w DEF NumberIn
<1> HIDE DEF old
<1>6. NumberIn(exp, old, 1, model.level)
  BY <1>0, <1>5, <1>m, PatchedNumberOf
<1> HIDE DEF exp
<1>7. exp \in Seq(Byte) /\ Whole(three)
  BY <1>4, <1>6 DEF NumberIn, Whole
<1>8. Fits(Len(PatchBytes(three, 9, exp)))
  BY <1>1 DEF FitsBase
<1>9. Short(Len(exp))
  BY <1>0, <1>7, <1>8, CarriedFits
<1>10. BytesIn(base, three, 9, exp)
  BY <1>0, <1>7, <1>9, PatchedBytesOf
<1> HIDE DEF base
<1>11. Parses(base)
  BY <1>6, <1>10 DEF Parses, BytesIn, NumberIn, Whole
<1>12. /\ GetVarint(base, 1) = Uid /\ GetVarint(base, 7) = model.coin
       /\ GetVarint(base, 8) = model.diamond
       /\ GetVarint(GetBytes(base, 9), 1) = model.level
  BY <1>2, <1>3, <1>4, <1>6, <1>10 DEF BytesIn, NumberIn
<1>13. \A n : n \notin {1, 7, 8} => GetVarint(base, n) = GetVarint(blob, n)
  BY <1>2, <1>3, <1>4, <1>10 DEF BytesIn, NumberIn
<1>14. \A n : n # 9 => GetBytes(base, n) = GetBytes(blob, n)
  BY <1>2, <1>3, <1>4, <1>10 DEF BytesIn, NumberIn
<1>15. /\ \A n : n # 1 => GetVarint(GetBytes(base, 9), n) = GetVarint(GetBytes(blob, 9), n)
       /\ \A n : GetBytes(GetBytes(base, 9), n) = GetBytes(GetBytes(blob, 9), n)
  BY <1>5, <1>6, <1>10 DEF BytesIn, NumberIn
<1>16. Keeps(base, blob, Confirmed)
  <2>1. Keeps(two, blob, {1} \cup {7})
    BY <1>2, <1>3, KeepsOn DEF NumberIn
  <2>2. Keeps(three, blob, ({1} \cup {7}) \cup {8})
    BY <1>4, <2>1, KeepsOn DEF NumberIn
  <2>3. Keeps(base, blob, (({1} \cup {7}) \cup {8}) \cup {9})
    BY <1>10, <2>2, KeepsOn DEF BytesIn
  <2>4. (({1} \cup {7}) \cup {8}) \cup {9} = Confirmed
    BY DEF Confirmed
  <2> QED
    BY <2>3, <2>4
<1>17. ReadsAs(base, blob, model)
  BY <1>11, <1>12, <1>13, <1>14, <1>15, <1>16 DEF ReadsAs
<1> QED
  BY <1>1, <1>17

-----------------------------------------------------------------------------
(* The stored RoleBase.                                                      *)

\* The numbers that a reader makes of the row, and its message with and without
\* them, take no more bytes than _decode_varint reads.
Representable ==
    row # NoRow =>
      LET s == State(row).model
      IN /\ \A p \in {"level", "coin", "diamond", "strength"} : Fits(s[p])
         /\ Fits(Len(row.blob)) /\ Fits(Len(PatchRoleBase(row.blob, s)))

BlobParses == row # NoRow => Parses(row.blob)

LEMMA FixtureParses ==
    ASSUME NEW b \in {FixtureBase} \cup CapturedBase
    PROVE  Parses(b)
BY FixtureAssumption DEF Parses

\* The start-up writes the state into the stored message, and so reads from it.
LEMMA StateFits ==
    ASSUME Rows, row # NoRow, Representable
    PROVE  FitsBase(row.blob, State(row).model)
<1> DEFINE s == State(row).model
<1>1. GoodRow(row)
  BY DEF Rows
<1>2. s.level \in Nat /\ s.coin \in Nat /\ s.diamond \in Nat
  BY <1>1, ReadRow DEF Part, PartType
<1>3. /\ Fits(s["level"]) /\ Fits(s["coin"]) /\ Fits(s["diamond"])
      /\ Fits(Len(PatchRoleBase(row.blob, s)))
  BY DEF Representable
<1> QED
  BY <1>2, <1>3 DEF FitsBase

LEMMA RiskWinParses ==
    ASSUME Rows, BlobParses, Representable, Representable', HandleRiskWin
    PROVE  BlobParses'
<1> DEFINE s == State(row).model
           patch == [coin |-> s.coin + Reward["coin"], diamond |-> s.diamond + Reward["diamond"],
                     strength |-> Max({0, s.strength + Reward["strength"]})]
           m == MapOver(patch, s)
<1>1. GoodRow(row) /\ row # NoRow /\ Rows' /\ NarrowStep
  BY RiskWinStep, GoodIsRow DEF Rows, HandleRiskWin, Playing
<1>2. row'.blob = PatchRoleBase(row.blob, m) /\ wrote' = patch /\ row' # NoRow
  <2>1. row' = [diamond |-> patch.diamond, blob |-> PatchRoleBase(row.blob, m),
                doc |-> Merge(row.doc, patch, NoHeroes), version |-> row.version + 1]
        /\ wrote' = patch
    BY DEF HandleRiskWin
  <2> HIDE DEF m, patch
  <2>2. DOMAIN row' # {"none"}
    BY <2>1
  <2> QED
    BY <2>1, <2>2 DEF NoRow
<1>3. DOMAIN patch = {"coin", "diamond", "strength"}
  OBVIOUS
<1> HIDE DEF patch
<1>4. m.level = s.level /\ m.coin = patch["coin"] /\ m.diamond = patch["diamond"]
  <2>1. DOMAIN s = Part
    BY <1>1, ReadRow, ModelType DEF GoodRow
  <2> QED
    BY <1>3, <2>1 DEF MapOver, Part
\* What was written is what is read after the step.
<1>5. State(row').model["coin"] = patch["coin"] /\ State(row').model["diamond"] = patch["diamond"]
  BY <1>1, <1>2, <1>3 DEF NarrowStep, Narrow, Part
<1>6. GoodRow(row')
  BY <1>1, <1>2 DEF Rows
<1>7. s["level"] \in Nat /\ State(row').model["coin"] \in Nat /\ State(row').model["diamond"] \in Nat
  BY <1>1, <1>6, ReadRow DEF Part, PartType
<1>8. /\ Fits(s["level"]) /\ Fits(State(row').model["coin"]) /\ Fits(State(row').model["diamond"])
      /\ Fits(Len(row'.blob))
  BY <1>1, <1>2 DEF Representable
<1> HIDE DEF s, m
<1>9. FitsBase(row.blob, m)
  BY <1>2, <1>4, <1>5, <1>7, <1>8 DEF FitsBase
<1>10. Parses(row.blob)
  BY <1>1 DEF BlobParses
<1>11. Parses(PatchRoleBase(row.blob, m))
  BY <1>9, <1>10, RoleBaseReads DEF ReadsAs
<1> QED
  BY <1>2, <1>11 DEF BlobParses

LEMMA NicknameParses ==
    ASSUME Rows, BlobParses, Representable, HandleChangeNickname
    PROVE  BlobParses'
<1> DEFINE s == State(row).model
<1>1. GoodRow(row) /\ row # NoRow
  BY GoodIsRow DEF Rows, HandleChangeNickname, Playing
<1>2. row'.blob = PatchRoleBase(row.blob, s)
  <2> DEFINE b == PatchRoleBase(row.blob, s)
  <2>1. row' = [row EXCEPT !.doc = Merge(@, Nothing, NoHeroes), !.blob = b, !.version = @ + 1]
    BY DEF HandleChangeNickname
  <2> HIDE DEF b
  <2>2. row'.blob = b
    BY <1>1, <2>1 DEF GoodRow
  <2> QED
    BY <2>2 DEF b
<1>3. Parses(row.blob) /\ FitsBase(row.blob, s)
  BY <1>1, StateFits DEF BlobParses
<1> HIDE DEF s
<1>4. Parses(PatchRoleBase(row.blob, s))
  BY <1>3, RoleBaseReads DEF ReadsAs
<1> QED
  BY <1>2, <1>4 DEF BlobParses

LEMMA PersistParses ==
    ASSUME Rows, Representable, NEW captured \in CapturedBase, PersistCapturedRoleBase(captured)
    PROVE  BlobParses'
<1> DEFINE s == State(row)
           one == PatchVarint(captured, 1, Uid)
           two == PatchVarint(one, 7, s.alias.coin)
           blob == PatchVarint(two, 8, s.alias.diamond)
<1>1. GoodRow(row) /\ row # NoRow
  BY GoodIsRow DEF Rows, PersistCapturedRoleBase, Playing
<1>2. row'.blob = blob
  BY DEF PersistCapturedRoleBase
<1>3. Short(s.alias.coin) /\ Short(s.alias.diamond) /\ Short(Uid)
  <2>1. s.alias = s.model /\ s.model["coin"] \in Nat /\ s.model["diamond"] \in Nat
    BY <1>1, ReadRow DEF Part, PartType
  <2>2. Fits(s.model["coin"]) /\ Fits(s.model["diamond"])
    BY <1>1 DEF Representable
  <2>3. Uid \in Nat /\ Fits(Uid)
    BY FixtureAssumption
  <2> QED
    BY <2>1, <2>2, <2>3 DEF Short
<1>4. Whole(captured) /\ WellFormed(GetBytes(captured, 9))
  BY FixtureParses DEF Parses, Whole
<1>5. 1 \in 1..1000 /\ 7 \in 1..1000 /\ 8 \in 1..1000
  OBVIOUS
<1> HIDE DEF s
<1>6. NumberIn(one, captured, 1, Uid)
  BY <1>3, <1>4, <1>5, PatchedNumberOf
<1> HIDE DEF one
<1>7. Whole(one)
  BY <1>6 DEF NumberIn
<1>8. NumberIn(two, one, 7, s.alias.coin)
  BY <1>3, <1>5, <1>7, PatchedNumberOf
<1> HIDE DEF two
<1>9. Whole(two)
  BY <1>8 DEF NumberIn
<1>10. NumberIn(blob, two, 8, s.alias.diamond)
  BY <1>3, <1>5, <1>9, PatchedNumberOf
<1> HIDE DEF blob
<1>11. Parses(blob)
  BY <1>4, <1>6, <1>8, <1>10 DEF NumberIn, Parses, Whole
<1> QED
  BY <1>2, <1>11 DEF BlobParses

\* No other step writes the message.
LEMMA BlobStays ==
    ASSUME Rows, [Next]_vars, row # NoRow,
           ~HandleRiskWin, ~HandleChangeNickname,
           \A b \in CapturedBase : ~PersistCapturedRoleBase(b)
    PROVE  row'.blob = row.blob
<1>1. GoodRow(row)
  BY DEF Rows
<1>2. ASSUME NEW patch, NEW hero, Store(patch, hero) PROVE row'.blob = row.blob
  BY <1>1, <1>2 DEF Store, GoodRow
<1>3. CASE CreateRole
  BY <1>3 DEF CreateRole
<1>4. CASE Login
  <2> DEFINE s == State(row)
  <2>1. row' = row \/ row' = [row EXCEPT !.doc = s]
    BY <1>4 DEF Login
  <2> HIDE DEF s
  <2> QED
    BY <1>1, <2>1 DEF GoodRow
<1>5. CASE Logout
  BY <1>5 DEF Logout
<1>6. CASE Handler
  <2>1. CASE HandleGuideSave
    BY <1>2, <2>1 DEF HandleGuideSave
  <2>2. CASE HandleLineup
    BY <1>2, <2>2 DEF HandleLineup
  <2>3. CASE HandleHeroLevelUp
    BY <1>2, <2>3 DEF HandleHeroLevelUp
  <2>4. CASE CreateGameOrder
    BY <2>4 DEF CreateGameOrder
  <2> QED
    BY <1>6, <2>1, <2>2, <2>3, <2>4 DEF Handler
<1>7. CASE Settle
  <2> DEFINE d == row.diamond + Quantity
             doc == Merge(row.doc, [diamond |-> d], NoHeroes)
  <2>1. row' = [row EXCEPT !.diamond = d, !.doc = doc, !.version = @ + 1]
    BY <1>7 DEF Settle
  <2> HIDE DEF d, doc
  <2> QED
    BY <1>1, <2>1 DEF GoodRow
<1>8. CASE UNCHANGED vars
  BY <1>8 DEF vars
<1> QED
  BY <1>3, <1>4, <1>5, <1>6, <1>7, <1>8 DEF Next

LEMMA BlobInit == Init => BlobParses
<1> SUFFICES ASSUME Init, row # NoRow PROVE Parses(row.blob)
  BY DEF BlobParses
<1>1. row.blob = FixtureBase
  BY DEF Init
<1> QED
  BY <1>1, FixtureParses

LEMMA BlobStep ==
    Rows /\ BlobParses /\ Representable /\ Representable' /\ [Next]_vars => BlobParses'
<1> SUFFICES ASSUME Rows, BlobParses, Representable, Representable', [Next]_vars, row' # NoRow
             PROVE  Parses(row'.blob)
  BY DEF BlobParses
<1>1. CASE HandleRiskWin
  BY <1>1, RiskWinParses DEF BlobParses
<1>2. CASE HandleChangeNickname
  BY <1>2, NicknameParses DEF BlobParses
<1>3. CASE \E b \in CapturedBase : PersistCapturedRoleBase(b)
  BY <1>3, PersistParses DEF BlobParses
<1>4. CASE row = NoRow
  <2>1. ~online
    BY <1>4, GoodIsRow DEF Rows
  <2>2. CreateRole
    BY <1>4, <2>1 DEF Next, Login, Logout, Handler, Settle, HandleRiskWin, HandleGuideSave,
       HandleLineup, HandleHeroLevelUp, HandleChangeNickname, PersistCapturedRoleBase,
       CreateGameOrder, Playing, vars
  <2>3. row'.blob = FixtureBase
    BY <2>2 DEF CreateRole
  <2> QED
    BY <2>3, FixtureParses
<1>5. CASE /\ row # NoRow /\ ~HandleRiskWin /\ ~HandleChangeNickname
           /\ \A b \in CapturedBase : ~PersistCapturedRoleBase(b)
  BY <1>5, BlobStays DEF BlobParses
<1> QED
  BY <1>1, <1>2, <1>3, <1>4, <1>5

\* The row is typed and its RoleBase message can be parsed to its end, level
\* and all, as long as no number outgrows the wire: after every reward, every
\* change of the nickname and every captured answer.
THEOREM TypeCorrect == Spec /\ []Representable => []TypeOK
<1>1. Rows /\ BlobParses => TypeOK
  BY DEF Rows, GoodRow, BlobParses, Parses, TypeOK
<1> QED
  BY <1>1, BlobInit, BlobStep, RowsHold, PTL DEF Spec

-----------------------------------------------------------------------------
(* The start-up message.                                                     *)

\* A field of the message that is there is replaced, and stays there.
Putted(new, body, number, b) ==
    /\ BytesIn(new, body, number, b)
    /\ \A other : HasBytes(body, other) => HasBytes(new, other)

LEMMA PuttedOf ==
    ASSUME NEW body, Whole(body), NEW number \in 1..1000, NEW b \in Seq(Byte), Short(Len(b))
    PROVE  Putted(PatchBytes(body, number, b), body, number, b)
<1>1. number \in Nat \ {0} /\ 8 * number + 2 \in Nat /\ 8 * number + 2 < 128 * 128
  OBVIOUS
<1>2. Fits(8 * number + 2)
  BY <1>1, SmallFits
<1>3. body \in Seq(Byte) /\ WellFormed(body) /\ Fits(Len(b))
  BY DEF Whole, Short
<1> DEFINE new == PatchBytes(body, number, b)
<1>4. \A other : HasBytes(new, other) <=> other = number \/ HasBytes(body, other)
  BY <1>1, <1>2, <1>3, PatchedHas
<1>5. BytesIn(new, body, number, b)
  BY PatchedBytesOf
<1> HIDE DEF new
<1>6. Putted(new, body, number, b)
  BY <1>4, <1>5 DEF Putted
<1> QED
  BY <1>6 DEF new

LEMMA StrengthReads ==
    ASSUME NEW n, Short(n)
    PROVE  Strength(n) \in Seq(Byte) /\ Short(Len(Strength(n))) /\ GetVarint(Strength(n), 1) = n
<1>1. n \in Nat /\ Fits(n) /\ 100 \in Nat /\ Fits(100)
  BY SmallFits DEF Short
<1>2. Strength(n) \in Seq(Byte) /\ GetVarint(Strength(n), 1) = n
  BY <1>1, TwoNumbers DEF Strength
<1>3. Len(Strength(n)) < 128 * 128
  <2> DEFINE t1 == Varint[8 * 1]
             t2 == Varint[8 * 2]
             v1 == Varint[n]
             v2 == Varint[100]
  <2>1. t1 \in Seq(Byte) /\ t2 \in Seq(Byte) /\ v1 \in Seq(Byte) /\ v2 \in Seq(Byte)
    BY <1>1, VarintDef
  <2>2. Len(t1) = 1 /\ Len(t2) = 1 /\ Len(v2) = 1
    BY VarintLength
  <2>3. Len(v1) <= 10
    BY <1>1 DEF Fits
  <2>4. Strength(n) = (t1 \o v1) \o (t2 \o v2)
    BY DEF Strength, VarintField
  <2> HIDE DEF t1, t2, v1, v2
  <2>5. Len((t1 \o v1) \o (t2 \o v2)) = (Len(t1) + Len(v1)) + (Len(t2) + Len(v2))
    BY <2>1
  <2>6. Len(v1) \in Nat
    BY <2>1
  <2> QED
    BY <2>2, <2>3, <2>4, <2>5, <2>6
<1>4. Len(Strength(n)) \in Nat
  BY <1>2
<1>5. Fits(Len(Strength(n)))
  BY <1>3, <1>4, SmallFits
<1> QED
  BY <1>2, <1>4, <1>5 DEF Short

LEMMA StartupFrameHas ==
    /\ Whole(StartupFrame)
    /\ HasBytes(StartupFrame, 4) /\ HasBytes(StartupFrame, 5) /\ HasBytes(StartupFrame, 125)
BY FixtureAssumption DEF Whole

LEMMA FixtureBagType ==
    /\ FixtureBag \in Seq(Byte) /\ IsBag(DecodeRoleBag(FixtureBag))
    /\ FixtureBag = GetBytes(StartupFrame, 5) /\ Fits(Len(StartupBag))
<1>1. FixtureBag \in Seq(Byte)
  BY FixtureAssumption
<1>2. /\ \A k \in DOMAIN DecodeRoleBag(FixtureBag).items :
           k > 0 /\ DecodeRoleBag(FixtureBag).items[k].quantity > 0
      /\ FixtureBag = GetBytes(StartupFrame, 5) /\ Fits(Len(StartupBag))
  BY BagAssumption
<1> QED
  BY <1>1, <1>2, BagType

\* The bag that is sent is read as that of the fixture.
LEMMA StartupBagReads ==
    StartupBag \in Seq(Byte) /\ DecodeRoleBag(StartupBag) = DecodeRoleBag(FixtureBag)
<1> DEFINE bag == DecodeRoleBag(FixtureBag)
           wire == EncodeRoleBag(bag)
<1>1. StartupBag = IF wire = << >> THEN FixtureBag ELSE wire
  BY DEF StartupBag
<1>2. FixtureBag \in Seq(Byte) /\ IsBag(bag) /\ Fits(Len(StartupBag))
  BY FixtureBagType
<1> HIDE DEF bag
<1>3. wire \in Seq(Byte) /\ (Fits(Len(wire)) => DecodeRoleBag(wire) = bag)
  BY <1>2, BagReads
<1> HIDE DEF wire
<1>4. CASE wire = << >>
  BY <1>1, <1>2, <1>4
<1>5. CASE wire # << >>
  BY <1>1, <1>2, <1>3, <1>5 DEF bag
<1> QED
  BY <1>4, <1>5

\* The start-up message shows the RoleBase that it was given, the bag, and the
\* strength.
LEMMA StartupShows ==
    ASSUME NEW r, Whole(PatchRoleBase(r.blob, State(r).model)),
           Short(Len(PatchRoleBase(r.blob, State(r).model))),
           Short(State(r).model.strength)
    PROVE  /\ GetBytes(StartupBody(r), 4) = PatchRoleBase(r.blob, State(r).model)
           /\ GetVarint(GetBytes(StartupBody(r), 125), 1) = State(r).model.strength
           /\ DecodeRoleBag(GetBytes(StartupBody(r), 5)) = DecodeRoleBag(FixtureBag)
<1> DEFINE s == State(r).model
           base == PatchRoleBase(r.blob, s)
           one == IF HasBytes(StartupFrame, 4) THEN PatchBytes(StartupFrame, 4, base)
                  ELSE StartupFrame
           two == IF StartupBag = << >> THEN one
                  ELSE IF HasBytes(one, 5) THEN PatchBytes(one, 5, StartupBag) ELSE one
           n == s.strength
           shown == IF HasBytes(two, 125) THEN PatchBytes(two, 125, Strength(n)) ELSE two
<1>1. StartupBody(r) = shown
  BY DEF StartupBody
<1>0. 4 \in 1..1000 /\ 5 \in 1..1000 /\ 125 \in 1..1000
  OBVIOUS
<1>2. Whole(base) /\ base \in Seq(Byte) /\ Short(Len(base)) /\ Short(n)
  BY DEF Whole
<1> HIDE DEF base, n
<1>3. Putted(one, StartupFrame, 4, base)
  <2>1. Putted(PatchBytes(StartupFrame, 4, base), StartupFrame, 4, base)
    BY <1>0, <1>2, PuttedOf, StartupFrameHas
  <2> QED
    BY <2>1, StartupFrameHas
<1> HIDE DEF one
<1>4. Whole(one) /\ HasBytes(one, 5) /\ HasBytes(one, 125) /\ GetBytes(one, 4) = base
      /\ GetBytes(one, 5) = FixtureBag
  BY <1>3, StartupFrameHas, FixtureBagType DEF Putted, BytesIn
<1>5. /\ Whole(two) /\ HasBytes(two, 125) /\ GetBytes(two, 4) = base
      /\ DecodeRoleBag(GetBytes(two, 5)) = DecodeRoleBag(FixtureBag)
  <2>1. CASE StartupBag = << >>
    BY <1>4, <2>1
  <2>2. CASE StartupBag # << >>
    <3>1. StartupBag \in Seq(Byte) /\ Short(Len(StartupBag))
      BY FixtureBagType, StartupBagReads DEF Short
    <3>2. Putted(PatchBytes(one, 5, StartupBag), one, 5, StartupBag)
      BY <1>0, <1>4, <3>1, PuttedOf
    <3>3. two = PatchBytes(one, 5, StartupBag)
      BY <1>4, <2>2
    <3>4. Whole(two) /\ HasBytes(two, 125) /\ GetBytes(two, 4) = base
          /\ GetBytes(two, 5) = StartupBag
      BY <1>4, <3>2, <3>3 DEF Putted, BytesIn
    <3> QED
      BY <3>4, StartupBagReads
  <2> QED
    BY <2>1, <2>2
<1> HIDE DEF two
<1>6. Putted(shown, two, 125, Strength(n))
  <2>1. Strength(n) \in Seq(Byte) /\ Short(Len(Strength(n)))
    BY <1>2, StrengthReads
  <2>2. Putted(PatchBytes(two, 125, Strength(n)), two, 125, Strength(n))
    BY <1>0, <1>5, <2>1, PuttedOf
  <2> QED
    BY <1>5, <2>2
<1> HIDE DEF shown
<1>7. GetBytes(shown, 4) = base /\ GetBytes(shown, 125) = Strength(n)
      /\ GetBytes(shown, 5) = GetBytes(two, 5)
  BY <1>5, <1>6 DEF Putted, BytesIn
<1>8. GetVarint(Strength(n), 1) = n
  BY <1>2, StrengthReads
<1> QED
  BY <1>1, <1>5, <1>7, <1>8 DEF base, n

\* The numbers of the heroes and the lineups that are read, and message 27, take
\* no more bytes than _decode_varint reads.
HeroesFit ==
    row # NoRow =>
      LET hero == State(row).hero
      IN /\ \A k \in DOMAIN hero.heroes : Fits(k) /\ Fits(hero.heroes[k])
         /\ \A k \in DOMAIN hero.lineups :
              Fits(k) /\ \A i \in DOMAIN hero.lineups[k] : Fits(hero.lineups[k][i])
         /\ Fits(hero.active) /\ Fits(Len(StartupHeroBody(row)))

LEMMA HeroPartFits ==
    ASSUME NEW hero, IsHeroPart(hero), DOMAIN hero.heroes # {},
           \A k \in DOMAIN hero.heroes : Fits(k) /\ Fits(hero.heroes[k]),
           \A k \in DOMAIN hero.lineups :
             Fits(k) /\ \A i \in DOMAIN hero.lineups[k] : Fits(hero.lineups[k][i]),
           Fits(hero.active)
    PROVE  IsHero(hero)
<1> DEFINE h == hero.heroes
           l == hero.lineups
           D == DOMAIN h
           E == DOMAIN l
<1>1. /\ hero = [heroes |-> h, lineups |-> l, active |-> hero.active] /\ hero.active \in Nat
      /\ h \in [D -> Nat] /\ IsFiniteSet(D) /\ D \subseteq Nat \ {0}
      /\ l \in [E -> Seq(Nat)] /\ IsFiniteSet(E) /\ E \subseteq Nat \ {0}
  BY HeroPartDef DEF Keyed
<1>2. /\ D # {} /\ \A k \in D : Fits(k) /\ Fits(h[k])
      /\ \A k \in E : Fits(k) /\ \A i \in DOMAIN l[k] : Fits(l[k][i])
      /\ Fits(hero.active)
  OBVIOUS
<1> HIDE DEF h, l
<1>3. \A k \in D : Short(k) /\ Short(h[k])
  BY <1>1, <1>2 DEF Short
<1>4. \A k \in E : Short(k) /\ l[k] \in Seq(Nat)
  BY <1>1, <1>2 DEF Short
<1>5. ASSUME NEW k \in E, NEW i \in DOMAIN l[k] PROVE Short(l[k][i])
  <2>1. l[k][i] \in Nat
    BY <1>4
  <2> QED
    BY <1>2, <2>1 DEF Short
<1>6. h = [k \in D |-> h[k]] /\ l = [k \in E |-> l[k]] /\ Short(hero.active)
  BY <1>1, <1>2 DEF Short
<1> QED
  BY <1>1, <1>2, <1>3, <1>4, <1>5, <1>6 DEF IsHero, h, l

LEMMA HeroesShown ==
    ASSUME Rows, HeroesFit, row # NoRow
    PROVE  DecodeRoleHero(StartupHeroBody(row)) = State(row).hero
<1> DEFINE hero == State(row).hero
           replay == GetBytes(HeroFrame, 2)
<1>1. IsHeroPart(hero) /\ DOMAIN hero.heroes # {}
  <2>1. GoodRow(row)
    BY DEF Rows
  <2> QED
    BY <2>1, ReadRow DEF IsDocument
<1>2. replay \in Seq(Byte)
  <2>1. HeroFrame \in Seq(Byte) /\ 2 \in Nat \ {0}
    BY FixtureAssumption
  <2> QED
    BY <2>1, GotType
<1>3. StartupHeroBody(row) = EncodeStartupHero(hero, replay)
  BY DEF StartupHeroBody
<1>4. /\ \A k \in DOMAIN hero.heroes : Fits(k) /\ Fits(hero.heroes[k])
      /\ \A k \in DOMAIN hero.lineups :
           Fits(k) /\ \A i \in DOMAIN hero.lineups[k] : Fits(hero.lineups[k][i])
      /\ Fits(hero.active) /\ Fits(Len(StartupHeroBody(row)))
  BY DEF HeroesFit
<1> HIDE DEF hero, replay
<1>5. IsHero(hero)
  BY <1>1, <1>4, HeroPartFits
<1>6. DecodeRoleHero(EncodeStartupHero(hero, replay)) = hero
  BY <1>2, <1>3, <1>4, <1>5, HeroReads
<1> QED
  BY <1>3, <1>6 DEF hero

\* A role is shown its own state at every start-up: parsing messages 25 and 27,
\* with what is nested in them, gives the numbers, the bag, the heroes and the
\* lineups that were normalised, and of the stored RoleBase everything else, as
\* long as no number outgrows the wire.
THEOREM StartupIsTrue ==
    Spec /\ []Representable /\ []HeroesFit => []StartupShowsState
<1>1. ASSUME Rows, BlobParses, Representable, HeroesFit, row # NoRow
      PROVE  /\ ShowsNumbers(StartupBody(row), State(row).model)
             /\ Keeps(GetBytes(StartupBody(row), 4), row.blob, Confirmed)
             /\ DecodeRoleBag(GetBytes(StartupBody(row), 5)) = DecodeRoleBag(FixtureBag)
             /\ DecodeRoleHero(StartupHeroBody(row)) = State(row).hero
  <2> DEFINE s == State(row).model
             base == PatchRoleBase(row.blob, s)
  <2>1. Parses(row.blob) /\ FitsBase(row.blob, s)
    BY <1>1, StateFits DEF BlobParses
  <2>2. ReadsAs(base, row.blob, s)
    BY <2>1, RoleBaseReads
  <2>3. Whole(base) /\ Short(Len(base))
    <3>1. base \in Seq(Byte) /\ WellFormed(base)
      BY <2>2 DEF ReadsAs, Parses
    <3>2. Fits(Len(base))
      BY <2>1 DEF FitsBase
    <3> HIDE DEF base
    <3> QED
      BY <3>1, <3>2 DEF Whole, Short
  <2>4. Short(s.strength)
    <3>1. GoodRow(row) /\ "strength" \in Part
      BY <1>1 DEF Rows, Part
    <3>2. s["strength"] \in Nat
      BY <3>1, ReadRow DEF PartType
    <3>3. Fits(s["strength"])
      BY <1>1 DEF Representable
    <3> QED
      BY <3>2, <3>3 DEF Short
  <2>5. /\ GetBytes(StartupBody(row), 4) = base
        /\ GetVarint(GetBytes(StartupBody(row), 125), 1) = s.strength
        /\ DecodeRoleBag(GetBytes(StartupBody(row), 5)) = DecodeRoleBag(FixtureBag)
    BY <2>3, <2>4, StartupShows
  <2>6. DecodeRoleHero(StartupHeroBody(row)) = State(row).hero
    BY <1>1, HeroesShown
  <2> HIDE DEF base, s
  <2>7. ReadsAs(GetBytes(StartupBody(row), 4), row.blob, s)
    BY <2>2, <2>5
  <2>8. ShowsNumbers(StartupBody(row), s) /\ Keeps(GetBytes(StartupBody(row), 4), row.blob, Confirmed)
    BY <2>5, <2>7 DEF ReadsAs, ShowsNumbers
  <2> QED
    BY <2>5, <2>6, <2>8 DEF s
<1>2. Rows /\ BlobParses /\ Representable /\ HeroesFit => StartupShowsState
  BY <1>1 DEF StartupShowsState
<1> QED
  BY <1>2, BlobInit, BlobStep, RowsHold, PTL DEF Spec

=============================================================================
