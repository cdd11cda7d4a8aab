----------------------------- MODULE GameProto -----------------------------
(***************************************************************************)
(* The wire codec of the game server (server/game_proto.py): varints,      *)
(* fields, and the few messages that a role's state is read from and       *)
(* written into.  A message is a sequence of bytes.                        *)
(*                                                                         *)
(* Positions count from 1, and a field's end is the position after it.     *)
(* Numbers are natural: every value the server patches into a message was  *)
(* clamped at 0 before.  Of an item, a hero and a lineup the fields that   *)
(* the rest of the project speaks of are kept; the others are written and  *)
(* read in the same way.                                                   *)
(***************************************************************************)
EXTENDS Integers, Sequences, FiniteSets, FiniteSetsExt, SequencesExt, Functions

Byte == 0..255

\* What a reader finds where there is no such field, or none that is whole.
NoField == [number |-> 0]

-----------------------------------------------------------------------------
\* Varints.

\* _encode_varint: seven bits a byte, the lowest first.
Varint[n \in Nat] == IF n < 128 THEN << n >> ELSE << 128 + (n % 128) >> \o Varint[n \div 128]

\* _decode_varint takes so many bytes of a number and no more.
Fits(n) == Len(Varint[n]) <= 10

\* The number that the bytes of a varint stand for.
Number(s) ==
    LET From[i \in 1..Len(s) + 1] ==
          IF i > Len(s) THEN 0 ELSE (s[i] % 128) + 128 * From[i + 1]
    IN From[1]

\* _decode_varint: the last byte is the first one below 128, of at most ten.
DecodeVarint(data, o) ==
    LET Upto(last) == [number |-> Number(SubSeq(data, o, last)), end |-> last + 1]
        Read(lasts) == IF lasts = {} THEN NoField
                       ELSE Upto(CHOOSE i \in lasts : \A j \in lasts : i <= j)
    IN Read({i \in DOMAIN data : o <= i /\ i < o + 10 /\ data[i] < 128})

-----------------------------------------------------------------------------
\* Fields.

\* The field that starts at o with this tag, and whose payload is the bytes
\* from first on; iter_fields.
Payload(data, o, tag, first, length) ==
    IF first + length > Len(data) + 1 THEN NoField
    ELSE [number |-> tag.number \div 8, type |-> tag.number % 8,
          value |-> SubSeq(data, first, first + length - 1),
          start |-> o, end |-> first + length]

\* The payload is the number that follows the tag, or as many bytes as it says.
VarintPayload(o, tag, arg) ==
    IF arg = NoField THEN NoField
    ELSE [number |-> tag.number \div 8, type |-> 0, value |-> arg.number,
          start |-> o, end |-> arg.end]

BytesPayload(data, o, tag, arg) ==
    IF arg = NoField THEN NoField ELSE Payload(data, o, tag, arg.end, arg.number)

TaggedField(data, o, tag) ==
    LET Typed(type, arg) ==
          CASE type = 0 -> VarintPayload(o, tag, arg)
            [] type = 2 -> BytesPayload(data, o, tag, arg)
            [] type \in {1, 5} -> Payload(data, o, tag, tag.end, IF type = 1 THEN 8 ELSE 4)
            [] OTHER -> NoField
    IN IF tag = NoField \/ tag.number < 8 THEN NoField
       ELSE Typed(tag.number % 8, DecodeVarint(data, tag.end))

FieldAt(data, o) == TaggedField(data, o, DecodeVarint(data, o))

\* iter_fields: the fields of a message, up to the one that is malformed.
Fields(data) ==
    LET From[o \in 1..Len(data) + 1] ==
          LET f == FieldAt(data, o)
          IN IF o > Len(data) THEN << >>
             ELSE << f >> \o (IF f = NoField THEN << >> ELSE From[f.end])
    IN From[1]

WellFormed(data) == NoField \notin Range(Fields(data))

\* The fields of this number and type, in their order.
Of(data, number, type) ==
    LET Among(fs) ==
          LET Upto[i \in 0..Len(fs)] ==
                IF i = 0 THEN << >>
                ELSE IF fs[i].number = number /\ fs[i].type = type
                     THEN Append(Upto[i - 1], fs[i]) ELSE Upto[i - 1]
          IN Upto[Len(fs)]
    IN Among(Fields(data))

\* _get_field: the first one.
Field(data, number, type) ==
    LET First(fs, found) == IF found = {} THEN NoField ELSE fs[Min(found)]
        Found(fs) == First(fs, {i \in DOMAIN fs : fs[i].number = number /\ fs[i].type = type})
    IN Found(Fields(data))

VarintField(number, n) == Varint[8 * number] \o Varint[n]

\* Mutant of BytesField: the length is written in one byte.
ShortField(number, b) == Varint[8 * number + 2] \o << Len(b) % 256 >> \o b

BytesField(number, b) == Varint[8 * number + 2] \o Varint[Len(b)] \o b

\* _replace_field: in place of the first one, or at the end.
ReplaceField(data, number, type, replacement) ==
    LET Replaced(f) ==
          IF f = NoField THEN data \o replacement
          ELSE SubSeq(data, 1, f.start - 1) \o replacement \o SubSeq(data, f.end, Len(data))
    IN Replaced(Field(data, number, type))

\* Mutant of PatchVarint: the number is written in one byte.
PatchByte(data, number, n) ==
    ReplaceField(data, number, 0, Varint[8 * number] \o << n % 256 >>)

PatchVarint(data, number, n) == ReplaceField(data, number, 0, VarintField(number, n))
PatchBytes(data, number, b) == ReplaceField(data, number, 2, BytesField(number, b))

ValueOr(f, none) == IF f = NoField THEN none ELSE f.value

GetVarint(data, number) == ValueOr(Field(data, number, 0), 0)

HasBytes(data, number) == Field(data, number, 2) # NoField

\* get_bytes(data, number) or b"".
GetBytes(data, number) == ValueOr(Field(data, number, 2), << >>)

ValuesOf(fs) == [i \in DOMAIN fs |-> fs[i].value]

\* get_bytes_all.
AllBytes(data, number) == ValuesOf(Of(data, number, 2))

\* get_repeated_varints, of fields that are not packed.
Varints(data, number) == ValuesOf(Of(data, number, 0))

-----------------------------------------------------------------------------
\* Maps: repeated entries of a key and a message, the last one of a key wins.

\* _decode_map_entries, into a function from the keys.
LastByKey(entries) ==
    LET key(i) == GetVarint(entries[i], 1)
        last(k) == Max({i \in DOMAIN entries : key(i) = k})
    IN [k \in {key(i) : i \in DOMAIN entries} |-> GetBytes(entries[last(k)], 2)]

DecodeMap(data, number) == LastByKey(AllBytes(data, number))

\* _encode_map_entry.
Entry(k, b) == VarintField(1, k) \o BytesField(2, b)

\* The entries of the map m, whose values were encoded, in the order of keys.
EncodeMap(number, m) ==
    LET Upto[keys \in SUBSET DOMAIN m] ==
          IF keys = {} THEN << >>
          ELSE Upto[keys \ {Max(keys)}] \o BytesField(number, Entry(Max(keys), m[Max(keys)]))
    IN Upto[DOMAIN m]

\* A number that is left out when it is 0.
Optional(number, n) == IF n = 0 THEN << >> ELSE VarintField(number, n)

-----------------------------------------------------------------------------
\* RoleBag: items by id.

DecodeItem(b) == [config |-> GetVarint(b, 2), quantity |-> GetVarint(b, 3)]
EncodeItem(id, item) ==
    Optional(1, id) \o Optional(2, item.config) \o Optional(3, item.quantity)

DecodeRoleBag(b) ==
    LET Items(entries) == [k \in DOMAIN entries |-> DecodeItem(entries[k])]
    IN [items |-> Items(DecodeMap(b, 1)), next |-> GetVarint(b, 2)]

\* encode_role_bag: items of a positive id and quantity.
EncodeRoleBag(bag) ==
    LET kept == {k \in DOMAIN bag.items : k > 0 /\ bag.items[k].quantity > 0}
    IN EncodeMap(1, [k \in kept |-> EncodeItem(k, bag.items[k])]) \o Optional(2, bag.next)

-----------------------------------------------------------------------------
\* RoleHero: the levels of the heroes, the lineups, and the active lineup.

\* _merge_keyed: the entries of f over those of g.
MapOver(f, g) ==
    [k \in DOMAIN f \cup DOMAIN g |-> IF k \in DOMAIN f THEN f[k] ELSE g[k]]

NoHeroes == [heroes |-> << >>, lineups |-> << >>, active |-> 0]

\* decode_role_hero, of a RoleHero or of a message that carries one.
DecodeRoleHero(b) ==
    LET Levels(hero) == [k \in DOMAIN hero |-> GetVarint(hero[k], 3)]
        Lines(line) == [k \in DOMAIN line |-> Varints(line[k], 1)]
        Decode(role) == [heroes |-> Levels(DecodeMap(role, 2)),
                         lineups |-> Lines(DecodeMap(role, 4)),
                         active |-> GetVarint(role, 5)]
    IN Decode(IF GetBytes(b, 1) = << >> THEN b ELSE GetBytes(b, 1))

\* encode_startup_hero_ntf, around encode_role_hero; the captured replay is
\* passed on.
EncodeStartupHero(state, replay) ==
    LET heroes == [k \in {k \in DOMAIN state.heroes : k > 0} |->
                     VarintField(1, k) \o Optional(3, state.heroes[k])]
        lineups == [k \in {k \in DOMAIN state.lineups : k > 0} |->
                      FlattenSeq([i \in DOMAIN state.lineups[k] |->
                                    VarintField(1, state.lineups[k][i])])]
    IN BytesField(1, EncodeMap(2, heroes) \o EncodeMap(4, lineups) \o Optional(5, state.active))
       \o (IF replay = << >> THEN << >> ELSE BytesField(2, replay))

=============================================================================
