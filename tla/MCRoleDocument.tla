--------------------------- MODULE MCRoleDocument ---------------------------
(* RoleDocument on a fixture whose RoleBase is 127 bytes long: with 128 diamonds
   its length takes a second byte where it is nested.  A captured RoleBase names
   a level, or has no message for it; rows of an older server are empty or have
   the flat keys only. *)
EXTENDS RoleDocument

CONSTANTS tutorial, story

MCFiller == [i \in 1..104 |-> 65]
MCBase == VarintField(1, 300) \o BytesField(2, MCFiller) \o VarintField(7, 1000)
          \o VarintField(8, 120) \o BytesField(9, VarintField(1, 1) \o VarintField(2, 5))
          \o VarintField(40, 7) \o BytesField(41, << 9 >>)
MCBag == EncodeRoleBag([items |-> (10 :> [config |-> 4001, quantity |-> 300]), next |-> 11])
MCHeroes == [heroes |-> (10001 :> 1), lineups |-> (1 :> << 10001, 0, 0 >>), active |-> 1]
MCReplay == VarintField(1, 77)
MCHeroFrame == EncodeStartupHero(MCHeroes, MCReplay)
MCStartupFrame == VarintField(1, 100) \o BytesField(4, MCBase) \o BytesField(5, MCBag)
                  \o VarintField(60, 1) \o BytesField(125, Strength(100))

MCCapturedBase ==
    { VarintField(1, 9) \o VarintField(8, 1) \o BytesField(9, VarintField(1, 2))
        \o VarintField(41, 5),
      VarintField(1, 9) \o VarintField(7, 3) }

MCEmpty == [whole |-> FALSE, model |-> [p \in Part |-> Absent],
            alias |-> [p \in Part |-> Absent], hero |-> NoHeroes]
MCFlat == [MCEmpty EXCEPT !.alias["coin"] = 55, !.alias["guide"] = {tutorial}]
MCLegacy == {MCEmpty, MCFlat}
MCLineup == {<< 10002, 10001, 0 >>}
MCReward == ("coin" :> 20) @@ ("diamond" :> 10) @@ ("strength" :> -60)

=============================================================================
