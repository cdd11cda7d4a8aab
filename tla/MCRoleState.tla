---------------------------- MODULE MCRoleState ----------------------------
(* RoleState on two connections, with two battles of one level, a lost battle,
   a hero level up, a draw, and one or two requests of every other kind.  The
   capture is the answer of one battle and of the requests that RoleBase frames
   go with: before the answer, after a push, and, of a battle's start, past the
   answer and a heartbeat. *)
EXTENDS RoleState, TLC

CONSTANTS c1, c2, l1, w1, w2, x1, u1, d1, n1, g1, g2, s1, b1, e1, p1, p2,
          seg, mid, end

MCReward == (l1 :> 10)
MCKind == (w1 :> "win") @@ (w2 :> "win") @@ (x1 :> "lost") @@ (u1 :> "level_up")
          @@ (d1 :> "gacha") @@ (e1 :> "lineup") @@ (n1 :> "nickname")
          @@ (g1 :> "guide") @@ (g2 :> "guide") @@ (s1 :> "story")
          @@ (b1 :> "start")
MCKindOf == [q \in Request |-> MCKind[q]]
MCLevelOf == [q \in Win \cup Lost \cup Start |-> l1]
MCLevelNum == [q \in LevelUp |-> 2]
MCGuideStep == [q \in Guide |-> [segment |-> seg, status |-> TRUE,
                                step |-> IF q = g1 THEN mid ELSE end]]
MCTerminal == (seg :> {end})
MCQuantity == (p1 :> 1) @@ (p2 :> 2)

Client(q) == [from |-> "client", what |-> q]
Server(x) == [from |-> "server", what |-> x]
MCSession ==
    << Client(w1), Server("other"), Client(Heartbeat), Server("role"), Server("battle"),
       Client(u1), Server("story"), Server("role"), Server("level_up"), Server("role"),
       Client(d1), Server("role"), Server("role"), Server("gacha"),
       Client(e1), Server("lineup"),
       Client(s1), Server("role"), Server("story"),
       Client(b1), Server("start"), Client(Heartbeat), Server("role") >>
MCCapture == SelectSeq(MCSession,
    LAMBDA f : f.from = "server" \/ f.what \in Request \cup {Heartbeat})

\* The old and the new connection of a client are alike.
MCSymmetry == Permutations(Conn)

=============================================================================
