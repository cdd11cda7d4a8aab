----------------------------- MODULE RoleState -----------------------------
(***************************************************************************)
(* One row of game_roles and its writers: the gameplay handlers of the     *)
(* game TCP server (server/game_tcp.py), one per connection, and the       *)
(* settlement of a payment in the HTTP process (settle_game_payment,       *)
(* server/storage.py).                                                     *)
(*                                                                         *)
(* A gameplay handler reads the row, works out a patch, and hands it to    *)
(* Storage.merge_game_state, which reads the row again and writes it back  *)
(* merged.  That SELECT runs in autocommit: the write transaction begins   *)
(* with the UPDATE.  The handlers of one server share a thread and give it *)
(* up only where they await a send, but the HTTP process may commit        *)
(* between any two of their statements.                                    *)
(*                                                                         *)
(* A row is its diamond column, its game_state_json and its role_version;  *)
(* of the JSON document the model keeps what more than one writer or       *)
(* request touches: the diamonds (role_base.diamond), the completed levels *)
(* (risk_battle.completed), a hero's level, the length of gacha.history,   *)
(* the guide segments and story flags that were set (story), and the       *)
(* receipts (operations).                                                  *)
(***************************************************************************)
EXTENDS Integers, Sequences, FiniteSets, FiniteSetsExt

CONSTANTS
    Conn,            \* connections logged in as this role
    NoConn,          \* nobody holds the server's thread
    Request,         \* request frames, each a body of its message id
    Kind,            \* what each of them is
    Level,           \* risk battle levels
    LevelOf,         \* the level a battle or the start of one is about
    Reward,          \* the diamonds of a level's first completion
    LevelNum,        \* the levels a hero level up adds
    Segment, Step,   \* segments of the guide, and their steps
    GuideStep,       \* the step a guide save records
    Terminal,        \* the steps that complete each segment
    Capture,         \* the captured session that answers are taken from
    Heartbeat,       \* a client frame of it: CSHeartBeat
    Payment,         \* payments of matching game orders
    Quantity,        \* the diamonds each of them is worth
    InitialDiamond,  \* the diamonds of the fixture
    MaxVersion       \* no request or payment starts past this version (bound)

Of(kinds) == {q \in Request : Kind[q] \in kinds}

Win == Of({"win"})          \* CSRiskBatWin, won and not quit
Lost == Of({"lost"})        \* CSRiskBatWin, lost or quit
Gacha == Of({"gacha"})
LevelUp == Of({"level_up"})
Lineup == Of({"lineup"})
Nickname == Of({"nickname"})
Guide == Of({"guide"})      \* CSGuideSave
Story == Of({"story"})      \* the simple gameplay requests
Start == Of({"start"})      \* message 141, the start of a risk battle

\* The requests that leave a receipt.
Body == Win \cup Lost \cup Gacha \cup LevelUp

ASSUME RequestAssumption ==
    /\ Kind \in [Request -> {"win", "lost", "gacha", "level_up", "lineup",
                             "nickname", "guide", "story", "start"}]
    /\ LevelOf \in [Win \cup Lost \cup Start -> Level]
    /\ LevelNum \in [LevelUp -> Nat]
    /\ GuideStep \in [Guide -> [segment: Segment, step: Step, status: BOOLEAN]]
    /\ Terminal \in [Segment -> SUBSET Step]

Push == {"role", "other"}   \* frames of RoleBase (76), and other pushes
Answered == {"battle", "gacha", "level_up", "lineup", "story", "start"}
Captured == [from: {"client"}, what: Request \cup {Heartbeat}]
            \cup [from: {"server"}, what: Answered \cup Push]

ASSUME RowAssumption ==
    /\ NoConn \notin Conn
    /\ Heartbeat \notin Request
    /\ Capture \in Seq(Captured)
    /\ Reward \in [Level -> Nat]
    /\ Quantity \in [Payment -> Nat]
    /\ InitialDiamond \in Nat
    /\ MaxVersion \in Nat

VARIABLES
    row,      \* the row of game_roles
    conn,     \* the handler of each connection
    running,  \* the connection whose handler holds the server's thread
    settled,  \* payments with a row in game_diamond_transactions
    applied,  \* how often each operation took effect (history)
    rewarded, \* how often each level's reward was paid (history)
    crossed   \* what happened while a handler was at work (history): "handler",
              \* another one began, or "payment", one was settled

vars == <<row, conn, running, settled, applied, rewarded, crossed>>

Idle == [pc |-> "idle"]

\* A write of another origin begins while a handler holds what it has read.
Crosses(what) ==
    crossed' = IF \E c \in Conn : conn[c] # Idle THEN crossed \cup {what} ELSE crossed

-----------------------------------------------------------------------------
\* The captured answer of a request.

\* The message that answers a request, the name Answered has for it.
Response(q) == IF q \in Win \cup Lost THEN "battle" ELSE Kind[q]

\* same_business_request: bodies that differ in nothing the answer depends on.
\* (The model has one gacha pool and one hero.)
Alike(r, q) ==
    \/ r = q
    \/ /\ {r, q} \subseteq Win \cup Lost \/ {r, q} \subseteq Start
       /\ LevelOf[r] = LevelOf[q]
    \/ {r, q} \subseteq Gacha \/ {r, q} \subseteq LevelUp

\* _gameplay_event: what the server of the capture sent from the request to
\* its answer (for the start of a battle, to the client's next request), by the
\* places of the frames in the capture.
GameplayEvent(q) ==
    LET Asked(i) == Capture[i].from = "client" /\ Capture[i].what # Heartbeat
        exact == {i \in DOMAIN Capture : Asked(i) /\ Capture[i].what = q}
        alike == {i \in DOMAIN Capture : Asked(i) /\ Alike(Capture[i].what, q)}
        first == Min(IF exact # {} THEN exact ELSE alike)
        acks == {i \in DOMAIN Capture : i > first
                   /\ Capture[i] = [from |-> "server", what |-> Response(q)]}
        stops == {i \in DOMAIN Capture : i > Min(acks) /\ Asked(i)}
        last == IF q \notin Start THEN Min(acks)
                ELSE IF stops = {} THEN Len(Capture) ELSE Min(stops) - 1
        Relevant(f) == f.from = "server" /\ f.what \in Push \cup {Response(q)}
    IN IF Response(q) \notin Answered \/ alike = {} \/ acks = {} THEN {}
       ELSE {i \in DOMAIN Capture : first < i /\ i <= last /\ Relevant(Capture[i])}

-----------------------------------------------------------------------------
\* The patch of a request, worked out from the row the handler read.

\* Mutant of Rewards: a completed level is rewarded again.
RewardsAlways(doc, q) == q \in Win

\* Mutant of Fresh: the receipt is not looked up.
NeverReceived(doc, q) == TRUE

\* get_operation: no receipt of this body is stored.
Fresh(doc, q) == q \notin doc.receipts

\* first_completion, of a battle that was won.
Rewards(doc, q) == q \in Win /\ LevelOf[q] \notin doc.done

\* next_diamond of a rewarded battle, else the diamonds as they were.
NextDiamond(snap, q) ==
    snap.doc.diamond + (IF Rewards(snap.doc, q) THEN Reward[LevelOf[q]] ELSE 0)

\* Mutant of Completed: a rewarded level is not marked completed.
CompletedNever(doc, q) == {}

\* risk.completed, of which the handlers of risk send the whole.
Completed(doc, q) ==
    IF Rewards(doc, q) THEN doc.done \cup {LevelOf[q]}
    ELSE IF q \in Win \cup Lost \cup Start THEN doc.done ELSE {}

\* hero["level"], which a draw of the same hero sends unchanged.
NextLevel(doc, q) == doc.level + (IF q \in LevelUp THEN LevelNum[q] ELSE 0)

\* _apply_guide_save: the completion key of the segment, after its terminal
\* step; and the flag a story request sets.
Marks(q) ==
    IF q \in Story THEN {q}
    ELSE {g \in Segment : /\ q \in Guide
                          /\ GuideStep[q].segment = g
                          /\ GuideStep[q].status
                          /\ GuideStep[q].step \in Terminal[g]}

\* Mutant of Receipts: the patch leaves the receipt out.
NoReceipts(q) == {}

\* record_operation: the patch carries the new receipt alone.  (The oldest one
\* past MAX_OPERATION_RECEIPTS leaves the handler's copy, not the row.)
Receipts(q) == IF q \in Body THEN {q} ELSE {}

\* merge_role_state(doc, patch): the patch of request q, made from the row
\* snap, lands on the document doc field by field.
MergedDoc(doc, snap, q) ==
    [doc EXCEPT
        !.diamond = IF Rewards(snap.doc, q) THEN NextDiamond(snap, q) ELSE @,
        !.done = @ \cup Completed(snap.doc, q),
        !.level = IF q \in LevelUp \cup Gacha THEN NextLevel(snap.doc, q) ELSE @,
        !.history = IF q \in Gacha THEN snap.doc.history + 1 ELSE @,
        !.marks = @ \cup Marks(q),
        !.receipts = @ \cup Receipts(q)]

\* merge_game_state: the row it writes, from the row base it read.
Merged(base, snap, q) ==
    [diamond |-> IF Rewards(snap.doc, q) THEN NextDiamond(snap, q) ELSE base.diamond,
     doc |-> MergedDoc(base.doc, snap, q),
     version |-> base.version + 1]

\* Mutant of Overwritten: the state of before the request is kept.
OverwrittenByOld(h) ==
    [diamond |-> h.snap.diamond, doc |-> h.snap.doc, version |-> row.version + 1]

\* update_game_role_progress: the row becomes the handler's state, whole, and
\* the version counts up in the UPDATE itself.
Overwritten(h) ==
    [diamond |-> h.state.diamond, doc |-> h.state, version |-> row.version + 1]

-----------------------------------------------------------------------------
\* The handlers: each reads the row (get_game_role, _role_state) and works out
\* its patch without giving the thread up.  (A request whose receipt is stored
\* is answered from it, and a nickname of blanks or a draw of another pool is
\* refused: they change nothing.)

\* Mutant of Begin: the thread is given up before the merge.
BeginThenAwait(c, q) ==
    /\ running = NoConn
    /\ conn[c] = Idle
    /\ row.version < MaxVersion
    /\ conn' = [conn EXCEPT ![c] =
         [pc |-> "read", req |-> q, snap |-> row, base |-> row,
          state |-> row.doc, todo |-> GameplayEvent(q)]]
    /\ Crosses("handler")
    /\ UNCHANGED <<row, running, settled, applied, rewarded>>

\* _handle_client takes a request, and its handler gets up to the merge.
Begin(c, q) ==
    /\ running = NoConn
    /\ conn[c] = Idle
    /\ row.version < MaxVersion
    /\ conn' = [conn EXCEPT ![c] =
         [pc |-> "read", req |-> q, snap |-> row, base |-> row,
          state |-> row.doc, todo |-> GameplayEvent(q)]]
    /\ running' = c
    /\ Crosses("handler")
    /\ UNCHANGED <<row, settled, applied, rewarded>>

HandleRiskWin(c) == \E q \in Win \cup Lost : Fresh(row.doc, q) /\ Begin(c, q)
HandleGacha(c) == \E q \in Gacha : Fresh(row.doc, q) /\ Begin(c, q)
HandleHeroLevelUp(c) == \E q \in LevelUp : Fresh(row.doc, q) /\ Begin(c, q)
HandleLineup(c) == \E q \in Lineup : Begin(c, q)
HandleChangeNickname(c) == \E q \in Nickname : Begin(c, q)
HandleGuideSave(c) == \E q \in Guide : Begin(c, q)
HandleSimpleGameplayRequest(c) == \E q \in Story : Begin(c, q)
HandleRiskStart(c) == \E q \in Start : Begin(c, q)

\* The SELECT of merge_game_state.
MergeRead(c) ==
    /\ running = c
    /\ conn[c].pc = "read"
    /\ conn' = [conn EXCEPT ![c].pc = "write", ![c].base = row]
    /\ UNCHANGED <<row, running, settled, applied, rewarded, crossed>>

\* The UPDATE of merge_game_state, and the row it returns.  A request without
\* captured frames is answered by sends that touch nothing.
MergeWrite(c) ==
    LET h == conn[c]
        new == Merged(h.base, h.snap, h.req)
    IN
    /\ running = c
    /\ h.pc = "write"
    /\ row' = new
    /\ applied' = [b \in Body |-> applied[b] + IF b = h.req THEN 1 ELSE 0]
    /\ rewarded' = [l \in Level |-> rewarded[l] +
                      IF Rewards(h.snap.doc, h.req) /\ l = LevelOf[h.req] THEN 1 ELSE 0]
    /\ IF h.todo = {}
       THEN conn' = [conn EXCEPT ![c] = Idle] /\ running' = NoConn
       ELSE /\ conn' = [conn EXCEPT ![c].pc = "frames", ![c].state = new.doc]
            /\ UNCHANGED running
    /\ UNCHANGED <<settled, crossed>>

\* One captured frame: a RoleBase frame overwrites the row first, but not in
\* the simple requests' answers.  Sending it gives up the thread.
SendFrame(c) ==
    LET h == conn[c]
        next == Min(h.todo)
    IN
    /\ running \in {NoConn, c}
    /\ h.pc = "frames"
    /\ row' = IF Capture[next].what = "role" /\ h.req \notin Story
              THEN Overwritten(h) ELSE row
    /\ conn' = [conn EXCEPT ![c] = IF h.todo = {next} THEN Idle
                                   ELSE [h EXCEPT !.todo = @ \ {next}]]
    /\ running' = NoConn
    /\ UNCHANGED <<settled, applied, rewarded, crossed>>

\* The send raises: the handler ends, the client connects again.
Disconnect(c) ==
    /\ running = NoConn
    /\ conn[c].pc = "frames"
    /\ conn' = [conn EXCEPT ![c] = Idle]
    /\ UNCHANGED <<row, running, settled, applied, rewarded, crossed>>

\* The server dies, between any two statements, and is started again.
TcpCrash ==
    /\ \E c \in Conn : conn[c] # Idle
    /\ conn' = [c \in Conn |-> Idle]
    /\ running' = NoConn
    /\ UNCHANGED <<row, settled, applied, rewarded, crossed>>

\* Mutant of Settled: the document is left as it was.
SettledColumnOnly(r, p) ==
    [r EXCEPT !.diamond = @ + Quantity[p], !.version = @ + 1]

\* The row settle_game_payment writes: both diamonds and the version.
Settled(r, p) ==
    [r EXCEPT !.diamond = @ + Quantity[p],
              !.doc.diamond = r.diamond + Quantity[p],
              !.version = @ + 1]

\* settle_game_payment, the HTTP process's one transaction.
Settle(p) ==
    /\ p \notin settled
    /\ row.version < MaxVersion
    /\ row' = Settled(row, p)
    /\ settled' = settled \cup {p}
    /\ Crosses("payment")
    /\ UNCHANGED <<conn, running, applied, rewarded>>

-----------------------------------------------------------------------------

\* The document after the first login wrote it.
Init ==
    /\ row = [diamond |-> InitialDiamond,
              doc |-> [diamond |-> InitialDiamond, done |-> {}, level |-> 1,
                       history |-> 0, marks |-> {}, receipts |-> {}],
              version |-> 0]
    /\ conn = [c \in Conn |-> Idle]
    /\ running = NoConn
    /\ settled = {}
    /\ applied = [b \in Body |-> 0]
    /\ rewarded = [l \in Level |-> 0]
    /\ crossed = {}

Handler(c) ==
    \/ HandleRiskWin(c)
    \/ HandleGacha(c)
    \/ HandleHeroLevelUp(c)
    \/ HandleLineup(c)
    \/ HandleChangeNickname(c)
    \/ HandleGuideSave(c)
    \/ HandleSimpleGameplayRequest(c)
    \/ HandleRiskStart(c)
    \/ MergeRead(c)
    \/ MergeWrite(c)
    \/ SendFrame(c)
    \/ Disconnect(c)

Next ==
    \/ \E c \in Conn : Handler(c)
    \/ TcpCrash
    \/ \E p \in Payment : Settle(p)

Spec == Init /\ [][Next]_vars

-----------------------------------------------------------------------------
(* Properties *)

Doc == [diamond: Nat, done: SUBSET Level, level: Nat, history: Nat,
        marks: SUBSET (Segment \cup Story), receipts: SUBSET Body]
RoleRow == [diamond: Nat, doc: Doc, version: Nat]
Working == [pc: {"read", "write", "frames"}, req: Request, snap: RoleRow,
            base: RoleRow, state: Doc, todo: SUBSET (DOMAIN Capture)]

\* Type correctness, and who holds the thread: only a handler that is between
\* its read and its first send.
TypeOK ==
    /\ row \in RoleRow
    /\ \A c \in Conn : conn[c] = Idle \/ conn[c] \in Working
    /\ running \in Conn \cup {NoConn}
    /\ \A c \in Conn : conn[c].pc \in {"read", "write"} => running = c
    /\ settled \subseteq Payment
    /\ applied \in [Body -> Nat]
    /\ rewarded \in [Level -> Nat]
    /\ crossed \subseteq {"handler", "payment"}

\* The client is shown the column (event loop) and the document (gameplay,
\* startup) in turn: the diamonds of both are the same in every committed
\* row, whichever of the three writers wrote it last and however stale what
\* it wrote was.
ColumnAgreesWithDocument == row.diamond = row.doc.diamond

\* The sum of f over the set S.
Total(f, S) == MapThenSumSet(LAMBDA x : f[x], S)

Ledger(paid, done) == InitialDiamond + Total(Quantity, paid) + Total(Reward, done)

\* Stale writes, retries and crashes never make diamonds: a role has at most
\* what it started with, was paid and won.  It has exactly that, to the last
\* diamond, unless a payment or a second handler crossed a handler at work.
DiamondsAddUp ==
    /\ row.diamond <= Ledger(settled, row.doc.done)
    /\ crossed = {} => row.diamond = Ledger(settled, row.doc.done)

\* A receipt and its effect are stored together: the hero's level is what the
\* level ups with a receipt add up to, the history is as long as the draws'
\* receipts, and a completed level has the receipt of the battle that was won.
EffectsMatchReceipts ==
    /\ row.doc.level = 1 + Total(LevelNum, row.doc.receipts \cap LevelUp)
    /\ row.doc.history = Cardinality(row.doc.receipts \cap Gacha)
    /\ \A l \in row.doc.done :
         \E b \in row.doc.receipts \cap Win : LevelOf[b] = l

\* The same body replayed, over a reconnect or a restart too, takes effect
\* once, as long as no two handlers of the role are at work at the same time:
\* payments that cross a handler do not matter.
BodyAppliedOnce ==
    "handler" \notin crossed => \A b \in Body : applied[b] <= 1

\* A level pays its reward once, whichever bodies win it, under the same
\* condition.
LevelPaidOnce ==
    "handler" \notin crossed => \A l \in Level : rewarded[l] <= 1

Kept(old, new) ==
    /\ old.done \subseteq new.done
    /\ old.receipts \subseteq new.receipts
    /\ old.marks \subseteq new.marks
    /\ old.level <= new.level
    /\ old.history <= new.history

\* No committed progress is lost, under the same condition: levels and guide
\* segments stay completed, story flags and receipts stay, and nothing counts
\* down.
ProgressKept == [][ "handler" \notin crossed' => Kept(row.doc, row'.doc) ]_vars

=============================================================================
