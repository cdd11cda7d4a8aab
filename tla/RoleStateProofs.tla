-------------------------- MODULE RoleStateProofs --------------------------
(***************************************************************************)
(* Proofs about RoleState, for every capture, any requests, payments and   *)
(* number of connections.                                                  *)
(***************************************************************************)
EXTENDS RoleState, FiniteSetTheorems, WellFoundedInduction, TLAPS

LEMMA KindsApart ==
    /\ Win \cup Lost \cup Gacha \cup LevelUp = Body
    /\ \A q \in Gacha : q \notin Win
    /\ \A q \in LevelUp : q \notin Win
  BY DEF Body, Win, Lost, Gacha, LevelUp, Of

\* What a handler holds: of the row it works from both diamonds are the same.
Handles(h) == h \in Working /\ h.base.diamond = h.base.doc.diamond

Shape ==
    /\ row \in RoleRow
    /\ DOMAIN conn = Conn
    /\ \A c \in Conn : conn[c] # Idle => Handles(conn[c])
    /\ applied \in [Body -> Nat]
    /\ rewarded \in [Level -> Nat]

LEMMA Busy ==
    ASSUME Shape, NEW c \in Conn, conn[c].pc \in {"read", "write", "frames"}
    PROVE  conn[c] # Idle /\ Handles(conn[c])
  BY DEF Shape, Idle

LEMMA HandlerParts ==
    ASSUME NEW h, Handles(h)
    PROVE  /\ h \in Working
           /\ h.pc \in {"read", "write", "frames"} /\ h.req \in Request
           /\ h.snap \in RoleRow /\ h.base \in RoleRow /\ h.state \in Doc
           /\ h.snap.doc \in Doc /\ h.base.doc \in Doc
           /\ h.base.diamond = h.base.doc.diamond
  BY DEF Handles, Working, RoleRow

\* The patch of a request is made of a document's own kind of values.
LEMMA PatchType ==
    ASSUME NEW doc \in Doc, NEW snap \in RoleRow, NEW q \in Request
    PROVE  MergedDoc(doc, snap, q) \in Doc
<1>1. snap.doc \in Doc
  BY DEF RoleRow
<1>2. Rewards(snap.doc, q) => q \in Win /\ LevelOf[q] \in Level
  BY RequestAssumption DEF Rewards
<1>3. NextDiamond(snap, q) \in Nat
  BY <1>1, <1>2, RowAssumption DEF NextDiamond, Doc
<1>4. Completed(snap.doc, q) \subseteq Level
  BY <1>1, <1>2 DEF Completed, Doc
<1>5. NextLevel(snap.doc, q) \in Nat
  BY <1>1, RequestAssumption DEF NextLevel, Doc
<1>6. Marks(q) \subseteq Segment \cup Story
  BY DEF Marks
<1>7. Receipts(q) \subseteq Body
  BY DEF Receipts
<1>8. snap.doc.history + 1 \in Nat
  BY <1>1 DEF Doc
<1> QED
  BY <1>3, <1>4, <1>5, <1>6, <1>7, <1>8 DEF MergedDoc, Doc

LEMMA MergedType ==
    ASSUME NEW base \in RoleRow, NEW snap \in RoleRow, NEW q \in Request,
           base.diamond = base.doc.diamond
    PROVE  /\ Merged(base, snap, q) \in RoleRow
           /\ Merged(base, snap, q).diamond = Merged(base, snap, q).doc.diamond
<1>1. base.doc \in Doc /\ base.diamond \in Nat /\ base.version + 1 \in Nat
  BY DEF RoleRow
<1>2. MergedDoc(base.doc, snap, q) \in Doc
  BY <1>1, PatchType
<1>3. MergedDoc(base.doc, snap, q).diamond
        = IF Rewards(snap.doc, q) THEN NextDiamond(snap, q) ELSE base.doc.diamond
  BY <1>1 DEF MergedDoc, Doc
<1>4. (IF Rewards(snap.doc, q) THEN NextDiamond(snap, q) ELSE base.diamond)
        = MergedDoc(base.doc, snap, q).diamond
  BY <1>3
<1>5. MergedDoc(base.doc, snap, q).diamond \in Nat
  BY <1>2 DEF Doc
<1> QED
  BY <1>1, <1>2, <1>4, <1>5 DEF Merged, RoleRow

\* A handler that changes while the others stay.
LEMMA OneHandler ==
    ASSUME Shape, NEW c \in Conn, NEW h, h = Idle \/ Handles(h),
           conn' = [conn EXCEPT ![c] = h]
    PROVE  DOMAIN conn' = Conn /\ \A d \in Conn : conn'[d] # Idle => Handles(conn'[d])
<1> SUFFICES ASSUME NEW d \in Conn, conn'[d] # Idle
             PROVE  Handles(conn'[d])
  BY DEF Shape
<1>1. CASE d = c
  BY <1>1 DEF Shape
<1>2. CASE d # c
  <2>1. conn'[d] = conn[d]
    BY <1>2 DEF Shape
  <2> QED
    BY <2>1 DEF Shape
<1> QED
  BY <1>1, <1>2

-----------------------------------------------------------------------------
\* What each step does to the row and to its handler.

Agree == Shape /\ ColumnAgreesWithDocument

LEMMA BeginHandles ==
    ASSUME Agree, NEW c \in Conn, NEW q \in Request, Begin(c, q)
    PROVE  Agree' /\ Handles(conn'[c]) /\ conn'[c].pc = "read"
                  /\ conn'[c].req = q /\ conn'[c].snap = row
<1> DEFINE h == [pc |-> "read", req |-> q, snap |-> row, base |-> row,
                 state |-> row.doc, todo |-> GameplayEvent(q)]
<1>1. row \in RoleRow /\ row.doc \in Doc /\ row.diamond = row.doc.diamond
  BY DEF Agree, Shape, ColumnAgreesWithDocument, RoleRow
<1>2. h.pc = "read" /\ h.req = q /\ h.snap = row /\ h.base = row /\ h.state = row.doc
  OBVIOUS
<1>a. h \in Working
  <2>1. GameplayEvent(q) \subseteq DOMAIN Capture
    BY DEF GameplayEvent
  <2> QED
    BY <1>1, <2>1 DEF Working
<1>3. conn' = [conn EXCEPT ![c] = h]
  BY DEF Begin
<1> HIDE DEF h
<1>4. Handles(h)
  BY <1>1, <1>2, <1>a DEF Handles
<1>5. DOMAIN conn' = Conn /\ \A d \in Conn : conn'[d] # Idle => Handles(conn'[d])
  BY <1>3, <1>4, OneHandler DEF Agree
<1>6. conn'[c] = h
  BY <1>3 DEF Agree, Shape
<1>7. UNCHANGED <<row, applied, rewarded>>
  BY DEF Begin
<1> QED
  BY <1>2, <1>4, <1>5, <1>6, <1>7 DEF Agree, Shape, ColumnAgreesWithDocument

LEMMA MergeReadHandles ==
    ASSUME Agree, NEW c \in Conn, MergeRead(c)
    PROVE  Agree' /\ conn'[c] = [conn[c] EXCEPT !.pc = "write", !.base = row]
<1> DEFINE h == [conn[c] EXCEPT !.pc = "write", !.base = row]
<1>1. Handles(conn[c])
  BY Busy DEF MergeRead, Agree
<1>2. row \in RoleRow /\ row.diamond = row.doc.diamond
  BY DEF Agree, Shape, ColumnAgreesWithDocument
<1>3. Handles(h)
  BY <1>1, <1>2 DEF Handles, Working
<1>4. conn' = [conn EXCEPT ![c] = h]
  BY DEF MergeRead, Agree, Shape
<1> HIDE DEF h
<1>5. DOMAIN conn' = Conn /\ \A d \in Conn : conn'[d] # Idle => Handles(conn'[d])
  BY <1>3, <1>4, OneHandler DEF Agree
<1>6. conn'[c] = h
  BY <1>4 DEF Agree, Shape
<1>7. UNCHANGED <<row, applied, rewarded>>
  BY DEF MergeRead
<1> QED
  BY <1>5, <1>6, <1>7 DEF h, Agree, Shape, ColumnAgreesWithDocument

LEMMA MergeWriteHandles ==
    ASSUME Agree, NEW c \in Conn, MergeWrite(c)
    PROVE  /\ Agree'
           /\ \/ conn'[c] = Idle
              \/ conn'[c] = [conn[c] EXCEPT !.pc = "frames", !.state = row'.doc]
           /\ \A d \in Conn : d # c => conn'[d] = conn[d]
<1> DEFINE h == conn[c]
           new == Merged(h.base, h.snap, h.req)
           k == [h EXCEPT !.pc = "frames", !.state = new.doc]
<1>1. Handles(h)
  BY Busy DEF MergeWrite, Agree
<1>2. new \in RoleRow /\ new.diamond = new.doc.diamond
  BY <1>1, HandlerParts, MergedType
<1>3. row' = new
  BY DEF MergeWrite
<1>4. applied' \in [Body -> Nat] /\ rewarded' \in [Level -> Nat]
  BY DEF MergeWrite, Agree, Shape
<1>5. Handles(k)
  <2>1. new.doc \in Doc
    BY <1>2 DEF RoleRow
  <2> HIDE DEF h, new
  <2> QED
    BY <1>1, <2>1 DEF Handles, Working
<1>6. conn' = [conn EXCEPT ![c] = Idle] \/ conn' = [conn EXCEPT ![c] = k]
  BY DEF MergeWrite, Agree, Shape
<1>7. DOMAIN conn = Conn
  BY DEF Agree, Shape
<1>8. conn'[c] = Idle \/ conn'[c] = [h EXCEPT !.pc = "frames", !.state = row'.doc]
  BY <1>3, <1>6, <1>7
<1> HIDE DEF h, new, k
<1>9. DOMAIN conn' = Conn /\ \A d \in Conn : conn'[d] # Idle => Handles(conn'[d])
  BY <1>5, <1>6, OneHandler DEF Agree
<1> QED
  BY <1>2, <1>3, <1>4, <1>6, <1>7, <1>8, <1>9
     DEF h, Agree, Shape, ColumnAgreesWithDocument

LEMMA SendFrameHandles ==
    ASSUME Agree, NEW c \in Conn, SendFrame(c)
    PROVE  /\ Agree'
           /\ row' = row \/ row'.doc = conn[c].state
           /\ \/ conn'[c] = Idle
              \/ \E i : conn'[c] = [conn[c] EXCEPT !.todo = @ \ {i}]
           /\ \A d \in Conn : d # c => conn'[d] = conn[d]
<1> DEFINE h == conn[c]
           k == [h EXCEPT !.todo = @ \ {Min(h.todo)}]
<1>1. Handles(h)
  BY Busy DEF SendFrame, Agree
<1>2. row \in RoleRow /\ row.version \in Nat /\ row.diamond = row.doc.diamond
  BY DEF Agree, Shape, ColumnAgreesWithDocument, RoleRow
<1>3. Overwritten(h) \in RoleRow /\ Overwritten(h).diamond = Overwritten(h).doc.diamond
      /\ Overwritten(h).doc = h.state
  <2>1. h.state \in Doc /\ h.state.diamond \in Nat
    BY <1>1, HandlerParts DEF Doc
  <2> QED
    BY <1>2, <2>1 DEF Overwritten, RoleRow
<1>4. row' = Overwritten(h) \/ row' = row
  BY DEF SendFrame
<1>5. Handles(k)
  <2> HIDE DEF h
  <2> QED
    BY <1>1 DEF Handles, Working
<1>6. conn' = [conn EXCEPT ![c] = Idle] \/ conn' = [conn EXCEPT ![c] = k]
  BY DEF SendFrame, Agree, Shape
<1>7. DOMAIN conn = Conn /\ UNCHANGED <<applied, rewarded>>
  BY DEF SendFrame, Agree, Shape
<1>8. conn'[c] = Idle \/ \E i : conn'[c] = [h EXCEPT !.todo = @ \ {i}]
  BY <1>6, <1>7
<1> HIDE DEF h, k
<1>9. DOMAIN conn' = Conn /\ \A d \in Conn : conn'[d] # Idle => Handles(conn'[d])
  BY <1>5, <1>6, OneHandler DEF Agree
<1> QED
  BY <1>2, <1>3, <1>4, <1>6, <1>7, <1>8, <1>9
     DEF h, Agree, Shape, ColumnAgreesWithDocument

LEMMA SettleAgrees ==
    ASSUME Agree, NEW p \in Payment, Settle(p)
    PROVE  /\ Agree'
           /\ row'.doc = [row.doc EXCEPT !.diamond = row'.diamond]
<1>1. row \in RoleRow /\ row.doc \in Doc /\ row.diamond \in Nat /\ row.version \in Nat
  BY DEF Agree, Shape, RoleRow
<1>2. row.diamond + Quantity[p] \in Nat
  BY <1>1, RowAssumption
<1>3. row' = [row EXCEPT !.diamond = row.diamond + Quantity[p],
                         !.doc.diamond = row.diamond + Quantity[p],
                         !.version = row.version + 1]
  BY DEF Settle, Settled
<1>4. [row.doc EXCEPT !.diamond = row.diamond + Quantity[p]] \in Doc
  BY <1>1, <1>2 DEF Doc
<1> DEFINE after == row.diamond + Quantity[p]
           doc == [row.doc EXCEPT !.diamond = after]
<1> HIDE DEF after, doc
<1>5. /\ row'.doc = doc
      /\ row'.diamond = after
      /\ row' \in RoleRow
  <2>1. after \in Nat /\ doc \in Doc
    BY <1>2, <1>4 DEF after, doc
  <2>2. row' = [diamond |-> after, doc |-> doc, version |-> row.version + 1]
    BY <1>1, <1>3 DEF RoleRow, after, doc
  <2> QED
    BY <1>1, <2>1, <2>2 DEF RoleRow
<1>6. row'.doc.diamond = row'.diamond
  BY <1>1, <1>5 DEF Doc, doc
<1>7. UNCHANGED <<conn, applied, rewarded>>
  BY DEF Settle
<1> QED
  BY <1>5, <1>6, <1>7 DEF doc, Agree, Shape, ColumnAgreesWithDocument

\* A handler that ends, by a broken connection or with its server, leaves the
\* row and the other handlers as they are.
LEMMA Ended ==
    ASSUME Agree, DOMAIN conn' = Conn, \A c \in Conn : conn'[c] \in {conn[c], Idle},
           UNCHANGED <<row, applied, rewarded>>
    PROVE  Agree'
  BY DEF Agree, Shape, ColumnAgreesWithDocument

LEMMA BeginRequest ==
    ASSUME NEW c \in Conn,
           \/ HandleRiskWin(c) \/ HandleGacha(c) \/ HandleHeroLevelUp(c)
           \/ HandleLineup(c) \/ HandleChangeNickname(c) \/ HandleGuideSave(c)
           \/ HandleSimpleGameplayRequest(c) \/ HandleRiskStart(c)
    PROVE  \E q \in Request :
              Begin(c, q) /\ (q \in Body => q \notin row.doc.receipts)
<1>1. \A q \in Lineup \cup Nickname \cup Guide \cup Story \cup Start :
        q \in Request /\ q \notin Body
  BY DEF Lineup, Nickname, Guide, Story, Start, Body, Win, Lost, Gacha, LevelUp, Of
<1>2. \A q \in Win \cup Lost \cup Gacha \cup LevelUp : q \in Request
  BY DEF Win, Lost, Gacha, LevelUp, Of
<1> QED
  BY <1>1, <1>2 DEF HandleRiskWin, HandleGacha, HandleHeroLevelUp, HandleLineup,
       HandleChangeNickname, HandleGuideSave, HandleSimpleGameplayRequest,
       HandleRiskStart, Fresh

LEMMA AgreeStep == Agree /\ [Next]_vars => Agree'
<1> SUFFICES ASSUME Agree, [Next]_vars
             PROVE  Agree'
  OBVIOUS
<1>1. ASSUME NEW c \in Conn, Handler(c) PROVE Agree'
  <2>1. CASE \/ HandleRiskWin(c) \/ HandleGacha(c) \/ HandleHeroLevelUp(c)
             \/ HandleLineup(c) \/ HandleChangeNickname(c) \/ HandleGuideSave(c)
             \/ HandleSimpleGameplayRequest(c) \/ HandleRiskStart(c)
    BY <2>1, BeginRequest, BeginHandles
  <2>2. CASE MergeRead(c)
    BY <2>2, MergeReadHandles
  <2>3. CASE MergeWrite(c)
    BY <2>3, MergeWriteHandles
  <2>4. CASE SendFrame(c)
    BY <2>4, SendFrameHandles
  <2>5. CASE Disconnect(c)
    <3>1. DOMAIN conn' = Conn /\ \A d \in Conn : conn'[d] \in {conn[d], Idle}
      BY <2>5 DEF Disconnect, Agree, Shape
    <3> QED
      BY <2>5, <3>1, Ended DEF Disconnect
  <2> QED
    BY <1>1, <2>1, <2>2, <2>3, <2>4, <2>5 DEF Handler
<1>2. CASE TcpCrash
  <2>1. DOMAIN conn' = Conn /\ \A d \in Conn : conn'[d] \in {conn[d], Idle}
    BY <1>2 DEF TcpCrash
  <2> QED
    BY <1>2, <2>1, Ended DEF TcpCrash
<1>3. ASSUME NEW p \in Payment, Settle(p) PROVE Agree'
  BY <1>3, SettleAgrees
<1>4. CASE UNCHANGED vars
  BY <1>4 DEF vars, Agree, Shape, ColumnAgreesWithDocument
<1> QED
  BY <1>1, <1>2, <1>3, <1>4 DEF Next

LEMMA AgreeInit == Init => Agree
<1> SUFFICES ASSUME Init PROVE Agree
  OBVIOUS
<1>1. row \in RoleRow /\ row.diamond = row.doc.diamond
  BY RowAssumption DEF Init, RoleRow, Doc
<1> QED
  BY <1>1 DEF Init, Agree, Shape, ColumnAgreesWithDocument

\* However stale what a handler writes is, both diamonds of the row agree.
THEOREM DiamondsAgree == Spec => []ColumnAgreesWithDocument
<1>1. Agree => ColumnAgreesWithDocument
  BY DEF Agree
<1> QED
  BY <1>1, AgreeInit, AgreeStep, PTL DEF Spec

-----------------------------------------------------------------------------
\* What holds as long as no handler began while another was at work: the only
\* other writer is the settlement, which touches nothing but the diamonds, so
\* that what the handler read is what the row has.

Same(d, e) ==
    /\ d.done = e.done /\ d.receipts = e.receipts /\ d.marks = e.marks
    /\ d.level = e.level /\ d.history = e.history

\* The handler's copies of the document are up to date.
UpToDate(h, doc) ==
    /\ h.pc \in {"read", "write"} =>
         /\ Same(h.snap.doc, doc)
         /\ h.req \in Body => h.req \notin doc.receipts
    /\ h.pc = "write" => Same(h.base.doc, doc)
    /\ h.pc = "frames" => Same(h.state, doc)

OneAtWork == \A c, d \in Conn : conn[c] # Idle /\ conn[d] # Idle => c = d

CountedOnce ==
    /\ \A b \in Body : applied[b] <= 1 /\ (applied[b] = 1 => b \in row.doc.receipts)
    /\ \A l \in Level : rewarded[l] <= 1 /\ (rewarded[l] = 1 => l \in row.doc.done)

Quiet ==
    /\ OneAtWork
    /\ \A c \in Conn : conn[c] # Idle => UpToDate(conn[c], row.doc)
    /\ CountedOnce

QuietUnlessCrossed == "handler" \notin crossed => Quiet

LEMMA SameKept == ASSUME NEW d, NEW e, Same(d, e), d \in Doc PROVE Kept(d, e)
  BY DEF Same, Kept, Doc

\* A new handler, when none is at work.
LEMMA BeginQuiet ==
    ASSUME Agree, QuietUnlessCrossed, NEW c \in Conn, NEW q \in Request,
           Begin(c, q), q \in Body => q \notin row.doc.receipts
    PROVE  QuietUnlessCrossed'
<1> SUFFICES ASSUME "handler" \notin crossed'
             PROVE  Quiet'
  BY DEF QuietUnlessCrossed
<1>1. (\A d \in Conn : conn[d] = Idle) /\ "handler" \notin crossed
  BY DEF Begin, Crosses
<1>2. CountedOnce /\ UNCHANGED <<row, applied, rewarded>>
  BY <1>1 DEF QuietUnlessCrossed, Quiet, Begin
<1>3. \A d \in Conn : d # c => conn'[d] = Idle
  BY <1>1 DEF Begin, Agree, Shape
<1>4. Handles(conn'[c]) /\ conn'[c].pc = "read" /\ conn'[c].req = q
      /\ conn'[c].snap = row
  BY BeginHandles
<1>5. UpToDate(conn'[c], row'.doc)
  BY <1>2, <1>4 DEF UpToDate, Same
<1> QED
  BY <1>2, <1>3, <1>5 DEF Quiet, OneAtWork, CountedOnce

LEMMA MergeReadQuiet ==
    ASSUME Agree, QuietUnlessCrossed, NEW c \in Conn, MergeRead(c)
    PROVE  QuietUnlessCrossed'
<1> SUFFICES ASSUME "handler" \notin crossed'
             PROVE  Quiet'
  BY DEF QuietUnlessCrossed
<1>1. Quiet /\ UNCHANGED <<row, applied, rewarded>>
  BY DEF QuietUnlessCrossed, MergeRead
<1>2. conn[c] # Idle /\ conn[c].pc = "read" /\ Handles(conn[c])
  BY Busy DEF MergeRead, Agree
<1>3. \A d \in Conn : d # c => conn'[d] = conn[d]
  BY DEF MergeRead, Agree, Shape
<1>4. conn'[c] = [conn[c] EXCEPT !.pc = "write", !.base = row]
  BY MergeReadHandles
<1>5. /\ conn'[c].pc = "write" /\ conn'[c].base = row
      /\ conn'[c].req = conn[c].req /\ conn'[c].snap = conn[c].snap
  <2>1. row \in RoleRow /\ conn[c] \in Working
    BY <1>2, HandlerParts DEF Agree, Shape
  <2> QED
    BY <1>4, <2>1 DEF Working
<1>6. UpToDate(conn'[c], row'.doc)
  BY <1>1, <1>2, <1>5 DEF Quiet, UpToDate, Same
<1>7. \A d \in Conn : conn'[d] # Idle => d = c
  BY <1>1, <1>2, <1>3 DEF Quiet, OneAtWork
<1> QED
  BY <1>1, <1>6, <1>7 DEF Quiet, OneAtWork, CountedOnce

\* The document a merge writes, on a row that is as the handler read it.
LEMMA MergedKeeps ==
    ASSUME NEW base \in Doc, NEW snap \in RoleRow, NEW q \in Request,
           Same(snap.doc, base)
    PROVE  LET doc == MergedDoc(base, snap, q) IN
           /\ Kept(base, doc)
           /\ q \in Body => q \in doc.receipts
           /\ Rewards(snap.doc, q) => LevelOf[q] \in doc.done
<1> DEFINE doc == MergedDoc(base, snap, q)
<1>1. /\ doc.done = base.done \cup Completed(snap.doc, q)
      /\ doc.level = IF q \in LevelUp \cup Gacha THEN NextLevel(snap.doc, q)
                     ELSE base.level
      /\ doc.history = IF q \in Gacha THEN snap.doc.history + 1 ELSE base.history
      /\ doc.marks = base.marks \cup Marks(q)
      /\ doc.receipts = base.receipts \cup Receipts(q)
  BY DEF MergedDoc, Doc
<1>2. base.level \in Nat /\ base.history \in Nat
      /\ snap.doc.level = base.level /\ snap.doc.history = base.history
  BY DEF Doc, Same
<1>3. NextLevel(snap.doc, q) \in Nat /\ NextLevel(snap.doc, q) >= base.level
  BY <1>2, RequestAssumption DEF NextLevel
<1> HIDE DEF doc
<1>4. doc.level >= base.level /\ doc.history >= base.history
  BY <1>1, <1>2, <1>3
<1>5. Rewards(snap.doc, q) => LevelOf[q] \in doc.done
  BY <1>1 DEF Completed
<1>6. q \in Body => q \in doc.receipts
  BY <1>1 DEF Receipts
<1>7. Kept(base, doc)
  BY <1>1, <1>2, <1>4 DEF Kept
<1> QED
  BY <1>5, <1>6, <1>7 DEF doc

LEMMA KeptTrans ==
    ASSUME NEW d, NEW e, NEW f \in Doc, Same(d, e), Kept(d, f)
    PROVE  Kept(e, f)
  BY DEF Same, Kept

LEMMA MergeWriteQuiet ==
    ASSUME Agree, QuietUnlessCrossed, NEW c \in Conn, MergeWrite(c)
    PROVE  /\ QuietUnlessCrossed'
           /\ "handler" \notin crossed' => Kept(row.doc, row'.doc)
<1> SUFFICES ASSUME "handler" \notin crossed'
             PROVE  Quiet' /\ Kept(row.doc, row'.doc)
  BY DEF QuietUnlessCrossed
<1> DEFINE h == conn[c]
           q == h.req
           doc == MergedDoc(h.base.doc, h.snap, q)
<1>1. Quiet
  BY DEF QuietUnlessCrossed, MergeWrite
<1>2. h # Idle /\ h.pc = "write" /\ Handles(h)
  BY Busy DEF MergeWrite, Agree
<1>3. /\ Same(h.snap.doc, row.doc) /\ Same(h.base.doc, row.doc)
      /\ q \in Body => q \notin row.doc.receipts
  BY <1>1, <1>2 DEF Quiet, UpToDate
<1>4. h.base.doc \in Doc /\ h.snap \in RoleRow /\ q \in Request
  BY <1>2, HandlerParts
<1>5. Same(h.snap.doc, h.base.doc)
  BY <1>3 DEF Same
<1>6. row'.doc = doc
  BY DEF MergeWrite, Merged
<1>7. /\ Kept(h.base.doc, doc)
      /\ q \in Body => q \in doc.receipts
      /\ Rewards(h.snap.doc, q) => LevelOf[q] \in doc.done
  BY <1>4, <1>5, MergedKeeps
<1>8. doc \in Doc
  BY <1>4, PatchType
<1> HIDE DEF doc
<1>9. Kept(row.doc, row'.doc)
  BY <1>3, <1>6, <1>7, <1>8, KeptTrans
<1>10. CountedOnce'
  <2>1. applied' = [b \in Body |-> applied[b] + IF b = q THEN 1 ELSE 0]
    BY DEF MergeWrite
  <2>2. rewarded' = [l \in Level |-> rewarded[l] +
                       IF Rewards(h.snap.doc, q) /\ l = LevelOf[q] THEN 1 ELSE 0]
    BY DEF MergeWrite
  <2>3. applied \in [Body -> Nat] /\ rewarded \in [Level -> Nat]
    BY DEF Agree, Shape
  <2>4. CountedOnce
    BY <1>1 DEF Quiet
  <2>5. row.doc.receipts \subseteq row'.doc.receipts /\ row.doc.done \subseteq row'.doc.done
    BY <1>9 DEF Kept
  <2>6. Rewards(h.snap.doc, q) => LevelOf[q] \notin row.doc.done
    BY <1>3 DEF Rewards, Same
  <2>7. ASSUME NEW b \in Body
        PROVE  applied'[b] <= 1 /\ (applied'[b] = 1 => b \in row'.doc.receipts)
    <3>1. CASE b = q
      <4>1. applied[b] = 0
        BY <1>3, <2>3, <2>4, <3>1 DEF CountedOnce
      <4> QED
        BY <1>6, <1>7, <2>1, <3>1, <4>1
    <3>2. CASE b # q
      <4>1. applied'[b] = applied[b]
        BY <2>1, <2>3, <3>2
      <4> QED
        BY <2>4, <2>5, <4>1 DEF CountedOnce
    <3> QED
      BY <3>1, <3>2
  <2>8. ASSUME NEW l \in Level
        PROVE  rewarded'[l] <= 1 /\ (rewarded'[l] = 1 => l \in row'.doc.done)
    <3>1. CASE Rewards(h.snap.doc, q) /\ l = LevelOf[q]
      <4>1. rewarded[l] = 0
        BY <2>3, <2>4, <2>6, <3>1 DEF CountedOnce
      <4> QED
        BY <1>6, <1>7, <2>2, <3>1, <4>1
    <3>2. CASE ~(Rewards(h.snap.doc, q) /\ l = LevelOf[q])
      <4>1. rewarded'[l] = rewarded[l]
        BY <2>2, <2>3, <3>2
      <4> QED
        BY <2>4, <2>5, <4>1 DEF CountedOnce
    <3> QED
      BY <3>1, <3>2
  <2> QED
    BY <2>7, <2>8 DEF CountedOnce
<1>11. \A d \in Conn : d # c => conn'[d] = Idle
  BY <1>1, <1>2, MergeWriteHandles DEF Quiet, OneAtWork
<1>12. conn'[c] # Idle => UpToDate(conn'[c], row'.doc)
  <2> SUFFICES ASSUME conn'[c] # Idle PROVE UpToDate(conn'[c], row'.doc)
    OBVIOUS
  <2>1. conn'[c] = [h EXCEPT !.pc = "frames", !.state = row'.doc]
    BY MergeWriteHandles
  <2>2. conn'[c].pc = "frames" /\ conn'[c].state = row'.doc
    <3>1. row'.doc \in Doc /\ h \in Working
      BY <1>2, <1>6, <1>8, HandlerParts
    <3> HIDE DEF h
    <3> QED
      BY <2>1, <3>1 DEF Working
  <2> QED
    BY <2>2 DEF UpToDate, Same
<1> QED
  BY <1>9, <1>10, <1>11, <1>12 DEF Quiet, OneAtWork

LEMMA SendFrameQuiet ==
    ASSUME Agree, QuietUnlessCrossed, NEW c \in Conn, SendFrame(c)
    PROVE  /\ QuietUnlessCrossed'
           /\ "handler" \notin crossed' => Kept(row.doc, row'.doc)
<1> SUFFICES ASSUME "handler" \notin crossed'
             PROVE  Quiet' /\ Kept(row.doc, row'.doc)
  BY DEF QuietUnlessCrossed
<1> DEFINE h == conn[c]
<1>1. Quiet /\ UNCHANGED <<applied, rewarded>>
  BY DEF QuietUnlessCrossed, SendFrame
<1>2. h # Idle /\ h.pc = "frames" /\ Handles(h)
  BY Busy DEF SendFrame, Agree
<1>3. Same(h.state, row.doc)
  BY <1>1, <1>2 DEF Quiet, UpToDate
<1>4. row' = row \/ row'.doc = h.state
  BY SendFrameHandles
<1>5. Same(row.doc, row'.doc) /\ Same(h.state, row'.doc)
  BY <1>3, <1>4 DEF Same
<1>6. row.doc \in Doc
  BY DEF Agree, Shape, RoleRow
<1>7. Kept(row.doc, row'.doc)
  BY <1>5, <1>6, SameKept
<1>8. CountedOnce'
  BY <1>1, <1>5 DEF Quiet, CountedOnce, Same
<1>9. \A d \in Conn : d # c => conn'[d] = Idle
  BY <1>1, <1>2, SendFrameHandles DEF Quiet, OneAtWork
<1>10. conn'[c] # Idle => UpToDate(conn'[c], row'.doc)
  <2> SUFFICES ASSUME conn'[c] # Idle PROVE UpToDate(conn'[c], row'.doc)
    OBVIOUS
  <2>1. PICK i : conn'[c] = [h EXCEPT !.todo = @ \ {i}]
    BY SendFrameHandles
  <2>2. conn'[c].pc = "frames" /\ conn'[c].state = h.state
    BY <1>2, <2>1 DEF Handles, Working
  <2> QED
    BY <1>5, <2>2 DEF UpToDate
<1> QED
  BY <1>7, <1>8, <1>9, <1>10 DEF Quiet, OneAtWork

LEMMA SettleQuiet ==
    ASSUME Agree, QuietUnlessCrossed, NEW p \in Payment, Settle(p)
    PROVE  /\ QuietUnlessCrossed'
           /\ Same(row.doc, row'.doc)
<1>1. row'.doc = [row.doc EXCEPT !.diamond = row'.diamond] /\ row.doc \in Doc
  BY SettleAgrees DEF Agree, Shape, RoleRow
<1>2. Same(row.doc, row'.doc)
  BY <1>1 DEF Same, Doc
<1> SUFFICES ASSUME "handler" \notin crossed'
             PROVE  Quiet'
  BY <1>2 DEF QuietUnlessCrossed
<1>3. Quiet /\ UNCHANGED <<conn, applied, rewarded>>
  BY DEF QuietUnlessCrossed, Settle, Crosses
<1>4. \A c \in Conn : conn[c] # Idle => UpToDate(conn'[c], row'.doc)
  BY <1>2, <1>3 DEF Quiet, UpToDate, Same
<1> QED
  BY <1>2, <1>3, <1>4 DEF Quiet, OneAtWork, CountedOnce, Same

\* Handlers end and the row stays.
LEMMA EndedQuiet ==
    ASSUME QuietUnlessCrossed, \A c \in Conn : conn'[c] \in {conn[c], Idle},
           UNCHANGED <<row, applied, rewarded, crossed>>
    PROVE  QuietUnlessCrossed'
<1> SUFFICES ASSUME "handler" \notin crossed
             PROVE  Quiet'
  BY DEF QuietUnlessCrossed
<1>1. Quiet
  BY DEF QuietUnlessCrossed
<1>2. \A c \in Conn : conn'[c] # Idle => conn'[c] = conn[c] /\ UpToDate(conn'[c], row'.doc)
  BY <1>1 DEF Quiet, UpToDate
<1> QED
  BY <1>1, <1>2 DEF Quiet, OneAtWork, CountedOnce

LEMMA QuietStep ==
    Agree /\ QuietUnlessCrossed /\ [Next]_vars
      => /\ QuietUnlessCrossed'
         /\ "handler" \notin crossed' => Kept(row.doc, row'.doc)
<1> SUFFICES ASSUME Agree, QuietUnlessCrossed, [Next]_vars
             PROVE  /\ QuietUnlessCrossed'
                    /\ "handler" \notin crossed' => Kept(row.doc, row'.doc)
  OBVIOUS
<1>1. row.doc \in Doc
  BY DEF Agree, Shape, RoleRow
<1>2. UNCHANGED row => Kept(row.doc, row'.doc)
  BY <1>1 DEF Kept, Doc
<1>3. ASSUME NEW c \in Conn, Handler(c)
      PROVE  /\ QuietUnlessCrossed'
             /\ "handler" \notin crossed' => Kept(row.doc, row'.doc)
  <2>1. CASE \/ HandleRiskWin(c) \/ HandleGacha(c) \/ HandleHeroLevelUp(c)
             \/ HandleLineup(c) \/ HandleChangeNickname(c) \/ HandleGuideSave(c)
             \/ HandleSimpleGameplayRequest(c) \/ HandleRiskStart(c)
    <3>1. PICK q \in Request : Begin(c, q) /\ (q \in Body => q \notin row.doc.receipts)
      BY <2>1, BeginRequest
    <3>2. UNCHANGED row
      BY <3>1 DEF Begin
    <3> QED
      BY <1>2, <3>1, <3>2, BeginQuiet
  <2>2. CASE MergeRead(c)
    <3>1. UNCHANGED row
      BY <2>2 DEF MergeRead
    <3> QED
      BY <1>2, <2>2, <3>1, MergeReadQuiet
  <2>3. CASE MergeWrite(c)
    BY <2>3, MergeWriteQuiet
  <2>4. CASE SendFrame(c)
    BY <2>4, SendFrameQuiet
  <2>5. CASE Disconnect(c)
    <3>1. UNCHANGED <<row, applied, rewarded, crossed>>
          /\ \A d \in Conn : conn'[d] \in {conn[d], Idle}
      BY <2>5 DEF Disconnect, Agree, Shape
    <3> QED
      BY <1>2, <3>1, EndedQuiet
  <2> QED
    BY <1>3, <2>1, <2>2, <2>3, <2>4, <2>5 DEF Handler
<1>4. CASE TcpCrash
  <2>1. UNCHANGED <<row, applied, rewarded, crossed>>
        /\ \A d \in Conn : conn'[d] \in {conn[d], Idle}
    BY <1>4 DEF TcpCrash
  <2> QED
    BY <1>2, <2>1, EndedQuiet
<1>5. ASSUME NEW p \in Payment, Settle(p)
      PROVE  QuietUnlessCrossed' /\ Kept(row.doc, row'.doc)
  BY <1>1, <1>5, SettleQuiet, SameKept
<1>6. CASE UNCHANGED vars
  <2>1. UNCHANGED <<row, conn, applied, rewarded, crossed>>
    BY <1>6 DEF vars
  <2> QED
    BY <1>2, <2>1, EndedQuiet
<1> QED
  BY <1>3, <1>4, <1>5, <1>6 DEF Next

LEMMA QuietInit == Init => QuietUnlessCrossed
  BY DEF Init, QuietUnlessCrossed, Quiet, OneAtWork, CountedOnce, Idle

\* A body that is replayed takes effect once and a level pays once, whatever
\* payments, broken connections and restarts come between, as long as no two
\* handlers of the role are at work at the same time.
THEOREM AppliedOnce == Spec => [](BodyAppliedOnce /\ LevelPaidOnce)
<1>1. QuietUnlessCrossed => BodyAppliedOnce /\ LevelPaidOnce
  BY DEF QuietUnlessCrossed, Quiet, CountedOnce, BodyAppliedOnce, LevelPaidOnce
<1> QED
  BY <1>1, AgreeInit, AgreeStep, QuietInit, QuietStep, PTL DEF Spec

\* Whichever bodies win a level, in whatever order, its reward is paid once.
THEOREM LevelsPayOnce == Spec => []LevelPaidOnce
  BY AppliedOnce, PTL

\* Under the same condition no step loses progress.
THEOREM ProgressStays == Spec => ProgressKept
<1>1. Agree /\ QuietUnlessCrossed /\ [Next]_vars
        => ["handler" \notin crossed' => Kept(row.doc, row'.doc)]_vars
  BY QuietStep
<1> QED
  BY <1>1, AgreeInit, AgreeStep, QuietInit, QuietStep, PTL DEF Spec, ProgressKept

-----------------------------------------------------------------------------
\* Sums.  Total recurses over sets; what it adds up to is the size of a set,
\* about which the library has the facts.

\* The total, counted in units: a sum without recursion.
Units(f, S) == UNION { {x} \X (1..f[x]) : x \in S }

LEMMA UnitsFinite ==
    ASSUME NEW S, NEW f, NEW T, IsFiniteSet(T), T \subseteq S, f \in [S -> Nat]
    PROVE  IsFiniteSet(Units(f, T)) /\ Cardinality(Units(f, T)) \in Nat
<1> DEFINE V == { {x} \X (1..f[x]) : x \in T }
           g == [x \in T |-> {x} \X (1..f[x])]
<1>1. g \in Surjection(T, V)
  BY DEF Surjection
<1>2. IsFiniteSet(V)
  BY <1>1, FS_Surjection
<1>3. ASSUME NEW v \in V PROVE IsFiniteSet(v)
  <2>1. PICK x \in T : v = {x} \X (1..f[x])
    OBVIOUS
  <2>2. IsFiniteSet({x}) /\ IsFiniteSet(1..f[x])
    <3>1. f[x] \in Int /\ 1 \in Int
      OBVIOUS
    <3>2. IsFiniteSet(1..f[x])
      BY <3>1, FS_Interval
    <3> QED
      BY <3>2, FS_Singleton
  <2> QED
    BY <2>1, <2>2, FS_Product
<1>4. IsFiniteSet(Units(f, T))
  BY <1>2, <1>3, FS_UNION DEF Units
<1> QED
  BY <1>4, FS_CardinalityType

LEMMA UnitsAdd ==
    ASSUME NEW S, NEW f, NEW T, IsFiniteSet(T), T \subseteq S, f \in [S -> Nat],
           NEW x \in T
    PROVE  Cardinality(Units(f, T)) = f[x] + Cardinality(Units(f, T \ {x}))
<1> DEFINE U == {x} \X (1..f[x])
           W == Units(f, T \ {x})
<1>1. IsFiniteSet(U) /\ Cardinality(U) = f[x]
  <2>1. f[x] \in Nat /\ IsFiniteSet({x}) /\ Cardinality({x}) = 1
    BY FS_Singleton
  <2>2. IsFiniteSet(1..f[x]) /\ Cardinality(1..f[x]) = f[x]
    <3>1. /\ IsFiniteSet(1..f[x]) 
          /\ Cardinality(1..f[x]) = IF 1 > f[x] THEN 0 ELSE f[x] - 1 + 1
      BY <2>1, FS_Interval
    <3> QED
      BY <2>1, <3>1
  <2>3. IsFiniteSet(U) /\ Cardinality(U) = Cardinality({x}) * Cardinality(1..f[x])
    BY <2>1, <2>2, FS_Product
  <2> QED
    BY <2>1, <2>2, <2>3
<1>2. IsFiniteSet(W) /\ Cardinality(W) \in Nat
  <2>1. IsFiniteSet(T \ {x}) /\ T \ {x} \subseteq S
    BY FS_RemoveElement
  <2> QED
    BY <2>1, UnitsFinite
<1>3. U \cap W = {}
  BY DEF Units
<1>4. Units(f, T) = U \cup W
  BY DEF Units
<1>5. Cardinality(U \cup W) = Cardinality(U) + Cardinality(W) - Cardinality(U \cap W)
  BY <1>1, <1>2, FS_Union
<1>6. Cardinality(U \cap W) = 0
  BY <1>3, FS_EmptySet
<1> HIDE DEF U, W
<1>7. Cardinality(U \cup W) = f[x] + Cardinality(W)
  BY <1>1, <1>2, <1>5, <1>6
<1> QED
  BY <1>4, <1>7 DEF W

Pick(s) == CHOOSE x \in s : TRUE

IsSum(g, f, S) ==
    g = [s \in SUBSET S |-> IF s = {} THEN 0 ELSE f[Pick(s)] + g[s \ {Pick(s)}]]

LEMMA TotalDef ==
    ASSUME NEW S, NEW f
    PROVE  Total(f, S) = (CHOOSE g : IsSum(g, f, S))[S]
  BY DEF Total, MapThenSumSet, MapThenFoldSet, Pick, IsSum

LEMMA PickIn == ASSUME NEW s, s # {} PROVE Pick(s) \in s
  BY DEF Pick

LEMMA SumsAreUnits ==
    ASSUME NEW S, NEW f, NEW T, IsFiniteSet(T), T \subseteq S, f \in [S -> Nat]
    PROVE  /\ IsSum([s \in SUBSET T |-> Cardinality(Units(f, s))], f, T)
           /\ \A g : IsSum(g, f, T) => g[T] = Cardinality(Units(f, T))
<1> DEFINE size(s) == Cardinality(Units(f, s))
<1>0. \A s \in SUBSET T : IsFiniteSet(s) /\ s \subseteq S
  BY FS_Subset
<1>1. size({}) = 0
  <2>1. Units(f, {}) = {}
    BY DEF Units
  <2> QED
    BY <2>1, FS_EmptySet
<1>2. \A s \in SUBSET T : s # {} => size(s) = f[Pick(s)] + size(s \ {Pick(s)})
  BY <1>0, PickIn, UnitsAdd
<1> HIDE DEF size
<1>3. IsSum([s \in SUBSET T |-> size(s)], f, T)
  <2> DEFINE g == [s \in SUBSET T |-> size(s)]
  <2>1. \A s \in SUBSET T : g[s] = IF s = {} THEN 0 ELSE f[Pick(s)] + g[s \ {Pick(s)}]
    BY <1>1, <1>2
  <2> HIDE DEF g
  <2>2. g = [s \in SUBSET T |-> g[s]]
    BY DEF g
  <2>3. g = [s \in SUBSET T |-> IF s = {} THEN 0 ELSE f[Pick(s)] + g[s \ {Pick(s)}]]
    BY <2>1, <2>2
  <2> QED
    BY <2>3 DEF IsSum, g
<1>4. ASSUME NEW g, IsSum(g, f, T)
      PROVE  g[T] = size(T)
  <2> DEFINE Bad == {s \in SUBSET T : g[s] # size(s)}
             R == StrictSubsetOrdering(T)
  <2> SUFFICES ASSUME Bad # {} PROVE FALSE
    OBVIOUS
  <2>1. IsWellFoundedOn(R, FiniteSubsetsOf(T))
    BY FS_StrictSubsetOrderingWellFounded
  <2>2. Bad \subseteq FiniteSubsetsOf(T)
    BY <1>0 DEF FiniteSubsetsOf
  <2>3. PICK s \in Bad : \A t \in Bad : <<t, s>> \notin R
    BY <2>1, <2>2, WFMin
  <2>4. g[s] = IF s = {} THEN 0 ELSE f[Pick(s)] + g[s \ {Pick(s)}]
    BY <1>4 DEF IsSum
  <2>5. s # {}
    BY <1>1, <2>4
  <2>6. s \ {Pick(s)} \notin Bad
    BY <2>3, <2>5, PickIn DEF StrictSubsetOrdering
  <2> QED
    BY <1>2, <2>4, <2>5, <2>6
<1> QED
  BY <1>3, <1>4 DEF size

\* What the sum of the community modules adds up to.
LEMMA TotalCounts ==
    ASSUME NEW S, NEW f, NEW T, IsFiniteSet(T), T \subseteq S, f \in [S -> Nat]
    PROVE  Total(f, T) = Cardinality(Units(f, T))
<1>1. \E g : IsSum(g, f, T)
  BY SumsAreUnits
<1>2. IsSum(CHOOSE g : IsSum(g, f, T), f, T)
  BY <1>1
<1> QED
  BY <1>2, SumsAreUnits, TotalDef

LEMMA TotalType ==
    ASSUME NEW S, NEW f, NEW T, IsFiniteSet(T), T \subseteq S, f \in [S -> Nat]
    PROVE  Total(f, T) \in Nat
  BY TotalCounts, UnitsFinite

LEMMA TotalEmpty ==
    ASSUME NEW S, NEW f, f \in [S -> Nat]
    PROVE  Total(f, {}) = 0
<1>1. Units(f, {}) = {} /\ IsFiniteSet({})
  BY FS_EmptySet DEF Units
<1> QED
  BY <1>1, TotalCounts, FS_EmptySet

LEMMA TotalAdd ==
    ASSUME NEW S, NEW f, NEW T, IsFiniteSet(T), T \subseteq S, f \in [S -> Nat],
           NEW x \in S, x \notin T
    PROVE  Total(f, T \cup {x}) = Total(f, T) + f[x]
<1>1. IsFiniteSet(T \cup {x}) /\ T \cup {x} \subseteq S /\ (T \cup {x}) \ {x} = T
  BY FS_AddElement
<1>2. Total(f, T) \in Nat /\ f[x] \in Nat
  BY TotalType
<1> QED
  BY <1>1, <1>2, TotalCounts, UnitsAdd

LEMMA TotalMonotone ==
    ASSUME NEW S, NEW f, NEW T, IsFiniteSet(T), T \subseteq S, f \in [S -> Nat],
           NEW U \in SUBSET T
    PROVE  Total(f, U) <= Total(f, T)
<1>1. IsFiniteSet(U) /\ U \subseteq S
  BY FS_Subset
<1>2. Units(f, U) \subseteq Units(f, T)
  BY DEF Units
<1>3. Cardinality(Units(f, U)) <= Cardinality(Units(f, T))
  BY <1>2, UnitsFinite, FS_Subset
<1> QED
  BY <1>1, <1>3, TotalCounts

-----------------------------------------------------------------------------
\* Who holds the thread: the handler between its read and its merge, so that of
\* the row it read nothing but the diamonds can change before it writes.

Threads ==
    /\ running \in Conn \cup {NoConn}
    /\ \A c \in Conn : conn[c].pc \in {"read", "write"} => running = c
    /\ settled \subseteq Payment
    /\ IsFiniteSet(settled)
    /\ crossed \subseteq {"handler", "payment"}

LEMMA ThreadsInit == Init => Threads
  BY FS_EmptySet DEF Init, Threads, Idle

LEMMA ThreadsStep == Agree /\ Threads /\ [Next]_vars => Threads'
<1> SUFFICES ASSUME Agree, Threads, [Next]_vars
             PROVE  Threads'
  OBVIOUS
<1>1. DOMAIN conn = Conn /\ Idle.pc = "idle"
  BY DEF Agree, Shape, Idle
<1>2. ASSUME NEW c \in Conn, Handler(c) PROVE Threads'
  <2>1. CASE \/ HandleRiskWin(c) \/ HandleGacha(c) \/ HandleHeroLevelUp(c)
             \/ HandleLineup(c) \/ HandleChangeNickname(c) \/ HandleGuideSave(c)
             \/ HandleSimpleGameplayRequest(c) \/ HandleRiskStart(c)
    <3>1. PICK q \in Request : Begin(c, q)
      BY <2>1, BeginRequest
    <3> QED
      BY <1>1, <3>1, RowAssumption DEF Begin, Crosses, Threads
  <2>2. CASE MergeRead(c)
    <3>1. \A d \in Conn : conn'[d].pc \in {"read", "write"} => d = c \/ conn'[d] = conn[d]
      BY <1>1, <2>2 DEF MergeRead
    <3> QED
      BY <2>2, <3>1 DEF MergeRead, Threads
  <2>3. CASE MergeWrite(c)
    <3>1. conn'[c].pc \notin {"read", "write"}
      <4>1. conn'[c] = Idle \/ conn'[c] = [conn[c] EXCEPT !.pc = "frames", !.state = row'.doc]
        BY <2>3, MergeWriteHandles
      <4>2. conn[c] \in Working
        BY <2>3, Busy, HandlerParts DEF MergeWrite, Agree
      <4> QED
        BY <1>1, <4>1, <4>2 DEF Working
    <3>2. \A d \in Conn : d # c => conn'[d] = conn[d]
      BY <2>3, MergeWriteHandles
    <3>3. running = c /\ running' \in {c, NoConn} /\ UNCHANGED <<settled, crossed>>
      BY <2>3 DEF MergeWrite
    <3> QED
      BY <3>1, <3>2, <3>3 DEF Threads
  <2>4. CASE SendFrame(c)
    <3>1. conn'[c].pc \notin {"read", "write"}
      <4>1. conn'[c] = Idle \/ \E i : conn'[c] = [conn[c] EXCEPT !.todo = @ \ {i}]
        BY <2>4, SendFrameHandles
      <4>2. conn[c] \in Working /\ conn[c].pc = "frames"
        BY <2>4, Busy, HandlerParts DEF SendFrame, Agree
      <4> QED
        BY <1>1, <4>1, <4>2 DEF Working
    <3>2. \A d \in Conn : d # c => conn'[d] = conn[d]
      BY <2>4, SendFrameHandles
    <3>3. \A d \in Conn : d # c => conn[d].pc \notin {"read", "write"}
      BY <2>4, RowAssumption DEF SendFrame, Threads
    <3> QED
      BY <2>4, <3>1, <3>2, <3>3 DEF SendFrame, Threads
  <2>5. CASE Disconnect(c)
    BY <1>1, <2>5 DEF Disconnect, Threads
  <2> QED
    BY <1>2, <2>1, <2>2, <2>3, <2>4, <2>5 DEF Handler
<1>3. CASE TcpCrash
  BY <1>1, <1>3 DEF TcpCrash, Threads
<1>4. ASSUME NEW p \in Payment, Settle(p) PROVE Threads'
  BY <1>4, FS_AddElement DEF Settle, Crosses, Threads
<1>5. CASE UNCHANGED vars
  BY <1>5 DEF vars, Threads
<1> QED
  BY <1>2, <1>3, <1>4, <1>5 DEF Next

\* Every variable has its type, and only a handler between its read and its
\* first send holds the thread.
THEOREM TypeCorrect == Spec => []TypeOK
<1>1. Agree /\ Threads => TypeOK
  BY DEF Agree, Shape, Threads, Handles, TypeOK
<1> QED
  BY <1>1, AgreeInit, AgreeStep, ThreadsInit, ThreadsStep, PTL DEF Spec

-----------------------------------------------------------------------------
\* Receipts and effects.  Every document that anybody holds was written whole
\* at some time, so that its effects are those of its receipts; and a patch is
\* made from a document like the one it lands on.

Matched(doc) ==
    /\ IsFiniteSet(doc.receipts)
    /\ doc.level = 1 + Total(LevelNum, doc.receipts \cap LevelUp)
    /\ doc.history = Cardinality(doc.receipts \cap Gacha)
    /\ \A l \in doc.done : \E b \in doc.receipts \cap Win : LevelOf[b] = l

\* What handler h works from, when the document of the row is doc.
FitsRow(h, doc) ==
    /\ Matched(h.snap.doc) /\ Matched(h.base.doc) /\ Matched(h.state)
    /\ h.pc \in {"read", "write"} =>
         /\ Same(h.snap.doc, doc)
         /\ h.req \in Body => h.req \notin doc.receipts
    /\ h.pc = "write" => Same(h.base.doc, doc)

Fit ==
    /\ Matched(row.doc)
    /\ \A c \in Conn : conn[c] # Idle => FitsRow(conn[c], row.doc)

LEMMA SameMatched == ASSUME NEW d, NEW e, Same(d, e), Matched(d) PROVE Matched(e)
  BY DEF Same, Matched

\* A patch with a receipt that is not stored yet, on the document it was made
\* from but for the diamonds.
LEMMA MergedMatched ==
    ASSUME NEW base \in Doc, NEW snap \in RoleRow, NEW q \in Request,
           Same(snap.doc, base), Matched(base), q \in Body => q \notin base.receipts
    PROVE  Matched(MergedDoc(base, snap, q))
<1> DEFINE doc == MergedDoc(base, snap, q)
           R == base.receipts
<1>1. /\ doc.done = base.done \cup Completed(snap.doc, q)
      /\ doc.level = IF q \in LevelUp \cup Gacha THEN NextLevel(snap.doc, q)
                     ELSE base.level
      /\ doc.history = IF q \in Gacha THEN snap.doc.history + 1 ELSE base.history
      /\ doc.receipts = R \cup Receipts(q)
  BY DEF MergedDoc, Doc
<1>2. /\ base.level \in Nat /\ base.history \in Nat /\ R \subseteq Body
      /\ snap.doc.level = base.level /\ snap.doc.history = base.history
      /\ snap.doc.done = base.done
  BY DEF Doc, Same
<1>3. IsFiniteSet(R) /\ base.level = 1 + Total(LevelNum, R \cap LevelUp)
      /\ base.history = Cardinality(R \cap Gacha)
  BY DEF Matched
<1>4. IsFiniteSet(R \cap LevelUp) /\ IsFiniteSet(R \cap Gacha)
  BY <1>3, FS_Intersection
<1> HIDE DEF doc
<1>5. IsFiniteSet(doc.receipts)
  <2>1. doc.receipts = R \/ doc.receipts = R \cup {q}
    BY <1>1 DEF Receipts
  <2> QED
    BY <1>3, <2>1, FS_AddElement
<1>6. doc.level = 1 + Total(LevelNum, doc.receipts \cap LevelUp)
  <2>1. CASE q \in LevelUp
    <3>1. q \in Body /\ q \notin R \cap LevelUp
          /\ doc.receipts \cap LevelUp = (R \cap LevelUp) \cup {q}
      BY <1>1, <2>1, KindsApart DEF Receipts
    <3>2. Total(LevelNum, (R \cap LevelUp) \cup {q})
            = Total(LevelNum, R \cap LevelUp) + LevelNum[q]
      <4> DEFINE T == R \cap LevelUp
      <4>1. IsFiniteSet(T) /\ T \subseteq LevelUp /\ LevelNum \in [LevelUp -> Nat] /\ q \notin T
        BY <1>4, <3>1, RequestAssumption
      <4> HIDE DEF T
      <4>2. Total(LevelNum, T \cup {q}) = Total(LevelNum, T) + LevelNum[q]
        BY <2>1, <4>1, TotalAdd
      <4> QED
        BY <4>2 DEF T
    <3>3. doc.level = base.level + LevelNum[q] /\ LevelNum[q] \in Nat
      BY <1>1, <1>2, <2>1, RequestAssumption DEF NextLevel
    <3>4. Total(LevelNum, R \cap LevelUp) \in Nat
      BY <1>4, TotalType, RequestAssumption
    <3>5. doc.level = (1 + Total(LevelNum, R \cap LevelUp)) + LevelNum[q]
      BY <1>3, <3>3
    <3>6. doc.level = 1 + (Total(LevelNum, R \cap LevelUp) + LevelNum[q])
      BY <3>3, <3>4, <3>5
    <3> QED
      BY <3>1, <3>2, <3>6
  <2>2. CASE q \notin LevelUp
    <3>1. doc.receipts \cap LevelUp = R \cap LevelUp
      BY <1>1, <2>2 DEF Receipts
    <3>2. doc.level = base.level
      BY <1>1, <1>2, <2>2 DEF NextLevel
    <3> QED
      BY <1>3, <3>1, <3>2
  <2> QED
    BY <2>1, <2>2
<1>7. doc.history = Cardinality(doc.receipts \cap Gacha)
  <2>1. CASE q \in Gacha
    <3>1. q \in Body /\ q \notin R \cap Gacha
          /\ doc.receipts \cap Gacha = (R \cap Gacha) \cup {q}
      BY <1>1, <2>1, KindsApart DEF Receipts
    <3>2. Cardinality((R \cap Gacha) \cup {q}) = Cardinality(R \cap Gacha) + 1
      BY <1>4, <3>1, FS_AddElement
    <3> QED
      BY <1>1, <1>2, <1>3, <2>1, <3>1, <3>2
  <2>2. CASE q \notin Gacha
    <3>1. doc.receipts \cap Gacha = R \cap Gacha
      BY <1>1, <2>2 DEF Receipts
    <3> QED
      BY <1>1, <1>3, <2>2, <3>1
  <2> QED
    BY <2>1, <2>2
<1>8. ASSUME NEW l \in doc.done
      PROVE  \E b \in doc.receipts \cap Win : LevelOf[b] = l
  <2>1. CASE l \in base.done
    BY <1>1, <2>1 DEF Matched
  <2>2. CASE l \notin base.done
    <3>1. q \in Win /\ l = LevelOf[q] /\ q \in Body
      BY <1>1, <1>2, <2>2, KindsApart DEF Completed, Rewards
    <3> QED
      BY <1>1, <3>1 DEF Receipts
  <2> QED
    BY <2>1, <2>2
<1> QED
  BY <1>5, <1>6, <1>7, <1>8 DEF doc, Matched

\* A handler goes on fitting a row that only settlements write; and one that has
\* merged fits every row.
LEMMA StillFits ==
    ASSUME NEW h, NEW doc, NEW new, FitsRow(h, doc),
           Same(doc, new) \/ h.pc \notin {"read", "write"}
    PROVE  FitsRow(h, new)
  BY DEF FitsRow, Same

LEMMA FitInit == Init => Fit
<1> SUFFICES ASSUME Init PROVE Fit
  OBVIOUS
<1>1. row.doc.receipts = {} /\ row.doc.done = {} /\ row.doc.level = 1 /\ row.doc.history = 0
  BY DEF Init
<1>2. Total(LevelNum, {}) = 0
  BY TotalEmpty, RequestAssumption
<1>3. Matched(row.doc)
  BY <1>1, <1>2, FS_EmptySet DEF Matched
<1> QED
  BY <1>3 DEF Init, Fit

LEMMA FitStep ==
    ASSUME Agree, Threads, Fit, [Next]_vars
    PROVE  Fit'
<1>1. DOMAIN conn = Conn /\ row.doc \in Doc
  BY DEF Agree, Shape, RoleRow
<1>2. ASSUME NEW c \in Conn, NEW q \in Request, Begin(c, q), q \in Body => q \notin row.doc.receipts
      PROVE  Fit'
  <2>1. conn'[c].pc = "read" /\ conn'[c].req = q /\ conn'[c].snap = row
        /\ conn'[c].base = row /\ conn'[c].state = row.doc
    BY <1>1, <1>2 DEF Begin
  <2>2. FitsRow(conn'[c], row.doc)
    BY <1>2, <2>1 DEF Fit, FitsRow, Same
  <2>3. \A d \in Conn : d # c => conn'[d] = conn[d]
    BY <1>1, <1>2 DEF Begin
  <2>4. UNCHANGED row
    BY <1>2 DEF Begin
  <2> QED
    BY <2>2, <2>3, <2>4 DEF Fit
<1>3. ASSUME NEW c \in Conn, MergeRead(c) PROVE Fit'
  <2>1. conn[c] \in Working /\ conn[c] # Idle /\ conn[c].pc = "read"
    BY <1>3, Busy, HandlerParts DEF MergeRead, Agree
  <2>2. conn'[c].pc = "write" /\ conn'[c].base = row /\ conn'[c].req = conn[c].req
        /\ conn'[c].snap = conn[c].snap /\ conn'[c].state = conn[c].state
    BY <1>1, <1>3, <2>1 DEF MergeRead, Working
  <2>3. FitsRow(conn'[c], row.doc)
    BY <2>1, <2>2 DEF Fit, FitsRow, Same
  <2>4. (\A d \in Conn : d # c => conn'[d] = conn[d]) /\ UNCHANGED row
    BY <1>1, <1>3 DEF MergeRead
  <2> QED
    BY <2>3, <2>4 DEF Fit
<1>4. ASSUME NEW c \in Conn, MergeWrite(c) PROVE Fit'
  <2> DEFINE h == conn[c]
  <2>1. Handles(h) /\ h # Idle /\ h.pc = "write"
    BY <1>4, Busy DEF MergeWrite, Agree
  <2>2. h \in Working /\ h.base.doc \in Doc /\ h.snap \in RoleRow /\ h.req \in Request
    BY <2>1, HandlerParts
  <2>3. FitsRow(h, row.doc)
    BY <2>1 DEF Fit
  <2>4. Same(h.snap.doc, h.base.doc) /\ Matched(h.base.doc)
        /\ (h.req \in Body => h.req \notin h.base.doc.receipts)
    BY <2>1, <2>3 DEF FitsRow, Same
  <2>5. row'.doc = MergedDoc(h.base.doc, h.snap, h.req)
    BY <1>4 DEF MergeWrite, Merged
  <2>6. Matched(row'.doc)
    BY <2>2, <2>4, <2>5, MergedMatched
  <2>7. conn'[c] # Idle => FitsRow(conn'[c], row'.doc)
    <3> SUFFICES ASSUME conn'[c] # Idle PROVE FitsRow(conn'[c], row'.doc)
      OBVIOUS
    <3>1. conn'[c] = [h EXCEPT !.pc = "frames", !.state = row'.doc]
      BY <1>4, MergeWriteHandles
    <3>2. conn'[c].pc = "frames" /\ conn'[c].state = row'.doc
          /\ conn'[c].snap = h.snap /\ conn'[c].base = h.base
      BY <2>2, <3>1 DEF Working
    <3> QED
      BY <2>3, <2>6, <3>2 DEF FitsRow
  <2>8. ASSUME NEW d \in Conn, d # c, conn'[d] # Idle
        PROVE  FitsRow(conn'[d], row'.doc)
    <3>1. conn'[d] = conn[d]
      BY <1>4, <2>8, MergeWriteHandles
    <3>2. conn[d].pc \notin {"read", "write"}
      BY <1>4, <2>8 DEF MergeWrite, Threads
    <3>3. FitsRow(conn[d], row.doc)
      BY <2>8, <3>1 DEF Fit
    <3> QED
      BY <3>1, <3>2, <3>3, StillFits
  <2> QED
    BY <2>6, <2>7, <2>8 DEF Fit
<1>5. ASSUME NEW c \in Conn, SendFrame(c) PROVE Fit'
  <2> DEFINE h == conn[c]
  <2>1. h \in Working /\ h # Idle /\ h.pc = "frames"
    BY <1>5, Busy, HandlerParts DEF SendFrame, Agree
  <2>2. FitsRow(h, row.doc)
    BY <2>1 DEF Fit
  <2>3. Matched(row'.doc)
    BY <1>5, <2>2, SendFrameHandles DEF Fit, FitsRow
  <2>4. conn'[c] # Idle => FitsRow(conn'[c], row'.doc)
    <3> SUFFICES ASSUME conn'[c] # Idle PROVE FitsRow(conn'[c], row'.doc)
      OBVIOUS
    <3>1. PICK i : conn'[c] = [h EXCEPT !.todo = @ \ {i}]
      BY <1>5, SendFrameHandles
    <3>2. conn'[c].pc = "frames" /\ conn'[c].state = h.state
          /\ conn'[c].snap = h.snap /\ conn'[c].base = h.base
      BY <2>1, <3>1 DEF Working
    <3> QED
      BY <2>2, <3>2 DEF FitsRow
  <2>5. ASSUME NEW d \in Conn, d # c, conn'[d] # Idle
        PROVE  FitsRow(conn'[d], row'.doc)
    <3>1. conn'[d] = conn[d]
      BY <1>5, <2>5, SendFrameHandles
    <3>2. conn[d].pc \notin {"read", "write"}
      BY <1>5, <2>5, RowAssumption DEF SendFrame, Threads
    <3>3. FitsRow(conn[d], row.doc)
      BY <2>5, <3>1 DEF Fit
    <3> QED
      BY <3>1, <3>2, <3>3, StillFits
  <2> QED
    BY <2>3, <2>4, <2>5 DEF Fit
<1>6. ASSUME NEW p \in Payment, Settle(p) PROVE Fit'
  <2>1. Same(row.doc, row'.doc)
    BY <1>1, <1>6, SettleAgrees DEF Same, Doc
  <2>2. UNCHANGED conn
    BY <1>6 DEF Settle
  <2> QED
    BY <2>1, <2>2, SameMatched, StillFits DEF Fit
<1>7. ASSUME \A c \in Conn : conn'[c] \in {conn[c], Idle}, UNCHANGED row
      PROVE  Fit'
  BY <1>7 DEF Fit
<1>8. ASSUME NEW c \in Conn, Handler(c) PROVE Fit'
  <2>1. CASE \/ HandleRiskWin(c) \/ HandleGacha(c) \/ HandleHeroLevelUp(c)
             \/ HandleLineup(c) \/ HandleChangeNickname(c) \/ HandleGuideSave(c)
             \/ HandleSimpleGameplayRequest(c) \/ HandleRiskStart(c)
    BY <1>2, <2>1, BeginRequest
  <2>2. CASE Disconnect(c)
    BY <1>1, <1>7, <2>2 DEF Disconnect
  <2> QED
    BY <1>3, <1>4, <1>5, <1>8, <2>1, <2>2 DEF Handler
<1>9. CASE TcpCrash
  BY <1>1, <1>7, <1>9 DEF TcpCrash
<1>10. CASE UNCHANGED vars
  BY <1>7, <1>10 DEF vars
<1> QED
  BY <1>6, <1>8, <1>9, <1>10 DEF Next

\* Whatever was overwritten, lost or repeated, the row's levels, draws and
\* completed battles are those of the receipts it has.
THEOREM EffectsHaveReceipts == Spec => []EffectsMatchReceipts
<1>1. Fit => EffectsMatchReceipts
  BY DEF Fit, Matched, EffectsMatchReceipts
<1> QED
  BY <1>1, AgreeInit, AgreeStep, ThreadsInit, ThreadsStep, FitInit, FitStep, PTL DEF Spec

-----------------------------------------------------------------------------
\* The ledger of diamonds.  A document has at most the diamonds that were paid
\* and those of the levels it has; as long as nothing crossed a handler, every
\* copy of the document has as many as the row.

Covered(doc, paid) ==
    /\ IsFiniteSet(doc.done)
    /\ doc.diamond <= Ledger(paid, doc.done)

AllCovered ==
    /\ Covered(row.doc, settled)
    /\ \A c \in Conn : conn[c] # Idle =>
         /\ Covered(conn[c].snap.doc, settled)
         /\ Covered(conn[c].base.doc, settled)
         /\ Covered(conn[c].state, settled)

\* The diamonds of the handler's copies are those of the row.
UpToDateDiamonds(h, diamond) ==
    /\ h.pc \in {"read", "write"} => h.snap.doc.diamond = diamond
    /\ h.pc = "write" => h.base.doc.diamond = diamond
    /\ h.pc = "frames" => h.state.diamond = diamond

Exact ==
    crossed = {} =>
      /\ row.doc.diamond = Ledger(settled, row.doc.done)
      /\ \A c \in Conn : conn[c] # Idle => UpToDateDiamonds(conn[c], row.doc.diamond)

LEMMA LedgerType ==
    ASSUME NEW paid \in SUBSET Payment, NEW done \in SUBSET Level,
           IsFiniteSet(paid), IsFiniteSet(done)
    PROVE  /\ Ledger(paid, done) \in Nat
           /\ Total(Quantity, paid) \in Nat /\ Total(Reward, done) \in Nat
<1>1. Total(Quantity, paid) \in Nat /\ Total(Reward, done) \in Nat
  BY TotalType, RowAssumption
<1> QED
  BY <1>1, RowAssumption DEF Ledger

LEMMA LedgerMonotone ==
    ASSUME NEW paid \in SUBSET Payment, NEW done \in SUBSET Level,
           IsFiniteSet(paid), IsFiniteSet(done),
           NEW less \in SUBSET paid, NEW fewer \in SUBSET done
    PROVE  Ledger(less, fewer) <= Ledger(paid, done)
<1>1. Total(Quantity, less) <= Total(Quantity, paid)
  BY TotalMonotone, RowAssumption
<1>2. Total(Reward, fewer) <= Total(Reward, done)
  BY TotalMonotone, RowAssumption
<1>3. IsFiniteSet(less) /\ IsFiniteSet(fewer)
  BY FS_Subset
<1>4. /\ Total(Quantity, less) \in Nat /\ Total(Reward, fewer) \in Nat
      /\ Total(Quantity, paid) \in Nat /\ Total(Reward, done) \in Nat
  <2>1. less \in SUBSET Payment /\ fewer \in SUBSET Level
    OBVIOUS
  <2> QED
    BY <1>3, <2>1, LedgerType
<1> QED
  BY <1>1, <1>2, <1>4, RowAssumption DEF Ledger

LEMMA LedgerAddsLevel ==
    ASSUME NEW paid \in SUBSET Payment, NEW done \in SUBSET Level,
           IsFiniteSet(paid), IsFiniteSet(done), NEW l \in Level, l \notin done
    PROVE  Ledger(paid, done \cup {l}) = Ledger(paid, done) + Reward[l]
<1>1. Total(Reward, done \cup {l}) = Total(Reward, done) + Reward[l]
  BY TotalAdd, RowAssumption
<1> QED
  BY <1>1, LedgerType, RowAssumption DEF Ledger

LEMMA LedgerAddsPayment ==
    ASSUME NEW paid \in SUBSET Payment, NEW done \in SUBSET Level,
           IsFiniteSet(paid), IsFiniteSet(done), NEW p \in Payment, p \notin paid
    PROVE  Ledger(paid \cup {p}, done) = Ledger(paid, done) + Quantity[p]
<1>1. Total(Quantity, paid \cup {p}) = Total(Quantity, paid) + Quantity[p]
  BY TotalAdd, RowAssumption
<1> QED
  BY <1>1, LedgerType, RowAssumption DEF Ledger

\* More levels cover a document's diamonds as well.
LEMMA MoreLevelsCover ==
    ASSUME NEW doc \in Doc, NEW paid \in SUBSET Payment, IsFiniteSet(paid),
           Covered(doc, paid), NEW done \in SUBSET Level, IsFiniteSet(done),
           doc.done \subseteq done
    PROVE  doc.diamond <= Ledger(paid, done)
<1>1. Ledger(paid, doc.done) <= Ledger(paid, done)
  BY LedgerMonotone
<1>2. doc.diamond \in Nat /\ Ledger(paid, doc.done) \in Nat /\ Ledger(paid, done) \in Nat
  BY LedgerType DEF Covered, Doc
<1> QED
  BY <1>1, <1>2 DEF Covered

LEMMA MergedCovered ==
    ASSUME NEW base \in Doc, NEW snap \in RoleRow, NEW q \in Request,
           NEW paid \in SUBSET Payment, IsFiniteSet(paid),
           Covered(base, paid), Covered(snap.doc, paid)
    PROVE  Covered(MergedDoc(base, snap, q), paid)
<1> DEFINE doc == MergedDoc(base, snap, q)
           l == LevelOf[q]
<1>1. /\ doc.done = base.done \cup Completed(snap.doc, q)
      /\ doc.diamond = IF Rewards(snap.doc, q) THEN NextDiamond(snap, q) ELSE base.diamond
  BY DEF MergedDoc, Doc
<1>2. doc \in Doc
  BY PatchType
<1>3. snap.doc \in Doc /\ snap.doc.done \in SUBSET Level /\ snap.doc.diamond \in Nat
      /\ base.done \subseteq doc.done
  BY <1>1 DEF RoleRow, Doc
<1> HIDE DEF doc
<1>4. IsFiniteSet(doc.done) /\ doc.done \in SUBSET Level
  <2>1. Completed(snap.doc, q) \in {snap.doc.done \cup {l}, snap.doc.done, {}}
    BY DEF Completed
  <2>2. IsFiniteSet(snap.doc.done) /\ IsFiniteSet(base.done)
    BY DEF Covered
  <2>3. IsFiniteSet(snap.doc.done \cup {l})
    BY <2>2, FS_AddElement
  <2>4. IsFiniteSet(Completed(snap.doc, q))
    BY <2>1, <2>2, <2>3, FS_EmptySet
  <2> QED
    <3>1. IsFiniteSet(base.done \cup Completed(snap.doc, q))
      BY <2>2, <2>4, FS_Union
    <3>2. doc.done \in SUBSET Level
      BY <1>2 DEF Doc
    <3> QED
      BY <1>1, <3>1, <3>2
<1>5. CASE Rewards(snap.doc, q)
  <2>1. l \in Level /\ l \notin snap.doc.done /\ Reward[l] \in Nat
        /\ snap.doc.done \cup {l} \subseteq doc.done
    BY <1>1, <1>5, RequestAssumption, RowAssumption DEF Rewards, Completed
  <2>2. Ledger(paid, snap.doc.done \cup {l}) = Ledger(paid, snap.doc.done) + Reward[l]
    BY <1>3, <2>1, LedgerAddsLevel DEF Covered
  <2>3. Ledger(paid, snap.doc.done \cup {l}) <= Ledger(paid, doc.done)
    BY <1>4, <2>1, LedgerMonotone
  <2>4. Ledger(paid, snap.doc.done) \in Nat /\ Ledger(paid, doc.done) \in Nat
    BY <1>3, <1>4, LedgerType DEF Covered
  <2>5. doc.diamond = snap.doc.diamond + Reward[l]
    BY <1>1, <1>5 DEF NextDiamond
  <2>6. snap.doc.diamond <= Ledger(paid, snap.doc.done)
    BY DEF Covered
  <2>7. doc.diamond <= Ledger(paid, doc.done)
    BY <1>3, <2>1, <2>2, <2>3, <2>4, <2>5, <2>6
  <2> QED
    BY <1>4, <2>7 DEF doc, Covered
<1>6. CASE ~Rewards(snap.doc, q)
  <2>1. doc.diamond = base.diamond
    BY <1>1, <1>6
  <2>2. base.diamond <= Ledger(paid, doc.done)
    BY <1>3, <1>4, MoreLevelsCover
  <2> QED
    BY <1>4, <2>1, <2>2 DEF doc, Covered
<1> QED
  BY <1>5, <1>6

\* One more payment covers whatever was covered.
LEMMA PaidCovers ==
    ASSUME NEW doc \in Doc, NEW paid \in SUBSET Payment, IsFiniteSet(paid),
           NEW p \in Payment, Covered(doc, paid)
    PROVE  Covered(doc, paid \cup {p})
<1>1. IsFiniteSet(paid \cup {p}) /\ paid \cup {p} \in SUBSET Payment
  BY FS_AddElement
<1>2. doc.done \in SUBSET Level /\ doc.diamond \in Nat /\ IsFiniteSet(doc.done)
  BY DEF Doc, Covered
<1>3. Ledger(paid, doc.done) <= Ledger(paid \cup {p}, doc.done)
  BY <1>1, <1>2, LedgerMonotone
<1>4. Ledger(paid, doc.done) \in Nat /\ Ledger(paid \cup {p}, doc.done) \in Nat
  BY <1>1, <1>2, LedgerType
<1> QED
  BY <1>2, <1>3, <1>4 DEF Covered

\* The same for the row, which the payment is added to.
LEMMA SettledCovered ==
    ASSUME Agree, Threads, Covered(row.doc, settled), NEW p \in Payment, Settle(p)
    PROVE  /\ Covered(row'.doc, settled')
           /\ row'.doc.diamond = row.doc.diamond + Quantity[p]
           /\ row'.doc.done = row.doc.done
           /\ Ledger(settled', row.doc.done) = Ledger(settled, row.doc.done) + Quantity[p]
<1>1. row.doc \in Doc /\ row.diamond = row.doc.diamond /\ Quantity[p] \in Nat
  BY RowAssumption DEF Agree, Shape, ColumnAgreesWithDocument, RoleRow
<1>2. row.doc.done \in SUBSET Level /\ row.doc.diamond \in Nat
  BY <1>1 DEF Doc
<1>3. settled' = settled \cup {p} /\ p \notin settled
  BY DEF Settle
<1>4. Ledger(settled', row.doc.done) = Ledger(settled, row.doc.done) + Quantity[p]
  BY <1>2, <1>3, LedgerAddsPayment DEF Threads, Covered
<1>5. Ledger(settled, row.doc.done) \in Nat
  BY <1>2, LedgerType DEF Threads, Covered
<1>6. row'.doc = [row.doc EXCEPT !.diamond = row'.diamond]
  BY SettleAgrees
<1>7. row'.diamond = row.diamond + Quantity[p]
  <2>1. row \in RoleRow
    BY DEF Agree, Shape
  <2> QED
    BY <2>1 DEF Settle, Settled, RoleRow
<1>8. row'.doc.diamond = row.doc.diamond + Quantity[p] /\ row'.doc.done = row.doc.done
  BY <1>1, <1>6, <1>7 DEF Doc
<1> QED
  BY <1>1, <1>2, <1>4, <1>5, <1>8 DEF Covered

LEMMA CoveredInit == Init => AllCovered /\ Exact
<1> SUFFICES ASSUME Init PROVE AllCovered /\ Exact
  OBVIOUS
<1>1. row.doc.done = {} /\ row.doc.diamond = InitialDiamond /\ settled = {}
      /\ \A c \in Conn : conn[c] = Idle
  BY DEF Init
<1>2. Total(Quantity, {}) = 0 /\ Total(Reward, {}) = 0 /\ IsFiniteSet({})
  BY TotalEmpty, FS_EmptySet, RowAssumption
<1>3. Ledger({}, {}) = InitialDiamond
  BY <1>2, RowAssumption DEF Ledger
<1> QED
  BY <1>1, <1>2, <1>3, RowAssumption DEF AllCovered, Exact, Covered

\* The documents that a handler holds after a step are those it held, or the
\* row's.
LEMMA CoveredStep ==
    ASSUME Agree, Threads, AllCovered, [Next]_vars
    PROVE  AllCovered'
<1> DEFINE Holds(h, paid) == /\ Covered(h.snap.doc, paid) /\ Covered(h.base.doc, paid)
                             /\ Covered(h.state, paid)
<1>1. DOMAIN conn = Conn /\ row.doc \in Doc
  BY DEF Agree, Shape, RoleRow
<1>2. ASSUME NEW c \in Conn, NEW q \in Request, Begin(c, q)
      PROVE  AllCovered'
  <2>1. conn'[c].snap = row /\ conn'[c].base = row /\ conn'[c].state = row.doc
    BY <1>1, <1>2 DEF Begin
  <2>2. (\A d \in Conn : d # c => conn'[d] = conn[d]) /\ UNCHANGED <<row, settled>>
    BY <1>1, <1>2 DEF Begin
  <2> QED
    BY <2>1, <2>2 DEF AllCovered
<1>3. ASSUME NEW c \in Conn, MergeRead(c) PROVE AllCovered'
  <2>1. conn[c] \in Working /\ conn[c] # Idle
    BY <1>3, Busy, HandlerParts DEF MergeRead, Agree
  <2>2. conn'[c].base = row /\ conn'[c].snap = conn[c].snap /\ conn'[c].state = conn[c].state
    BY <1>1, <1>3, <2>1 DEF MergeRead, Working
  <2>3. (\A d \in Conn : d # c => conn'[d] = conn[d]) /\ UNCHANGED <<row, settled>>
    BY <1>1, <1>3 DEF MergeRead
  <2> QED
    BY <2>1, <2>2, <2>3 DEF AllCovered
<1>4. ASSUME NEW c \in Conn, MergeWrite(c) PROVE AllCovered'
  <2> DEFINE h == conn[c]
  <2>1. Handles(h) /\ h # Idle
    BY <1>4, Busy DEF MergeWrite, Agree
  <2>2. h \in Working /\ h.base.doc \in Doc /\ h.snap \in RoleRow /\ h.req \in Request
    BY <2>1, HandlerParts
  <2>3. Holds(h, settled)
    BY <2>1 DEF AllCovered
  <2>4. row'.doc = MergedDoc(h.base.doc, h.snap, h.req) /\ UNCHANGED settled
    BY <1>4 DEF MergeWrite, Merged
  <2>5. Covered(row'.doc, settled')
    BY <2>2, <2>3, <2>4, MergedCovered DEF Threads
  <2>6. ASSUME conn'[c] # Idle PROVE Holds(conn'[c], settled')
    <3>1. conn'[c] = [h EXCEPT !.pc = "frames", !.state = row'.doc]
      BY <1>4, <2>6, MergeWriteHandles
    <3>2. conn'[c].state = row'.doc /\ conn'[c].snap = h.snap /\ conn'[c].base = h.base
      BY <2>2, <3>1 DEF Working
    <3> QED
      BY <2>3, <2>4, <2>5, <3>2
  <2>7. \A d \in Conn : d # c => conn'[d] = conn[d]
    BY <1>4, MergeWriteHandles
  <2> QED
    BY <2>4, <2>5, <2>6, <2>7 DEF AllCovered
<1>5. ASSUME NEW c \in Conn, SendFrame(c) PROVE AllCovered'
  <2> DEFINE h == conn[c]
  <2>1. h \in Working /\ h # Idle
    BY <1>5, Busy, HandlerParts DEF SendFrame, Agree
  <2>2. Holds(h, settled) /\ UNCHANGED settled
    BY <1>5, <2>1 DEF AllCovered, SendFrame
  <2>3. Covered(row'.doc, settled')
    BY <1>5, <2>2, SendFrameHandles DEF AllCovered
  <2>4. ASSUME conn'[c] # Idle PROVE Holds(conn'[c], settled')
    <3>1. PICK i : conn'[c] = [h EXCEPT !.todo = @ \ {i}]
      BY <1>5, <2>4, SendFrameHandles
    <3>2. conn'[c].state = h.state /\ conn'[c].snap = h.snap /\ conn'[c].base = h.base
      BY <2>1, <3>1 DEF Working
    <3> QED
      BY <2>2, <3>2
  <2>5. \A d \in Conn : d # c => conn'[d] = conn[d]
    BY <1>5, SendFrameHandles
  <2> QED
    BY <2>2, <2>3, <2>4, <2>5 DEF AllCovered
<1>6. ASSUME NEW p \in Payment, Settle(p) PROVE AllCovered'
  <2>1. Covered(row'.doc, settled')
    BY <1>6, SettledCovered DEF AllCovered
  <2>2. settled' = settled \cup {p} /\ UNCHANGED conn
    BY <1>6 DEF Settle
  <2>3. ASSUME NEW c \in Conn, conn[c] # Idle
        PROVE  Holds(conn[c], settled \cup {p})
    <3>1. conn[c].snap.doc \in Doc /\ conn[c].base.doc \in Doc /\ conn[c].state \in Doc
      BY <2>3, HandlerParts DEF Agree, Shape
    <3>2. Holds(conn[c], settled)
      BY <2>3 DEF AllCovered
    <3> QED
      BY <3>1, <3>2, PaidCovers DEF Threads
  <2> QED
    BY <2>1, <2>2, <2>3 DEF AllCovered
<1>7. ASSUME \A c \in Conn : conn'[c] \in {conn[c], Idle}, UNCHANGED <<row, settled>>
      PROVE  AllCovered'
  BY <1>7 DEF AllCovered
<1>8. ASSUME NEW c \in Conn, Handler(c) PROVE AllCovered'
  <2>1. CASE \/ HandleRiskWin(c) \/ HandleGacha(c) \/ HandleHeroLevelUp(c)
             \/ HandleLineup(c) \/ HandleChangeNickname(c) \/ HandleGuideSave(c)
             \/ HandleSimpleGameplayRequest(c) \/ HandleRiskStart(c)
    BY <1>2, <2>1, BeginRequest
  <2>2. CASE Disconnect(c)
    BY <1>1, <1>7, <2>2 DEF Disconnect
  <2> QED
    BY <1>3, <1>4, <1>5, <1>8, <2>1, <2>2 DEF Handler
<1>9. CASE TcpCrash
  BY <1>1, <1>7, <1>9 DEF TcpCrash
<1>10. CASE UNCHANGED vars
  BY <1>7, <1>10 DEF vars
<1> QED
  BY <1>6, <1>8, <1>9, <1>10 DEF Next

\* As long as nothing crossed a handler at work, a merge adds the reward of the
\* level it adds.
LEMMA MergeWriteExact ==
    ASSUME Agree, Threads, QuietUnlessCrossed, AllCovered, Exact, crossed = {},
           NEW c \in Conn, MergeWrite(c)
    PROVE  row'.doc.diamond = Ledger(settled, row'.doc.done)
<1> DEFINE h == conn[c]
           snap == h.snap.doc
           l == LevelOf[h.req]
<1>1. Handles(h) /\ h # Idle /\ h.pc = "write"
  BY Busy DEF MergeWrite, Agree
<1>2. h.base.doc \in Doc /\ h.snap \in RoleRow /\ h.req \in Request
  BY <1>1, HandlerParts
<1>3. Same(snap, row.doc) /\ Same(h.base.doc, row.doc)
  BY <1>1 DEF QuietUnlessCrossed, Quiet, UpToDate
<1>4. snap.diamond = row.doc.diamond /\ h.base.doc.diamond = row.doc.diamond
      /\ row.doc.diamond = Ledger(settled, row.doc.done)
  BY <1>1 DEF Exact, UpToDateDiamonds
<1>5. row'.doc = MergedDoc(h.base.doc, h.snap, h.req)
  BY DEF MergeWrite, Merged
<1>6. /\ row'.doc.done = row.doc.done \cup Completed(snap, h.req)
      /\ row'.doc.diamond = IF Rewards(snap, h.req)
                            THEN row.doc.diamond + Reward[l] ELSE row.doc.diamond
  BY <1>2, <1>3, <1>4, <1>5 DEF MergedDoc, Doc, NextDiamond, Same
<1>7. CASE Rewards(snap, h.req)
  <2>1. l \in Level /\ l \notin row.doc.done
    BY <1>3, <1>7, RequestAssumption DEF Rewards, Same
  <2>2. row'.doc.done = row.doc.done \cup {l}
    BY <1>3, <1>6, <1>7 DEF Completed, Same
  <2>3. row.doc.done \in SUBSET Level
    BY DEF Agree, Shape, RoleRow, Doc
  <2> QED
    BY <1>4, <1>6, <1>7, <2>1, <2>2, <2>3, LedgerAddsLevel DEF AllCovered, Covered, Threads
<1>8. CASE ~Rewards(snap, h.req)
  <2>1. row'.doc.done = row.doc.done
    BY <1>3, <1>6, <1>8 DEF Completed, Same
  <2> QED
    BY <1>4, <1>6, <1>8, <2>1
<1> QED
  BY <1>7, <1>8

LEMMA ExactStep ==
    ASSUME Agree, Threads, QuietUnlessCrossed, AllCovered, Exact, [Next]_vars
    PROVE  Exact'
<1> SUFFICES ASSUME crossed' = {}
             PROVE  /\ row'.doc.diamond = Ledger(settled', row'.doc.done)
                    /\ \A c \in Conn : conn'[c] # Idle
                                       => UpToDateDiamonds(conn'[c], row'.doc.diamond)
  BY DEF Exact
<1> DEFINE Now == /\ row'.doc.diamond = Ledger(settled', row'.doc.done)
                  /\ \A c \in Conn : conn'[c] # Idle
                                     => UpToDateDiamonds(conn'[c], row'.doc.diamond)
<1>1. DOMAIN conn = Conn /\ row \in RoleRow
  BY DEF Agree, Shape
<1>2. ASSUME NEW c \in Conn, NEW q \in Request, Begin(c, q)
      PROVE  Now
  <2>1. crossed = {} /\ \A d \in Conn : conn[d] = Idle
    BY <1>2 DEF Begin, Crosses
  <2>2. conn'[c].pc = "read" /\ conn'[c].snap = row
    BY <1>1, <1>2 DEF Begin
  <2>3. (\A d \in Conn : d # c => conn'[d] = Idle) /\ UNCHANGED <<row, settled>>
    BY <1>1, <1>2, <2>1 DEF Begin
  <2> QED
    BY <2>1, <2>2, <2>3 DEF Exact, UpToDateDiamonds
<1>3. ASSUME NEW c \in Conn, MergeRead(c) PROVE Now
  <2>1. conn[c] \in Working /\ conn[c] # Idle /\ conn[c].pc = "read"
    BY <1>3, Busy, HandlerParts DEF MergeRead, Agree
  <2>2. conn'[c].pc = "write" /\ conn'[c].base = row /\ conn'[c].snap = conn[c].snap
    BY <1>1, <1>3, <2>1 DEF MergeRead, Working
  <2>3. (\A d \in Conn : d # c => conn'[d] = conn[d]) /\ UNCHANGED <<row, settled, crossed>>
    BY <1>1, <1>3 DEF MergeRead
  <2> QED
    BY <2>1, <2>2, <2>3 DEF Exact, UpToDateDiamonds
<1>4. ASSUME NEW c \in Conn, MergeWrite(c) PROVE Now
  <2>1. conn[c] # Idle /\ conn[c] \in Working /\ crossed = {} /\ UNCHANGED settled
    BY <1>4, Busy, HandlerParts DEF MergeWrite, Agree
  <2>2. row'.doc.diamond = Ledger(settled', row'.doc.done)
    BY <1>4, <2>1, MergeWriteExact
  <2>3. \A d \in Conn : d # c => conn'[d] = Idle
    BY <1>4, <2>1, MergeWriteHandles DEF QuietUnlessCrossed, Quiet, OneAtWork
  <2>4. ASSUME conn'[c] # Idle PROVE UpToDateDiamonds(conn'[c], row'.doc.diamond)
    <3>1. conn'[c] = [conn[c] EXCEPT !.pc = "frames", !.state = row'.doc]
      BY <1>4, <2>4, MergeWriteHandles
    <3>2. conn'[c].pc = "frames" /\ conn'[c].state = row'.doc
      BY <2>1, <3>1 DEF Working
    <3> QED
      BY <3>2 DEF UpToDateDiamonds
  <2> QED
    BY <2>2, <2>3, <2>4
<1>5. ASSUME NEW c \in Conn, SendFrame(c) PROVE Now
  <2> DEFINE h == conn[c]
  <2>1. h # Idle /\ h \in Working /\ h.pc = "frames"
    BY <1>5, Busy, HandlerParts DEF SendFrame, Agree
  <2>2. UNCHANGED <<settled, crossed>>
    BY <1>5 DEF SendFrame
  <2>3. h.state.diamond = row.doc.diamond /\ Same(h.state, row.doc)
        /\ row.doc.diamond = Ledger(settled, row.doc.done)
    BY <2>1, <2>2 DEF Exact, UpToDateDiamonds, QuietUnlessCrossed, Quiet, UpToDate
  <2>4. row'.doc.diamond = row.doc.diamond /\ row'.doc.done = row.doc.done
    BY <1>5, <2>3, SendFrameHandles DEF Same
  <2>5. \A d \in Conn : d # c => conn'[d] = Idle
    BY <1>5, <2>1, <2>2, SendFrameHandles DEF QuietUnlessCrossed, Quiet, OneAtWork
  <2>6. ASSUME conn'[c] # Idle PROVE UpToDateDiamonds(conn'[c], row'.doc.diamond)
    <3>1. PICK i : conn'[c] = [h EXCEPT !.todo = @ \ {i}]
      BY <1>5, <2>6, SendFrameHandles
    <3>2. conn'[c].pc = "frames" /\ conn'[c].state = h.state
      BY <2>1, <3>1 DEF Working
    <3> QED
      BY <2>3, <2>4, <3>2 DEF UpToDateDiamonds
  <2> QED
    BY <2>2, <2>3, <2>4, <2>5, <2>6
<1>6. ASSUME NEW p \in Payment, Settle(p) PROVE Now
  <2>1. crossed = {} /\ (\A c \in Conn : conn[c] = Idle) /\ UNCHANGED conn
    BY <1>6 DEF Settle, Crosses
  <2> QED
    BY <1>6, <2>1, SettledCovered DEF Exact, AllCovered
<1>7. ASSUME \A c \in Conn : conn'[c] \in {conn[c], Idle}, UNCHANGED <<row, settled, crossed>>
      PROVE  Now
  BY <1>7 DEF Exact
<1>8. ASSUME NEW c \in Conn, Handler(c) PROVE Now
  <2>1. CASE \/ HandleRiskWin(c) \/ HandleGacha(c) \/ HandleHeroLevelUp(c)
             \/ HandleLineup(c) \/ HandleChangeNickname(c) \/ HandleGuideSave(c)
             \/ HandleSimpleGameplayRequest(c) \/ HandleRiskStart(c)
    BY <1>2, <2>1, BeginRequest
  <2>2. CASE Disconnect(c)
    BY <1>1, <1>7, <2>2 DEF Disconnect
  <2> QED
    BY <1>3, <1>4, <1>5, <1>8, <2>1, <2>2 DEF Handler
<1>9. CASE TcpCrash
  BY <1>1, <1>7, <1>9 DEF TcpCrash
<1>10. CASE UNCHANGED vars
  BY <1>7, <1>10 DEF vars
<1> QED
  BY <1>6, <1>8, <1>9, <1>10 DEF Next

\* Stale writes, retries and crashes never make diamonds; and none is lost
\* unless a payment or a second handler crossed a handler at work.
THEOREM DiamondsAreAccounted == Spec => []DiamondsAddUp
<1>1. Agree /\ AllCovered /\ Exact => DiamondsAddUp
  BY DEF Agree, ColumnAgreesWithDocument, AllCovered, Covered, Exact, DiamondsAddUp
<1> QED
  BY <1>1, AgreeInit, AgreeStep, ThreadsInit, ThreadsStep, QuietInit, QuietStep,
     CoveredInit, CoveredStep, ExactStep, PTL DEF Spec

=============================================================================
