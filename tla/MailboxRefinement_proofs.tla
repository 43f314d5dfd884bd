---------------------- MODULE MailboxRefinement_proofs ----------------------
(***************************************************************************)
(* Every behaviour of DirectMessages is one of Mailbox, for every           *)
(* conversation.                                                            *)
(*                                                                          *)
(* The argument: DirectMessagesSafety_proofs shows that what was received   *)
(* stays received and that only received messages have ticks or are about   *)
(* to be deleted.  What is left is that a message is nowhere before its row *)
(* was inserted (KnownInv), and that a step which changes the phase of a    *)
(* message changes nothing else the mailbox sees.                           *)
(***************************************************************************)
EXTENDS MailboxRefinement, DirectMessagesSafety_proofs

\* Messages that were never inserted are in no row, event, store or snapshot.
ServerKnown == \A m \in Msgs : server[m] # Absent => m \in issued
InsKnown    == \A u \in Users : \A i \in DOMAIN ins[u] : ins[u][i] \in issued
BoxKnown    == \A u \in Users, m \in Msgs : Stored(u, m) => m \in issued
FetchKnown  ==
    \A u \in Users, m \in Msgs :
        fetch[u].rows[m] # Absent \/ fetch[u].snap[m] # <<>> => m \in issued
SendKnown   == \A u \in Users : send[u].pc # "idle" => send[u].msg \in issued

KnownInv ==
    /\ ServerKnown /\ InsKnown /\ BoxKnown /\ FetchKnown /\ SendKnown
    /\ shown \subseteq issued

-----------------------------------------------------------------------------
(* Nothing is known of a message before its row was inserted. *)

\* No step takes a message out of the history of inserted rows.
LEMMA IssuedGrows == [Next]_vars => issued \subseteq issued'
<1> SUFFICES ASSUME [Next]_vars PROVE issued \subseteq issued'
  OBVIOUS
<1>1. CASE UNCHANGED vars \/ Purge
  BY <1>1 DEF vars, serverVars, Purge
<1>2. ASSUME NEW u \in Users, Environment(u) PROVE issued \subseteq issued'
  BY <1>2 DEF Environment, OpenChat, CloseChat, Crash, Disconnect, FetchGetFails,
     SendPost, serverVars
<1>3. ASSUME NEW u \in Users, Fetching(u) \/ Sending(u) PROVE issued \subseteq issued'
  BY <1>3 DEF Fetching, FetchGet, FetchRow, FetchPatchRead, FetchDelete,
     FetchReturn, Sending, SendSave, SendTakePending, SendApplyPending,
     SendReturn, serverVars
<1>4. ASSUME NEW u \in Users, Receiving(u) PROVE issued \subseteq issued'
  BY <1>4 DEF Receiving, Subscribe, ReceiveInsert, ReceiveStatus, KeepPending,
     serverVars
<1>5. ASSUME NEW u \in Users, Calling(u) \/ Marking(u) PROVE issued \subseteq issued'
  BY <1>5 DEF Calling, CallPatch, CallNoteDelivered, CallDelete, Marking,
     MarkVisible, MarkReadLocally, serverVars
<1> QED
  BY <1>1, <1>2, <1>3, <1>4, <1>5 DEF Next

\* Storing a message that was inserted keeps the stores known.
LEMMA PutKnown ==
    ASSUME TypeOK, BoxKnown, NEW u \in Users, NEW m \in issued, NEW s \in Status,
           m \in Msgs, Put(u, m, s), issued \subseteq issued'
    PROVE  BoxKnown'
<1>1. \A v \in Users, n \in Msgs : v # u \/ n # m => box'[v][n] = box[v][n]
  BY DEF Put, TypeOK, CopyFunctions
<1> QED
  BY <1>1 DEF BoxKnown, Stored

\* Overwriting a copy stores no further message.
LEMMA OverwriteKnown ==
    ASSUME TypeOK, TypeOK', BoxKnown, NEW u \in Users, NEW m \in Msgs, NEW i, NEW s,
           box' = [box EXCEPT ![u][m][i] = s], issued \subseteq issued'
    PROVE  BoxKnown'
<1>1. \A v \in Users, n \in Msgs :
         /\ box[v][n] \in Seq(Status) /\ box'[v][n] \in Seq(Status)
         /\ DOMAIN box'[v][n] = DOMAIN box[v][n]
  <2>1. box \in [Users -> CopyFunctions] /\ box' \in [Users -> CopyFunctions]
    BY DEF TypeOK
  <2>2. \A v \in Users, n \in Msgs :
           box'[v][n] = IF v = u /\ n = m THEN [box[u][m] EXCEPT ![i] = s] ELSE box[v][n]
    BY <2>1 DEF CopyFunctions
  <2> QED
    BY <2>1, <2>2 DEF CopyFunctions
<1>2. ASSUME NEW v \in Users, NEW n \in Msgs, box[v][n] = <<>>
      PROVE  box'[v][n] = <<>>
  <2>1. Len(box'[v][n]) \in Nat /\ DOMAIN box'[v][n] = 1 .. Len(box'[v][n])
    BY <1>1, LenProperties
  <2>2. DOMAIN box'[v][n] = {}
    BY <1>1, <1>2
  <2>3. Len(box'[v][n]) = 0
    <3>1. Len(box'[v][n]) > 0 => 1 \in 1 .. Len(box'[v][n])
      BY <2>1
    <3>2. 1 \notin 1 .. Len(box'[v][n])
      BY <2>1, <2>2
    <3> QED
      BY <2>1, <3>1, <3>2
  <2> QED
    BY <1>1, <2>3, EmptySeq
<1> QED
  BY <1>2 DEF BoxKnown, Stored

\* updateLocalMessageStatus stores no further message.
LEMMA LocalUpdateKnown ==
    ASSUME TypeOK, TypeOK', BoxKnown, NEW u \in Users, NEW m \in Msgs, NEW s,
           UpdateLocalMessageStatus(u, m, s), issued \subseteq issued'
    PROVE  BoxKnown'
<1>1. CASE OverwriteFirst(u, m, s)
  BY <1>1, OverwriteKnown DEF OverwriteFirst
<1>2. CASE UNCHANGED box
  BY <1>2 DEF BoxKnown, Stored
<1> QED
  BY <1>1, <1>2 DEF UpdateLocalMessageStatus

\* The parts of the invariant a step leaves alone.
LEMMA KnownFrames ==
    ASSUME KnownInv, issued \subseteq issued'
    PROVE  /\ UNCHANGED server => ServerKnown'
           /\ UNCHANGED ins => InsKnown'
           /\ UNCHANGED box => BoxKnown'
           /\ (\A u \in Users : /\ fetch'[u].rows = fetch[u].rows
                                /\ fetch'[u].snap = fetch[u].snap) => FetchKnown'
           /\ (\A u \in Users : /\ send'[u].msg = send[u].msg
                                /\ send'[u].pc # "idle" => send[u].pc # "idle")
                 => SendKnown'
           /\ UNCHANGED shown => shown' \subseteq issued'
<1>1. /\ UNCHANGED server => ServerKnown'
      /\ UNCHANGED ins => InsKnown'
      /\ UNCHANGED box => BoxKnown'
      /\ UNCHANGED shown => shown' \subseteq issued'
  BY DEF KnownInv, ServerKnown, InsKnown, BoxKnown, Stored
<1>2. (\A u \in Users : fetch'[u].rows = fetch[u].rows /\ fetch'[u].snap = fetch[u].snap)
        => FetchKnown'
  BY DEF KnownInv, FetchKnown
<1>3. ASSUME \A u \in Users : /\ send'[u].msg = send[u].msg
                              /\ send'[u].pc # "idle" => send[u].pc # "idle"
      PROVE  SendKnown'
  <2> SUFFICES ASSUME NEW v \in Users, send'[v].pc # "idle"
               PROVE  send'[v].msg \in issued'
    BY DEF SendKnown
  <2> QED
    BY <1>3 DEF KnownInv, SendKnown
<1> QED
  BY <1>1, <1>2, <1>3

\* A PATCH inserts no row, a DELETE neither.
LEMMA PatchKnown ==
    ASSUME TypeOK, ServerKnown, NEW m \in Msgs, NEW s \in Status,
           PatchRow(m, s) \/ DeleteRow(m), issued \subseteq issued'
    PROVE  ServerKnown'
BY DEF PatchRow, DeleteRow, ServerKnown, TypeOK, RowFunctions

LEMMA EnvironmentKnown ==
    ASSUME TypeOK, TypeOK', KnownInv, issued \subseteq issued', NEW u \in Users,
           Environment(u)
    PROVE  KnownInv'
<1> USE DEF serverVars, eventVars, storeVars, uiVars
<1>0. fetch \in [Users -> Fetches] /\ send \in [Users -> Sends]
  BY DEF TypeOK, Fetches, Sends
<1>1. CASE OpenChat(u)
  <2>1. FetchKnown'
    BY <1>0, <1>1 DEF OpenChat, KnownInv, FetchKnown, BoxKnown, Stored, IdleFetch,
       NoRows, TypeOK
  <2> QED
    BY <1>1, <2>1, KnownFrames DEF OpenChat, KnownInv
<1>2. CASE CloseChat(u)
  <2>1. InsKnown'
    BY <1>2 DEF CloseChat, DropScreen, KnownInv, InsKnown, TypeOK
  <2>2. /\ \A v \in Users : /\ fetch'[v].rows = fetch[v].rows
                            /\ fetch'[v].snap = fetch[v].snap
        /\ \A v \in Users : /\ send'[v].msg = send[v].msg
                            /\ send'[v].pc = send[v].pc
    BY <1>0, <1>2 DEF CloseChat, Fetches, Sends
  <2> QED
    BY <1>2, <2>1, <2>2, KnownFrames DEF CloseChat, KnownInv
<1>3. CASE Crash(u)
  <2>1. InsKnown'
    BY <1>3 DEF Crash, DropScreen, KnownInv, InsKnown, TypeOK
  <2>2. FetchKnown' /\ SendKnown'
    BY <1>0, <1>3 DEF Crash, KnownInv, FetchKnown, SendKnown, IdleFetch, IdleSend,
       NoRows, NoCopies
  <2> QED
    BY <1>3, <2>1, <2>2, KnownFrames DEF Crash, KnownInv
<1>4. CASE Disconnect(u)
  <2>1. InsKnown'
    BY <1>4 DEF Disconnect, KnownInv, InsKnown, TypeOK
  <2> QED
    BY <1>4, <2>1, KnownFrames DEF Disconnect, KnownInv
<1>5. CASE FetchGetFails(u)
  <2>1. \A v \in Users : /\ fetch'[v].rows = fetch[v].rows
                         /\ fetch'[v].snap \in {fetch[v].snap, NoCopies}
    BY <1>0, <1>5 DEF FetchGetFails, Fetches
  <2>2. FetchKnown'
    BY <2>1 DEF KnownInv, FetchKnown, NoCopies
  <2> QED
    BY <1>5, <2>2, KnownFrames DEF FetchGetFails, KnownInv
<1>6. ASSUME NEW m \in Msgs, SendPost(u, m) PROVE KnownInv'
  <2>1. m \in issued'
    BY <1>6 DEF SendPost
  <2>2. ServerKnown'
    BY <1>6, <2>1 DEF SendPost, KnownInv, ServerKnown, TypeOK, RowFunctions
  <2>3. SendKnown'
    <3>1. ASSUME NEW v \in Users PROVE send'[v] = send[v] \/ send'[v].msg = m
      <4>1. [IdleSend EXCEPT !.pc = "save", !.msg = m, !.live = TRUE].msg = m
        BY DEF IdleSend
      <4>2. CASE UNCHANGED send
        BY <4>2
      <4>3. CASE send' = [send EXCEPT ![u] =
                            [IdleSend EXCEPT !.pc = "save", !.msg = m, !.live = TRUE]]
        BY <1>0, <4>1, <4>3
      <4> QED
        BY <1>6, <4>2, <4>3 DEF SendPost
    <3> QED
      BY <2>1, <3>1 DEF KnownInv, SendKnown
  <2>4. InsKnown'
    <3>1. ASSUME NEW v \in Users, NEW i \in DOMAIN ins'[v]
          PROVE  ins'[v][i] \in issued'
      <4>1. ins[v] \in Seq(Msgs)
        BY DEF TypeOK
      <4>2. ins'[v] = ins[v] \/ ins'[v] = Append(ins[v], m)
        BY <1>6 DEF SendPost, TypeOK
      <4>3. \A j \in DOMAIN Append(ins[v], m) :
              \/ Append(ins[v], m)[j] = m
              \/ \E k \in DOMAIN ins[v] : Append(ins[v], m)[j] = ins[v][k]
        BY <4>1, AppendElements
      <4> QED
        BY <2>1, <3>1, <4>2, <4>3 DEF KnownInv, InsKnown
    <3> QED
      BY <3>1 DEF InsKnown
  <2> QED
    BY <1>6, <2>2, <2>3, <2>4, KnownFrames DEF SendPost, KnownInv
<1> QED
  BY <1>1, <1>2, <1>3, <1>4, <1>5, <1>6 DEF Environment

LEMMA FetchingKnown ==
    ASSUME TypeOK, TypeOK', InFlight, KnownInv, issued \subseteq issued',
           NEW u \in Users, Fetching(u)
    PROVE  KnownInv'
<1> USE DEF serverVars, eventVars, storeVars, uiVars
<1>0. fetch \in [Users -> Fetches]
  BY DEF TypeOK, Fetches
<1>1. CASE FetchGet(u)
  <2>1. \A v \in Users : /\ fetch'[v].rows \in {fetch[v].rows, server}
                       /\ fetch'[v].snap = fetch[v].snap
    BY <1>0, <1>1 DEF FetchGet, Fetches
  <2>2. FetchKnown'
    BY <2>1 DEF KnownInv, FetchKnown, ServerKnown
  <2> QED
    BY <1>1, <2>2, KnownFrames DEF FetchGet, KnownInv
<1>2. ASSUME NEW m \in Msgs, FetchRow(u, m) PROVE KnownInv'
  <2>1. m \in fetch[u].left /\ fetch[u].rows[m] # Absent
    BY <1>2 DEF FetchRow, InFlight
  <2>2. m \in issued
    BY <2>1 DEF KnownInv, FetchKnown
  <2>3. fetch[u].rows[m] \in Status
    BY <1>0, <2>1 DEF Fetches, RowFunctions
  <2>4. BoxKnown'
    <3>1. CASE Put(u, m, fetch[u].rows[m])
      BY <2>2, <2>3, <3>1, PutKnown DEF KnownInv
    <3>2. CASE UNCHANGED box
      BY <3>2, KnownFrames
    <3> QED
      BY <1>2, <3>1, <3>2 DEF FetchRow, StoreReceived, StoreOwn
  <2>5. \A v \in Users : /\ fetch'[v].rows = fetch[v].rows
                       /\ fetch'[v].snap = fetch[v].snap
    BY <1>0, <1>2 DEF FetchRow, Fetches
  <2> QED
    BY <1>2, <2>4, <2>5, KnownFrames DEF FetchRow, KnownInv
<1>3. CASE FetchPatchRead(u) \/ FetchDelete(u)
  <2>1. fetch[u].cur \in Msgs
    BY <1>3 DEF FetchPatchRead, FetchDelete, InFlight
  <2>2. ServerKnown'
    <3>1. CASE UNCHANGED server
      BY <3>1, KnownFrames
    <3>2. CASE PatchRow(fetch[u].cur, "read") \/ DeleteRow(fetch[u].cur)
      BY <2>1, <3>2, PatchKnown DEF KnownInv, Status
    <3> QED
      BY <1>3, <3>1, <3>2 DEF FetchPatchRead, FetchDelete
  <2>3. \A v \in Users : /\ fetch'[v].rows = fetch[v].rows
                       /\ fetch'[v].snap = fetch[v].snap
    BY <1>0, <1>3 DEF FetchPatchRead, FetchDelete, GoOnToDelete, NextRow, Fetches
  <2> QED
    BY <1>3, <2>2, <2>3, KnownFrames DEF FetchPatchRead, FetchDelete, KnownInv
<1>4. CASE FetchReturn(u)
  <2>1. FetchKnown'
    BY <1>0, <1>4 DEF FetchReturn, KnownInv, FetchKnown, IdleFetch, NoRows, NoCopies
  <2>2. shown' \subseteq issued'
    <3>1. \A m \in OnScreen(Combined(fetch[u])) : m \in issued
      BY DEF OnScreen, Combined, KnownInv, FetchKnown
    <3> QED
      BY <1>4, <3>1 DEF FetchReturn, KnownInv
  <2> QED
    BY <1>4, <2>1, <2>2, KnownFrames DEF FetchReturn, KnownInv
<1> QED
  BY <1>1, <1>2, <1>3, <1>4 DEF Fetching

LEMMA SendingKnown ==
    ASSUME TypeOK, TypeOK', InFlight, KnownInv, issued \subseteq issued',
           NEW u \in Users, Sending(u)
    PROVE  KnownInv'
<1> USE DEF serverVars, eventVars, storeVars, uiVars
<1>0. send \in [Users -> Sends]
  BY DEF TypeOK, Sends
<1>1. SendKnown'
  <2>1. \A v \in Users :
           send'[v].pc # "idle" => send'[v].msg = send[v].msg /\ send[v].pc # "idle"
    <3>1. CASE SendSave(u)
      BY <1>0, <3>1 DEF SendSave, Sends
    <3>2. CASE SendTakePending(u)
      BY <1>0, <3>2 DEF SendTakePending, WithPending, Sends
    <3>3. CASE SendApplyPending(u)
      BY <1>0, <3>3 DEF SendApplyPending, Sends
    <3>4. CASE SendReturn(u)
      BY <1>0, <3>4 DEF SendReturn, IdleSend, Sends
    <3> QED
      BY <3>1, <3>2, <3>3, <3>4 DEF Sending
  <2> QED
    BY <2>1 DEF KnownInv, SendKnown
<1>2. BoxKnown'
  <2>1. CASE SendSave(u)
    <3>1. send[u].msg \in Msgs /\ send[u].msg \in issued
      BY <2>1 DEF SendSave, InFlight, KnownInv, SendKnown
    <3> QED
      BY <2>1, <3>1, PutKnown DEF SendSave, KnownInv, Status
  <2>2. CASE SendApplyPending(u)
    <3>1. send[u].msg \in Msgs
      BY <2>2 DEF SendApplyPending, InFlight
    <3> QED
      BY <2>2, <3>1, OverwriteKnown DEF SendApplyPending, KnownInv
  <2>3. CASE UNCHANGED box
    BY <2>3, KnownFrames
  <2> QED
    BY <2>1, <2>2, <2>3 DEF Sending, SendTakePending, SendReturn
<1> QED
  BY <1>1, <1>2, KnownFrames DEF Sending, SendSave, SendTakePending,
     SendApplyPending, SendReturn, KnownInv

LEMMA ReceivingKnown ==
    ASSUME TypeOK, TypeOK', KnownInv, issued \subseteq issued', NEW u \in Users,
           Receiving(u)
    PROVE  KnownInv'
<1> USE DEF serverVars, eventVars, storeVars, uiVars
<1>1. CASE Subscribe(u) \/ KeepPending(u)
  BY <1>1, KnownFrames DEF Subscribe, KeepPending, KnownInv
<1>2. CASE ReceiveInsert(u)
  <2>1. ins[u] \in Seq(Msgs) /\ ins[u] # <<>>
    BY <1>2 DEF ReceiveInsert, TypeOK
  <2>2. Head(ins[u]) \in issued
    BY <2>1, HeadElement DEF KnownInv, InsKnown
  <2>3. shown' \subseteq issued'
    BY <1>2, <2>2 DEF ReceiveInsert, KnownInv
  <2>4. InsKnown'
    <3>1. \A i \in DOMAIN Tail(ins[u]) : Tail(ins[u])[i] \in issued
      BY <2>1, TailElements DEF KnownInv, InsKnown
    <3>2. \A v \in Users : ins'[v] = IF v = u THEN Tail(ins[u]) ELSE ins[v]
      BY <1>2 DEF ReceiveInsert, TypeOK
    <3> QED
      BY <3>1, <3>2 DEF KnownInv, InsKnown
  <2> QED
    BY <1>2, <2>3, <2>4, KnownFrames DEF ReceiveInsert, KnownInv
<1>3. CASE ReceiveStatus(u)
  <2>1. Head(upd[u])[1] \in Msgs
    <3>1. upd[u] \in Seq(Msgs \X Status) /\ upd[u] # <<>>
      BY <1>3 DEF ReceiveStatus, TypeOK
    <3> QED
      BY <3>1, HeadTailProperties
  <2>2. BoxKnown'
    <3>1. CASE UNCHANGED box
      BY <3>1, KnownFrames
    <3>2. CASE UpdateLocalMessageStatus(u, Head(upd[u])[1], Head(upd[u])[2])
      BY <2>1, <3>2, LocalUpdateKnown DEF KnownInv
    <3> QED
      BY <1>3, <3>1, <3>2 DEF ReceiveStatus
  <2> QED
    BY <1>3, <2>2, KnownFrames DEF ReceiveStatus, KnownInv
<1> QED
  BY <1>1, <1>2, <1>3 DEF Receiving

LEMMA CallingKnown ==
    ASSUME TypeOK, TypeOK', KnownInv, issued \subseteq issued', NEW u \in Users,
           Calling(u) \/ Marking(u)
    PROVE  KnownInv'
<1> USE DEF serverVars, eventVars, storeVars, uiVars
<1>1. ASSUME NEW c \in calls[u],
             CallPatch(u, c) \/ CallNoteDelivered(u, c) \/ CallDelete(u, c)
      PROVE  KnownInv'
  <2>1. c.msg \in Msgs
    BY DEF TypeOK
  <2>2. ServerKnown'
    <3>1. CASE UNCHANGED server
      BY <3>1, KnownFrames
    <3>2. CASE PatchRow(c.msg, "read") \/ PatchRow(c.msg, "delivered") \/ DeleteRow(c.msg)
      BY <2>1, <3>2, PatchKnown DEF KnownInv, Status
    <3> QED
      BY <1>1, <3>1, <3>2 DEF CallPatch, CallNoteDelivered, CallDelete
  <2>3. BoxKnown'
    <3>1. CASE UNCHANGED box
      BY <3>1, KnownFrames
    <3>2. CASE UpdateLocalMessageStatus(u, c.msg, "delivered")
      BY <2>1, <3>2, LocalUpdateKnown DEF KnownInv
    <3> QED
      BY <1>1, <3>1, <3>2 DEF CallPatch, CallNoteDelivered, CallDelete
  <2> QED
    BY <1>1, <2>2, <2>3, KnownFrames DEF CallPatch, CallNoteDelivered, CallDelete,
       KnownInv
<1>2. CASE MarkVisible(u)
  BY <1>2, KnownFrames DEF MarkVisible, KnownInv
<1>3. ASSUME NEW m \in Msgs, MarkReadLocally(u, m) PROVE KnownInv'
  <2>1. BoxKnown'
    BY <1>3, LocalUpdateKnown DEF MarkReadLocally, KnownInv
  <2> QED
    BY <1>3, <2>1, KnownFrames DEF MarkReadLocally, KnownInv
<1> QED
  BY <1>1, <1>2, <1>3 DEF Calling, Marking

\* Every step preserves the invariant.
LEMMA KnownNext == TypeOK /\ TypeOK' /\ InFlight /\ KnownInv /\ [Next]_vars => KnownInv'
<1> SUFFICES ASSUME TypeOK, TypeOK', InFlight, KnownInv, [Next]_vars PROVE KnownInv'
  OBVIOUS
<1>0. issued \subseteq issued'
  BY IssuedGrows
<1>1. CASE UNCHANGED vars
  BY <1>0, <1>1, KnownFrames DEF vars, serverVars, eventVars, storeVars, KnownInv
<1>2. CASE Purge
  <2>1. ServerKnown'
    BY <1>2 DEF Purge, ServerKnown, KnownInv, serverVars
  <2> QED
    BY <1>0, <1>2, <2>1, KnownFrames DEF Purge, eventVars, storeVars, KnownInv
<1>3. ASSUME NEW u \in Users PROVE Environment(u) => KnownInv'
  BY <1>0, EnvironmentKnown
<1>4. ASSUME NEW u \in Users PROVE Fetching(u) => KnownInv'
  BY <1>0, FetchingKnown
<1>5. ASSUME NEW u \in Users PROVE Sending(u) => KnownInv'
  BY <1>0, SendingKnown
<1>6. ASSUME NEW u \in Users PROVE Receiving(u) => KnownInv'
  BY <1>0, ReceivingKnown
<1>7. ASSUME NEW u \in Users PROVE Calling(u) \/ Marking(u) => KnownInv'
  BY <1>0, CallingKnown
<1> QED
  BY <1>1, <1>2, <1>3, <1>4, <1>5, <1>6, <1>7 DEF Next

\* Nothing is known of a message before its row was inserted.
THEOREM KnownCorrect == Spec => []KnownInv
<1>1. Init => KnownInv
  <2>1. \A m \in Msgs : NoCopies[m] = <<>> /\ NoRows[m] = Absent
    BY DEF NoCopies, NoRows
  <2> QED
    BY <2>1 DEF Init, KnownInv, ServerKnown, InsKnown, BoxKnown, Stored, FetchKnown,
       SendKnown, IdleFetch, IdleSend
<1>2. TypeOK /\ TypeOK' /\ InFlight /\ KnownInv /\ [Next]_vars => KnownInv'
  BY KnownNext
<1>3. Spec => [](TypeOK /\ InFlight)
  BY TypeCorrect
<1> QED
  BY <1>1, <1>2, <1>3, PTL DEF Spec

-----------------------------------------------------------------------------
(* The steps of the mailbox. *)

\* What holds before and after a step.
Facts == TypeOK /\ InFlight /\ SafeInv /\ KnownInv

\* A step that inserts and removes no row is progress, if anything.
LEMMA ProgressStep ==
    ASSUME Facts, Facts', Grows, phase' = phase
    PROVE  M!Next
<1> DEFINE new == got' \ got
<1>1. got' = got \cup new
  BY GrowsReceived DEF got
<1>2. new \subseteq M!Sent
  <2>1. \A m \in Msgs : Received(m)' => m \in issued'
    BY ConversationAssumption DEF Facts, KnownInv, BoxKnown, Received
  <2>2. \A m \in Msgs : m \in issued' => phase'[m] # "unsent"
    BY DEF phase
  <2> QED
    BY <2>1, <2>2 DEF got, M!Sent
<1>3. ticked' \subseteq got'
  <2>1. ListHonest' /\ BoxHonest'
    BY DEF Facts, SafeInv
  <2>2. \A m \in Msgs : From[m] \in Users
    BY ConversationAssumption
  <2>3. \A m \in Msgs :
           HasTick(list'[From[m]][m]) \/ HasTick(box'[From[m]][m]) => Received(m)'
    BY <2>1, <2>2 DEF ListHonest, BoxHonest, HasTick
  <2> QED
    BY <2>3 DEF ticked, got, HasTick
<1>4. new \in SUBSET Msgs
  BY DEF got
<1> QED
  BY <1>1, <1>2, <1>3, <1>4 DEF M!Next, M!Progress

\* Steps that leave inserted rows, stores and screens alone change only phases.
LEMMA OnlyPhases ==
    UNCHANGED <<box, list, shown>> => UNCHANGED <<got, ticked>>
BY DEF got, ticked, Received, Stored, HasTick

\* A PATCH neither inserts nor removes a row.
LEMMA PatchPhase ==
    ASSUME TypeOK, NEW m \in Msgs, NEW s \in Status, PatchRow(m, s),
           UNCHANGED issued
    PROVE  phase' = phase
BY DEF PatchRow, phase, TypeOK, RowFunctions, Status, Absent

\* A DELETE of a received message removes it, unless it is gone already.
LEMMA DeleteStep ==
    ASSUME Facts, NEW m \in Msgs, DeleteRow(m), Received(m),
           UNCHANGED <<issued, box, list, shown>>
    PROVE  M!Next \/ UNCHANGED M!vars
<1>1. UNCHANGED <<got, ticked>>
  BY OnlyPhases
<1>2. server' = [server EXCEPT ![m] = Absent] /\ server \in [Msgs -> Status \cup {Absent}]
  BY DEF DeleteRow, Facts, TypeOK, RowFunctions
<1>3. CASE server[m] = Absent
  <2>1. phase' = phase
    BY <1>2, <1>3 DEF phase
  <2> QED
    BY <1>1, <2>1 DEF M!vars
<1>4. CASE server[m] # Absent
  <2>1. m \in issued
    BY <1>4 DEF Facts, KnownInv, ServerKnown
  <2>2. m \in M!Waiting \cap got
    BY <1>4, <2>1 DEF M!Waiting, phase, got
  <2>3. phase' = [phase EXCEPT ![m] = "gone"]
    BY <1>2, <2>1 DEF phase
  <2> QED
    BY <1>1, <2>2, <2>3 DEF M!Next, M!Remove
<1> QED
  BY <1>3, <1>4

\* A request of fetchMessages, markMessageAsDelivered or markMessageAsRead.
LEMMA RequestStep ==
    ASSUME Facts, Facts', Grows, NEW m \in Msgs, Received(m),
           \/ UNCHANGED server
           \/ PatchRow(m, "read") \/ PatchRow(m, "delivered") \/ DeleteRow(m),
           UNCHANGED <<issued, box, list, shown>>
    PROVE  M!Next \/ UNCHANGED M!vars
<1>1. CASE UNCHANGED server
  BY <1>1, ProgressStep DEF phase
<1>2. CASE PatchRow(m, "read") \/ PatchRow(m, "delivered")
  BY <1>2, PatchPhase, ProgressStep DEF Facts, Status
<1>3. CASE DeleteRow(m)
  BY <1>3, DeleteStep
<1> QED
  BY <1>1, <1>2, <1>3

\* Every step of the conversation is one of the mailbox, or none.
LEMMA MailboxStep ==
    Facts /\ Facts' /\ [Next]_vars => [M!Next]_(M!vars)
<1> SUFFICES ASSUME Facts, Facts', [Next]_vars PROVE M!Next \/ UNCHANGED M!vars
  OBVIOUS
<1> USE DEF serverVars, uiVars, storeVars
<1>0. Grows
  BY StepGrows DEF Facts
<1>a. (UNCHANGED <<issued, server>>) => M!Next
  BY <1>0, ProgressStep DEF phase
<1>1. CASE UNCHANGED vars
  BY <1>a, <1>1 DEF vars
<1>2. CASE Purge
  <2>1. PICK old \in SUBSET {m \in Msgs : server[m] # Absent} \ {{}} :
           server' = [m \in Msgs |-> IF m \in old THEN Absent ELSE server[m]]
    BY <1>2 DEF Purge
  <2>2. UNCHANGED <<issued, got, ticked>>
    BY <1>2, OnlyPhases DEF Purge
  <2>3. old \subseteq M!Waiting
    BY DEF M!Waiting, phase, Facts, KnownInv, ServerKnown
  <2>4. phase' = [m \in Msgs |-> IF m \in old THEN "gone" ELSE phase[m]]
    BY <2>1, <2>2 DEF phase, Facts, KnownInv, ServerKnown
  <2> QED
    BY <2>2, <2>3, <2>4 DEF M!Next, M!Expire
<1>3. ASSUME NEW u \in Users, NEW m \in Msgs, SendPost(u, m) PROVE M!Next
  <2>1. UNCHANGED <<got, ticked>>
    BY <1>3, OnlyPhases DEF SendPost
  <2>2. phase[m] = "unsent"
    BY <1>3 DEF SendPost, phase
  <2>3. phase' = [phase EXCEPT ![m] = "waiting"]
    BY <1>3 DEF SendPost, phase, Facts, TypeOK, RowFunctions, Absent
  <2> QED
    BY <2>1, <2>2, <2>3 DEF M!Next, M!Send
<1>4. ASSUME NEW u \in Users, FetchPatchRead(u) \/ FetchDelete(u)
      PROVE  M!Next \/ UNCHANGED M!vars
  <2>1. fetch[u].cur \in Msgs /\ Received(fetch[u].cur)
    BY <1>4, ConversationAssumption DEF FetchPatchRead, FetchDelete, Facts, InFlight,
       SafeInv, FetchStored, Received
  <2> QED
    BY <1>0, <1>4, <2>1, RequestStep DEF FetchPatchRead, FetchDelete
<1>5. ASSUME NEW u \in Users, NEW c \in calls[u], CallPatch(u, c) \/ CallDelete(u, c)
      PROVE  M!Next \/ UNCHANGED M!vars
  <2>1. c.msg \in Msgs /\ Received(c.msg)
    BY DEF Facts, TypeOK, SafeInv, CallsKnown
  <2> QED
    BY <1>0, <1>5, <2>1, RequestStep DEF CallPatch, CallDelete
<1>6. ASSUME NEW u \in Users,
             \/ Environment(u) /\ ~\E m \in Msgs : SendPost(u, m)
             \/ FetchGet(u) \/ FetchReturn(u) \/ \E m \in Msgs : FetchRow(u, m)
             \/ Sending(u) \/ Receiving(u) \/ Marking(u)
             \/ \E c \in calls[u] : CallNoteDelivered(u, c)
      PROVE  M!Next
  <2>1. CASE Environment(u) /\ ~\E m \in Msgs : SendPost(u, m)
    BY <1>a, <2>1 DEF Environment, OpenChat, CloseChat, Crash, Disconnect,
       FetchGetFails
  <2>2. CASE FetchGet(u) \/ FetchReturn(u) \/ \E m \in Msgs : FetchRow(u, m)
    BY <1>a, <2>2 DEF FetchGet, FetchReturn, FetchRow
  <2>3. CASE Sending(u)
    BY <1>a, <2>3 DEF Sending, SendSave, SendTakePending, SendApplyPending, SendReturn
  <2>4. CASE Receiving(u)
    BY <1>a, <2>4 DEF Receiving, Subscribe, ReceiveInsert, ReceiveStatus, KeepPending
  <2>5. CASE Marking(u)
    BY <1>a, <2>5 DEF Marking, MarkVisible, MarkReadLocally
  <2>6. CASE \E c \in calls[u] : CallNoteDelivered(u, c)
    BY <1>a, <2>6 DEF CallNoteDelivered
  <2> QED
    BY <1>6, <2>1, <2>2, <2>3, <2>4, <2>5, <2>6
<1> QED
  BY <1>1, <1>2, <1>3, <1>4, <1>5, <1>6 DEF Next, Environment, Fetching, Calling

\* The direct messages implement the mailbox: each message is inserted once,
\* received only after that, removed only when received or purged, never back on
\* the server and never forgotten by its receiver, and all ticks are true.
THEOREM MailboxCorrect == Spec => ImplementsMailbox
<1>1. Init => M!Init
  <2>1. \A m \in Msgs : NoCopies[m] = <<>> /\ DOMAIN <<>> = {}
    BY DEF NoCopies
  <2> QED
    BY <2>1, ConversationAssumption DEF Init, M!Init, phase, got, ticked, Received,
       Stored, HasTick
<1>2. Facts /\ Facts' /\ [Next]_vars => [M!Next]_(M!vars)
  BY MailboxStep
<1>3. Spec => []Facts
  BY TypeCorrect, SafeCorrect, KnownCorrect, PTL DEF Facts
<1> QED
  BY <1>1, <1>2, <1>3, PTL DEF Spec, ImplementsMailbox, M!Spec
=============================================================================
