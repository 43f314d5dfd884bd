-------------------- MODULE DirectMessagesSafety_proofs --------------------
(***************************************************************************)
(* NoUnseenLoss, OwnMessagesKept and TicksHonest of DirectMessages, for     *)
(* every conversation, number of failures and set of realtime devices.      *)
(*                                                                          *)
(* The argument: a message that its receiver has got stays so (Grows);      *)
(* whatever makes a device tick or delete a row is evidence that the        *)
(* receiver has got the message, wherever that evidence is at the moment:   *)
(* in a row, an event, a snapshot, a call, a pending status.  SafeInv says  *)
(* so of every place.                                                       *)
(***************************************************************************)
EXTENDS DirectMessages_proofs

\* INSERT events reach the receiver of the message only.
InsTo == \A u \in Users : \A i \in DOMAIN ins[u] : To[ins[u][i]] = u

\* markMessageAsDelivered and markMessageAsRead run for messages received here.
CallsKnown ==
    \A u \in Users : \A c \in calls[u] : To[c.msg] = u /\ Received(c.msg)

\* Effect 6 marks messages received here.
TodoKnown == \A u \in Users : \A m \in todo[u] : To[m] = u /\ Received(m)

\* The history of what was shown is complete.
ScreenShown == \A m \in Msgs : list[To[m]][m] # <<>> => m \in shown

\* fetchMessages patches and deletes what it has stored, its snapshot is in the
\* store, and so are the rows it has processed.
FetchStored ==
    \A u \in Users :
        /\ fetch[u].pc \in {"patch", "delete"} => Stored(u, fetch[u].cur)
        /\ \A m \in Msgs :
              /\ fetch[u].snap[m] # <<>> => Stored(u, m)
              /\ fetch[u].rows[m] # Absent /\ m \notin fetch[u].left => Stored(u, m)

\* sendMessage has stored its message once it looks for a pending status.
SendStored ==
    \A u \in Users :
        send[u].pc \in {"take", "apply", "return"} => Stored(u, send[u].msg)

\* No place has a tick for a message that was not received: the rows, the UPDATE
\* events, the status that found no entity, pendingStatusUpdates, what
\* fetchMessages and sendMessage hold, the store and the list on screen.
ServerHonest == \A m \in Msgs : server[m] \in Ticked => Received(m)

EventsHonest ==
    \A u \in Users : \A i \in DOMAIN upd[u] :
        upd[u][i][2] \in Ticked => Received(upd[u][i][1])

HeldHonest ==
    \A u \in Users : held[u] # <<>> /\ held[u][2] \in Ticked => Received(held[u][1])

PendHonest == \A u \in Users, m \in Msgs : pend[u][m] \in Ticked => Received(m)

FetchHonest ==
    \A u \in Users, m \in Msgs :
        /\ HasTick(fetch[u].snap[m]) => Received(m)
        /\ fetch[u].rows[m] \in Ticked => Received(m)

SendHonest ==
    \A u \in Users :
        send[u].pc # "idle" /\ send[u].status \in Ticked => Received(send[u].msg)

BoxHonest  == \A u \in Users, m \in Msgs : HasTick(box[u][m]) => Received(m)
ListHonest == \A u \in Users, m \in Msgs : HasTick(list[u][m]) => Received(m)

-----------------------------------------------------------------------------
(* What is stored or has been shown stays so. *)

\* A step that neither removes a message from a store nor forgets what was shown.
Grows ==
    /\ \A u \in Users, m \in Msgs : Stored(u, m) => Stored(u, m)'
    /\ shown \subseteq shown'

\* Hence a received message stays received.
LEMMA GrowsReceived ==
    ASSUME Grows PROVE \A m \in Msgs : Received(m) => Received(m)'
BY ConversationAssumption DEF Grows, Received, Stored

\* A list of copies that grows is not empty and has no tick but the new one.
LEMMA AppendCopy ==
    ASSUME NEW c \in Seq(Status), NEW s \in Status
    PROVE  /\ Append(c, s) # <<>>
           /\ HasTick(Append(c, s)) => HasTick(c) \/ s \in Ticked
<1>1. Append(c, s) # <<>>
  BY AppendProperties
<1>2. HasTick(Append(c, s)) => HasTick(c) \/ s \in Ticked
  BY AppendProperties DEF HasTick
<1> QED
  BY <1>1, <1>2

\* A list whose copies are all overwritten has a tick only if the new status is one.
LEMMA OverwrittenCopy ==
    ASSUME NEW c \in Seq(Status), NEW s \in Status, NEW d \in Seq(Status),
           DOMAIN d = DOMAIN c, \A i \in DOMAIN c : d[i] = s
    PROVE  /\ d # <<>> => c # <<>>
           /\ HasTick(d) => s \in Ticked
<1>1. HasTick(d) => s \in Ticked
  BY DEF HasTick
<1>2. c = <<>> => DOMAIN d = {}
  OBVIOUS
<1>3. DOMAIN d = 1 .. Len(d) /\ Len(d) \in Nat /\ (Len(d) = 0 <=> d = <<>>)
  BY LenProperties, EmptySeq
<1> QED
  BY <1>1, <1>2, <1>3

\* Overwriting one copy neither empties a list nor adds a tick but the new one.
LEMMA CopyFacts ==
    ASSUME NEW c \in Seq(Status), NEW s \in Status, NEW i \in Nat
    PROVE  /\ c # <<>> => [c EXCEPT ![i] = s] # <<>>
           /\ HasTick([c EXCEPT ![i] = s]) => HasTick(c) \/ s \in Ticked
<1>1. DOMAIN [c EXCEPT ![i] = s] = DOMAIN c
  OBVIOUS
<1>2. c # <<>> => DOMAIN c # {}
  <2>1. Len(c) \in Nat /\ DOMAIN c = 1 .. Len(c) /\ (c # <<>> => Len(c) # 0)
    BY EmptySeq, LenProperties
  <2>2. Len(c) # 0 => 1 \in 1 .. Len(c)
    BY <2>1
  <2> QED
    BY <2>1, <2>2
<1>3. \A j \in DOMAIN c : [c EXCEPT ![i] = s][j] = IF j = i THEN s ELSE c[j]
  OBVIOUS
<1>4. HasTick([c EXCEPT ![i] = s]) => HasTick(c) \/ s \in Ticked
  BY <1>1, <1>3 DEF HasTick
<1>5. DOMAIN <<>> = {}
  OBVIOUS
<1> QED
  BY <1>1, <1>2, <1>4, <1>5

\* An element of a longer queue is the new one or an old one.
LEMMA AppendElements ==
    ASSUME NEW S, NEW q \in Seq(S), NEW e \in S, NEW i \in DOMAIN Append(q, e)
    PROVE  Append(q, e)[i] = e \/ \E j \in DOMAIN q : Append(q, e)[i] = q[j]
BY AppendProperties

\* The head of a queue is an element of it.
LEMMA HeadElement ==
    ASSUME NEW S, NEW q \in Seq(S),
           q # <<>> PROVE \E j \in DOMAIN q : Head(q) = q[j]
BY HeadTailProperties, LenProperties, EmptySeq

\* The elements of the rest of a queue are elements of the queue.
LEMMA TailElements ==
    ASSUME NEW S, NEW q \in Seq(S), q # <<>>, NEW i \in DOMAIN Tail(q)
    PROVE  \E j \in DOMAIN q : Tail(q)[i] = q[j]
<1>1. Len(q) \in Nat /\ Len(q) > 0 /\ DOMAIN q = 1 .. Len(q)
  BY LenProperties, EmptySeq
<1>2. i \in 1 .. Len(q) - 1 /\ Tail(q)[i] = q[i + 1]
  BY <1>1, HeadTailProperties
<1> QED
  BY <1>1, <1>2

\* A put stores the message, loses nothing and is as honest as the status it puts.
LEMMA PutGrows ==
    ASSUME TypeOK, NEW u \in Users, NEW m \in Msgs, NEW s \in Status, Put(u, m, s)
    PROVE  /\ Stored(u, m)'
           /\ \A v \in Users, n \in Msgs : Stored(v, n) => Stored(v, n)'
           /\ BoxHonest /\ (s \in Ticked => Received(m)) /\ Grows => BoxHonest'
<1>1. \A v \in Users, n \in Msgs : box[v][n] \in Seq(Status)
  BY DEF TypeOK, CopyFunctions
<1>2. \A v \in Users, n \in Msgs :
         box'[v][n] = IF v = u /\ n = m THEN Append(box[u][m], s) ELSE box[v][n]
  BY DEF Put, TypeOK, CopyFunctions
<1>3. /\ Append(box[u][m], s) # <<>>
      /\ HasTick(Append(box[u][m], s)) => HasTick(box[u][m]) \/ s \in Ticked
  <2>1. box[u][m] \in Seq(Status)
    BY <1>1
  <2> QED
    BY <2>1, AppendCopy
<1>4. \A v \in Users, n \in Msgs : Stored(v, n) => Stored(v, n)'
  BY <1>2, <1>3 DEF Stored
<1>5. Stored(u, m)'
  BY <1>2, <1>3 DEF Stored
<1>6. ASSUME BoxHonest, s \in Ticked => Received(m), Grows PROVE BoxHonest'
  <2> SUFFICES ASSUME NEW v \in Users, NEW n \in Msgs, HasTick(box'[v][n])
               PROVE  Received(n)'
    BY DEF BoxHonest, HasTick
  <2>1. Received(n)
    BY <1>2, <1>3, <1>6 DEF BoxHonest
  <2> QED
    BY <1>6, <2>1, GrowsReceived
<1> QED
  BY <1>4, <1>5, <1>6

\* Overwriting a copy loses nothing and is as honest as the new status.
LEMMA OverwriteGrows ==
    ASSUME TypeOK, NEW u \in Users, NEW m \in Msgs, NEW s \in Status,
           NEW i \in Nat,
           box' = [box EXCEPT ![u][m][i] = s]
    PROVE  /\ \A v \in Users, n \in Msgs : Stored(v, n) => Stored(v, n)'
           /\ BoxHonest /\ (s \in Ticked => Received(m)) /\ Grows => BoxHonest'
<1>1. \A v \in Users, n \in Msgs : box[v][n] \in Seq(Status)
  BY DEF TypeOK, CopyFunctions
<1>2. \A v \in Users, n \in Msgs :
         box'[v][n] = IF v = u /\ n = m THEN [box[u][m] EXCEPT ![i] = s] ELSE box[v][n]
  BY DEF TypeOK, CopyFunctions
<1>3. /\ box[u][m] # <<>> => [box[u][m] EXCEPT ![i] = s] # <<>>
      /\ HasTick([box[u][m] EXCEPT ![i] = s]) => HasTick(box[u][m]) \/ s \in Ticked
  BY <1>1, CopyFacts
<1>4. \A v \in Users, n \in Msgs : Stored(v, n) => Stored(v, n)'
  BY <1>2, <1>3 DEF Stored
<1>5. ASSUME BoxHonest, s \in Ticked => Received(m), Grows PROVE BoxHonest'
  <2> SUFFICES ASSUME NEW v \in Users, NEW n \in Msgs, HasTick(box'[v][n])
               PROVE  Received(n)'
    BY DEF BoxHonest, HasTick
  <2>1. Received(n)
    BY <1>2, <1>3, <1>5 DEF BoxHonest
  <2> QED
    BY <1>5, <2>1, GrowsReceived
<1> QED
  BY <1>4, <1>5

\* updateLocalMessageStatus loses nothing and is as honest as its status.
LEMMA LocalUpdateGrows ==
    ASSUME TypeOK, NEW u \in Users, NEW m \in Msgs, NEW s \in Status,
           UpdateLocalMessageStatus(u, m, s)
    PROVE  /\ \A v \in Users, n \in Msgs : Stored(v, n) => Stored(v, n)'
           /\ BoxHonest /\ (s \in Ticked => Received(m)) /\ Grows => BoxHonest'
           /\ PendHonest /\ (s \in Ticked => Received(m)) /\ Grows => PendHonest'
<1>1. CASE box[u][m] # <<>> /\ OverwriteFirst(u, m, s)
  <2>1. /\ \A v \in Users, n \in Msgs : Stored(v, n) => Stored(v, n)'
        /\ BoxHonest /\ (s \in Ticked => Received(m)) /\ Grows => BoxHonest'
    BY <1>1, OverwriteGrows DEF OverwriteFirst
  <2>2. PendHonest /\ Grows => PendHonest'
    BY <1>1, GrowsReceived DEF PendHonest, OverwriteFirst, TypeOK, RowFunctions,
       Ticked, Absent
  <2> QED
    BY <2>1, <2>2
<1>2. CASE pend' = [pend EXCEPT ![u][m] = s] /\ UNCHANGED box
  <2>1. BoxHonest /\ Grows => BoxHonest'
    BY <1>2, GrowsReceived DEF BoxHonest
  <2>2. PendHonest /\ (s \in Ticked => Received(m)) /\ Grows => PendHonest'
    BY <1>2, GrowsReceived DEF PendHonest, TypeOK, RowFunctions
  <2> QED
    BY <1>2, <2>1, <2>2 DEF Stored
<1> QED
  BY <1>1, <1>2 DEF UpdateLocalMessageStatus

\* A PATCH for a received message keeps server and events honest.
LEMMA PatchHonest ==
    ASSUME TypeOK, NEW m \in Msgs, NEW s \in Status, PatchRow(m, s),
           Received(m), Grows,
           UNCHANGED <<issued, purged>>
    PROVE  /\ ServerHonest => ServerHonest'
           /\ EventsHonest => EventsHonest'
           /\ NoUnseenLoss => NoUnseenLoss'
<1>1. \A n \in Msgs : Received(n) => Received(n)'
  BY GrowsReceived
<1>2. ServerHonest => ServerHonest'
  BY <1>1 DEF ServerHonest, PatchRow, TypeOK, RowFunctions
<1>3. NoUnseenLoss => NoUnseenLoss'
  BY <1>1 DEF NoUnseenLoss, PatchRow, TypeOK, RowFunctions
<1>4. ASSUME EventsHonest PROVE EventsHonest'
  <2> SUFFICES ASSUME NEW u \in Users, NEW i \in DOMAIN upd'[u],
                      upd'[u][i][2] \in Ticked
               PROVE  Received(upd[u][i][1])'
    BY DEF EventsHonest
  <2>1. upd[u] \in Seq(Msgs \X Status) /\ <<m, s>> \in Msgs \X Status
    BY DEF TypeOK
  <2>2. upd'[u] = upd[u] \/ upd'[u] = Append(upd[u], <<m, s>>)
    BY DEF PatchRow, TypeOK
  <2>3. upd'[u][i] = <<m, s>> \/ \E j \in DOMAIN upd[u] : upd'[u][i] = upd[u][j]
    <3>1. CASE upd'[u] = upd[u]
      BY <3>1
    <3>2. CASE upd'[u] = Append(upd[u], <<m, s>>)
      <4>1. \A k \in DOMAIN Append(upd[u], <<m, s>>) :
              \/ Append(upd[u], <<m, s>>)[k] = <<m, s>>
              \/ \E j \in DOMAIN upd[u] : Append(upd[u], <<m, s>>)[k] = upd[u][j]
        BY <2>1, AppendElements
      <4> QED
        BY <3>2, <4>1
    <3> QED
      BY <2>2, <3>1, <3>2
  <2>4. \A j \in DOMAIN upd[u] : upd[u][j][1] \in Msgs
    BY <2>1, ElementOfSeq
  <2> QED
    BY <1>1, <1>4, <2>3, <2>4 DEF EventsHonest
<1> QED
  BY <1>2, <1>3, <1>4

\* Deleting the row of a received message loses nothing.
LEMMA DeleteSafe ==
    ASSUME TypeOK, NEW m \in Msgs, DeleteRow(m), Received(m), Grows,
           UNCHANGED <<issued, purged>>
    PROVE  /\ ServerHonest => ServerHonest'
           /\ NoUnseenLoss => NoUnseenLoss'
<1>1. \A n \in Msgs : Received(n) => Received(n)'
  BY GrowsReceived
<1> QED
  BY <1>1 DEF ServerHonest, NoUnseenLoss, DeleteRow, TypeOK, RowFunctions,
     Ticked, Absent

\* A step that leaves the stores and the screens alone loses nothing.
LEMMA FrameGrows == UNCHANGED <<box, shown>> => Grows
BY DEF Grows, Stored

\* No step removes a message from a store or from the history of what was shown.
LEMMA StepGrows == TypeOK /\ InFlight /\ [Next]_vars => Grows
<1> SUFFICES ASSUME TypeOK, InFlight, [Next]_vars PROVE Grows
  OBVIOUS
<1> USE DEF storeVars
<1>1. CASE UNCHANGED vars
  BY <1>1, FrameGrows DEF vars
<1>2. CASE Purge
  BY <1>2, FrameGrows DEF Purge
<1>3. ASSUME NEW u \in Users, Environment(u) PROVE Grows
  BY <1>3, FrameGrows DEF Environment, OpenChat, CloseChat, Crash, Disconnect,
     FetchGetFails, SendPost
<1>4. ASSUME NEW u \in Users, Fetching(u) PROVE Grows
  <2>1. ASSUME NEW m \in Msgs, FetchRow(u, m) PROVE Grows
    <3>1. fetch[u].rows[m] \in Status
      BY <2>1 DEF FetchRow, InFlight, TypeOK, RowFunctions
    <3>2. UNCHANGED shown /\ (Put(u, m, fetch[u].rows[m]) \/ UNCHANGED box)
      BY <2>1 DEF FetchRow, StoreReceived, StoreOwn
    <3> QED
      BY <3>1, <3>2, PutGrows, FrameGrows DEF Grows
  <2>2. CASE FetchReturn(u)
    BY <2>2 DEF FetchReturn, Grows, Stored
  <2>3. CASE FetchGet(u) \/ FetchPatchRead(u) \/ FetchDelete(u)
    BY <2>3, FrameGrows DEF FetchGet, FetchPatchRead, FetchDelete
  <2> QED
    BY <1>4, <2>1, <2>2, <2>3 DEF Fetching
<1>5. ASSUME NEW u \in Users, Sending(u) PROVE Grows
  <2>1. CASE SendSave(u)
    BY <2>1, PutGrows DEF SendSave, InFlight, Grows, Status
  <2>2. CASE SendApplyPending(u)
    <3>1. send[u].msg \in Msgs /\ send[u].status \in Status /\ send[u].idx \in Nat
      BY <2>2 DEF SendApplyPending, InFlight, TypeOK
    <3> QED
      BY <2>2, <3>1, OverwriteGrows DEF SendApplyPending, Grows
  <2>3. CASE SendTakePending(u) \/ SendReturn(u)
    BY <2>3, FrameGrows DEF SendTakePending, SendReturn
  <2> QED
    BY <1>5, <2>1, <2>2, <2>3 DEF Sending
<1>6. ASSUME NEW u \in Users, Receiving(u) PROVE Grows
  <2>1. CASE ReceiveInsert(u)
    BY <2>1 DEF ReceiveInsert, Grows, Stored
  <2>2. CASE ReceiveStatus(u)
    <3>1. Head(upd[u]) \in Msgs \X Status
      BY <2>2, HeadTailProperties DEF ReceiveStatus, TypeOK
    <3>2. Head(upd[u])[1] \in Msgs /\ Head(upd[u])[2] \in Status
      BY <3>1
    <3>3. \/ UNCHANGED <<box, shown>>
          \/ /\ UpdateLocalMessageStatus(u, Head(upd[u])[1], Head(upd[u])[2])
             /\ UNCHANGED shown
      BY <2>2 DEF ReceiveStatus
    <3> QED
      BY <3>2, <3>3, LocalUpdateGrows, FrameGrows DEF Grows
  <2>3. CASE Subscribe(u) \/ KeepPending(u)
    BY <2>3, FrameGrows DEF Subscribe, KeepPending
  <2> QED
    BY <1>6, <2>1, <2>2, <2>3 DEF Receiving
<1>7. ASSUME NEW u \in Users, Calling(u) PROVE Grows
  <2> PICK c \in calls[u] : CallPatch(u, c) \/ CallNoteDelivered(u, c) \/ CallDelete(u, c)
    BY <1>7 DEF Calling
  <2>1. c.msg \in Msgs
    BY DEF TypeOK
  <2>2. CASE CallNoteDelivered(u, c)
    BY <2>1, <2>2, LocalUpdateGrows DEF CallNoteDelivered, Grows, Status
  <2>3. CASE CallPatch(u, c) \/ CallDelete(u, c)
    BY <2>3, FrameGrows DEF CallPatch, CallDelete
  <2> QED
    BY <2>2, <2>3
<1>8. ASSUME NEW u \in Users, Marking(u) PROVE Grows
  <2>1. ASSUME NEW m \in Msgs, MarkReadLocally(u, m) PROVE Grows
    BY <2>1, LocalUpdateGrows DEF MarkReadLocally, Grows, Status
  <2>2. CASE MarkVisible(u)
    BY <2>2, FrameGrows DEF MarkVisible
  <2> QED
    BY <1>8, <2>1, <2>2 DEF Marking
<1> QED
  BY <1>1, <1>2, <1>3, <1>4, <1>5, <1>6, <1>7, <1>8 DEF Next

-----------------------------------------------------------------------------
(* The inductive invariant. *)

\* Each part needs others: a row is deleted by calls (CallsKnown, FetchStored)
\* that come from the list (ScreenShown, TodoKnown) or from events (InsTo), and
\* a tick moves from any of the honest places to any other.
SafeInv ==
    /\ InsTo /\ CallsKnown /\ TodoKnown /\ ScreenShown
    /\ FetchStored /\ SendStored /\ OwnMessagesKept
    /\ ServerHonest /\ EventsHonest /\ HeldHonest /\ PendHonest
    /\ FetchHonest /\ SendHonest /\ BoxHonest /\ ListHonest
    /\ NoUnseenLoss

\* What a step leaves alone stays true: a received or stored message stays so.
LEMMA Frames ==
    ASSUME TypeOK, InFlight, Grows
    PROVE  /\ InsTo /\ UNCHANGED ins => InsTo'
           /\ CallsKnown /\ UNCHANGED calls => CallsKnown'
           /\ TodoKnown /\ UNCHANGED todo => TodoKnown'
           /\ ScreenShown /\ UNCHANGED list => ScreenShown'
           /\ FetchStored /\ UNCHANGED fetch => FetchStored'
           /\ SendStored /\ UNCHANGED send => SendStored'
           /\ OwnMessagesKept /\ UNCHANGED list => OwnMessagesKept'
           /\ ServerHonest /\ UNCHANGED server => ServerHonest'
           /\ EventsHonest /\ UNCHANGED upd => EventsHonest'
           /\ HeldHonest /\ UNCHANGED held => HeldHonest'
           /\ PendHonest /\ UNCHANGED pend => PendHonest'
           /\ FetchHonest /\ UNCHANGED fetch => FetchHonest'
           /\ SendHonest /\ UNCHANGED send => SendHonest'
           /\ BoxHonest /\ UNCHANGED box => BoxHonest'
           /\ ListHonest /\ UNCHANGED list => ListHonest'
           /\ NoUnseenLoss /\ UNCHANGED serverVars => NoUnseenLoss'
<1>1. \A m \in Msgs : Received(m) => Received(m)'
  BY GrowsReceived
<1>2. \A u \in Users, m \in Msgs : Stored(u, m) => Stored(u, m)'
  BY DEF Grows
<1>a. InsTo /\ UNCHANGED ins => InsTo'
  BY DEF InsTo
<1>b. CallsKnown /\ UNCHANGED calls => CallsKnown'
  BY <1>1 DEF CallsKnown, TypeOK
<1>c. TodoKnown /\ UNCHANGED todo => TodoKnown'
  BY <1>1 DEF TodoKnown, TypeOK
<1>d. ScreenShown /\ UNCHANGED list => ScreenShown'
  BY DEF ScreenShown, Grows
<1>e. FetchStored /\ UNCHANGED fetch => FetchStored'
  BY <1>2 DEF FetchStored, InFlight
<1>f. SendStored /\ UNCHANGED send => SendStored'
  BY <1>2 DEF SendStored, InFlight
<1>g. OwnMessagesKept /\ UNCHANGED list => OwnMessagesKept'
  BY <1>2, ConversationAssumption DEF OwnMessagesKept
<1>h. ServerHonest /\ UNCHANGED server => ServerHonest'
  BY <1>1 DEF ServerHonest
<1>i. EventsHonest /\ UNCHANGED upd => EventsHonest'
  <2>1. \A u \in Users : \A i \in DOMAIN upd[u] : upd[u][i][1] \in Msgs
    BY ElementOfSeq DEF TypeOK
  <2> QED
    BY <1>1, <2>1 DEF EventsHonest
<1>j. HeldHonest /\ UNCHANGED held => HeldHonest'
  <2>1. \A u \in Users : held[u] # <<>> => held[u][1] \in Msgs
    BY DEF TypeOK
  <2> QED
    BY <1>1, <2>1 DEF HeldHonest
<1>k. PendHonest /\ UNCHANGED pend => PendHonest'
  BY <1>1 DEF PendHonest
<1>l. FetchHonest /\ UNCHANGED fetch => FetchHonest'
  BY <1>1 DEF FetchHonest
<1>m. SendHonest /\ UNCHANGED send => SendHonest'
  BY <1>1 DEF SendHonest, InFlight
<1>n. BoxHonest /\ UNCHANGED box => BoxHonest'
  BY <1>1 DEF BoxHonest
<1>o. ListHonest /\ UNCHANGED list => ListHonest'
  BY <1>1 DEF ListHonest
<1>p. NoUnseenLoss /\ UNCHANGED serverVars => NoUnseenLoss'
  BY <1>1 DEF NoUnseenLoss, serverVars, TypeOK
<1> QED
  BY <1>a, <1>b, <1>c, <1>d, <1>e, <1>f, <1>g, <1>h, <1>i, <1>j, <1>k, <1>l,
     <1>m, <1>n, <1>o, <1>p

\* fetchMessages goes on with what it has read so far.
LEMMA FetchGoesOn ==
    ASSUME TypeOK, InFlight, Grows,
           \A u \in Users :
               /\ fetch'[u].snap = fetch[u].snap /\ fetch'[u].rows = fetch[u].rows
               /\ fetch'[u].left = fetch[u].left
               /\ fetch'[u].pc \in {"patch", "delete"} =>
                      fetch[u].pc \in {"patch", "delete"} /\ fetch'[u].cur = fetch[u].cur
    PROVE  /\ FetchStored => FetchStored'
           /\ FetchHonest => FetchHonest'
<1>1. \A m \in Msgs : Received(m) => Received(m)'
  BY GrowsReceived
<1>2. \A u \in Users, m \in Msgs : Stored(u, m) => Stored(u, m)'
  BY DEF Grows
<1>3. FetchStored => FetchStored'
  BY <1>2 DEF FetchStored, InFlight
<1>4. FetchHonest => FetchHonest'
  BY <1>1 DEF FetchHonest
<1> QED
  BY <1>3, <1>4

\* sendMessage goes on, or ends, with the status it has so far.
LEMMA SendGoesOn ==
    ASSUME TypeOK, InFlight, Grows,
           \A u \in Users :
               \/ send'[u].pc = "idle"
               \/ /\ send[u].pc # "idle"
                  /\ send'[u].msg = send[u].msg /\ send'[u].status = send[u].status
                  /\ send'[u].pc \in {"take", "apply", "return"} =>
                         send[u].pc \in {"take", "apply", "return"}
    PROVE  /\ SendStored => SendStored'
           /\ SendHonest => SendHonest'
<1>1. \A m \in Msgs : Received(m) => Received(m)'
  BY GrowsReceived
<1>2. \A u \in Users, m \in Msgs : Stored(u, m) => Stored(u, m)'
  BY DEF Grows
<1>3. SendStored => SendStored'
  BY <1>2 DEF SendStored, InFlight
<1>4. SendHonest => SendHonest'
  BY <1>1 DEF SendHonest, InFlight
<1> QED
  BY <1>3, <1>4

\* The screen of one device goes: what is left of the invariant is about the other.
LEMMA DropSafe ==
    ASSUME TypeOK, InFlight, Grows, SafeInv, NEW u \in Users, DropScreen(u)
    PROVE  /\ InsTo' /\ TodoKnown' /\ ScreenShown' /\ OwnMessagesKept'
           /\ EventsHonest' /\ ListHonest'
<1>1. \A m \in Msgs : Received(m) => Received(m)'
  BY GrowsReceived
<1>2. \A v \in Users, m \in Msgs : Stored(v, m) => Stored(v, m)'
  BY DEF Grows
<1>3. \A v \in Users, m \in Msgs : list'[v][m] = <<>> \/ list'[v][m] = list[v][m]
  BY DEF DropScreen, NoCopies, TypeOK
<1>4. InsTo'
  BY DEF DropScreen, SafeInv, InsTo, TypeOK
<1>5. TodoKnown'
  BY <1>1 DEF DropScreen, SafeInv, TodoKnown, TypeOK
<1>6. ScreenShown'
  BY <1>3, ConversationAssumption DEF SafeInv, ScreenShown, Grows
<1>7. OwnMessagesKept'
  BY <1>2, <1>3, ConversationAssumption DEF SafeInv, OwnMessagesKept
<1>8. EventsHonest'
  <2>1. \A v \in Users : \A i \in DOMAIN upd[v] : upd[v][i][1] \in Msgs
    BY ElementOfSeq DEF TypeOK
  <2>2. \A v \in Users : upd'[v] = upd[v] \/ upd'[v] = <<>>
    BY DEF DropScreen, TypeOK
  <2> QED
    BY <1>1, <2>1, <2>2 DEF SafeInv, EventsHonest
<1>9. ListHonest'
  BY <1>1, <1>3 DEF SafeInv, ListHonest, HasTick
<1> QED
  BY <1>4, <1>5, <1>6, <1>7, <1>8, <1>9

\* Purge preserves the inductive invariant.
LEMMA PurgeSafe ==
    ASSUME TypeOK, InFlight, Grows, SafeInv, Purge
    PROVE  SafeInv'
<1> USE ConversationAssumption
<1>1. \A n \in Msgs : Received(n) => Received(n)'
  BY GrowsReceived
<1>2. \A v \in Users, n \in Msgs : Stored(v, n) => Stored(v, n)'
  BY DEF Grows
<1>3. ServerHonest' /\ NoUnseenLoss'
  <2>1. /\ issued \subseteq Msgs /\ issued' = issued
        /\ \E old \in SUBSET Msgs :
             /\ server' = [m \in Msgs |-> IF m \in old THEN Absent ELSE server[m]]
             /\ purged' = purged \cup old
    BY DEF Purge, TypeOK
  <2>2. Absent \notin Ticked
    BY DEF Ticked, Absent
  <2>3. \A n \in Msgs : server'[n] = server[n] \/ (server'[n] = Absent /\ n \in purged')
    BY <2>1
  <2>4. ServerHonest'
    BY <1>1, <2>2, <2>3 DEF SafeInv, ServerHonest
  <2>5. NoUnseenLoss'
    BY <1>1, <2>1, <2>3 DEF SafeInv, NoUnseenLoss
  <2> QED
    BY <2>4, <2>5
<1>4. InsTo' /\ CallsKnown' /\ TodoKnown' /\ ScreenShown' /\ FetchStored' /\
      SendStored' /\ OwnMessagesKept' /\ EventsHonest' /\ HeldHonest' /\
      PendHonest' /\ FetchHonest' /\ SendHonest' /\ BoxHonest' /\
      ListHonest'
  BY Frames DEF Purge, SafeInv, serverVars, eventVars, storeVars, uiVars,
     boundVars
<1> QED
  BY <1>3, <1>4 DEF SafeInv

\* OpenChat preserves the inductive invariant.
LEMMA OpenChatSafe ==
    ASSUME TypeOK, InFlight, Grows, SafeInv, NEW u \in Users, OpenChat(u)
    PROVE  SafeInv'
<1> USE ConversationAssumption
<1>1. \A n \in Msgs : Received(n) => Received(n)'
  BY GrowsReceived
<1>2. \A v \in Users, n \in Msgs : Stored(v, n) => Stored(v, n)'
  BY DEF Grows
<1>a. /\ \A v \in Users \ {u} : fetch'[v] = fetch[v]
      /\ fetch'[u].pc = "get" /\ fetch'[u].snap = box[u] /\ fetch'[u].rows = NoRows
      /\ \A n \in Msgs : box[u][n] # <<>> => Stored(u, n)
      /\ \A n \in Msgs : NoRows[n] = Absent
  BY DEF OpenChat, IdleFetch, TypeOK, NoRows, Stored
<1>3. FetchStored'
  BY <1>2, <1>a DEF SafeInv, FetchStored, InFlight
<1>4. FetchHonest'
  BY <1>1, <1>a DEF SafeInv, FetchHonest, BoxHonest, Ticked, Absent
<1>5. InsTo' /\ CallsKnown' /\ TodoKnown' /\ ScreenShown' /\ SendStored' /\
      OwnMessagesKept' /\ ServerHonest' /\ EventsHonest' /\ HeldHonest' /\
      PendHonest' /\ SendHonest' /\ BoxHonest' /\ ListHonest' /\
      NoUnseenLoss'
  BY Frames DEF OpenChat, SafeInv, serverVars, eventVars, storeVars, uiVars,
     boundVars
<1> QED
  BY <1>3, <1>4, <1>5 DEF SafeInv

\* Subscribe preserves the inductive invariant.
LEMMA SubscribeSafe ==
    ASSUME TypeOK, InFlight, Grows, SafeInv, NEW u \in Users, Subscribe(u)
    PROVE  SafeInv'
<1> USE ConversationAssumption
<1>1. \A n \in Msgs : Received(n) => Received(n)'
  BY GrowsReceived
<1>2. \A v \in Users, n \in Msgs : Stored(v, n) => Stored(v, n)'
  BY DEF Grows
<1>3. InsTo' /\ CallsKnown' /\ TodoKnown' /\ ScreenShown' /\ FetchStored' /\
      SendStored' /\ OwnMessagesKept' /\ ServerHonest' /\ EventsHonest' /\
      HeldHonest' /\ PendHonest' /\ FetchHonest' /\ SendHonest' /\
      BoxHonest' /\ ListHonest' /\ NoUnseenLoss'
  BY Frames DEF Subscribe, SafeInv, serverVars, eventVars, storeVars, uiVars,
     boundVars
<1> QED
  BY <1>3 DEF SafeInv

\* CloseChat preserves the inductive invariant.
LEMMA CloseChatSafe ==
    ASSUME TypeOK, InFlight, Grows, SafeInv, NEW u \in Users, CloseChat(u)
    PROVE  SafeInv'
<1> USE ConversationAssumption
<1>1. \A n \in Msgs : Received(n) => Received(n)'
  BY GrowsReceived
<1>2. \A v \in Users, n \in Msgs : Stored(v, n) => Stored(v, n)'
  BY DEF Grows
<1>3. InsTo' /\ TodoKnown' /\ ScreenShown' /\ OwnMessagesKept' /\ EventsHonest' /\ ListHonest'
  BY DropSafe DEF CloseChat
<1>4. FetchStored' /\ FetchHonest'
  <2>1. \A v \in Users :
           /\ fetch'[v].snap = fetch[v].snap /\ fetch'[v].rows = fetch[v].rows
           /\ fetch'[v].left = fetch[v].left
           /\ fetch'[v].pc \in {"patch", "delete"} =>
                  fetch[v].pc \in {"patch", "delete"} /\ fetch'[v].cur = fetch[v].cur
    BY DEF CloseChat, TypeOK
  <2> QED
    BY <2>1, FetchGoesOn DEF SafeInv
<1>5. SendStored' /\ SendHonest'
  <2>1. \A v \in Users :
           /\ send'[v].msg = send[v].msg /\ send'[v].status = send[v].status
           /\ send'[v].pc = send[v].pc
    <3>1. send' = [send EXCEPT ![u].live = FALSE] /\ send \in [Users -> Sends]
      BY DEF CloseChat, TypeOK, Sends
    <3> QED
      BY <3>1 DEF Sends
  <2> QED
    BY <2>1, SendGoesOn DEF SafeInv
<1>6. CallsKnown'
  <2>1. PICK cancelled \in SUBSET {c \in calls[u] : c.op = "patchDelivered"} :
              calls' = [calls EXCEPT ![u] = Detached(@ \ cancelled)]
    BY DEF CloseChat
  <2>2. \A v \in Users : \A d \in calls'[v] : \E c \in calls[v] : d.msg = c.msg
    BY <2>1 DEF Detached, TypeOK
  <2> QED
    BY SMTT(30), <1>1, <2>2 DEF SafeInv, CallsKnown, TypeOK
<1>7. ServerHonest' /\ HeldHonest' /\ PendHonest' /\ BoxHonest' /\
      NoUnseenLoss'
  BY Frames DEF CloseChat, SafeInv, serverVars, eventVars, storeVars, uiVars,
     boundVars
<1> QED
  BY <1>3, <1>4, <1>5, <1>6, <1>7 DEF SafeInv

\* Crash preserves the inductive invariant.
LEMMA CrashSafe ==
    ASSUME TypeOK, InFlight, Grows, SafeInv, NEW u \in Users, Crash(u)
    PROVE  SafeInv'
<1> USE ConversationAssumption
<1>1. \A n \in Msgs : Received(n) => Received(n)'
  BY GrowsReceived
<1>2. \A v \in Users, n \in Msgs : Stored(v, n) => Stored(v, n)'
  BY DEF Grows
<1>3. InsTo' /\ TodoKnown' /\ ScreenShown' /\ OwnMessagesKept' /\ EventsHonest' /\ ListHonest'
  BY DropSafe DEF Crash
<1>4. FetchStored' /\ FetchHonest'
  <2>1. /\ \A v \in Users \ {u} : fetch'[v] = fetch[v]
        /\ fetch'[u].pc = "idle" /\ fetch'[u].snap = NoCopies /\ fetch'[u].rows = NoRows
        /\ \A n \in Msgs : NoRows[n] = Absent /\ NoCopies[n] = <<>>
    BY DEF Crash, IdleFetch, TypeOK, NoRows, NoCopies
  <2>2. FetchStored'
    BY <1>2, <2>1 DEF SafeInv, FetchStored, InFlight
  <2>3. FetchHonest'
    BY <1>1, <2>1 DEF SafeInv, FetchHonest, HasTick, Ticked, Absent
  <2> QED
    BY <2>2, <2>3
<1>5. SendStored' /\ SendHonest'
  BY SendGoesOn DEF Crash, TypeOK, SafeInv, IdleSend
<1>6. CallsKnown'
  BY <1>1 DEF Crash, SafeInv, CallsKnown, TypeOK
<1>7. HeldHonest'
  <2>1. \A v \in Users : held[v] # <<>> => held[v][1] \in Msgs
    BY DEF TypeOK
  <2>2. \A v \in Users : held'[v] = held[v] \/ held'[v] = <<>>
    BY DEF Crash, TypeOK
  <2> QED
    BY <1>1, <2>1, <2>2 DEF SafeInv, HeldHonest
<1>8. PendHonest'
  BY <1>1 DEF Crash, SafeInv, PendHonest, TypeOK, NoRows, Ticked, Absent
<1>9. ServerHonest' /\ BoxHonest' /\ NoUnseenLoss'
  BY Frames DEF Crash, SafeInv, serverVars, eventVars, storeVars, uiVars,
     boundVars
<1> QED
  BY <1>3, <1>4, <1>5, <1>6, <1>7, <1>8, <1>9 DEF SafeInv

\* Disconnect preserves the inductive invariant.
LEMMA DisconnectSafe ==
    ASSUME TypeOK, InFlight, Grows, SafeInv, NEW u \in Users, Disconnect(u)
    PROVE  SafeInv'
<1> USE ConversationAssumption
<1>1. \A n \in Msgs : Received(n) => Received(n)'
  BY GrowsReceived
<1>2. \A v \in Users, n \in Msgs : Stored(v, n) => Stored(v, n)'
  BY DEF Grows
<1>3. InsTo'
  BY DEF Disconnect, SafeInv, InsTo, TypeOK
<1>4. EventsHonest'
  <2>1. \A v \in Users : \A i \in DOMAIN upd[v] : upd[v][i][1] \in Msgs
    BY ElementOfSeq DEF TypeOK
  <2>2. \A v \in Users : upd'[v] = upd[v] \/ upd'[v] = <<>>
    BY DEF Disconnect, TypeOK
  <2> QED
    BY <1>1, <2>1, <2>2 DEF SafeInv, EventsHonest
<1>5. CallsKnown' /\ TodoKnown' /\ ScreenShown' /\ FetchStored' /\
      SendStored' /\ OwnMessagesKept' /\ ServerHonest' /\ HeldHonest' /\
      PendHonest' /\ FetchHonest' /\ SendHonest' /\ BoxHonest' /\
      ListHonest' /\ NoUnseenLoss'
  BY Frames DEF Disconnect, SafeInv, serverVars, eventVars, storeVars, uiVars,
     boundVars
<1> QED
  BY <1>3, <1>4, <1>5 DEF SafeInv

\* FetchGet preserves the inductive invariant.
LEMMA FetchGetSafe ==
    ASSUME TypeOK, InFlight, Grows, SafeInv, NEW u \in Users, FetchGet(u)
    PROVE  SafeInv'
<1> USE ConversationAssumption
<1>1. \A n \in Msgs : Received(n) => Received(n)'
  BY GrowsReceived
<1>2. \A v \in Users, n \in Msgs : Stored(v, n) => Stored(v, n)'
  BY DEF Grows
<1>a. /\ \A v \in Users \ {u} : fetch'[v] = fetch[v]
      /\ fetch'[u].pc = "rows" /\ fetch'[u].snap = fetch[u].snap
      /\ fetch'[u].rows = server /\ fetch'[u].left = {n \in Msgs : server[n] # Absent}
  BY DEF FetchGet, TypeOK
<1>3. FetchStored'
  <2>1. \A n \in Msgs : fetch[u].snap[n] # <<>> => Stored(u, n)'
    BY <1>2 DEF SafeInv, FetchStored
  <2>2. \A n \in Msgs : ~(fetch'[u].rows[n] # Absent /\ n \notin fetch'[u].left)
    BY <1>a
  <2>3. \A v \in Users \ {u} :
           /\ fetch[v].pc \in {"patch", "delete"} => Stored(v, fetch[v].cur)'
           /\ \A n \in Msgs :
                 /\ fetch[v].snap[n] # <<>> => Stored(v, n)'
                 /\ fetch[v].rows[n] # Absent /\ n \notin fetch[v].left => Stored(v, n)'
    <3>1. \A v \in Users :
             /\ fetch[v].pc \in {"patch", "delete"} =>
                    fetch[v].cur \in Msgs /\ Stored(v, fetch[v].cur)
             /\ \A n \in Msgs :
                   /\ fetch[v].snap[n] # <<>> => Stored(v, n)
                   /\ fetch[v].rows[n] # Absent /\ n \notin fetch[v].left => Stored(v, n)
      BY DEF SafeInv, FetchStored, InFlight
    <3> QED
      BY <1>2, <1>a, <3>1
  <2> SUFFICES ASSUME NEW v \in Users
               PROVE  /\ fetch'[v].pc \in {"patch", "delete"} => Stored(v, fetch[v].cur)'
                      /\ \A n \in Msgs :
                            /\ fetch'[v].snap[n] # <<>> => Stored(v, n)'
                            /\ fetch'[v].rows[n] # Absent /\ n \notin fetch'[v].left
                                  => Stored(v, n)'
    BY DEF FetchStored
  <2>4. CASE v = u
    BY <1>a, <2>1, <2>2, <2>4
  <2>5. CASE v # u
    BY <1>a, <2>3, <2>5 DEF Stored
  <2> QED
    BY <2>4, <2>5
<1>4. FetchHonest'
  BY <1>1, <1>a DEF SafeInv, FetchHonest, ServerHonest
<1>5. InsTo' /\ CallsKnown' /\ TodoKnown' /\ ScreenShown' /\ SendStored' /\
      OwnMessagesKept' /\ ServerHonest' /\ EventsHonest' /\ HeldHonest' /\
      PendHonest' /\ SendHonest' /\ BoxHonest' /\ ListHonest' /\
      NoUnseenLoss'
  BY Frames DEF FetchGet, SafeInv, serverVars, eventVars, storeVars, uiVars,
     boundVars
<1> QED
  BY <1>3, <1>4, <1>5 DEF SafeInv

\* FetchGetFails preserves the inductive invariant.
LEMMA FetchGetFailsSafe ==
    ASSUME TypeOK, InFlight, Grows, SafeInv, NEW u \in Users, FetchGetFails(u)
    PROVE  SafeInv'
<1> USE ConversationAssumption
<1>1. \A n \in Msgs : Received(n) => Received(n)'
  BY GrowsReceived
<1>2. \A v \in Users, n \in Msgs : Stored(v, n) => Stored(v, n)'
  BY DEF Grows
<1>a. /\ \A v \in Users \ {u} : fetch'[v] = fetch[v]
      /\ fetch'[u].pc = "rows" /\ (fetch'[u].snap = fetch[u].snap \/ fetch'[u].snap = NoCopies)
      /\ fetch'[u].rows = fetch[u].rows /\ fetch'[u].left = fetch[u].left
      /\ \A n \in Msgs : NoCopies[n] = <<>>
  BY DEF FetchGetFails, TypeOK, NoCopies
<1>3. FetchStored'
  BY <1>2, <1>a DEF SafeInv, FetchStored, InFlight
<1>4. FetchHonest'
  BY <1>1, <1>a DEF SafeInv, FetchHonest, HasTick
<1>5. InsTo' /\ CallsKnown' /\ TodoKnown' /\ ScreenShown' /\ SendStored' /\
      OwnMessagesKept' /\ ServerHonest' /\ EventsHonest' /\ HeldHonest' /\
      PendHonest' /\ SendHonest' /\ BoxHonest' /\ ListHonest' /\
      NoUnseenLoss'
  BY Frames DEF FetchGetFails, SafeInv, serverVars, eventVars, storeVars,
     uiVars, boundVars
<1> QED
  BY <1>3, <1>4, <1>5 DEF SafeInv

\* FetchRow preserves the inductive invariant.
LEMMA FetchRowSafe ==
    ASSUME TypeOK, InFlight, Grows, SafeInv, NEW u \in Users, NEW m \in Msgs,
           FetchRow(u, m)
    PROVE  SafeInv'
<1> USE ConversationAssumption
<1>1. \A n \in Msgs : Received(n) => Received(n)'
  BY GrowsReceived
<1>2. \A v \in Users, n \in Msgs : Stored(v, n) => Stored(v, n)'
  BY DEF Grows
<1>a. /\ \A v \in Users \ {u} : fetch'[v] = fetch[v]
      /\ fetch'[u].pc \in {"patch", "delete"} => fetch'[u].cur = m
      /\ fetch'[u].snap = fetch[u].snap /\ fetch'[u].rows = fetch[u].rows
      /\ fetch'[u].left = fetch[u].left \ {m}
  <2>1. CASE fetch' = [fetch EXCEPT ![u].pc = "patch", ![u].cur = m,
                                    ![u].left = @ \ {m}]
    BY <2>1 DEF TypeOK
  <2>2. CASE fetch' = [fetch EXCEPT ![u].left = @ \ {m}] /\ fetch[u].pc = "rows"
    <3>1. fetch \in [Users -> Fetches]
      BY DEF TypeOK, Fetches
    <3> QED
      BY <2>2, <3>1 DEF Fetches
  <2>3. fetch[u].pc = "rows"
    BY DEF FetchRow
  <2> QED
    BY <2>1, <2>2, <2>3 DEF FetchRow
<1>b. /\ fetch[u].rows[m] \in Status
      /\ Put(u, m, fetch[u].rows[m]) \/ (UNCHANGED box /\ fetch[u].snap[m] # <<>>)
  <2>1. fetch[u].rows[m] \in Status
    <3>1. m \in fetch[u].left
      BY DEF FetchRow
    <3>2. fetch[u].rows[m] # Absent
      BY <3>1 DEF InFlight
    <3>3. fetch[u].rows \in RowFunctions
      BY DEF TypeOK
    <3> QED
      BY <3>2, <3>3 DEF RowFunctions
  <2>2. CASE StoreReceived(u, m)
    BY <2>1, <2>2 DEF StoreReceived
  <2>3. CASE StoreOwn(u, m)
    BY <2>1, <2>3 DEF StoreOwn
  <2> QED
    BY <2>2, <2>3 DEF FetchRow
<1>c. Stored(u, m)'
  <2>1. CASE Put(u, m, fetch[u].rows[m])
    BY <1>b, <2>1, PutGrows
  <2>2. CASE fetch[u].snap[m] # <<>>
    BY <1>2, <2>2 DEF SafeInv, FetchStored
  <2> QED
    BY <1>b, <2>1, <2>2
<1>3. FetchStored'
  BY <1>2, <1>a, <1>c DEF SafeInv, FetchStored, InFlight
<1>4. FetchHonest'
  BY <1>1, <1>a DEF SafeInv, FetchHonest
<1>5. BoxHonest'
  <2>1. fetch[u].rows[m] \in Ticked => Received(m)
    BY DEF SafeInv, FetchHonest
  <2> QED
    BY <1>b, <2>1, PutGrows, Frames DEF SafeInv
<1>6. InsTo' /\ CallsKnown' /\ TodoKnown' /\ ScreenShown' /\ SendStored' /\
      OwnMessagesKept' /\ ServerHonest' /\ EventsHonest' /\ HeldHonest' /\
      PendHonest' /\ SendHonest' /\ ListHonest' /\ NoUnseenLoss'
  BY Frames DEF FetchRow, SafeInv, serverVars, eventVars, storeVars, uiVars,
     boundVars
<1> QED
  BY <1>3, <1>4, <1>5, <1>6 DEF SafeInv

\* FetchPatchRead preserves the inductive invariant.
LEMMA FetchPatchReadSafe ==
    ASSUME TypeOK, InFlight, Grows, SafeInv, NEW u \in Users, FetchPatchRead(u)
    PROVE  SafeInv'
<1> USE ConversationAssumption
<1>1. \A n \in Msgs : Received(n) => Received(n)'
  BY GrowsReceived
<1>2. \A v \in Users, n \in Msgs : Stored(v, n) => Stored(v, n)'
  BY DEF Grows
<1>a. fetch[u].cur \in Msgs /\ Received(fetch[u].cur)
  BY DEF FetchPatchRead, InFlight, SafeInv, FetchStored, Received
<1>3. FetchStored' /\ FetchHonest'
  <2>1. \A v \in Users :
           /\ fetch'[v].snap = fetch[v].snap /\ fetch'[v].rows = fetch[v].rows
           /\ fetch'[v].left = fetch[v].left
           /\ fetch'[v].pc \in {"patch", "delete"} =>
                  fetch[v].pc \in {"patch", "delete"} /\ fetch'[v].cur = fetch[v].cur
    <3>1. /\ fetch \in [Users -> Fetches] /\ fetch[u].pc = "patch"
          /\ \/ fetch' = [fetch EXCEPT ![u].pc = "delete"]
             \/ fetch' = [fetch EXCEPT ![u].pc = "rows", ![u].cur = NoMsg]
      BY DEF FetchPatchRead, GoOnToDelete, NextRow, TypeOK, Fetches
    <3>2. CASE fetch' = [fetch EXCEPT ![u].pc = "delete"]
      BY <3>1, <3>2 DEF Fetches
    <3>3. CASE fetch' = [fetch EXCEPT ![u].pc = "rows", ![u].cur = NoMsg]
      BY <3>1, <3>3 DEF Fetches
    <3> QED
      BY <3>1, <3>2, <3>3
  <2> QED
    BY <2>1, FetchGoesOn DEF SafeInv
<1>4. ServerHonest' /\ EventsHonest' /\ NoUnseenLoss'
  <2>1. CASE PatchRow(fetch[u].cur, "read")
    BY <1>a, <2>1, PatchHonest DEF FetchPatchRead, SafeInv, Status
  <2>2. CASE UNCHANGED <<server, upd>>
    BY <2>2, Frames DEF FetchPatchRead, SafeInv, serverVars
  <2> QED
    BY <2>1, <2>2 DEF FetchPatchRead
<1>5. InsTo' /\ CallsKnown' /\ TodoKnown' /\ ScreenShown' /\ SendStored' /\
      OwnMessagesKept' /\ HeldHonest' /\ PendHonest' /\ SendHonest' /\
      BoxHonest' /\ ListHonest'
  BY Frames DEF FetchPatchRead, SafeInv, serverVars, eventVars, storeVars,
     uiVars, boundVars
<1> QED
  BY <1>3, <1>4, <1>5 DEF SafeInv

\* FetchDelete preserves the inductive invariant.
LEMMA FetchDeleteSafe ==
    ASSUME TypeOK, InFlight, Grows, SafeInv, NEW u \in Users, FetchDelete(u)
    PROVE  SafeInv'
<1> USE ConversationAssumption
<1>1. \A n \in Msgs : Received(n) => Received(n)'
  BY GrowsReceived
<1>2. \A v \in Users, n \in Msgs : Stored(v, n) => Stored(v, n)'
  BY DEF Grows
<1>a. fetch[u].cur \in Msgs /\ Received(fetch[u].cur)
  BY DEF FetchDelete, InFlight, SafeInv, FetchStored, Received
<1>3. FetchStored' /\ FetchHonest'
  <2>1. \A v \in Users :
           /\ fetch'[v].snap = fetch[v].snap /\ fetch'[v].rows = fetch[v].rows
           /\ fetch'[v].left = fetch[v].left
           /\ fetch'[v].pc \in {"patch", "delete"} =>
                  fetch[v].pc \in {"patch", "delete"} /\ fetch'[v].cur = fetch[v].cur
    BY DEF FetchDelete, NextRow, TypeOK
  <2> QED
    BY <2>1, FetchGoesOn DEF SafeInv
<1>4. ServerHonest' /\ NoUnseenLoss'
  <2>1. CASE DeleteRow(fetch[u].cur)
    BY <1>a, <2>1, DeleteSafe DEF FetchDelete, SafeInv
  <2>2. CASE UNCHANGED server
    BY <2>2, Frames DEF FetchDelete, SafeInv, serverVars
  <2> QED
    BY <2>1, <2>2 DEF FetchDelete
<1>5. InsTo' /\ CallsKnown' /\ TodoKnown' /\ ScreenShown' /\ SendStored' /\
      OwnMessagesKept' /\ EventsHonest' /\ HeldHonest' /\ PendHonest' /\
      SendHonest' /\ BoxHonest' /\ ListHonest'
  BY Frames DEF FetchDelete, SafeInv, serverVars, eventVars, storeVars, uiVars,
     boundVars
<1> QED
  BY <1>3, <1>4, <1>5 DEF SafeInv

\* FetchReturn preserves the inductive invariant.
LEMMA FetchReturnSafe ==
    ASSUME TypeOK, InFlight, Grows, SafeInv, NEW u \in Users, FetchReturn(u)
    PROVE  SafeInv'
<1> USE ConversationAssumption
<1>1. \A n \in Msgs : Received(n) => Received(n)'
  BY GrowsReceived
<1>2. \A v \in Users, n \in Msgs : Stored(v, n) => Stored(v, n)'
  BY DEF Grows
<1>a. /\ \A v \in Users \ {u} : fetch'[v] = fetch[v]
      /\ fetch'[u].pc = "idle" /\ fetch'[u].snap = NoCopies /\ fetch'[u].rows = NoRows
      /\ \A n \in Msgs : NoRows[n] = Absent /\ NoCopies[n] = <<>>
  BY DEF FetchReturn, IdleFetch, TypeOK, NoRows, NoCopies
<1>b. \/ UNCHANGED list
      \/ /\ \A v \in Users \ {u} : list'[v] = list[v]
         /\ list'[u] = Combined(fetch[u])
         /\ shown' = shown \cup {n \in OnScreen(Combined(fetch[u])) : To[n] = u}
  BY DEF FetchReturn, TypeOK
<1>c. \A n \in Msgs : Combined(fetch[u])[n] # <<>> => Stored(u, n)
  BY DEF FetchReturn, Combined, SafeInv, FetchStored
<1>d. \A n \in Msgs : HasTick(Combined(fetch[u])[n]) => Received(n)
  <2>1. \A n \in Msgs : fetch[u].rows[n] # Absent => fetch[u].rows[n] \in Status
    BY DEF TypeOK, RowFunctions
  <2>2. \A s \in Status : HasTick(<<s>>) => s \in Ticked
    BY DEF HasTick
  <2> QED
    BY <2>1, <2>2 DEF Combined, SafeInv, FetchHonest
<1>3. FetchStored'
  BY <1>2, <1>a DEF SafeInv, FetchStored, InFlight
<1>4. FetchHonest'
  BY <1>1, <1>a DEF SafeInv, FetchHonest, HasTick, Ticked, Absent
<1>5. ScreenShown'
  BY <1>b DEF SafeInv, ScreenShown, Grows, OnScreen, FetchReturn
<1>6. OwnMessagesKept'
  BY ZenonT(30), <1>2, <1>b, <1>c DEF SafeInv, OwnMessagesKept
<1>7. ListHonest'
  BY <1>1, <1>b, <1>d DEF SafeInv, ListHonest
<1>8. InsTo' /\ CallsKnown' /\ TodoKnown' /\ SendStored' /\ ServerHonest' /\
      EventsHonest' /\ HeldHonest' /\ PendHonest' /\ SendHonest' /\
      BoxHonest' /\ NoUnseenLoss'
  BY Frames DEF FetchReturn, SafeInv, serverVars, eventVars, storeVars, uiVars,
     boundVars
<1> QED
  BY <1>3, <1>4, <1>5, <1>6, <1>7, <1>8 DEF SafeInv

\* SendPost preserves the inductive invariant.
LEMMA SendPostSafe ==
    ASSUME TypeOK, InFlight, Grows, SafeInv, NEW u \in Users, NEW m \in Msgs,
           SendPost(u, m)
    PROVE  SafeInv'
<1> USE ConversationAssumption
<1>1. \A n \in Msgs : Received(n) => Received(n)'
  BY GrowsReceived
<1>2. \A v \in Users, n \in Msgs : Stored(v, n) => Stored(v, n)'
  BY DEF Grows
<1>a. /\ \A v \in Users \ {u} : send'[v] = send[v]
      /\ \/ send'[u] = send[u]
         \/ send'[u].pc = "save" /\ send'[u].msg = m /\ send'[u].status = "sent"
  <2>1. CASE send' = [send EXCEPT ![u] = [IdleSend EXCEPT !.pc = "save",
                                              !.msg = m, !.live = TRUE]]
    BY ZenonT(30), <2>1, StartedSend DEF TypeOK
  <2>2. CASE UNCHANGED send
    BY <2>2
  <2> QED
    BY <2>1, <2>2 DEF SendPost
<1>3. InsTo'
  <2> SUFFICES ASSUME NEW v \in Users, NEW i \in DOMAIN ins'[v] PROVE To[ins'[v][i]] = v
    BY DEF InsTo
  <2>1. CASE ins'[v] = ins[v]
    BY <2>1 DEF SafeInv, InsTo
  <2>2. CASE ins'[v] = Append(ins[v], m) /\ v = To[m]
    <3>1. \A k \in DOMAIN Append(ins[v], m) :
            \/ Append(ins[v], m)[k] = m
            \/ \E j \in DOMAIN ins[v] : Append(ins[v], m)[k] = ins[v][j]
      <4>1. ins[v] \in Seq(Msgs)
        BY DEF TypeOK
      <4> QED
        BY SMTT(30), <4>1, AppendElements
    <3> QED
      BY <2>2, <3>1 DEF SafeInv, InsTo
  <2> QED
    BY <2>1, <2>2 DEF SendPost, TypeOK
<1>4. SendStored'
  <2>1. ASSUME NEW v \in Users, send'[v].pc \in {"take", "apply", "return"}
        PROVE  send'[v] = send[v] /\ Stored(v, send[v].msg)'
    <3>1. send'[v] = send[v]
      BY <1>a, <2>1
    <3> QED
      BY <1>2, <2>1, <3>1 DEF SafeInv, SendStored, InFlight
  <2> QED
    BY <2>1 DEF SendStored, Stored
<1>5. SendHonest'
  BY <1>1, <1>a DEF SafeInv, SendHonest, InFlight, Ticked
<1>6. ServerHonest' /\ NoUnseenLoss'
  <2>1. /\ issued' = issued \cup {m} /\ UNCHANGED purged
        /\ \A n \in Msgs : server'[n] = IF n = m THEN "sent" ELSE server[n]
    BY DEF SendPost, TypeOK, RowFunctions
  <2>2. ServerHonest'
    BY <1>1, <2>1 DEF SafeInv, ServerHonest, Ticked
  <2>3. NoUnseenLoss'
    BY <1>1, <2>1 DEF SafeInv, NoUnseenLoss, TypeOK, Absent
  <2> QED
    BY <2>2, <2>3
<1>7. CallsKnown' /\ TodoKnown' /\ ScreenShown' /\ FetchStored' /\
      OwnMessagesKept' /\ EventsHonest' /\ HeldHonest' /\ PendHonest' /\
      FetchHonest' /\ BoxHonest' /\ ListHonest'
  BY Frames DEF SendPost, SafeInv, serverVars, eventVars, storeVars, uiVars,
     boundVars
<1> QED
  BY <1>3, <1>4, <1>5, <1>6, <1>7 DEF SafeInv

\* SendSave preserves the inductive invariant.
LEMMA SendSaveSafe ==
    ASSUME TypeOK, InFlight, Grows, SafeInv, NEW u \in Users, SendSave(u)
    PROVE  SafeInv'
<1> USE ConversationAssumption
<1>1. \A n \in Msgs : Received(n) => Received(n)'
  BY GrowsReceived
<1>2. \A v \in Users, n \in Msgs : Stored(v, n) => Stored(v, n)'
  BY DEF Grows
<1>a. send[u].msg \in Msgs /\ From[send[u].msg] = u /\ send[u] \in Sends
  BY DEF SendSave, InFlight, TypeOK, Sends
<1>b. /\ \A v \in Users \ {u} : send'[v] = send[v]
      /\ send'[u].msg = send[u].msg /\ send'[u].status = send[u].status /\ send[u].pc = "save"
  BY DEF SendSave, TypeOK
<1>c. \A n \in Msgs : n = send[u].msg => Stored(u, n)'
  BY <1>a, PutGrows DEF SendSave, Status
<1>3. SendStored'
  BY <1>2, <1>a, <1>b, <1>c DEF SafeInv, SendStored, InFlight
<1>4. SendHonest'
  BY <1>1, <1>a, <1>b DEF SendSave, SafeInv, SendHonest, InFlight
<1>5. BoxHonest'
  BY <1>a, PutGrows DEF SendSave, SafeInv, Status, Ticked
<1>6. InsTo' /\ CallsKnown' /\ TodoKnown' /\ ScreenShown' /\ FetchStored' /\
      OwnMessagesKept' /\ ServerHonest' /\ EventsHonest' /\ HeldHonest' /\
      PendHonest' /\ FetchHonest' /\ ListHonest' /\ NoUnseenLoss'
  BY Frames DEF SendSave, SafeInv, serverVars, eventVars, storeVars, uiVars,
     boundVars
<1> QED
  BY <1>3, <1>4, <1>5, <1>6 DEF SafeInv

\* SendTakePending preserves the inductive invariant.
LEMMA SendTakePendingSafe ==
    ASSUME TypeOK, InFlight, Grows, SafeInv, NEW u \in Users, SendTakePending(u)
    PROVE  SafeInv'
<1> USE ConversationAssumption
<1>1. \A n \in Msgs : Received(n) => Received(n)'
  BY GrowsReceived
<1>2. \A v \in Users, n \in Msgs : Stored(v, n) => Stored(v, n)'
  BY DEF Grows
<1>a. send[u].msg \in Msgs /\ From[send[u].msg] = u /\ send[u] \in Sends
  BY DEF SendTakePending, InFlight, TypeOK, Sends
<1>b. /\ \A v \in Users \ {u} : send'[v] = send[v]
      /\ send[u].pc = "take" /\ send'[u].msg = send[u].msg
      /\ send'[u].status \in {send[u].status, pend[u][send[u].msg]}
  BY <1>a DEF SendTakePending, WithPending, TypeOK, Sends
<1>3. SendStored'
  BY <1>2, <1>a, <1>b DEF SafeInv, SendStored, InFlight
<1>4. SendHonest'
  BY <1>1, <1>a, <1>b DEF SafeInv, SendHonest, PendHonest, InFlight
<1>5. PendHonest'
  BY <1>1 DEF SendTakePending, SafeInv, PendHonest, TypeOK, RowFunctions,
     Ticked, Absent
<1>6. InsTo' /\ CallsKnown' /\ TodoKnown' /\ ScreenShown' /\ FetchStored' /\
      OwnMessagesKept' /\ ServerHonest' /\ EventsHonest' /\ HeldHonest' /\
      FetchHonest' /\ BoxHonest' /\ ListHonest' /\ NoUnseenLoss'
  BY Frames DEF SendTakePending, SafeInv, serverVars, eventVars, storeVars,
     uiVars, boundVars
<1> QED
  BY <1>3, <1>4, <1>5, <1>6 DEF SafeInv

\* SendApplyPending preserves the inductive invariant.
LEMMA SendApplyPendingSafe ==
    ASSUME TypeOK, InFlight, Grows, SafeInv, NEW u \in Users, SendApplyPending(u)
    PROVE  SafeInv'
<1> USE ConversationAssumption
<1>1. \A n \in Msgs : Received(n) => Received(n)'
  BY GrowsReceived
<1>2. \A v \in Users, n \in Msgs : Stored(v, n) => Stored(v, n)'
  BY DEF Grows
<1>a. send[u].msg \in Msgs /\ From[send[u].msg] = u /\ send[u] \in Sends
  BY DEF SendApplyPending, InFlight, TypeOK, Sends
<1>3. SendStored' /\ SendHonest'
  BY SendGoesOn DEF SendApplyPending, TypeOK, SafeInv
<1>4. BoxHonest'
  <2>1. send[u].status \in Status /\ send[u].idx \in Nat
    BY <1>a DEF Sends
  <2>2. send[u].status \in Ticked => Received(send[u].msg)
    BY DEF SendApplyPending, SafeInv, SendHonest
  <2> QED
    BY <1>a, <2>1, <2>2, OverwriteGrows DEF SendApplyPending, SafeInv
<1>5. InsTo' /\ CallsKnown' /\ TodoKnown' /\ ScreenShown' /\ FetchStored' /\
      OwnMessagesKept' /\ ServerHonest' /\ EventsHonest' /\ HeldHonest' /\
      PendHonest' /\ FetchHonest' /\ ListHonest' /\ NoUnseenLoss'
  BY Frames DEF SendApplyPending, SafeInv, serverVars, eventVars, storeVars,
     uiVars, boundVars
<1> QED
  BY <1>3, <1>4, <1>5 DEF SafeInv

\* SendReturn preserves the inductive invariant.
LEMMA SendReturnSafe ==
    ASSUME TypeOK, InFlight, Grows, SafeInv, NEW u \in Users, SendReturn(u)
    PROVE  SafeInv'
<1> USE ConversationAssumption
<1>1. \A n \in Msgs : Received(n) => Received(n)'
  BY GrowsReceived
<1>2. \A v \in Users, n \in Msgs : Stored(v, n) => Stored(v, n)'
  BY DEF Grows
<1>a. send[u].msg \in Msgs /\ From[send[u].msg] = u /\ send[u] \in Sends
  BY DEF SendReturn, InFlight, TypeOK, Sends
<1>b. \/ UNCHANGED list
      \/ \A v \in Users, n \in Msgs :
            list'[v][n] = IF v = u /\ n = send[u].msg
                          THEN Append(list[u][send[u].msg], send[u].status) ELSE list[v][n]
  <2>1. CASE list' = [list EXCEPT ![u][send[u].msg] = Append(@, send[u].status)]
    BY <1>a, <2>1 DEF TypeOK, CopyFunctions
  <2>2. CASE UNCHANGED list
    BY <2>2
  <2> QED
    BY <2>1, <2>2 DEF SendReturn
<1>c. Stored(u, send[u].msg)
  BY DEF SendReturn, SafeInv, SendStored
<1>3. SendStored' /\ SendHonest'
  BY SendGoesOn DEF SendReturn, TypeOK, SafeInv, IdleSend
<1>4. ScreenShown'
  BY <1>a, <1>b DEF SafeInv, ScreenShown, Grows
<1>5. OwnMessagesKept'
  BY <1>2, <1>a, <1>b, <1>c DEF SafeInv, OwnMessagesKept
<1>6. ListHonest'
  <2>1. send[u].status \in Ticked => Received(send[u].msg)
    BY DEF SendReturn, SafeInv, SendHonest
  <2>2. list[u][send[u].msg] \in Seq(Status) /\ send[u].status \in Status
    BY <1>a DEF TypeOK, CopyFunctions, Sends
  <2>3. HasTick(Append(list[u][send[u].msg], send[u].status)) =>
            HasTick(list[u][send[u].msg]) \/ send[u].status \in Ticked
    BY <2>2, AppendCopy
  <2> QED
    BY <1>1, <1>a, <1>b, <2>1, <2>3 DEF SafeInv, ListHonest
<1>7. InsTo' /\ CallsKnown' /\ TodoKnown' /\ FetchStored' /\
      ServerHonest' /\ EventsHonest' /\ HeldHonest' /\ PendHonest' /\
      FetchHonest' /\ BoxHonest' /\ NoUnseenLoss'
  BY Frames DEF SendReturn, SafeInv, serverVars, eventVars, storeVars, uiVars,
     boundVars
<1> QED
  BY <1>3, <1>4, <1>5, <1>6, <1>7 DEF SafeInv

\* ReceiveInsert preserves the inductive invariant.
LEMMA ReceiveInsertSafe ==
    ASSUME TypeOK, InFlight, Grows, SafeInv, NEW u \in Users, ReceiveInsert(u)
    PROVE  SafeInv'
<1> USE ConversationAssumption
<1>1. \A n \in Msgs : Received(n) => Received(n)'
  BY GrowsReceived
<1>2. \A v \in Users, n \in Msgs : Stored(v, n) => Stored(v, n)'
  BY DEF Grows
<1>a. ins[u] \in Seq(Msgs) /\ ins[u] # <<>>
  BY DEF ReceiveInsert, TypeOK
<1>b. Head(ins[u]) \in Msgs /\ To[Head(ins[u])] = u
  <2>1. \E j \in DOMAIN ins[u] : Head(ins[u]) = ins[u][j]
    BY <1>a, HeadElement
  <2>2. Head(ins[u]) \in Msgs
    BY <1>a, HeadTailProperties
  <2> QED
    BY <2>1, <2>2 DEF SafeInv, InsTo
<1>c. \/ UNCHANGED <<list, shown>>
      \/ /\ \A v \in Users, n \in Msgs :
              list'[v][n] = IF v = u /\ n = Head(ins[u]) THEN <<"sent">> ELSE list[v][n]
         /\ shown' = shown \cup {Head(ins[u])}
  <2>1. list \in [Users -> CopyFunctions]
    BY DEF TypeOK
  <2>2. CASE /\ list' = [list EXCEPT ![u][Head(ins[u])] = <<"sent">>]
             /\ shown' = shown \cup {Head(ins[u])}
    BY <1>b, <2>1, <2>2 DEF CopyFunctions
  <2> QED
    BY <2>2 DEF ReceiveInsert
<1>3. InsTo'
  <2>1. \A v \in Users : \A i \in DOMAIN ins'[v] : \E j \in DOMAIN ins[v] : ins'[v][i] = ins[v][j]
    <3>a. ASSUME NEW q \in Seq(Msgs), q # <<>>
          PROVE  \A i \in DOMAIN Tail(q) : \E j \in DOMAIN q : Tail(q)[i] = q[j]
      BY <3>a, TailElements
    <3>1. \A i \in DOMAIN Tail(ins[u]) : \E j \in DOMAIN ins[u] : Tail(ins[u])[i] = ins[u][j]
      BY <1>a, <3>a
    <3>2. ins' = [ins EXCEPT ![u] = Tail(ins[u])] /\ ins \in [Users -> Seq(Msgs)]
      BY DEF ReceiveInsert, TypeOK
    <3> QED
      BY <3>1, <3>2
  <2> QED
    BY <2>1 DEF SafeInv, InsTo
<1>4. CallsKnown'
  <2>1. ASSUME NEW v \in Users, NEW d \in calls'[v]
        PROVE  d.msg \in Msgs /\ To[d.msg] = v /\ (Received(d.msg) \/ d.msg \in shown')
    <3>1. CASE d \in calls[v]
      BY <3>1 DEF SafeInv, CallsKnown, TypeOK
    <3>2. CASE v = u /\ d = Call("patchDelivered", Head(ins[u]), FALSE) /\ Head(ins[u]) \in shown'
      BY <1>b, <3>2 DEF Call
    <3>3. \/ calls' = calls
          \/ /\ calls' = [calls EXCEPT ![u] = calls[u] \cup
                              {Call("patchDelivered", Head(ins[u]), FALSE)}]
             /\ Head(ins[u]) \in shown'
      BY DEF ReceiveInsert
    <3>4. calls \in [Users -> SUBSET Calls]
      BY DEF TypeOK, Calls
    <3>5. \/ d \in calls[v]
          \/ /\ v = u /\ d = Call("patchDelivered", Head(ins[u]), FALSE)
             /\ Head(ins[u]) \in shown'
      <4>1. CASE calls' = calls
        BY <4>1
      <4>2. CASE calls' = [calls EXCEPT ![u] = calls[u] \cup
                              {Call("patchDelivered", Head(ins[u]), FALSE)}]
                 /\ Head(ins[u]) \in shown'
        <5>1. CASE v = u
          BY <3>4, <4>2, <5>1
        <5>2. CASE v # u
          BY <3>4, <4>2, <5>2
        <5> QED
          BY <5>1, <5>2
      <4> QED
        BY <3>3, <4>1, <4>2
    <3> QED
      BY <3>1, <3>2, <3>5
  <2>2. \A n \in Msgs : n \in shown' => Received(n)'
    BY DEF Received
  <2> QED
    BY <1>1, <2>1, <2>2 DEF CallsKnown
<1>5. ScreenShown'
  BY <1>b, <1>c DEF SafeInv, ScreenShown, Grows
<1>6. OwnMessagesKept'
  BY <1>2, <1>b, <1>c DEF SafeInv, OwnMessagesKept
<1>7. ListHonest'
  <2>1. ~HasTick(<<"sent">>)
    BY DEF HasTick, Ticked
  <2> QED
    BY <1>1, <1>c, <2>1 DEF SafeInv, ListHonest
<1>8. TodoKnown' /\ FetchStored' /\ SendStored' /\ ServerHonest' /\
      EventsHonest' /\ HeldHonest' /\ PendHonest' /\ FetchHonest' /\
      SendHonest' /\ BoxHonest' /\ NoUnseenLoss'
  BY Frames DEF ReceiveInsert, SafeInv, serverVars, eventVars, storeVars,
     uiVars, boundVars
<1> QED
  BY <1>3, <1>4, <1>5, <1>6, <1>7, <1>8 DEF SafeInv

\* ReceiveStatus preserves the inductive invariant.
LEMMA ReceiveStatusSafe ==
    ASSUME TypeOK, InFlight, Grows, SafeInv, NEW u \in Users, ReceiveStatus(u)
    PROVE  SafeInv'
<1> USE ConversationAssumption
<1>1. \A n \in Msgs : Received(n) => Received(n)'
  BY GrowsReceived
<1>2. \A v \in Users, n \in Msgs : Stored(v, n) => Stored(v, n)'
  BY DEF Grows
<1>a. upd[u] \in Seq(Msgs \X Status) /\ upd[u] # <<>>
  BY DEF ReceiveStatus, TypeOK
<1>b. Head(upd[u])[1] \in Msgs /\ Head(upd[u])[2] \in Status
  <2>1. Head(upd[u]) \in Msgs \X Status
    BY <1>a, HeadTailProperties
  <2> QED
    BY <2>1
<1>c. Head(upd[u])[2] \in Ticked => Received(Head(upd[u])[1])
  <2>1. PICK j \in DOMAIN upd[u] : Head(upd[u]) = upd[u][j]
    BY <1>a, HeadElement
  <2> QED
    BY <2>1 DEF SafeInv, EventsHonest
<1>d. /\ \A v \in Users, n \in Msgs : list'[v][n] # <<>> => list[v][n] # <<>>
      /\ \A v \in Users, n \in Msgs :
           HasTick(list'[v][n]) =>
               \/ HasTick(list[v][n])
               \/ n = Head(upd[u])[1] /\ Head(upd[u])[2] \in Ticked
  <2> DEFINE m == Head(upd[u])[1]
             s == Head(upd[u])[2]
             d == [i \in DOMAIN list[u][m] |-> s]
  <2>1. list' = [list EXCEPT ![u][m] = d] /\ list \in [Users -> CopyFunctions]
    BY DEF ReceiveStatus, TypeOK
  <2>2. (d # <<>> => list[u][m] # <<>>) /\ (HasTick(d) => s \in Ticked)
    <3>1. list[u][m] \in Seq(Status)
      BY <1>b, <2>1 DEF CopyFunctions
    <3>2. /\ d \in Seq(Status) /\ DOMAIN d = DOMAIN list[u][m]
          /\ \A i \in DOMAIN list[u][m] : d[i] = s
      BY <1>b, <3>1
    <3> HIDE DEF d
    <3> QED
      BY <1>b, <3>1, <3>2, OverwrittenCopy
  <2> HIDE DEF d
  <2> QED
    BY <1>b, <2>1, <2>2 DEF CopyFunctions
<1>3. EventsHonest'
  <2>1. \A v \in Users : \A i \in DOMAIN upd'[v] : \E j \in DOMAIN upd[v] : upd'[v][i] = upd[v][j]
    <3>a. ASSUME NEW q \in Seq(Msgs \X Status), q # <<>>
          PROVE  \A i \in DOMAIN Tail(q) : \E j \in DOMAIN q : Tail(q)[i] = q[j]
      <4> SUFFICES ASSUME NEW i \in DOMAIN Tail(q)
                   PROVE  \E j \in DOMAIN q : Tail(q)[i] = q[j]
        OBVIOUS
      <4>1. Len(q) \in Nat /\ Len(q) > 0 /\ DOMAIN q = 1 .. Len(q)
        BY <3>a, LenProperties, EmptySeq
      <4>2. i \in 1 .. Len(q) - 1 /\ Tail(q)[i] = q[i + 1]
        BY <3>a, <4>1, HeadTailProperties
      <4>3. i + 1 \in DOMAIN q
        <5> DEFINE n == Len(q)
        <5>1. n \in Nat /\ n > 0 /\ i \in 1 .. n - 1
          BY <4>1, <4>2
        <5> HIDE DEF n
        <5>2. i + 1 \in 1 .. n
          BY <5>1
        <5> QED
          BY <4>1, <5>2, Zenon DEF n
      <4> QED
        BY <4>2, <4>3, Zenon
    <3>1. \A i \in DOMAIN Tail(upd[u]) : \E j \in DOMAIN upd[u] : Tail(upd[u])[i] = upd[u][j]
      BY <1>a, <3>a
    <3>2. upd' = [upd EXCEPT ![u] = Tail(upd[u])] /\ upd \in [Users -> Seq(Msgs \X Status)]
      BY DEF ReceiveStatus, TypeOK
    <3> QED
      BY <3>1, <3>2
  <2>2. \A v \in Users : \A j \in DOMAIN upd[v] : upd[v][j][1] \in Msgs
    BY ElementOfSeq DEF TypeOK
  <2> SUFFICES ASSUME NEW v \in Users, NEW i \in DOMAIN upd'[v], upd'[v][i][2] \in Ticked
               PROVE  Received(upd[v][i][1])'
    BY DEF EventsHonest
  <2>3. PICK j \in DOMAIN upd[v] : upd'[v][i] = upd[v][j]
    BY <2>1
  <2>4. \A n \in Msgs : n = upd[v][j][1] => Received(n)'
    BY <1>1, <2>3 DEF SafeInv, EventsHonest
  <2> QED
    BY <2>2, <2>3, <2>4
<1>4. ScreenShown'
  BY <1>d DEF SafeInv, ScreenShown, Grows
<1>5. OwnMessagesKept'
  BY <1>2, <1>d DEF SafeInv, OwnMessagesKept
<1>6. ListHonest'
  BY <1>1, <1>c, <1>d DEF SafeInv, ListHonest
<1>7. HeldHonest'
  <2>1. \A v \in Users : held[v] # <<>> => held[v][1] \in Msgs
    BY DEF TypeOK
  <2>2. \A v \in Users :
           held'[v] = held[v] \/ held'[v] = <<Head(upd[u])[1], Head(upd[u])[2]>>
    BY ZenonT(30) DEF ReceiveStatus, TypeOK
  <2> SUFFICES ASSUME NEW v \in Users, held'[v] # <<>>, held'[v][2] \in Ticked
               PROVE  Received(held[v][1])'
    BY DEF HeldHonest
  <2>3. \E n \in Msgs : n = held'[v][1] /\ Received(n)
    BY <1>b, <1>c, <2>1, <2>2 DEF SafeInv, HeldHonest
  <2>4. \E n \in Msgs : n = held'[v][1] /\ Received(n)'
    BY <1>1, <2>3
  <2> QED
    BY <2>4
<1>8. BoxHonest' /\ PendHonest'
  <2>1. CASE UNCHANGED storeVars
    BY <2>1, Frames DEF SafeInv, storeVars
  <2>2. CASE UpdateLocalMessageStatus(u, Head(upd[u])[1], Head(upd[u])[2])
    BY <1>b, <1>c, <2>2, LocalUpdateGrows DEF SafeInv
  <2> QED
    BY <2>1, <2>2 DEF ReceiveStatus
<1>9. InsTo' /\ CallsKnown' /\ TodoKnown' /\ FetchStored' /\ SendStored' /\
      ServerHonest' /\ FetchHonest' /\ SendHonest' /\ NoUnseenLoss'
  BY Frames DEF ReceiveStatus, SafeInv, serverVars, eventVars, storeVars,
     uiVars, boundVars
<1> QED
  BY <1>3, <1>4, <1>5, <1>6, <1>7, <1>8, <1>9 DEF SafeInv

\* KeepPending preserves the inductive invariant.
LEMMA KeepPendingSafe ==
    ASSUME TypeOK, InFlight, Grows, SafeInv, NEW u \in Users, KeepPending(u)
    PROVE  SafeInv'
<1> USE ConversationAssumption
<1>1. \A n \in Msgs : Received(n) => Received(n)'
  BY GrowsReceived
<1>2. \A v \in Users, n \in Msgs : Stored(v, n) => Stored(v, n)'
  BY DEF Grows
<1>3. HeldHonest'
  <2>1. \A v \in Users : held[v] # <<>> => held[v][1] \in Msgs
    BY DEF TypeOK
  <2>2. \A v \in Users : held'[v] = held[v] \/ held'[v] = <<>>
    BY DEF KeepPending, TypeOK
  <2> QED
    BY <1>1, <2>1, <2>2 DEF SafeInv, HeldHonest
<1>4. PendHonest'
  <2>1. held[u][1] \in Msgs /\ held[u][2] \in Status
    BY DEF KeepPending, TypeOK
  <2>2. \A v \in Users, n \in Msgs :
           pend'[v][n] = IF v = u /\ n = held[u][1] THEN held[u][2] ELSE pend[v][n]
    BY <2>1 DEF KeepPending, TypeOK, RowFunctions
  <2>3. held[u][2] \in Ticked => Received(held[u][1])
    BY DEF KeepPending, SafeInv, HeldHonest
  <2> QED
    BY <1>1, <2>2, <2>3 DEF SafeInv, PendHonest
<1>5. InsTo' /\ CallsKnown' /\ TodoKnown' /\ ScreenShown' /\ FetchStored' /\
      SendStored' /\ OwnMessagesKept' /\ ServerHonest' /\ EventsHonest' /\
      FetchHonest' /\ SendHonest' /\ BoxHonest' /\ ListHonest' /\
      NoUnseenLoss'
  BY Frames DEF KeepPending, SafeInv, serverVars, eventVars, storeVars, uiVars,
     boundVars
<1> QED
  BY <1>3, <1>4, <1>5 DEF SafeInv

\* MarkVisible preserves the inductive invariant.
LEMMA MarkVisibleSafe ==
    ASSUME TypeOK, InFlight, Grows, SafeInv, NEW u \in Users, MarkVisible(u)
    PROVE  SafeInv'
<1> USE ConversationAssumption
<1>1. \A n \in Msgs : Received(n) => Received(n)'
  BY GrowsReceived
<1>2. \A v \in Users, n \in Msgs : Stored(v, n) => Stored(v, n)'
  BY DEF Grows
<1>3. TodoKnown'
  <2>1. \A n \in Unread(u) : n \in Msgs /\ To[n] = u /\ list[u][n] # <<>>
    <3>1. DOMAIN <<>> = {}
      OBVIOUS
    <3> QED
      BY <3>1 DEF Unread
  <2>2. \A n \in Unread(u) : Received(n)
    BY <2>1 DEF SafeInv, ScreenShown, Received
  <2>3. todo' = [todo EXCEPT ![u] = Unread(u)] /\ todo \in [Users -> SUBSET Msgs]
    BY DEF MarkVisible, TypeOK
  <2>4. \A v \in Users : \A n \in todo'[v] : n \in Msgs /\ To[n] = v /\ Received(n)
    BY <2>1, <2>2, <2>3 DEF SafeInv, TodoKnown
  <2> QED
    BY <1>1, <2>4 DEF TodoKnown
<1>4. CallsKnown'
  <2>1. \A v \in Users : \A d \in calls'[v] : \E c \in calls[v] : d.msg = c.msg
    BY DEF MarkVisible, Detached, TypeOK
  <2> QED
    BY SMTT(30), <1>1, <2>1 DEF SafeInv, CallsKnown, TypeOK
<1>5. InsTo' /\ ScreenShown' /\ FetchStored' /\ SendStored' /\
      OwnMessagesKept' /\ ServerHonest' /\ EventsHonest' /\ HeldHonest' /\
      PendHonest' /\ FetchHonest' /\ SendHonest' /\ BoxHonest' /\
      ListHonest' /\ NoUnseenLoss'
  BY Frames DEF MarkVisible, SafeInv, serverVars, eventVars, storeVars, uiVars,
     boundVars
<1> QED
  BY <1>3, <1>4, <1>5 DEF SafeInv

\* MarkReadLocally preserves the inductive invariant.
LEMMA MarkReadLocallySafe ==
    ASSUME TypeOK, InFlight, Grows, SafeInv, NEW u \in Users, NEW m \in Msgs,
           MarkReadLocally(u, m)
    PROVE  SafeInv'
<1> USE ConversationAssumption
<1>1. \A n \in Msgs : Received(n) => Received(n)'
  BY GrowsReceived
<1>2. \A v \in Users, n \in Msgs : Stored(v, n) => Stored(v, n)'
  BY DEF Grows
<1>a. To[m] = u /\ Received(m)
  BY DEF MarkReadLocally, SafeInv, TodoKnown
<1>3. TodoKnown'
  <2>1. \A v \in Users : todo'[v] \subseteq todo[v]
    BY DEF MarkReadLocally, TypeOK
  <2> QED
    BY <1>1, <2>1 DEF SafeInv, TodoKnown, TypeOK
<1>4. CallsKnown'
  <2>1. calls' = [calls EXCEPT ![u] = calls[u] \cup {Call("patchRead", m, TRUE)}]
        /\ calls \in [Users -> SUBSET Calls]
    BY DEF MarkReadLocally, TypeOK, Calls
  <2>2. \A v \in Users : \A d \in calls'[v] :
           d \in calls[v] \/ (v = u /\ d.msg = m)
    BY <2>1 DEF Call
  <2>3. ASSUME NEW v \in Users, NEW d \in calls'[v]
        PROVE  d.msg \in Msgs /\ To[d.msg] = v /\ Received(d.msg)
    <3>1. CASE d \in calls[v]
      BY <2>1, <3>1 DEF SafeInv, CallsKnown, Calls
    <3>2. CASE v = u /\ d.msg = m
      BY <1>a, <3>2
    <3> QED
      BY <2>2, <3>1, <3>2
  <2> QED
    BY <1>1, <2>3 DEF CallsKnown
<1>5. BoxHonest' /\ PendHonest'
  BY <1>a, LocalUpdateGrows DEF MarkReadLocally, SafeInv, Status
<1>6. InsTo' /\ ScreenShown' /\ FetchStored' /\ SendStored' /\
      OwnMessagesKept' /\ ServerHonest' /\ EventsHonest' /\ HeldHonest' /\
      FetchHonest' /\ SendHonest' /\ ListHonest' /\ NoUnseenLoss'
  BY Frames DEF MarkReadLocally, SafeInv, serverVars, eventVars, storeVars,
     uiVars, boundVars
<1> QED
  BY <1>3, <1>4, <1>5, <1>6 DEF SafeInv

\* CallPatch preserves the inductive invariant.
LEMMA CallPatchSafe ==
    ASSUME TypeOK, InFlight, Grows, SafeInv, NEW u \in Users,
           NEW c \in calls[u], CallPatch(u, c)
    PROVE  SafeInv'
<1> USE ConversationAssumption
<1>1. \A n \in Msgs : Received(n) => Received(n)'
  BY GrowsReceived
<1>2. \A v \in Users, n \in Msgs : Stored(v, n) => Stored(v, n)'
  BY DEF Grows
<1>a. c.msg \in Msgs /\ Received(c.msg) /\ To[c.msg] = u
  BY DEF SafeInv, CallsKnown, TypeOK
<1>b. calls \in [Users -> SUBSET Calls]
  BY DEF TypeOK, Calls
<1>3. CallsKnown'
  <2>1. \A v \in Users : \A d \in calls'[v] : d \in calls[v] \/ (v = u /\ d.msg = c.msg)
    BY <1>b DEF CallPatch, Continue, Finish, Calls
  <2>2. \A v \in Users : \A d \in calls'[v] : d.msg \in Msgs /\ To[d.msg] = v /\ Received(d.msg)
    BY <1>a, <1>b, <2>1 DEF SafeInv, CallsKnown, Calls
  <2> QED
    BY <1>1, <2>2 DEF CallsKnown
<1>4. ServerHonest' /\ EventsHonest' /\ NoUnseenLoss'
  <2>1. CASE PatchRow(c.msg, "delivered") \/ PatchRow(c.msg, "read")
    BY <1>a, <2>1, PatchHonest DEF CallPatch, SafeInv, Status
  <2>2. CASE UNCHANGED <<server, upd>>
    BY <2>2, Frames DEF CallPatch, SafeInv, serverVars
  <2> QED
    BY <2>1, <2>2 DEF CallPatch
<1>5. InsTo' /\ TodoKnown' /\ ScreenShown' /\ FetchStored' /\ SendStored' /\
      OwnMessagesKept' /\ HeldHonest' /\ PendHonest' /\ FetchHonest' /\
      SendHonest' /\ BoxHonest' /\ ListHonest'
  BY Frames DEF CallPatch, SafeInv, serverVars, eventVars, storeVars, uiVars,
     boundVars
<1> QED
  BY <1>3, <1>4, <1>5 DEF SafeInv

\* CallNoteDelivered preserves the inductive invariant.
LEMMA CallNoteDeliveredSafe ==
    ASSUME TypeOK, InFlight, Grows, SafeInv, NEW u \in Users,
           NEW c \in calls[u], CallNoteDelivered(u, c)
    PROVE  SafeInv'
<1> USE ConversationAssumption
<1>1. \A n \in Msgs : Received(n) => Received(n)'
  BY GrowsReceived
<1>2. \A v \in Users, n \in Msgs : Stored(v, n) => Stored(v, n)'
  BY DEF Grows
<1>a. c.msg \in Msgs /\ Received(c.msg) /\ To[c.msg] = u
  BY DEF SafeInv, CallsKnown, TypeOK
<1>b. calls \in [Users -> SUBSET Calls]
  BY DEF TypeOK, Calls
<1>3. CallsKnown'
  <2>1. \A v \in Users : calls'[v] \subseteq calls[v]
    BY <1>b DEF CallNoteDelivered, Finish
  <2> QED
    BY <1>1, <1>b, <2>1 DEF SafeInv, CallsKnown, Calls
<1>4. BoxHonest' /\ PendHonest'
  BY <1>a, LocalUpdateGrows DEF CallNoteDelivered, SafeInv, Status
<1>5. InsTo' /\ TodoKnown' /\ ScreenShown' /\ FetchStored' /\ SendStored' /\
      OwnMessagesKept' /\ ServerHonest' /\ EventsHonest' /\ HeldHonest' /\
      FetchHonest' /\ SendHonest' /\ ListHonest' /\ NoUnseenLoss'
  BY Frames DEF CallNoteDelivered, SafeInv, serverVars, eventVars, storeVars,
     uiVars, boundVars
<1> QED
  BY <1>3, <1>4, <1>5 DEF SafeInv

\* CallDelete preserves the inductive invariant.
LEMMA CallDeleteSafe ==
    ASSUME TypeOK, InFlight, Grows, SafeInv, NEW u \in Users,
           NEW c \in calls[u], CallDelete(u, c)
    PROVE  SafeInv'
<1> USE ConversationAssumption
<1>1. \A n \in Msgs : Received(n) => Received(n)'
  BY GrowsReceived
<1>2. \A v \in Users, n \in Msgs : Stored(v, n) => Stored(v, n)'
  BY DEF Grows
<1>a. c.msg \in Msgs /\ Received(c.msg) /\ To[c.msg] = u
  BY DEF SafeInv, CallsKnown, TypeOK
<1>b. calls \in [Users -> SUBSET Calls]
  BY DEF TypeOK, Calls
<1>3. CallsKnown'
  <2>1. \A v \in Users : calls'[v] \subseteq calls[v]
    BY <1>b DEF CallDelete, Finish
  <2> QED
    BY <1>1, <1>b, <2>1 DEF SafeInv, CallsKnown, Calls
<1>4. ServerHonest' /\ NoUnseenLoss'
  <2>1. CASE DeleteRow(c.msg)
    BY <1>a, <2>1, DeleteSafe DEF CallDelete, SafeInv
  <2>2. CASE UNCHANGED server
    BY <2>2, Frames DEF CallDelete, SafeInv, serverVars
  <2> QED
    BY <2>1, <2>2 DEF CallDelete
<1>5. InsTo' /\ TodoKnown' /\ ScreenShown' /\ FetchStored' /\ SendStored' /\
      OwnMessagesKept' /\ EventsHonest' /\ HeldHonest' /\ PendHonest' /\
      FetchHonest' /\ SendHonest' /\ BoxHonest' /\ ListHonest'
  BY Frames DEF CallDelete, SafeInv, serverVars, eventVars, storeVars, uiVars,
     boundVars
<1> QED
  BY <1>3, <1>4, <1>5 DEF SafeInv

\* The invariant holds initially.
LEMMA SafeInit == Init => SafeInv
<1> SUFFICES ASSUME Init PROVE SafeInv
  OBVIOUS
<1> USE ConversationAssumption
<1>1. /\ \A m \in Msgs : NoCopies[m] = <<>> /\ NoRows[m] = Absent
      /\ DOMAIN <<>> = {}
  BY DEF NoCopies, NoRows
<1>2. InsTo /\ CallsKnown /\ TodoKnown /\ ScreenShown
  BY <1>1 DEF Init, InsTo, CallsKnown, TodoKnown, ScreenShown
<1>3. FetchStored /\ SendStored /\ OwnMessagesKept
  BY <1>1 DEF Init, FetchStored, SendStored, OwnMessagesKept, IdleFetch, IdleSend
<1>4. ServerHonest /\ EventsHonest /\ HeldHonest /\ PendHonest
  BY <1>1 DEF Init, ServerHonest, EventsHonest, HeldHonest, PendHonest, Ticked,
     Absent
<1>5. FetchHonest /\ SendHonest /\ BoxHonest /\ ListHonest
  BY <1>1 DEF Init, FetchHonest, SendHonest, BoxHonest, ListHonest, HasTick,
     IdleFetch,
              IdleSend, Ticked, Absent
<1>6. NoUnseenLoss
  BY DEF Init, NoUnseenLoss
<1> QED
  BY <1>2, <1>3, <1>4, <1>5, <1>6 DEF SafeInv

\* Every step preserves the invariant: one step per action.
LEMMA SafeNext == TypeOK /\ InFlight /\ SafeInv /\ [Next]_vars => SafeInv'
<1> SUFFICES ASSUME TypeOK, InFlight, SafeInv, [Next]_vars PROVE SafeInv'
  OBVIOUS
<1>0. Grows
  BY StepGrows
<1>1. CASE UNCHANGED vars
  BY <1>0, <1>1, Frames DEF vars, serverVars, eventVars, storeVars, uiVars,
     SafeInv
<1>2. CASE Purge
  BY <1>0, <1>2, PurgeSafe
<1>3. ASSUME NEW u \in Users, Environment(u) PROVE SafeInv'
  BY <1>0, <1>3, OpenChatSafe, CloseChatSafe, CrashSafe, DisconnectSafe,
     FetchGetFailsSafe, SendPostSafe DEF Environment
<1>4. ASSUME NEW u \in Users, Fetching(u) PROVE SafeInv'
  BY <1>0, <1>4, FetchGetSafe, FetchRowSafe, FetchPatchReadSafe, FetchDeleteSafe,
     FetchReturnSafe DEF Fetching
<1>5. ASSUME NEW u \in Users, Sending(u) PROVE SafeInv'
  BY <1>0, <1>5, SendSaveSafe, SendTakePendingSafe, SendApplyPendingSafe,
     SendReturnSafe DEF Sending
<1>6. ASSUME NEW u \in Users, Receiving(u) PROVE SafeInv'
  BY <1>0, <1>6, SubscribeSafe, ReceiveInsertSafe, ReceiveStatusSafe,
     KeepPendingSafe
     DEF Receiving
<1>7. ASSUME NEW u \in Users, Calling(u) PROVE SafeInv'
  BY <1>0, <1>7, CallPatchSafe, CallNoteDeliveredSafe, CallDeleteSafe DEF Calling
<1>8. ASSUME NEW u \in Users, Marking(u) PROVE SafeInv'
  BY <1>0, <1>8, MarkVisibleSafe, MarkReadLocallySafe DEF Marking
<1> QED
  BY <1>1, <1>2, <1>3, <1>4, <1>5, <1>6, <1>7, <1>8 DEF Next

\* The inductive invariant holds in every reachable state.
THEOREM SafeCorrect == Spec => []SafeInv
<1>1. Init => SafeInv
  BY SafeInit
<1>2. TypeOK /\ InFlight /\ SafeInv /\ [Next]_vars => SafeInv'
  BY SafeNext
<1>3. Spec => [](TypeOK /\ InFlight)
  BY TypeCorrect
<1> QED
  BY <1>1, <1>2, <1>3, PTL DEF Spec

\* No failed or lost request, no crash and no second fetch makes a message leave
\* the server, other than by the purge, before its receiver has got it.
THEOREM NoLossCorrect == Spec => []NoUnseenLoss
<1>1. SafeInv => NoUnseenLoss
  BY DEF SafeInv
<1> QED
  BY <1>1, SafeCorrect, PTL

\* Whatever the receiver deletes meanwhile, an own message on the sender's screen
\* is in the sender's store.
THEOREM KeptCorrect == Spec => []OwnMessagesKept
<1>1. SafeInv => OwnMessagesKept
  BY DEF SafeInv
<1> QED
  BY <1>1, SafeCorrect, PTL

\* Whatever the order of answers, events, fetches and pending updates, a message
\* with a tick on the sender's device has been received.
THEOREM TicksCorrect == Spec => []TicksHonest
<1>1. SafeInv => TicksHonest
  BY ConversationAssumption DEF SafeInv, BoxHonest, ListHonest, TicksHonest
<1> QED
  BY <1>1, SafeCorrect, PTL

-----------------------------------------------------------------------------
(* Read rows go. *)

\* Some call of u is about to delete the row of m.
CallDeletes(u, m) == \E c \in calls[u] : c.op = "delete" /\ c.msg = m
FetchDeletes(u, m) == fetch[u].pc = "delete" /\ fetch[u].cur = m

\* The number of faults grows by one at most.
LEMMA FaultsGrow == [Next]_vars => faults' = faults \/ faults' = faults + 1
<1> SUFFICES ASSUME [Next]_vars PROVE faults' = faults \/ Fault
  BY DEF Fault
<1>1. ASSUME NEW u \in Users, Environment(u) PROVE faults' = faults \/ Fault
  BY <1>1 DEF Environment, OpenChat, CloseChat, Crash, Disconnect, FetchGetFails, SendPost,
     boundVars
<1>2. ASSUME NEW u \in Users, Fetching(u) PROVE faults' = faults \/ Fault
  BY <1>2 DEF Fetching, FetchGet, FetchRow, FetchPatchRead, FetchDelete, FetchReturn, boundVars
<1>3. ASSUME NEW u \in Users, Calling(u) PROVE faults' = faults \/ Fault
  BY <1>3 DEF Calling, CallPatch, CallNoteDelivered, CallDelete, boundVars
<1>4. ASSUME NEW u \in Users, Sending(u) \/ Receiving(u) \/ Marking(u)
      PROVE  faults' = faults
  BY <1>4 DEF Sending, SendSave, SendTakePending, SendApplyPending, SendReturn,
     Receiving, Subscribe, ReceiveInsert, ReceiveStatus, KeepPending,
     Marking, MarkVisible, MarkReadLocally, boundVars
<1>5. CASE Purge \/ UNCHANGED vars
  BY <1>5 DEF Purge, vars, boundVars
<1> QED
  BY <1>1, <1>2, <1>3, <1>4, <1>5 DEF Next

\* A state without faults was not reached by one.
LEMMA NoFaultStep == TypeOK /\ [Next]_vars /\ faults' = 0 => ~Fault
BY DEF TypeOK, Fault

\* What is detached is about the same request.
LEMMA DetachedKeeps ==
    ASSUME NEW cs \in SUBSET Calls, NEW c \in cs
    PROVE  \E d \in Detached(cs) : d.op = c.op /\ d.msg = c.msg
<1> DEFINE d == [c EXCEPT !.live = FALSE]
<1>1. d \in Detached(cs)
  BY DEF Detached
<1>2. d.op = c.op /\ d.msg = c.msg
  BY DEF Calls
<1> QED
  BY <1>1, <1>2

\* A fetch that is about to delete a row does so, if nothing fails.
LEMMA FetchKeeps ==
    ASSUME TypeOK, [Next]_vars, ~Fault, NEW m \in Msgs, NEW v \in Users, FetchDeletes(v, m)
    PROVE  FetchDeletes(v, m)' \/ server'[m] = Absent
<1>1. fetch \in [Users -> Fetches] /\ server \in RowFunctions
  BY TypeGroups DEF FetchOK, ServerOK
<1>2. fetch[v] \in Fetches /\ fetch[v].pc = "delete" /\ fetch[v].cur = m
  BY <1>1 DEF FetchDeletes
<1>3. ASSUME UNCHANGED fetch PROVE FetchDeletes(v, m)'
  BY <1>2, <1>3 DEF FetchDeletes
<1>4. ASSUME NEW u \in Users, Environment(u) PROVE FetchDeletes(v, m)'
  <2>1. CASE OpenChat(u)
    BY <1>1, <1>2, <2>1 DEF OpenChat, FetchDeletes
  <2>2. CASE CloseChat(u)
    BY <1>1, <1>2, <2>2 DEF CloseChat, FetchDeletes, Fetches
  <2>3. CASE Crash(u) \/ Disconnect(u) \/ FetchGetFails(u)
    BY <2>3 DEF Crash, Disconnect, FetchGetFails
  <2>4. CASE \E n \in Msgs : SendPost(u, n)
    BY <1>3, <2>4 DEF SendPost
  <2> QED
    BY <1>4, <2>1, <2>2, <2>3, <2>4 DEF Environment
<1>5. ASSUME NEW u \in Users, Fetching(u)
      PROVE  FetchDeletes(v, m)' \/ server'[m] = Absent
  <2>1. CASE FetchDelete(u) /\ u = v
    BY <1>1, <1>2, <2>1 DEF FetchDelete, DeleteRow, RowFunctions
  <2>2. CASE u # v
    <3>1. fetch'[v] = fetch[v]
      BY <1>1, <1>5, <2>2 DEF Fetching, FetchGet, FetchRow, FetchPatchRead, FetchDelete,
         FetchReturn, NextRow, GoOnToDelete
    <3> QED
      BY <1>2, <3>1 DEF FetchDeletes
  <2>3. CASE u = v /\ ~FetchDelete(u)
    BY <1>2, <1>5, <2>3 DEF Fetching, FetchGet, FetchRow, FetchPatchRead, FetchReturn
  <2> QED
    BY <2>1, <2>2, <2>3
<1>6. CASE Purge
  BY <1>3, <1>6 DEF Purge
<1>7. ASSUME NEW u \in Users, Sending(u) \/ Receiving(u) \/ Calling(u) \/ Marking(u)
      PROVE  UNCHANGED fetch
  BY <1>7 DEF Sending, SendSave, SendTakePending, SendApplyPending, SendReturn,
     Receiving, Subscribe, ReceiveInsert, ReceiveStatus, KeepPending,
     Calling, CallPatch, CallNoteDelivered, CallDelete,
     Marking, MarkVisible, MarkReadLocally
<1>8. CASE UNCHANGED vars
  BY <1>3, <1>8 DEF vars
<1> QED
  BY <1>3, <1>4, <1>5, <1>6, <1>7, <1>8 DEF Next

\* A call that is about to delete a row does so, if nothing fails.
LEMMA CallKeeps ==
    ASSUME TypeOK, [Next]_vars, ~Fault, NEW m \in Msgs, NEW v \in Users, CallDeletes(v, m)
    PROVE  CallDeletes(v, m)' \/ server'[m] = Absent
<1>1. calls \in [Users -> SUBSET Calls] /\ server \in RowFunctions
  BY TypeGroups DEF CallsOK, ServerOK
<1>2. PICK d \in calls[v] : d.op = "delete" /\ d.msg = m
  BY DEF CallDeletes
<1>3. ASSUME d \in calls'[v] PROVE CallDeletes(v, m)'
  BY <1>2, <1>3 DEF CallDeletes
<1>4. ASSUME UNCHANGED calls PROVE CallDeletes(v, m)'
  BY <1>2, <1>3, <1>4
<1>5. ASSUME NEW u \in Users, Environment(u) PROVE CallDeletes(v, m)'
  <2>1. CASE CloseChat(u)
    <3>1. PICK cancelled \in SUBSET {c \in calls[u] : c.op = "patchDelivered"} :
             calls' = [calls EXCEPT ![u] = Detached(calls[u] \ cancelled)]
      BY <2>1 DEF CloseChat
    <3>2. CASE u # v
      BY <1>1, <1>2, <1>3, <3>1, <3>2
    <3>3. CASE u = v
      <4>1. d \in calls[u] \ cancelled
        BY <1>2, <3>1, <3>3
      <4>2. calls[u] \ cancelled \in SUBSET Calls
        BY <1>1
      <4>3. \E e \in Detached(calls[u] \ cancelled) : e.op = d.op /\ e.msg = d.msg
        BY <4>1, <4>2, DetachedKeeps
      <4> QED
        BY <1>1, <1>2, <3>1, <3>3, <4>3 DEF CallDeletes
    <3> QED
      BY <3>2, <3>3
  <2>2. CASE Crash(u) \/ Disconnect(u) \/ FetchGetFails(u)
    BY <2>2 DEF Crash, Disconnect, FetchGetFails
  <2>3. CASE OpenChat(u) \/ \E n \in Msgs : SendPost(u, n)
    BY <1>4, <2>3 DEF OpenChat, SendPost
  <2> QED
    BY <1>5, <2>1, <2>2, <2>3 DEF Environment
<1>6. ASSUME NEW u \in Users, Calling(u)
      PROVE  CallDeletes(v, m)' \/ server'[m] = Absent
  <2>1. PICK c \in calls[u] : CallPatch(u, c) \/ CallNoteDelivered(u, c) \/ CallDelete(u, c)
    BY <1>6 DEF Calling
  <2>2. CASE u = v /\ c = d
    BY <1>1, <1>2, <2>1, <2>2 DEF CallPatch, CallNoteDelivered, CallDelete, DeleteRow,
       RowFunctions
  <2>3. CASE ~(u = v /\ c = d)
    <3>1. d \in calls'[v]
      BY <1>1, <1>2, <2>1, <2>3 DEF CallPatch, CallNoteDelivered, CallDelete, Continue,
         Finish
    <3> QED
      BY <1>3, <3>1
  <2> QED
    BY <2>2, <2>3
<1>7. ASSUME NEW u \in Users, Marking(u) PROVE CallDeletes(v, m)'
  <2>1. CASE MarkVisible(u)
    <3>1. calls' = [calls EXCEPT ![u] = Detached(calls[u])]
      BY <2>1 DEF MarkVisible
    <3>2. CASE u # v
      BY <1>1, <1>2, <1>3, <3>1, <3>2
    <3>3. CASE u = v
      <4>1. \E e \in Detached(calls[u]) : e.op = d.op /\ e.msg = d.msg
        BY <1>1, <1>2, <3>3, DetachedKeeps
      <4> QED
        BY <1>1, <1>2, <3>1, <3>3, <4>1 DEF CallDeletes
    <3> QED
      BY <3>2, <3>3
  <2>2. CASE \E n \in Msgs : MarkReadLocally(u, n)
    BY <1>1, <1>2, <1>3, <2>2 DEF MarkReadLocally
  <2> QED
    BY <1>7, <2>1, <2>2 DEF Marking
<1>8. ASSUME NEW u \in Users, Receiving(u) PROVE CallDeletes(v, m)'
  <2>1. CASE ReceiveInsert(u)
    <3>1. d \in calls'[v]
      BY <1>1, <1>2, <2>1 DEF ReceiveInsert
    <3> QED
      BY <1>3, <3>1
  <2>2. CASE ~ReceiveInsert(u)
    BY <1>4, <1>8, <2>2 DEF Receiving, Subscribe, ReceiveStatus, KeepPending
  <2> QED
    BY <2>1, <2>2
<1>9. ASSUME NEW u \in Users, Fetching(u) \/ Sending(u) PROVE UNCHANGED calls
  BY <1>9 DEF Fetching, FetchGet, FetchRow, FetchPatchRead, FetchDelete, FetchReturn,
     Sending, SendSave, SendTakePending, SendApplyPending, SendReturn
<1>10. CASE Purge \/ UNCHANGED vars
  BY <1>4, <1>10 DEF Purge, vars
<1> QED
  BY <1>4, <1>5, <1>6, <1>7, <1>8, <1>9, <1>10 DEF Next

\* Without a failure a row becomes read only when its receiver is about to delete it.
LEMMA ReadBegins ==
    ASSUME TypeOK, InFlight, CallsKnown, [Next]_vars, ~Fault, NEW m \in Msgs,
           server'[m] = "read", server[m] # "read"
    PROVE  DeletePending(m)'
<1>1. /\ calls \in [Users -> SUBSET Calls] /\ server \in RowFunctions
      /\ fetch \in [Users -> Fetches]
  BY TypeGroups DEF CallsOK, ServerOK, FetchOK
<1>2. \A s : \A n \in Msgs : PatchRow(n, s) /\ s # "read" => server'[m] # "read"
  BY <1>1 DEF PatchRow, RowFunctions
<1>3. \A s : \A n \in Msgs : PatchRow(n, s) => n = m
  BY <1>1 DEF PatchRow, RowFunctions
<1>4. CASE UNCHANGED server
  BY <1>4
<1>5. ASSUME NEW u \in Users, FetchPatchRead(u) PROVE DeletePending(m)'
  <2>1. fetch[u].cur \in Msgs /\ To[fetch[u].cur] = u
    BY <1>5 DEF FetchPatchRead, InFlight
  <2>2. PatchRow(fetch[u].cur, "read") /\ GoOnToDelete(u)
    BY <1>5 DEF FetchPatchRead
  <2>3. fetch[u].cur = m
    BY <1>3, <2>1, <2>2
  <2>4. fetch'[u].pc = "delete" /\ fetch'[u].cur = m
    BY <1>1, <2>2, <2>3 DEF GoOnToDelete, Fetches
  <2> QED
    BY <2>1, <2>3, <2>4 DEF DeletePending
<1>6. ASSUME NEW u \in Users, Calling(u) PROVE DeletePending(m)'
  <2>1. PICK c \in calls[u] : CallPatch(u, c) \/ CallNoteDelivered(u, c) \/ CallDelete(u, c)
    BY <1>6 DEF Calling
  <2>2. c \in Calls /\ To[c.msg] = u /\ c.msg \in Msgs
    BY <1>1, <2>1 DEF CallsKnown, Calls
  <2>3. CASE CallPatch(u, c)
    <3>1. PatchRow(c.msg, "read") /\ Continue(u, c, "delete")
      BY <1>2, <2>2, <2>3 DEF CallPatch
    <3>2. c.msg = m
      BY <1>3, <2>2, <3>1
    <3> DEFINE e == [c EXCEPT !.op = "delete"]
    <3>3. e \in calls'[u]
      BY <1>1, <3>1 DEF Continue
    <3>4. e.op = "delete" /\ e.msg = m
      BY <2>2, <3>2 DEF Calls
    <3> QED
      BY <2>2, <3>2, <3>3, <3>4 DEF DeletePending
  <2>4. CASE CallNoteDelivered(u, c)
    BY <1>4, <2>4 DEF CallNoteDelivered, serverVars
  <2>5. CASE CallDelete(u, c)
    BY <1>1, <2>5 DEF CallDelete, DeleteRow, RowFunctions, Absent
  <2> QED
    BY <2>1, <2>3, <2>4, <2>5
<1>7. ASSUME NEW u \in Users, Environment(u) PROVE DeletePending(m)'
  <2>1. CASE \E n \in Msgs : SendPost(u, n)
    BY <1>1, <2>1 DEF SendPost, RowFunctions
  <2>2. CASE ~\E n \in Msgs : SendPost(u, n)
    BY <1>4, <1>7, <2>2 DEF Environment, OpenChat, CloseChat, Crash, Disconnect, FetchGetFails,
       serverVars
  <2> QED
    BY <2>1, <2>2
<1>8. ASSUME NEW u \in Users, Fetching(u) PROVE DeletePending(m)'
  <2>1. CASE FetchDelete(u)
    BY <1>1, <2>1 DEF FetchDelete, DeleteRow, RowFunctions, Absent
  <2>2. CASE ~FetchDelete(u) /\ ~FetchPatchRead(u)
    BY <1>4, <1>8, <2>2 DEF Fetching, FetchGet, FetchRow, FetchReturn, serverVars
  <2> QED
    BY <1>5, <2>1, <2>2
<1>9. ASSUME NEW u \in Users, Sending(u) \/ Receiving(u) \/ Marking(u) PROVE UNCHANGED server
  BY <1>9 DEF Sending, SendSave, SendTakePending, SendApplyPending, SendReturn,
     Receiving, Subscribe, ReceiveInsert, ReceiveStatus, KeepPending,
     Marking, MarkVisible, MarkReadLocally, serverVars
<1>10. CASE Purge
  BY <1>1, <1>10 DEF Purge, Absent, RowFunctions
<1>11. CASE UNCHANGED vars
  BY <1>4, <1>11 DEF vars, serverVars
<1> QED
  BY <1>4, <1>6, <1>7, <1>8, <1>9, <1>10, <1>11 DEF Next

\* Every step keeps the read rows with somebody who is about to delete them.
LEMMA ReadRowsNext ==
    TypeOK /\ InFlight /\ SafeInv /\ ReadRowsGo /\ [Next]_vars => ReadRowsGo'
<1> SUFFICES ASSUME TypeOK, InFlight, SafeInv, ReadRowsGo, [Next]_vars, faults' = 0,
                    NEW m \in Msgs, server'[m] = "read"
             PROVE  DeletePending(m)'
  BY DEF ReadRowsGo
<1>1. ~Fault
  BY NoFaultStep
<1>2. CASE server[m] # "read"
  BY <1>1, <1>2, ReadBegins DEF SafeInv
<1>3. CASE server[m] = "read"
  <2>1. faults = 0
    <3>1. faults \in Nat /\ (faults' = faults \/ faults' = faults + 1)
      BY <1>1, FaultsGrow DEF TypeOK
    <3> QED
      BY <3>1
  <2>2. DeletePending(m)
    BY <1>3, <2>1 DEF ReadRowsGo
  <2>3. To[m] \in Users
    BY ConversationAssumption
  <2>4. CallDeletes(To[m], m) \/ FetchDeletes(To[m], m)
    BY <2>2 DEF DeletePending, CallDeletes, FetchDeletes
  <2>5. CallDeletes(To[m], m)' \/ FetchDeletes(To[m], m)'
    BY <1>1, <2>3, <2>4, CallKeeps, FetchKeeps DEF Absent
  <2> QED
    BY <2>5 DEF DeletePending, CallDeletes, FetchDeletes
<1> QED
  BY <1>2, <1>3

\* As long as nothing failed, a row that is marked as read has a call or a fetch of
\* its receiver that is about to delete it, even if the screen was left meanwhile.
THEOREM ReadRowsCorrect == Spec => []ReadRowsGo
<1>1. Init => ReadRowsGo
  BY DEF Init, ReadRowsGo, NoRows, Absent
<1> QED
  BY <1>1, ReadRowsNext, TypeCorrect, SafeCorrect, PTL DEF Spec

=============================================================================
