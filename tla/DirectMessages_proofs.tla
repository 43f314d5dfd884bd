----------------------- MODULE DirectMessages_proofs -----------------------
(***************************************************************************)
(* Type correctness of DirectMessages, for every conversation and bound.    *)
(*                                                                          *)
(* The type invariant is not inductive alone.  A row that fetchMessages has *)
(* still to process must not be Absent, or its status could not be stored,  *)
(* and a call must know its message: InFlight adds that.                    *)
(***************************************************************************)
EXTENDS DirectMessages, SequenceTheorems, TLAPS

\* A repository call in progress has a message of the right direction, and the
\* rows that fetchMessages has still to process are rows.
InFlight ==
    \A u \in Users :
        /\ send[u].pc # "idle" => send[u].msg \in Msgs /\ From[send[u].msg] = u
        /\ fetch[u].pc \in {"patch", "delete"} =>
               fetch[u].cur \in Msgs /\ To[fetch[u].cur] = u
        /\ \A m \in fetch[u].left : fetch[u].rows[m] # Absent

\* The types of the repository calls, as in TypeOK.
Fetches == [pc : {"idle", "get", "rows", "patch", "delete"},
            snap : CopyFunctions, rows : RowFunctions,
            left : SUBSET Msgs, cur : Msgs \cup {NoMsg}, live : BOOLEAN]
Sends == [pc : {"idle", "save", "take", "apply", "return"},
          msg : Msgs \cup {NoMsg}, idx : Nat, status : Status, live : BOOLEAN]
Calls == [op : {"patchDelivered", "noteDelivered", "patchRead", "delete"},
          msg : Msgs, live : BOOLEAN]

\* A device without copies and a server without rows have their types.
LEMMA EmptyCopies == NoCopies \in CopyFunctions /\ NoRows \in RowFunctions
<1>1. <<>> \in Seq(Status)
  BY EmptySeq
<1> QED
  BY <1>1 DEF NoCopies, NoRows, CopyFunctions, RowFunctions

\* The idle records of fetchMessages and sendMessage have their types.
LEMMA EmptySends == IdleFetch \in Fetches /\ IdleSend \in Sends
BY EmptyCopies DEF IdleFetch, IdleSend, Fetches, Sends, Status

\* The record with which sendMessage starts.
LEMMA StartedSend ==
    ASSUME NEW m \in Msgs
    PROVE  /\ [IdleSend EXCEPT !.pc = "save", !.msg = m, !.live = TRUE] \in Sends
           /\ [IdleSend EXCEPT !.pc = "save", !.msg = m, !.live = TRUE].msg = m
           /\ [IdleSend EXCEPT !.pc = "save", !.msg = m, !.live = TRUE].pc = "save"
           /\ [IdleSend EXCEPT !.pc = "save", !.msg = m, !.live = TRUE].status = "sent"
BY DEF IdleSend, Sends, Status

\* The initial state has the types.
LEMMA TypeInit == Init => TypeOK
<1> SUFFICES ASSUME Init PROVE TypeOK
  OBVIOUS
<1> USE DEF Init
<1>1. \A S : <<>> \in Seq(S)
  BY EmptySeq
<1>2. server \in RowFunctions /\ box \in [Users -> CopyFunctions] /\ pend \in [Users -> RowFunctions]
      /\ list \in [Users -> CopyFunctions]
  BY EmptyCopies
<1>3. ins \in [Users -> Seq(Msgs)] /\ upd \in [Users -> Seq(Msgs \X Status)]
  BY <1>1
<1>4. fetch \in [Users -> Fetches] /\ send \in [Users -> Sends]
  BY EmptySends
<1>5. faults \in 0..MaxFaults /\ moves \in [Users -> Nat] /\ \A u \in Users : moves[u] <= MaxMoves[u]
  BY ConversationAssumption
<1>6. sized \in [Users -> [Msgs -> Nat]]
  OBVIOUS
<1> QED
  BY <1>2, <1>3, <1>4, <1>5, <1>6 DEF TypeOK, Fetches, Sends

\* Replacing the copies of one message keeps the type of a store.
LEMMA ReplaceType ==
    ASSUME NEW st \in [Users -> CopyFunctions], NEW u \in Users, NEW m \in Msgs,
           NEW d \in Seq(Status)
    PROVE  [st EXCEPT ![u][m] = d] \in [Users -> CopyFunctions]
BY DEF CopyFunctions

\* Adding a copy, replacing the copies and overwriting one keep the type of a store.
LEMMA CopiesType ==
    ASSUME NEW st \in [Users -> CopyFunctions], NEW u \in Users, NEW m \in Msgs,
           NEW s \in Status
    PROVE  /\ [st EXCEPT ![u][m] = Append(@, s)] \in [Users -> CopyFunctions]
           /\ [st EXCEPT ![u][m] = <<s>>] \in [Users -> CopyFunctions]
           /\ \A i \in Nat : [st EXCEPT ![u][m][i] = s] \in [Users -> CopyFunctions]
<1> DEFINE c == st[u][m]
<1>1. c \in Seq(Status) /\ st[u] \in CopyFunctions
  BY DEF CopyFunctions
<1>2. Append(c, s) \in Seq(Status)
  BY <1>1, AppendProperties
<1>3. <<s>> \in Seq(Status)
  OBVIOUS
<1>4. ASSUME NEW i \in Nat PROVE [c EXCEPT ![i] = s] \in Seq(Status)
  <2>1. CASE i \in 1 .. Len(c)
    BY <1>1, <2>1, ExceptSeq
  <2>2. CASE i \notin 1 .. Len(c)
    <3>1. DOMAIN c = 1 .. Len(c) /\ c = [j \in DOMAIN c |-> c[j]]
      BY <1>1
    <3>2. [c EXCEPT ![i] = s] = c
      BY <2>2, <3>1
    <3> QED
      BY <1>1, <3>2
  <2> QED
    BY <2>1, <2>2
<1> HIDE DEF c
<1>5. ASSUME NEW i \in Nat
      PROVE [st EXCEPT ![u][m][i] = s] = [st EXCEPT ![u][m] = [c EXCEPT ![i] = s]]
  BY DEF c, CopyFunctions
<1>6. [st EXCEPT ![u][m] = Append(@, s)] = [st EXCEPT ![u][m] = Append(c, s)]
  BY DEF c, CopyFunctions
<1> QED
  BY <1>2, <1>3, <1>4, <1>5, <1>6, ReplaceType DEF c

\* TypeOK by groups of variables.
ServerOK ==
    /\ server \in RowFunctions
    /\ issued \subseteq Msgs /\ purged \subseteq Msgs /\ shown \subseteq Msgs
EventsOK ==
    /\ joined \in [Users -> BOOLEAN]
    /\ ins \in [Users -> Seq(Msgs)]
    /\ upd \in [Users -> Seq(Msgs \X Status)]
StoreOK == box \in [Users -> CopyFunctions] /\ pend \in [Users -> RowFunctions]
UiOK ==
    /\ open \in [Users -> BOOLEAN]
    /\ list \in [Users -> CopyFunctions]
    /\ sized \in [Users -> [Msgs -> Nat]]
    /\ todo \in [Users -> SUBSET Msgs]
    /\ held \in [Users -> (Msgs \X Status) \cup {<<>>}]
FetchOK == fetch \in [Users -> Fetches]
SendOK  == send \in [Users -> Sends]
CallsOK == calls \in [Users -> SUBSET Calls]
BoundsOK ==
    /\ faults \in 0..MaxFaults
    /\ moves \in [Users -> Nat] /\ \A u \in Users : moves[u] <= MaxMoves[u]

\* The type invariant by groups of variables: an action disturbs a few of them.
LEMMA TypeGroups ==
    TypeOK <=> /\ ServerOK /\ EventsOK /\ StoreOK /\ UiOK
               /\ FetchOK /\ SendOK /\ CallsOK /\ BoundsOK
BY DEF TypeOK, ServerOK, EventsOK, StoreOK, UiOK, FetchOK, SendOK, CallsOK,
   BoundsOK,
       Fetches, Sends, Calls

\* The same for the state after a step.
LEMMA TypeGroupsNext ==
    /\ ServerOK' /\ EventsOK' /\ StoreOK' /\ UiOK'
    /\ FetchOK' /\ SendOK' /\ CallsOK' /\ BoundsOK'
    => TypeOK'
BY DEF TypeOK, ServerOK, EventsOK, StoreOK, UiOK, FetchOK, SendOK, CallsOK,
   BoundsOK,
       Fetches, Sends, Calls

\* Detached calls are calls.
LEMMA DetachedType ==
    ASSUME NEW cs \in SUBSET Calls PROVE Detached(cs) \in SUBSET Calls
BY DEF Detached, Calls

\* A fault stays within its bound.
LEMMA FaultType == BoundsOK /\ Fault /\ UNCHANGED moves => BoundsOK'
BY ConversationAssumption DEF BoundsOK, Fault

\* Opening or leaving the screen stays within its bound.
LEMMA MoveType ==
    ASSUME NEW u \in Users, BoundsOK, Move(u), UNCHANGED faults PROVE BoundsOK'
<1>1. moves \in [Users -> Nat] /\ MaxMoves \in [Users -> Nat]
      /\ moves[u] < MaxMoves[u] /\ moves' = [moves EXCEPT ![u] = moves[u] + 1]
  BY ConversationAssumption DEF BoundsOK, Move
<1>2. moves' \in [Users -> Nat]
  BY <1>1
<1>3. ASSUME NEW v \in Users PROVE moves'[v] <= MaxMoves[v]
  <2>1. moves[v] \in Nat /\ MaxMoves[v] \in Nat /\ moves[v] <= MaxMoves[v]
    BY <1>1 DEF BoundsOK
  <2>2. CASE v = u
    BY <1>1, <2>1, <2>2
  <2>3. CASE v # u
    BY <1>1, <2>1, <2>3
  <2> QED
    BY <2>2, <2>3
<1> QED
  BY <1>2, <1>3 DEF BoundsOK

\* A PATCH keeps the types of rows and events.
LEMMA PatchType ==
    ASSUME ServerOK, EventsOK, NEW m \in Msgs, NEW s \in Status, PatchRow(m, s),
           UNCHANGED <<issued, purged, shown, joined, ins>>
    PROVE  ServerOK' /\ EventsOK'
<1>1. \A u \in Users : Append(upd[u], <<m, s>>) \in Seq(Msgs \X Status)
  BY AppendProperties DEF EventsOK
<1>2. upd' \in [Users -> Seq(Msgs \X Status)]
  BY <1>1 DEF PatchRow, EventsOK
<1>3. server' \in RowFunctions
  BY DEF PatchRow, ServerOK, RowFunctions
<1> QED
  BY <1>2, <1>3 DEF ServerOK, EventsOK

\* A DELETE keeps the type of the rows.
LEMMA DeleteType ==
    ASSUME ServerOK, NEW m, DeleteRow(m), UNCHANGED <<issued, purged, shown>>
    PROVE  ServerOK'
BY DEF DeleteRow, ServerOK, RowFunctions

\* updateLocalMessageStatus keeps the types of what the device stores.
LEMMA LocalUpdateType ==
    ASSUME StoreOK, NEW u \in Users, NEW m \in Msgs, NEW s \in Status,
           UpdateLocalMessageStatus(u, m, s)
    PROVE  StoreOK'
<1>1. CASE OverwriteFirst(u, m, s)
  BY <1>1, CopiesType DEF StoreOK, OverwriteFirst, RowFunctions
<1>2. CASE UNCHANGED box /\ pend' = [pend EXCEPT ![u][m] = s]
  BY <1>2 DEF StoreOK, RowFunctions
<1> QED
  BY <1>1, <1>2 DEF UpdateLocalMessageStatus

\* A put keeps the types of what the device stores.
LEMMA PutType ==
    ASSUME StoreOK, NEW u \in Users, NEW m \in Msgs, NEW s \in Status,
           Put(u, m, s), UNCHANGED pend
    PROVE  StoreOK'
BY CopiesType DEF StoreOK, Put

\* Losing the screen keeps the types of events and screen.
LEMMA DropType ==
    ASSUME EventsOK, UiOK, NEW u \in Users, DropScreen(u)
    PROVE  /\ EventsOK'
           /\ held' \in [Users -> (Msgs \X Status) \cup {<<>>}] => UiOK'
<1>1. <<>> \in Seq(Msgs) /\ <<>> \in Seq(Msgs \X Status)
  BY EmptySeq
<1>2. Lengths(NoCopies) \in [Msgs -> Nat]
  BY DEF Lengths, NoCopies
<1>3. list' \in [Users -> CopyFunctions] /\ sized' \in [Users -> [Msgs -> Nat]]
  BY <1>2, EmptyCopies DEF DropScreen, UiOK
<1>4. EventsOK'
  BY <1>1 DEF DropScreen, EventsOK
<1> QED
  BY <1>3, <1>4 DEF DropScreen, UiOK

\* What fetchMessages returns is a list of copies.
LEMMA CombinedType ==
    ASSUME NEW f \in Fetches PROVE Combined(f) \in CopyFunctions
<1>1. \A st \in Status : <<st>> \in Seq(Status)
  OBVIOUS
<1>2. ASSUME NEW m \in Msgs, f.rows[m] # Absent PROVE <<f.rows[m]>> \in Seq(Status)
  BY <1>1, <1>2 DEF Fetches, RowFunctions
<1>3. \A m \in Msgs : f.snap[m] \in Seq(Status)
  BY DEF Fetches, CopyFunctions
<1> QED
  BY <1>2, <1>3 DEF Combined, CopyFunctions

(* One lemma per action: it preserves the type invariant. *)

\* InFlight is about the repository calls only.
LEMMA InFlightFrame == InFlight /\ UNCHANGED <<fetch, send>> => InFlight'
BY DEF InFlight

\* Purge preserves the type invariant and InFlight.
LEMMA PurgeTyped ==
    ASSUME TypeOK, InFlight, Purge
    PROVE  TypeOK' /\ InFlight'
<1>0. ServerOK /\ EventsOK /\ StoreOK /\ UiOK /\ FetchOK /\ SendOK /\ CallsOK /\ BoundsOK
  BY TypeGroups
<1>1. ServerOK'
  BY <1>0 DEF Purge, ServerOK, RowFunctions
<1>2. EventsOK' /\ StoreOK' /\ UiOK' /\ FetchOK' /\ SendOK' /\ CallsOK' /\ BoundsOK'
  BY <1>0 DEF Purge, serverVars, eventVars, storeVars, uiVars, boundVars,
              EventsOK, StoreOK, UiOK, FetchOK, SendOK, CallsOK, BoundsOK
<1>3. InFlight'
  BY InFlightFrame DEF Purge
<1> QED
  BY <1>1, <1>2, <1>3, TypeGroupsNext

\* OpenChat preserves the type invariant and InFlight.
LEMMA OpenChatTyped ==
    ASSUME TypeOK, InFlight, NEW u \in Users, OpenChat(u)
    PROVE  TypeOK' /\ InFlight'
<1>0. ServerOK /\ EventsOK /\ StoreOK /\ UiOK /\ FetchOK /\ SendOK /\ CallsOK /\ BoundsOK
  BY TypeGroups
<1>1. UiOK'
  BY <1>0 DEF OpenChat, UiOK
<1>2. FetchOK'
  BY <1>0, EmptySends DEF OpenChat, FetchOK, Fetches, StoreOK
<1>3. BoundsOK'
  BY <1>0, MoveType DEF OpenChat
<1>4. InFlight'
  BY <1>0 DEF OpenChat, InFlight, FetchOK, Fetches, IdleFetch
<1>5. ServerOK' /\ EventsOK' /\ StoreOK' /\ SendOK' /\ CallsOK'
  BY <1>0 DEF OpenChat, serverVars, eventVars, storeVars, uiVars, boundVars,
              ServerOK, EventsOK, StoreOK, SendOK, CallsOK
<1> QED
  BY <1>1, <1>2, <1>3, <1>4, <1>5, TypeGroupsNext

\* Subscribe preserves the type invariant and InFlight.
LEMMA SubscribeTyped ==
    ASSUME TypeOK, InFlight, NEW u \in Users, Subscribe(u)
    PROVE  TypeOK' /\ InFlight'
<1>0. ServerOK /\ EventsOK /\ StoreOK /\ UiOK /\ FetchOK /\ SendOK /\ CallsOK /\ BoundsOK
  BY TypeGroups
<1>1. EventsOK'
  BY <1>0 DEF Subscribe, EventsOK
<1>2. ServerOK' /\ StoreOK' /\ UiOK' /\ FetchOK' /\ SendOK' /\ CallsOK' /\ BoundsOK'
  BY <1>0 DEF Subscribe, serverVars, eventVars, storeVars, uiVars, boundVars,
              ServerOK, StoreOK, UiOK, FetchOK, SendOK, CallsOK, BoundsOK
<1>3. InFlight'
  BY InFlightFrame DEF Subscribe
<1> QED
  BY <1>1, <1>2, <1>3, TypeGroupsNext

\* CloseChat preserves the type invariant and InFlight.
LEMMA CloseChatTyped ==
    ASSUME TypeOK, InFlight, NEW u \in Users, CloseChat(u)
    PROVE  TypeOK' /\ InFlight'
<1>0. ServerOK /\ EventsOK /\ StoreOK /\ UiOK /\ FetchOK /\ SendOK /\ CallsOK /\ BoundsOK
  BY TypeGroups
<1>1. EventsOK'
  BY <1>0, DropType DEF CloseChat
<1>2. UiOK'
  BY <1>0, DropType DEF CloseChat, UiOK
<1>3. FetchOK'
  BY ZenonT(30), <1>0 DEF CloseChat, FetchOK, Fetches
<1>4. SendOK'
  BY ZenonT(30), <1>0 DEF CloseChat, SendOK, Sends
<1>5. CallsOK'
  <2>1. PICK cancelled \in SUBSET {c \in calls[u] : c.op = "patchDelivered"} :
              calls' = [calls EXCEPT ![u] = Detached(@ \ cancelled)]
    BY DEF CloseChat
  <2>2. Detached(calls[u] \ cancelled) \in SUBSET Calls
    BY <1>0, DetachedType DEF CallsOK
  <2> QED
    BY <1>0, <2>1, <2>2 DEF CallsOK
<1>6. BoundsOK'
  BY <1>0, MoveType DEF CloseChat
<1>7. InFlight'
  BY <1>0 DEF CloseChat, InFlight, FetchOK, Fetches, SendOK, Sends
<1>8. ServerOK' /\ StoreOK'
  BY <1>0 DEF CloseChat, serverVars, eventVars, storeVars, uiVars, boundVars,
              ServerOK, StoreOK
<1> QED
  BY <1>1, <1>2, <1>3, <1>4, <1>5, <1>6, <1>7, <1>8, TypeGroupsNext

\* Crash preserves the type invariant and InFlight.
LEMMA CrashTyped ==
    ASSUME TypeOK, InFlight, NEW u \in Users, Crash(u)
    PROVE  TypeOK' /\ InFlight'
<1>0. ServerOK /\ EventsOK /\ StoreOK /\ UiOK /\ FetchOK /\ SendOK /\ CallsOK /\ BoundsOK
  BY TypeGroups
<1>1. EventsOK'
  BY <1>0, DropType DEF Crash
<1>2. UiOK'
  BY <1>0, DropType DEF Crash, UiOK
<1>3. StoreOK'
  BY <1>0, EmptyCopies DEF Crash, StoreOK
<1>4. FetchOK'
  BY <1>0, EmptySends DEF Crash, FetchOK
<1>5. SendOK'
  BY <1>0, EmptySends DEF Crash, SendOK
<1>6. CallsOK'
  BY <1>0 DEF Crash, CallsOK
<1>7. BoundsOK'
  BY <1>0, FaultType DEF Crash
<1>8. InFlight'
  BY <1>0 DEF Crash, InFlight, FetchOK, SendOK, IdleFetch, IdleSend
<1>9. ServerOK'
  BY <1>0 DEF Crash, serverVars, eventVars, storeVars, uiVars, boundVars,
              ServerOK
<1> QED
  BY <1>1, <1>2, <1>3, <1>4, <1>5, <1>6, <1>7, <1>8, <1>9, TypeGroupsNext

\* Disconnect preserves the type invariant and InFlight.
LEMMA DisconnectTyped ==
    ASSUME TypeOK, InFlight, NEW u \in Users, Disconnect(u)
    PROVE  TypeOK' /\ InFlight'
<1>0. ServerOK /\ EventsOK /\ StoreOK /\ UiOK /\ FetchOK /\ SendOK /\ CallsOK /\ BoundsOK
  BY TypeGroups
<1>1. EventsOK'
  BY <1>0, EmptySeq DEF Disconnect, EventsOK
<1>2. BoundsOK'
  BY <1>0, FaultType DEF Disconnect
<1>3. ServerOK' /\ StoreOK' /\ UiOK' /\ FetchOK' /\ SendOK' /\ CallsOK'
  BY <1>0 DEF Disconnect, serverVars, eventVars, storeVars, uiVars, boundVars,
              ServerOK, StoreOK, UiOK, FetchOK, SendOK, CallsOK
<1>4. InFlight'
  BY InFlightFrame DEF Disconnect
<1> QED
  BY <1>1, <1>2, <1>3, <1>4, TypeGroupsNext

\* FetchGet preserves the type invariant and InFlight.
LEMMA FetchGetTyped ==
    ASSUME TypeOK, InFlight, NEW u \in Users, FetchGet(u)
    PROVE  TypeOK' /\ InFlight'
<1>0. ServerOK /\ EventsOK /\ StoreOK /\ UiOK /\ FetchOK /\ SendOK /\ CallsOK /\ BoundsOK
  BY TypeGroups
<1>1. FetchOK'
  <2> DEFINE f == [fetch[u] EXCEPT !.pc = "rows", !.rows = server,
                                   !.left = {m \in Msgs : server[m] # Absent}]
  <2>1. fetch' = [fetch EXCEPT ![u] = f]
    BY <1>0 DEF FetchGet, FetchOK, Fetches
  <2>2. f \in Fetches
    BY <1>0 DEF FetchOK, Fetches, ServerOK
  <2> QED
    BY <1>0, <2>1, <2>2 DEF FetchOK
<1>2. InFlight'
  BY <1>0 DEF FetchGet, InFlight, FetchOK, Fetches
<1>3. ServerOK' /\ EventsOK' /\ StoreOK' /\ UiOK' /\ SendOK' /\ CallsOK' /\ BoundsOK'
  BY <1>0 DEF FetchGet, serverVars, eventVars, storeVars, uiVars, boundVars,
              ServerOK, EventsOK, StoreOK, UiOK, SendOK, CallsOK, BoundsOK
<1> QED
  BY <1>1, <1>2, <1>3, TypeGroupsNext

\* FetchGetFails preserves the type invariant and InFlight.
LEMMA FetchGetFailsTyped ==
    ASSUME TypeOK, InFlight, NEW u \in Users, FetchGetFails(u)
    PROVE  TypeOK' /\ InFlight'
<1>0. ServerOK /\ EventsOK /\ StoreOK /\ UiOK /\ FetchOK /\ SendOK /\ CallsOK /\ BoundsOK
  BY TypeGroups
<1>1. FetchOK'
  BY <1>0, EmptyCopies DEF FetchGetFails, FetchOK, Fetches
<1>2. BoundsOK'
  BY <1>0, FaultType DEF FetchGetFails
<1>3. InFlight'
  BY <1>0 DEF FetchGetFails, InFlight, FetchOK, Fetches
<1>4. ServerOK' /\ EventsOK' /\ StoreOK' /\ UiOK' /\ SendOK' /\ CallsOK'
  BY <1>0 DEF FetchGetFails, serverVars, eventVars, storeVars, uiVars, boundVars,
              ServerOK, EventsOK, StoreOK, UiOK, SendOK, CallsOK
<1> QED
  BY <1>1, <1>2, <1>3, <1>4, TypeGroupsNext
\* FetchRow preserves the type invariant and InFlight.
LEMMA FetchRowTyped ==
    ASSUME TypeOK, InFlight, NEW u \in Users, NEW m \in Msgs, FetchRow(u, m)
    PROVE  TypeOK' /\ InFlight'
<1>0. ServerOK /\ EventsOK /\ StoreOK /\ UiOK /\ FetchOK /\ SendOK /\ CallsOK /\ BoundsOK
  BY TypeGroups
<1>a. fetch[u].rows[m] \in Status
  BY <1>0 DEF FetchRow, InFlight, FetchOK, Fetches, RowFunctions
<1>1. StoreOK'
  <2>1. m \in fetch[u].left /\ fetch[u] \in Fetches /\ UNCHANGED pend
    BY <1>0 DEF FetchRow, FetchOK
  <2>2. CASE StoreReceived(u, m)
    BY <1>0, <1>a, <2>1, <2>2, PutType DEF StoreReceived
  <2>3. CASE StoreOwn(u, m)
    <3>1. CASE UNCHANGED box
      BY <1>0, <2>1, <3>1 DEF StoreOK
    <3>2. CASE Put(u, m, fetch[u].rows[m])
      BY <1>0, <1>a, <2>1, <3>2, PutType
    <3> QED
      BY <2>3, <3>1, <3>2 DEF StoreOwn
  <2> QED
    BY <2>2, <2>3 DEF FetchRow
<1>2. FetchOK'
  BY <1>0 DEF FetchRow, FetchOK, Fetches
<1>3. InFlight'
  BY SMTT(30), <1>0, ConversationAssumption DEF FetchRow, InFlight, FetchOK, Fetches,
     SentByPartner
<1>4. ServerOK' /\ EventsOK' /\ UiOK' /\ SendOK' /\ CallsOK' /\ BoundsOK'
  BY <1>0 DEF FetchRow, serverVars, eventVars, storeVars, uiVars, boundVars,
              ServerOK, EventsOK, UiOK, SendOK, CallsOK, BoundsOK
<1> QED
  BY <1>1, <1>2, <1>3, <1>4, TypeGroupsNext

\* FetchPatchRead preserves the type invariant and InFlight.
LEMMA FetchPatchReadTyped ==
    ASSUME TypeOK, InFlight, NEW u \in Users, FetchPatchRead(u)
    PROVE  TypeOK' /\ InFlight'
<1>0. ServerOK /\ EventsOK /\ StoreOK /\ UiOK /\ FetchOK /\ SendOK /\ CallsOK /\ BoundsOK
  BY TypeGroups
<1>a. fetch[u].cur \in Msgs
  BY DEF FetchPatchRead, InFlight
<1>1. ServerOK'
  BY <1>a, <1>0, PatchType DEF FetchPatchRead, ServerOK, Status
<1>2. EventsOK'
  BY <1>a, <1>0, PatchType DEF FetchPatchRead, EventsOK, Status
<1>3. FetchOK'
  BY <1>0 DEF FetchPatchRead, FetchOK, Fetches, GoOnToDelete, NextRow
<1>4. BoundsOK'
  BY <1>0, FaultType DEF FetchPatchRead, BoundsOK
<1>5. InFlight'
  BY <1>0 DEF FetchPatchRead, InFlight, FetchOK, Fetches, GoOnToDelete, NextRow
<1>6. StoreOK' /\ UiOK' /\ SendOK' /\ CallsOK'
  BY <1>0 DEF FetchPatchRead, serverVars, eventVars, storeVars, uiVars, boundVars,
              StoreOK, UiOK, SendOK, CallsOK
<1> QED
  BY <1>1, <1>2, <1>3, <1>4, <1>5, <1>6, TypeGroupsNext

\* FetchDelete preserves the type invariant and InFlight.
LEMMA FetchDeleteTyped ==
    ASSUME TypeOK, InFlight, NEW u \in Users, FetchDelete(u)
    PROVE  TypeOK' /\ InFlight'
<1>0. ServerOK /\ EventsOK /\ StoreOK /\ UiOK /\ FetchOK /\ SendOK /\ CallsOK /\ BoundsOK
  BY TypeGroups
<1>1. ServerOK'
  BY <1>0, DeleteType DEF FetchDelete, ServerOK, serverVars
<1>2. FetchOK'
  BY ZenonT(30), <1>0 DEF FetchDelete, FetchOK, Fetches, NextRow
<1>3. BoundsOK'
  BY <1>0, FaultType DEF FetchDelete, BoundsOK
<1>4. InFlight'
  BY <1>0 DEF FetchDelete, InFlight, FetchOK, Fetches, NextRow
<1>5. EventsOK' /\ StoreOK' /\ UiOK' /\ SendOK' /\ CallsOK'
  BY <1>0 DEF FetchDelete, serverVars, eventVars, storeVars, uiVars, boundVars,
              EventsOK, StoreOK, UiOK, SendOK, CallsOK
<1> QED
  BY <1>1, <1>2, <1>3, <1>4, <1>5, TypeGroupsNext

\* FetchReturn preserves the type invariant and InFlight.
LEMMA FetchReturnTyped ==
    ASSUME TypeOK, InFlight, NEW u \in Users, FetchReturn(u)
    PROVE  TypeOK' /\ InFlight'
<1>0. ServerOK /\ EventsOK /\ StoreOK /\ UiOK /\ FetchOK /\ SendOK /\ CallsOK /\ BoundsOK
  BY TypeGroups
<1>1. ServerOK'
  BY <1>0 DEF FetchReturn, ServerOK, serverVars, OnScreen
<1>2. UiOK'
  <2>1. Combined(fetch[u]) \in CopyFunctions
    BY <1>0, CombinedType DEF FetchOK
  <2>2. list' \in [Users -> CopyFunctions]
    BY <1>0, <2>1 DEF FetchReturn, UiOK
  <2> QED
    BY <1>0, <2>2 DEF FetchReturn, UiOK
<1>3. FetchOK'
  BY <1>0, EmptySends DEF FetchReturn, FetchOK
<1>4. InFlight'
  BY <1>0 DEF FetchReturn, InFlight, FetchOK, IdleFetch
<1>5. EventsOK' /\ StoreOK' /\ SendOK' /\ CallsOK' /\ BoundsOK'
  BY <1>0 DEF FetchReturn, serverVars, eventVars, storeVars, uiVars, boundVars,
              EventsOK, StoreOK, SendOK, CallsOK, BoundsOK
<1> QED
  BY <1>1, <1>2, <1>3, <1>4, <1>5, TypeGroupsNext

\* SendPost preserves the type invariant and InFlight.
LEMMA SendPostTyped ==
    ASSUME TypeOK, InFlight, NEW u \in Users, NEW m \in Msgs, SendPost(u, m)
    PROVE  TypeOK' /\ InFlight'
<1>0. ServerOK /\ EventsOK /\ StoreOK /\ UiOK /\ FetchOK /\ SendOK /\ CallsOK /\ BoundsOK
  BY TypeGroups
<1>1. ServerOK'
  BY <1>0 DEF SendPost, ServerOK, serverVars, RowFunctions, Status
<1>2. EventsOK'
  <2>1. \A v \in Users : Append(ins[v], m) \in Seq(Msgs)
    BY <1>0, AppendProperties DEF EventsOK
  <2> QED
    BY <1>0, <2>1 DEF SendPost, EventsOK
<1>3. SendOK'
  <2>1. CASE send' = [send EXCEPT ![u] = [IdleSend EXCEPT !.pc = "save",
                                              !.msg = m, !.live = TRUE]]
    BY <1>0, <2>1, StartedSend DEF SendOK
  <2>2. CASE UNCHANGED send
    BY <1>0, <2>2 DEF SendOK
  <2> QED
    BY <2>1, <2>2 DEF SendPost
<1>4. BoundsOK'
  BY <1>0, FaultType DEF SendPost, BoundsOK
<1>5. InFlight'
  <2>1. CASE send' = [send EXCEPT ![u] = [IdleSend EXCEPT !.pc = "save",
                                              !.msg = m, !.live = TRUE]]
    <3>1. \A v \in Users :
             \/ v # u /\ send'[v] = send[v]
             \/ v = u /\ send'[v].msg = m /\ From[m] = v
      BY <1>0, <2>1, StartedSend DEF SendOK, SendPost
    <3>2. UNCHANGED fetch
      BY DEF SendPost
    <3> QED
      BY <3>1, <3>2 DEF InFlight
  <2>2. CASE UNCHANGED send
    BY <2>2, InFlightFrame DEF SendPost
  <2> QED
    BY <2>1, <2>2 DEF SendPost
<1>6. StoreOK' /\ UiOK' /\ FetchOK' /\ CallsOK'
  BY <1>0 DEF SendPost, serverVars, eventVars, storeVars, uiVars, boundVars,
              StoreOK, UiOK, FetchOK, CallsOK
<1> QED
  BY <1>1, <1>2, <1>3, <1>4, <1>5, <1>6, TypeGroupsNext

\* SendSave preserves the type invariant and InFlight.
LEMMA SendSaveTyped ==
    ASSUME TypeOK, InFlight, NEW u \in Users, SendSave(u)
    PROVE  TypeOK' /\ InFlight'
<1>0. ServerOK /\ EventsOK /\ StoreOK /\ UiOK /\ FetchOK /\ SendOK /\ CallsOK /\ BoundsOK
  BY TypeGroups
<1>a. send[u].msg \in Msgs
  BY DEF SendSave, InFlight
<1>1. StoreOK'
  BY <1>0, <1>a, PutType DEF SendSave, Status
<1>2. SendOK'
  <2>1. Len(box[u][send[u].msg]) + 1 \in Nat
    BY <1>0, <1>a, LenProperties DEF StoreOK, CopyFunctions
  <2> QED
    BY <1>0, <2>1 DEF SendSave, SendOK, Sends
<1>3. InFlight'
  BY <1>0 DEF SendSave, InFlight, SendOK, Sends
<1>4. ServerOK' /\ EventsOK' /\ UiOK' /\ FetchOK' /\ CallsOK' /\ BoundsOK'
  BY <1>0 DEF SendSave, serverVars, eventVars, storeVars, uiVars, boundVars,
              ServerOK, EventsOK, UiOK, FetchOK, CallsOK, BoundsOK
<1> QED
  BY <1>1, <1>2, <1>3, <1>4, TypeGroupsNext

\* SendTakePending preserves the type invariant and InFlight.
LEMMA SendTakePendingTyped ==
    ASSUME TypeOK, InFlight, NEW u \in Users, SendTakePending(u)
    PROVE  TypeOK' /\ InFlight'
<1>0. ServerOK /\ EventsOK /\ StoreOK /\ UiOK /\ FetchOK /\ SendOK /\ CallsOK /\ BoundsOK
  BY TypeGroups
<1>a. send[u].msg \in Msgs
  BY DEF SendTakePending, InFlight
<1>1. StoreOK'
  BY <1>0, <1>a DEF SendTakePending, StoreOK, RowFunctions
<1>2. SendOK'
  <2>1. pend[u][send[u].msg] \in Status \cup {Absent} /\ send[u] \in Sends
    BY <1>0, <1>a DEF StoreOK, RowFunctions, SendOK
  <2>2. WithPending(send[u], pend[u][send[u].msg]) \in Sends
    BY <2>1 DEF WithPending, Sends
  <2> QED
    BY <1>0, <2>2 DEF SendTakePending, SendOK
<1>3. InFlight'
  BY <1>0 DEF SendTakePending, InFlight, SendOK, Sends, WithPending
<1>4. ServerOK' /\ EventsOK' /\ UiOK' /\ FetchOK' /\ CallsOK' /\ BoundsOK'
  BY <1>0 DEF SendTakePending, serverVars, eventVars, storeVars, uiVars,
     boundVars,
              ServerOK, EventsOK, UiOK, FetchOK, CallsOK, BoundsOK
<1> QED
  BY <1>1, <1>2, <1>3, <1>4, TypeGroupsNext

\* SendApplyPending preserves the type invariant and InFlight.
LEMMA SendApplyPendingTyped ==
    ASSUME TypeOK, InFlight, NEW u \in Users, SendApplyPending(u)
    PROVE  TypeOK' /\ InFlight'
<1>0. ServerOK /\ EventsOK /\ StoreOK /\ UiOK /\ FetchOK /\ SendOK /\ CallsOK /\ BoundsOK
  BY TypeGroups
<1>a. send[u].msg \in Msgs
  BY DEF SendApplyPending, InFlight
<1>1. StoreOK'
  <2>1. send[u].status \in Status /\ send[u].idx \in Nat
    BY <1>0 DEF SendOK, Sends
  <2> QED
    BY <1>0, <1>a, <2>1, CopiesType DEF SendApplyPending, StoreOK
<1>2. SendOK'
  BY <1>0 DEF SendApplyPending, SendOK, Sends
<1>3. InFlight'
  BY <1>0 DEF SendApplyPending, InFlight, SendOK, Sends
<1>4. ServerOK' /\ EventsOK' /\ UiOK' /\ FetchOK' /\ CallsOK' /\ BoundsOK'
  BY <1>0 DEF SendApplyPending, serverVars, eventVars, storeVars, uiVars,
     boundVars,
              ServerOK, EventsOK, UiOK, FetchOK, CallsOK, BoundsOK
<1> QED
  BY <1>1, <1>2, <1>3, <1>4, TypeGroupsNext

\* SendReturn preserves the type invariant and InFlight.
LEMMA SendReturnTyped ==
    ASSUME TypeOK, InFlight, NEW u \in Users, SendReturn(u)
    PROVE  TypeOK' /\ InFlight'
<1>0. ServerOK /\ EventsOK /\ StoreOK /\ UiOK /\ FetchOK /\ SendOK /\ CallsOK /\ BoundsOK
  BY TypeGroups
<1>a. send[u].msg \in Msgs
  BY DEF SendReturn, InFlight
<1>1. UiOK'
  <2>1. send[u].status \in Status
    BY <1>0 DEF SendOK, Sends
  <2>2. list' \in [Users -> CopyFunctions]
    <3>1. CASE list' = [list EXCEPT ![u][send[u].msg] = Append(@, send[u].status)]
      BY <1>0, <1>a, <2>1, <3>1, CopiesType DEF UiOK
    <3>2. CASE UNCHANGED list
      BY <1>0, <3>2 DEF UiOK
    <3> QED
      BY <3>1, <3>2 DEF SendReturn
  <2> QED
    BY <1>0, <2>2 DEF SendReturn, UiOK
<1>2. SendOK'
  BY <1>0, EmptySends DEF SendReturn, SendOK, Sends
<1>3. InFlight'
  BY <1>0 DEF SendReturn, InFlight, SendOK, Sends, IdleSend
<1>4. ServerOK' /\ EventsOK' /\ StoreOK' /\ FetchOK' /\ CallsOK' /\ BoundsOK'
  BY <1>0 DEF SendReturn, serverVars, eventVars, storeVars, uiVars, boundVars,
              ServerOK, EventsOK, StoreOK, FetchOK, CallsOK, BoundsOK
<1> QED
  BY <1>1, <1>2, <1>3, <1>4, TypeGroupsNext

\* ReceiveInsert preserves the type invariant and InFlight.
LEMMA ReceiveInsertTyped ==
    ASSUME TypeOK, InFlight, NEW u \in Users, ReceiveInsert(u)
    PROVE  TypeOK' /\ InFlight'
<1>0. ServerOK /\ EventsOK /\ StoreOK /\ UiOK /\ FetchOK /\ SendOK /\ CallsOK /\ BoundsOK
  BY TypeGroups
<1>a. Head(ins[u]) \in Msgs /\ Tail(ins[u]) \in Seq(Msgs)
  BY <1>0, HeadTailProperties DEF ReceiveInsert, EventsOK
<1>1. ServerOK'
  BY <1>0, <1>a DEF ReceiveInsert, ServerOK, serverVars
<1>2. EventsOK'
  BY <1>0, <1>a DEF ReceiveInsert, EventsOK
<1>3. UiOK'
  <2>1. list' \in [Users -> CopyFunctions]
    <3>1. CASE list' = [list EXCEPT ![u][Head(ins[u])] = <<"sent">>]
      BY <1>0, <1>a, <3>1, CopiesType DEF UiOK, Status
    <3>2. CASE UNCHANGED list
      BY <1>0, <3>2 DEF UiOK
    <3> QED
      BY <3>1, <3>2 DEF ReceiveInsert
  <2> QED
    BY <1>0, <2>1 DEF ReceiveInsert, UiOK
<1>4. CallsOK'
  <2>1. Call("patchDelivered", Head(ins[u]), FALSE) \in Calls
    BY <1>a DEF Call, Calls
  <2> QED
    BY ZenonT(30), <1>0, <2>1 DEF ReceiveInsert, CallsOK
<1>5. StoreOK' /\ FetchOK' /\ SendOK' /\ BoundsOK'
  BY <1>0 DEF ReceiveInsert, serverVars, eventVars, storeVars, uiVars, boundVars,
              StoreOK, FetchOK, SendOK, BoundsOK
<1>6. InFlight'
  BY InFlightFrame DEF ReceiveInsert
<1> QED
  BY <1>1, <1>2, <1>3, <1>4, <1>5, <1>6, TypeGroupsNext

\* ReceiveStatus preserves the type invariant and InFlight.
LEMMA ReceiveStatusTyped ==
    ASSUME TypeOK, InFlight, NEW u \in Users, ReceiveStatus(u)
    PROVE  TypeOK' /\ InFlight'
<1>0. ServerOK /\ EventsOK /\ StoreOK /\ UiOK /\ FetchOK /\ SendOK /\ CallsOK /\ BoundsOK
  BY TypeGroups
<1>a. Head(upd[u]) \in Msgs \X Status /\ Tail(upd[u]) \in Seq(Msgs \X Status)
  BY <1>0, HeadTailProperties DEF ReceiveStatus, EventsOK
<1>b. Head(upd[u])[1] \in Msgs /\ Head(upd[u])[2] \in Status
  BY <1>a
<1>1. EventsOK'
  BY <1>0, <1>a DEF ReceiveStatus, EventsOK
<1>2. StoreOK'
  BY <1>0, <1>a, <1>b, LocalUpdateType DEF ReceiveStatus, StoreOK, storeVars
<1>3. UiOK'
  <2>1. list' \in [Users -> CopyFunctions]
    <3> DEFINE m == Head(upd[u])[1]
               d == [i \in DOMAIN list[u][m] |-> Head(upd[u])[2]]
    <3>1. list' = [list EXCEPT ![u][m] = d]
      BY DEF ReceiveStatus
    <3>2. d \in Seq(Status)
      <4>1. list[u][m] \in Seq(Status)
        BY <1>0, <1>b DEF UiOK, CopyFunctions
      <4> QED
        BY <1>b, <4>1
    <3> HIDE DEF d
    <3> QED
      BY <1>0, <1>b, <3>1, <3>2, ReplaceType DEF UiOK
  <2>2. held' \in [Users -> (Msgs \X Status) \cup {<<>>}]
    <3>1. CASE UNCHANGED held
      BY <1>0, <3>1 DEF UiOK
    <3>2. CASE held' = [held EXCEPT ![u] = <<Head(upd[u])[1], Head(upd[u])[2]>>]
      BY <1>0, <1>b, <3>2 DEF UiOK
    <3> QED
      BY <3>1, <3>2 DEF ReceiveStatus
  <2> QED
    BY <1>0, <2>1, <2>2 DEF ReceiveStatus, UiOK
<1>4. ServerOK' /\ FetchOK' /\ SendOK' /\ CallsOK' /\ BoundsOK'
  BY <1>0 DEF ReceiveStatus, serverVars, eventVars, storeVars, uiVars, boundVars,
              ServerOK, FetchOK, SendOK, CallsOK, BoundsOK
<1>5. InFlight'
  BY InFlightFrame DEF ReceiveStatus
<1> QED
  BY <1>1, <1>2, <1>3, <1>4, <1>5, TypeGroupsNext

\* KeepPending preserves the type invariant and InFlight.
LEMMA KeepPendingTyped ==
    ASSUME TypeOK, InFlight, NEW u \in Users, KeepPending(u)
    PROVE  TypeOK' /\ InFlight'
<1>0. ServerOK /\ EventsOK /\ StoreOK /\ UiOK /\ FetchOK /\ SendOK /\ CallsOK /\ BoundsOK
  BY TypeGroups
<1>a. held[u][1] \in Msgs /\ held[u][2] \in Status
  BY <1>0 DEF KeepPending, UiOK
<1>1. StoreOK'
  BY <1>0, <1>a DEF KeepPending, StoreOK, RowFunctions
<1>2. UiOK'
  BY <1>0 DEF KeepPending, UiOK
<1>3. ServerOK' /\ EventsOK' /\ FetchOK' /\ SendOK' /\ CallsOK' /\ BoundsOK'
  BY <1>0 DEF KeepPending, serverVars, eventVars, storeVars, uiVars, boundVars,
              ServerOK, EventsOK, FetchOK, SendOK, CallsOK, BoundsOK
<1>4. InFlight'
  BY InFlightFrame DEF KeepPending
<1> QED
  BY <1>1, <1>2, <1>3, <1>4, TypeGroupsNext

\* MarkVisible preserves the type invariant and InFlight.
LEMMA MarkVisibleTyped ==
    ASSUME TypeOK, InFlight, NEW u \in Users, MarkVisible(u)
    PROVE  TypeOK' /\ InFlight'
<1>0. ServerOK /\ EventsOK /\ StoreOK /\ UiOK /\ FetchOK /\ SendOK /\ CallsOK /\ BoundsOK
  BY TypeGroups
<1>1. UiOK'
  <2>1. Lengths(list[u]) \in [Msgs -> Nat]
    BY <1>0, LenProperties DEF Lengths, UiOK, CopyFunctions
  <2>2. Unread(u) \subseteq Msgs
    BY DEF Unread
  <2> QED
    BY <1>0, <2>1, <2>2 DEF MarkVisible, UiOK
<1>2. CallsOK'
  BY <1>0, DetachedType DEF MarkVisible, CallsOK
<1>3. ServerOK' /\ EventsOK' /\ StoreOK' /\ FetchOK' /\ SendOK' /\ BoundsOK'
  BY <1>0 DEF MarkVisible, serverVars, eventVars, storeVars, uiVars, boundVars,
              ServerOK, EventsOK, StoreOK, FetchOK, SendOK, BoundsOK
<1>4. InFlight'
  BY InFlightFrame DEF MarkVisible
<1> QED
  BY <1>1, <1>2, <1>3, <1>4, TypeGroupsNext

\* MarkReadLocally preserves the type invariant and InFlight.
LEMMA MarkReadLocallyTyped ==
    ASSUME TypeOK, InFlight, NEW u \in Users, NEW m \in Msgs, MarkReadLocally(u,
           m)
    PROVE  TypeOK' /\ InFlight'
<1>0. ServerOK /\ EventsOK /\ StoreOK /\ UiOK /\ FetchOK /\ SendOK /\ CallsOK /\ BoundsOK
  BY TypeGroups
<1>1. StoreOK'
  BY <1>0, LocalUpdateType DEF MarkReadLocally, Status
<1>2. UiOK'
  BY <1>0 DEF MarkReadLocally, UiOK
<1>3. CallsOK'
  <2>1. Call("patchRead", m, TRUE) \in Calls
    BY DEF Call, Calls
  <2> QED
    BY <1>0, <2>1 DEF MarkReadLocally, CallsOK
<1>4. ServerOK' /\ EventsOK' /\ FetchOK' /\ SendOK' /\ BoundsOK'
  BY <1>0 DEF MarkReadLocally, serverVars, eventVars, storeVars, uiVars,
     boundVars,
              ServerOK, EventsOK, FetchOK, SendOK, BoundsOK
<1>5. InFlight'
  BY InFlightFrame DEF MarkReadLocally
<1> QED
  BY <1>1, <1>2, <1>3, <1>4, <1>5, TypeGroupsNext

\* CallPatch preserves the type invariant and InFlight.
LEMMA CallPatchTyped ==
    ASSUME TypeOK, InFlight, NEW u \in Users, NEW c \in calls[u], CallPatch(u, c)
    PROVE  TypeOK' /\ InFlight'
<1>0. ServerOK /\ EventsOK /\ StoreOK /\ UiOK /\ FetchOK /\ SendOK /\ CallsOK /\ BoundsOK
  BY TypeGroups
<1>a. c \in Calls /\ c.msg \in Msgs
  BY <1>0 DEF CallsOK, Calls
<1>1. ServerOK'
  BY <1>0, <1>a, PatchType DEF CallPatch, ServerOK, Status
<1>2. EventsOK'
  BY <1>0, <1>a, PatchType DEF CallPatch, EventsOK, Status
<1>3. CallsOK'
  <2>1. \A op \in {"noteDelivered", "delete"} : [c EXCEPT !.op = op] \in Calls
    BY <1>a DEF Calls
  <2>2. \A op \in {"noteDelivered", "delete"} : Continue(u, c, op) => CallsOK'
    BY <1>0, <2>1 DEF CallsOK, Continue
  <2>3. Finish(u, c) => CallsOK'
    BY <1>0 DEF CallsOK, Finish
  <2> QED
    BY <2>2, <2>3 DEF CallPatch
<1>4. BoundsOK'
  BY <1>0, FaultType DEF CallPatch, BoundsOK
<1>5. StoreOK' /\ UiOK' /\ FetchOK' /\ SendOK'
  BY <1>0 DEF CallPatch, serverVars, eventVars, storeVars, uiVars, boundVars,
              StoreOK, UiOK, FetchOK, SendOK
<1>6. InFlight'
  BY InFlightFrame DEF CallPatch
<1> QED
  BY <1>1, <1>2, <1>3, <1>4, <1>5, <1>6, TypeGroupsNext

\* CallNoteDelivered preserves the type invariant and InFlight.
LEMMA CallNoteDeliveredTyped ==
    ASSUME TypeOK, InFlight, NEW u \in Users, NEW c \in calls[u],
           CallNoteDelivered(u, c)
    PROVE  TypeOK' /\ InFlight'
<1>0. ServerOK /\ EventsOK /\ StoreOK /\ UiOK /\ FetchOK /\ SendOK /\ CallsOK /\ BoundsOK
  BY TypeGroups
<1>a. c \in Calls /\ c.msg \in Msgs
  BY <1>0 DEF CallsOK, Calls
<1>1. StoreOK'
  BY <1>0, <1>a, LocalUpdateType DEF CallNoteDelivered, Status
<1>2. CallsOK'
  BY <1>0 DEF CallNoteDelivered, CallsOK, Finish
<1>3. ServerOK' /\ EventsOK' /\ UiOK' /\ FetchOK' /\ SendOK' /\ BoundsOK'
  BY <1>0 DEF CallNoteDelivered, serverVars, eventVars, storeVars, uiVars,
     boundVars,
              ServerOK, EventsOK, UiOK, FetchOK, SendOK, BoundsOK
<1>4. InFlight'
  BY InFlightFrame DEF CallNoteDelivered
<1> QED
  BY <1>1, <1>2, <1>3, <1>4, TypeGroupsNext

\* CallDelete preserves the type invariant and InFlight.
LEMMA CallDeleteTyped ==
    ASSUME TypeOK, InFlight, NEW u \in Users, NEW c \in calls[u], CallDelete(u, c)
    PROVE  TypeOK' /\ InFlight'
<1>0. ServerOK /\ EventsOK /\ StoreOK /\ UiOK /\ FetchOK /\ SendOK /\ CallsOK /\ BoundsOK
  BY TypeGroups
<1>1. ServerOK'
  BY <1>0, DeleteType DEF CallDelete, ServerOK, serverVars
<1>2. CallsOK'
  BY <1>0 DEF CallDelete, CallsOK, Finish
<1>3. BoundsOK'
  BY <1>0, FaultType DEF CallDelete, BoundsOK
<1>4. EventsOK' /\ StoreOK' /\ UiOK' /\ FetchOK' /\ SendOK'
  BY <1>0 DEF CallDelete, serverVars, eventVars, storeVars, uiVars, boundVars,
              EventsOK, StoreOK, UiOK, FetchOK, SendOK
<1>5. InFlight'
  BY InFlightFrame DEF CallDelete
<1> QED
  BY <1>1, <1>2, <1>3, <1>4, <1>5, TypeGroupsNext

\* Every step preserves the type invariant and InFlight: one step per action.
LEMMA TypeNext == TypeOK /\ InFlight /\ [Next]_vars => TypeOK' /\ InFlight'
<1> SUFFICES ASSUME TypeOK, InFlight, [Next]_vars PROVE TypeOK' /\ InFlight'
  OBVIOUS
<1>1. CASE UNCHANGED vars
  <2>1. TypeOK'
    BY <1>1 DEF vars, serverVars, eventVars, storeVars, uiVars, boundVars, TypeOK
  <2>2. InFlight'
    BY <1>1, InFlightFrame DEF vars
  <2> QED
    BY <2>1, <2>2
<1>2. CASE Purge
  BY <1>2, PurgeTyped
<1>3. ASSUME NEW u \in Users, Environment(u) PROVE TypeOK' /\ InFlight'
  BY <1>3, OpenChatTyped, CloseChatTyped, CrashTyped, DisconnectTyped,
     FetchGetFailsTyped, SendPostTyped DEF Environment
<1>4. ASSUME NEW u \in Users, Fetching(u) PROVE TypeOK' /\ InFlight'
  BY <1>4, FetchGetTyped, FetchRowTyped, FetchPatchReadTyped, FetchDeleteTyped,
     FetchReturnTyped DEF Fetching
<1>5. ASSUME NEW u \in Users, Sending(u) PROVE TypeOK' /\ InFlight'
  BY <1>5, SendSaveTyped, SendTakePendingTyped, SendApplyPendingTyped,
     SendReturnTyped DEF Sending
<1>6. ASSUME NEW u \in Users, Receiving(u) PROVE TypeOK' /\ InFlight'
  BY <1>6, SubscribeTyped, ReceiveInsertTyped, ReceiveStatusTyped,
     KeepPendingTyped
     DEF Receiving
<1>7. ASSUME NEW u \in Users, Calling(u) PROVE TypeOK' /\ InFlight'
  BY <1>7, CallPatchTyped, CallNoteDeliveredTyped, CallDeleteTyped DEF Calling
<1>8. ASSUME NEW u \in Users, Marking(u) PROVE TypeOK' /\ InFlight'
  BY <1>8, MarkVisibleTyped, MarkReadLocallyTyped DEF Marking
<1> QED
  BY <1>1, <1>2, <1>3, <1>4, <1>5, <1>6, <1>7, <1>8 DEF Next

\* No call is in progress initially.
LEMMA InFlightInit == Init => InFlight
BY DEF Init, InFlight, IdleFetch, IdleSend

\* Whatever the interleaving of effects, repository calls, events and failures,
\* the variables have their types, no stored status is missing and every call in
\* progress is about a message of its user.
THEOREM TypeCorrect == Spec => [](TypeOK /\ InFlight)
<1>1. Init => TypeOK /\ InFlight
  BY TypeInit, InFlightInit
<1>2. TypeOK /\ InFlight /\ [Next]_vars => (TypeOK /\ InFlight)'
  BY TypeNext
<1> QED
  BY <1>1, <1>2, PTL DEF Spec
=============================================================================
