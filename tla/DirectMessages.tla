--------------------------- MODULE DirectMessages ---------------------------
(***************************************************************************)
(* Ephemeral direct messages: one conversation between the devices of two   *)
(* users through the table direct_messages of the Supabase server.          *)
(*                                                                          *)
(* A message is a row of the server until its receiver has read it; then    *)
(* the receiver's device deletes the row and each device lives on its own   *)
(* ObjectBox copy.  The sender sees the progress as ticks: sent, delivered, *)
(* read.                                                                    *)
(*                                                                          *)
(* Code: SocialRepository.kt (fetchMessages, sendMessage, the realtime      *)
(* flows, markMessageAs*, updateLocalMessageStatus), DirectChatScreen.kt    *)
(* (the effects that call them) and setup_realtime_messages_ephemeral.sql.  *)
(*                                                                          *)
(* Threads of a device.  The Compose effects run on the main thread, one at *)
(* a time.  Repository calls run on Dispatchers.IO without a suspension     *)
(* point, so that leaving the screen does not interrupt a request that has  *)
(* begun: only its result is dropped.                                       *)
(***************************************************************************)
EXTENDS Naturals, Sequences, Functions

CONSTANTS
    Users,      \* the users of the conversation, one device each
    Msgs,       \* the messages that may be sent
    NoMsg,      \* not a message
    From, To,   \* sender and receiver of each message
    MaxFaults,  \* bound: failed requests, lost connections and process deaths
    Purging,    \* rows may grow older than two days
    Realtime,   \* devices whose realtime channels can join at all
    MaxMoves    \* bound: how often each user opens or leaves the screen

ASSUME ConversationAssumption ==
    /\ NoMsg \notin Msgs
    /\ From \in [Msgs -> Users]
    /\ To \in [Msgs -> Users]
    /\ \A m \in Msgs : From[m] # To[m] /\ Users = {From[m], To[m]}
    /\ MaxFaults \in Nat
    /\ MaxMoves \in [Users -> Nat]
    /\ Realtime \subseteq Users
    /\ Purging \in BOOLEAN

Status == {"sent", "delivered", "read"}
Ticked == {"delivered", "read"}
Absent == "absent"

VARIABLES
    \* The server.
    server,   \* message -> status of its row, or Absent
    issued,   \* messages whose row was ever inserted
    purged,   \* messages whose row the two-day purge removed
    joined,   \* user -> the realtime channels of the device are joined
    ins,      \* user -> INSERT events on their way, oldest first
    upd,      \* user -> UPDATE events on their way, oldest first
    \* What a device keeps.
    box,      \* user -> message -> status of each ObjectBox entity of it
    pend,     \* user -> message -> pendingStatusUpdates, Absent when none
    \* The chat screen of a device.
    open,     \* user -> the chat screen is composed
    list,     \* user -> message -> status of each copy in the list on screen
    sized,    \* user -> the numbers of copies when effect 6 last started
    todo,     \* user -> messages effect 6 has still to mark as read
    held,     \* user -> the status update that found no entity: <<>> if none
    \* Repository calls in progress on a device.
    fetch,    \* user -> fetchMessages
    send,     \* user -> sendMessage
    calls,    \* user -> markMessageAsDelivered and markMessageAsRead
    \* History and bounds.
    shown,    \* messages that have been on their receiver's screen
    faults,   \* faults so far
    moves     \* user -> times the screen was opened or left so far

serverVars == <<server, issued, purged>>
eventVars  == <<joined, ins, upd>>
storeVars  == <<box, pend>>
uiVars     == <<open, list, sized, todo, held>>
boundVars  == <<faults, moves>>
vars == <<serverVars, eventVars, storeVars, uiVars, fetch, send, calls, shown,
          boundVars>>

NoCopies == [m \in Msgs |-> <<>>]
NoRows   == [m \in Msgs |-> Absent]

IdleFetch == [pc |-> "idle", snap |-> NoCopies, rows |-> NoRows, left |-> {},
              cur |-> NoMsg, live |-> FALSE]
IdleSend  == [pc |-> "idle", msg |-> NoMsg, idx |-> 0, status |-> "sent",
              live |-> FALSE]

Init ==
    /\ server = NoRows
    /\ issued = {}
    /\ purged = {}
    /\ joined = [u \in Users |-> FALSE]
    /\ ins = [u \in Users |-> <<>>]
    /\ upd = [u \in Users |-> <<>>]
    /\ box = [u \in Users |-> NoCopies]
    /\ pend = [u \in Users |-> NoRows]
    /\ open = [u \in Users |-> FALSE]
    /\ list = [u \in Users |-> NoCopies]
    /\ sized = [u \in Users |-> [m \in Msgs |-> 0]]
    /\ todo = [u \in Users |-> {}]
    /\ held = [u \in Users |-> <<>>]
    /\ fetch = [u \in Users |-> IdleFetch]
    /\ send = [u \in Users |-> IdleSend]
    /\ calls = [u \in Users |-> {}]
    /\ shown = {}
    /\ faults = 0
    /\ moves = [u \in Users |-> 0]

-----------------------------------------------------------------------------
(* Building blocks *)

\* A request or a process fails: at most MaxFaults times in a behaviour.
Fault == faults < MaxFaults /\ faults' = faults + 1

\* The user opens or leaves the screen: at most MaxMoves[u] times in a behaviour.
Move(u) == moves[u] < MaxMoves[u] /\ moves' = [moves EXCEPT ![u] = @ + 1]

\* The main thread is not inside updateLocalMessageStatus.
MainFree(u) == held[u] = <<>>

\* Faulty variant of PatchRow: a row that is gone is inserted again.
UpsertRow(m, status) ==
    /\ server' = [server EXCEPT ![m] = status]
    /\ upd' = [u \in Users |-> IF u \in {From[m], To[m]} /\ joined[u]
                              THEN Append(upd[u], <<m, status>>) ELSE upd[u]]

\* PATCH direct_messages?id=eq.m: no row, no event, and the same 2xx answer.
PatchRow(m, status) ==
    IF server[m] = Absent
    THEN UNCHANGED <<server, upd>>
    ELSE /\ server' = [server EXCEPT ![m] = status]
         /\ upd' = [u \in Users |->
                      IF u \in {From[m], To[m]} /\ joined[u]
                      THEN Append(upd[u], <<m, status>>)
                      ELSE upd[u]]

\* DELETE direct_messages?id=eq.m: no device subscribes to DELETE events.
DeleteRow(m) == server' = [server EXCEPT ![m] = Absent]

\* localMessagesBox.put of a new entity (id = 0).
Put(u, m, status) == box' = [box EXCEPT ![u][m] = Append(@, status)]

\* The branch of updateLocalMessageStatus that found an entity.
OverwriteFirst(u, m, status) ==
    /\ box' = [box EXCEPT ![u][m][1] = status]
    /\ pend' = [pend EXCEPT ![u][m] = Absent]

\* updateLocalMessageStatus of a received message, from any thread.  Nothing
\* takes the pending status of a received message, so looking up the entity and
\* acting on the answer can be one step.
UpdateLocalMessageStatus(u, m, status) ==
    \/ /\ box[u][m] # <<>>
       /\ OverwriteFirst(u, m, status)
    \/ /\ box[u][m] = <<>>
       /\ pend' = [pend EXCEPT ![u][m] = status]
       /\ UNCHANGED box

Lengths(copies) == [m \in Msgs |-> Len(copies[m])]
Total(lengths) == FoldFunction(LAMBDA x, y : x + y, 0, lengths)

\* Faulty variant of Unread: the messages that still have "sent" are left out.
UnreadDelivered(u) ==
    {m \in Msgs : To[m] = u /\ \E i \in DOMAIN list[u][m] : list[u][m][i] = "delivered"}

\* Received messages on screen that effect 6 selects.
Unread(u) ==
    {m \in Msgs : /\ To[m] = u
                  /\ \E i \in DOMAIN list[u][m] :
                        list[u][m][i] \in {"sent", "delivered"}}

\* The calls of a device once the effect that made them was cancelled.
Detached(cs) == {[c EXCEPT !.live = FALSE] : c \in cs}

\* A call in progress, by the request it makes next; live while effect 6
\* waits for it.
Call(op, m, live) == [op |-> op, msg |-> m, live |-> live]

-----------------------------------------------------------------------------
(* The screen opens, subscribes, closes *)

\* Effect 1 starts fetchMessages, whose step 1 is the local snapshot.
OpenChat(u) ==
    /\ ~open[u] /\ MainFree(u)
    /\ fetch[u].pc = "idle"     \* bound: one fetchMessages at a time
    /\ Move(u)
    /\ open' = [open EXCEPT ![u] = TRUE]
    /\ fetch' = [fetch EXCEPT ![u] = [IdleFetch EXCEPT !.pc = "get",
                                                       !.snap = box[u],
                                                       !.live = TRUE]]
    /\ UNCHANGED <<serverVars, eventVars, storeVars, list, sized, todo, held,
                   send, calls, shown, faults>>

\* channel.subscribe() is acknowledged.  The two channels of the screen join
\* together; each has its own queue of events.
Subscribe(u) ==
    /\ u \in Realtime /\ open[u] /\ ~joined[u]
    /\ joined' = [joined EXCEPT ![u] = TRUE]
    /\ UNCHANGED <<serverVars, ins, upd, storeVars, uiVars, fetch, send, calls,
                   shown, boundVars>>

\* What a device loses when the screen goes: the list, the subscriptions with
\* the events on their way, and the coroutines that have not begun.
DropScreen(u) ==
    /\ open' = [open EXCEPT ![u] = FALSE]
    /\ list' = [list EXCEPT ![u] = NoCopies]
    /\ sized' = [sized EXCEPT ![u] = Lengths(NoCopies)]
    /\ todo' = [todo EXCEPT ![u] = {}]
    /\ joined' = [joined EXCEPT ![u] = FALSE]
    /\ ins' = [ins EXCEPT ![u] = <<>>]
    /\ upd' = [upd EXCEPT ![u] = <<>>]

\* The composition is left.  Requests that have begun run on; of the launched
\* markMessageAsDelivered those that have not begun are cancelled.
CloseChat(u) ==
    /\ open[u] /\ MainFree(u)
    /\ Move(u)
    /\ DropScreen(u)
    /\ fetch' = [fetch EXCEPT ![u].live = FALSE]
    /\ send' = [send EXCEPT ![u].live = FALSE]
    /\ \E cancelled \in SUBSET {c \in calls[u] : c.op = "patchDelivered"} :
          calls' = [calls EXCEPT ![u] = Detached(@ \ cancelled)]
    /\ UNCHANGED <<serverVars, storeVars, held, shown, faults>>

\* The process dies: only ObjectBox survives.
Crash(u) ==
    /\ Fault
    /\ DropScreen(u)
    /\ held' = [held EXCEPT ![u] = <<>>]
    /\ pend' = [pend EXCEPT ![u] = NoRows]
    /\ fetch' = [fetch EXCEPT ![u] = IdleFetch]
    /\ send' = [send EXCEPT ![u] = IdleSend]
    /\ calls' = [calls EXCEPT ![u] = {}]
    /\ UNCHANGED <<serverVars, box, shown, moves>>

\* The websocket drops: events on their way are lost until it joins again.
Disconnect(u) ==
    /\ joined[u]
    /\ Fault
    /\ joined' = [joined EXCEPT ![u] = FALSE]
    /\ ins' = [ins EXCEPT ![u] = <<>>]
    /\ upd' = [upd EXCEPT ![u] = <<>>]
    /\ UNCHANGED <<serverVars, storeVars, uiVars, fetch, send, calls, shown, moves>>

-----------------------------------------------------------------------------
(* fetchMessages and effect 1 *)

\* Step 2: the rows of the conversation, all statuses.
FetchGet(u) ==
    /\ fetch[u].pc = "get"
    /\ fetch' = [fetch EXCEPT ![u].pc = "rows", ![u].rows = server,
                              ![u].left = {m \in Msgs : server[m] # Absent}]
    /\ UNCHANGED <<serverVars, eventVars, storeVars, uiVars, send, calls, shown,
                   boundVars>>

\* An error status leaves the local messages only, an exception nothing.
FetchGetFails(u) ==
    /\ fetch[u].pc = "get"
    /\ Fault
    /\ \/ fetch' = [fetch EXCEPT ![u].pc = "rows"]
       \/ fetch' = [fetch EXCEPT ![u].pc = "rows", ![u].snap = NoCopies]
    /\ UNCHANGED <<serverVars, eventVars, storeVars, uiVars, send, calls, shown,
                   moves>>

\* Faulty variants of the next three definitions.
AnyRow(u, m) == TRUE
ForgetReceived(u, m) == UNCHANGED box
ForgetOwn(u, m) == UNCHANGED box

\* The row was sent by the partner: it is marked as read.
SentByPartner(u, m) == From[m] # u

\* markMessageAsReadAndSave, its step 1: stored whatever is stored already.
StoreReceived(u, m) == Put(u, m, fetch[u].rows[m])

\* An own message is stored unless the snapshot has it.
StoreOwn(u, m) ==
    IF fetch[u].snap[m] = <<>> THEN Put(u, m, fetch[u].rows[m]) ELSE UNCHANGED box

FetchRow(u, m) ==
    /\ fetch[u].pc = "rows" /\ m \in fetch[u].left
    /\ \/ /\ SentByPartner(u, m)
          /\ StoreReceived(u, m)
          /\ fetch' = [fetch EXCEPT ![u].pc = "patch", ![u].cur = m,
                                    ![u].left = @ \ {m}]
       \/ /\ ~SentByPartner(u, m)
          /\ StoreOwn(u, m)
          /\ fetch' = [fetch EXCEPT ![u].left = @ \ {m}]
    /\ UNCHANGED <<serverVars, eventVars, pend, uiVars, send, calls, shown,
                   boundVars>>

NextRow(u) == fetch' = [fetch EXCEPT ![u].pc = "rows", ![u].cur = NoMsg]

\* Faulty variant of GoOnToDelete: the DELETE is skipped once the screen is left.
GoOnToDeleteIfLive(u) ==
    fetch' = [fetch EXCEPT ![u].pc = IF fetch[u].live THEN "delete" ELSE "rows",
                           ![u].cur = IF fetch[u].live THEN @ ELSE NoMsg]

GoOnToDelete(u) == fetch' = [fetch EXCEPT ![u].pc = "delete"]

\* markMessageAsReadAndSave, its step 2: PATCH status=read ...
FetchPatchRead(u) ==
    /\ fetch[u].pc = "patch"
    /\ \/ /\ PatchRow(fetch[u].cur, "read")
          /\ \/ GoOnToDelete(u) /\ UNCHANGED faults
             \/ NextRow(u) /\ Fault             \* the answer is lost
       \/ NextRow(u) /\ Fault /\ UNCHANGED <<server, upd>>
    /\ UNCHANGED <<issued, purged, joined, ins, storeVars, uiVars, send, calls,
                   shown, moves>>

\* ... and its step 3: DELETE.
FetchDelete(u) ==
    /\ fetch[u].pc = "delete"
    /\ NextRow(u)
    /\ \/ DeleteRow(fetch[u].cur) /\ UNCHANGED faults
       \/ Fault /\ UNCHANGED server
    /\ UNCHANGED <<issued, purged, eventVars, storeVars, uiVars, send, calls,
                   shown, moves>>

\* Step 3: the local copies, and the rows that have none in the snapshot.
Combined(f) ==
    [m \in Msgs |-> IF f.snap[m] = <<>> /\ f.rows[m] # Absent
                    THEN <<f.rows[m]>> ELSE f.snap[m]]

OnScreen(copies) == {m \in Msgs : copies[m] # <<>>}

\* The result replaces the list on screen, if the screen is still there.
FetchReturn(u) ==
    /\ fetch[u].pc = "rows" /\ fetch[u].left = {}
    /\ MainFree(u)
    /\ fetch' = [fetch EXCEPT ![u] = IdleFetch]
    /\ IF fetch[u].live
       THEN /\ list' = [list EXCEPT ![u] = Combined(fetch[u])]
            /\ shown' = shown \cup
                 {m \in OnScreen(Combined(fetch[u])) : To[m] = u}
       ELSE UNCHANGED <<list, shown>>
    /\ UNCHANGED <<serverVars, eventVars, storeVars, open, sized, todo, held,
                   send, calls, boundVars>>

-----------------------------------------------------------------------------
(* sendMessage *)

\* POST: the row is inserted and its INSERT event published.
SendPost(u, m) ==
    /\ open[u]
    /\ send[u].pc = "idle"     \* isSending; bound: also of a screen that was left
    /\ From[m] = u /\ m \notin issued
    /\ issued' = issued \cup {m}
    /\ server' = [server EXCEPT ![m] = "sent"]
    /\ ins' = [v \in Users |-> IF v = To[m] /\ joined[v]
                               THEN Append(ins[v], m) ELSE ins[v]]
    /\ \/ /\ send' = [send EXCEPT ![u] = [IdleSend EXCEPT !.pc = "save",
                                            !.msg = m, !.live = TRUE]]
          /\ UNCHANGED faults
       \/ UNCHANGED send /\ Fault            \* the answer is lost
    /\ UNCHANGED <<purged, joined, upd, storeVars, uiVars, fetch, calls, shown,
                   moves>>

\* Any INSERT, of this conversation or another, may run the purge of the rows
\* older than two days.  Which rows are that old is left open.
Purge ==
    /\ Purging
    /\ \E old \in SUBSET {m \in Msgs : server[m] # Absent} \ {{}} :
         /\ server' = [m \in Msgs |-> IF m \in old THEN Absent ELSE server[m]]
         /\ purged' = purged \cup old
    /\ UNCHANGED <<issued, eventVars, storeVars, uiVars, fetch, send, calls, shown,
                   boundVars>>

\* The copy that appears at once, with status "sent".
SendSave(u) ==
    /\ send[u].pc = "save"
    /\ Put(u, send[u].msg, "sent")
    /\ send' = [send EXCEPT ![u].pc = "take",
                            ![u].idx = Len(box[u][send[u].msg]) + 1]
    /\ UNCHANGED <<serverVars, eventVars, pend, uiVars, fetch, calls, shown,
                   boundVars>>

\* Faulty variant of WithPending: the pending status is not tested for null.
AlwaysPending(s, p) == [s EXCEPT !.pc = "apply", !.status = p]

\* The call s goes on with what it took from pendingStatusUpdates.
WithPending(s, p) ==
    IF p = Absent THEN [s EXCEPT !.pc = "return"]
                  ELSE [s EXCEPT !.pc = "apply", !.status = p]

\* pendingStatusUpdates.remove(messageId)
SendTakePending(u) ==
    /\ send[u].pc = "take"
    /\ send' = [send EXCEPT ![u] = WithPending(@, pend[u][@.msg])]
    /\ pend' = [pend EXCEPT ![u][send[u].msg] = Absent]
    /\ UNCHANGED <<serverVars, eventVars, box, uiVars, fetch, calls, shown,
                   boundVars>>

\* The pending status is put over the entity this call has stored.
SendApplyPending(u) ==
    /\ send[u].pc = "apply"
    /\ box' = [box EXCEPT ![u][send[u].msg][send[u].idx] = send[u].status]
    /\ send' = [send EXCEPT ![u].pc = "return"]
    /\ UNCHANGED <<serverVars, eventVars, pend, uiVars, fetch, calls, shown,
                   boundVars>>

\* onSuccess: the message is appended to the list, whatever the list has.
SendReturn(u) ==
    /\ send[u].pc = "return" /\ MainFree(u)
    /\ IF send[u].live
       THEN list' = [list EXCEPT ![u][send[u].msg] = Append(@, send[u].status)]
       ELSE UNCHANGED list
    /\ send' = [send EXCEPT ![u] = IdleSend]
    /\ UNCHANGED <<serverVars, eventVars, storeVars, open, sized, todo, held,
                   fetch, calls, shown, boundVars>>

-----------------------------------------------------------------------------
(* Realtime events *)

\* Effect 2: a new message is shown and marked as delivered, not stored.
ReceiveInsert(u) ==
    /\ open[u] /\ MainFree(u) /\ ins[u] # <<>>
    /\ ins' = [ins EXCEPT ![u] = Tail(@)]
    /\ LET m == Head(ins[u]) IN
         IF list[u][m] = <<>>
         THEN /\ list' = [list EXCEPT ![u][m] = <<"sent">>]
              /\ shown' = shown \cup {m}
              /\ calls' = [calls EXCEPT ![u] =
                             @ \cup {Call("patchDelivered", m, FALSE)}]
         ELSE UNCHANGED <<list, shown, calls>>
    /\ UNCHANGED <<serverVars, joined, upd, storeVars, open, sized, todo, held,
                   fetch, send, boundVars>>

\* Effect 5: the copies on screen change, and updateLocalMessageStatus is
\* launched.  It is on this thread, and what may come in between does not touch
\* the entity of an own message, so it begins in the same step; acting on "not
\* found" is a step of its own for own messages (see SendTakePending).
ReceiveStatus(u) ==
    /\ open[u] /\ MainFree(u) /\ upd[u] # <<>>
    /\ upd' = [upd EXCEPT ![u] = Tail(@)]
    /\ LET m == Head(upd[u])[1]
           status == Head(upd[u])[2]
       IN /\ list' = [list EXCEPT ![u][m] = [i \in DOMAIN @ |-> status]]
          /\ IF From[m] = u /\ box[u][m] = <<>>
             THEN held' = [held EXCEPT ![u] = <<m, status>>] /\ UNCHANGED storeVars
             ELSE UpdateLocalMessageStatus(u, m, status) /\ UNCHANGED held
    /\ UNCHANGED <<serverVars, joined, ins, open, sized, todo, fetch, send, calls,
                   shown, boundVars>>

\* It had found nothing: the status is kept for the message to come.
KeepPending(u) ==
    /\ held[u] # <<>>
    /\ pend' = [pend EXCEPT ![u][held[u][1]] = held[u][2]]
    /\ held' = [held EXCEPT ![u] = <<>>]
    /\ UNCHANGED <<serverVars, eventVars, box, open, list, sized, todo, fetch,
                   send, calls, shown, boundVars>>

-----------------------------------------------------------------------------
(* Effect 6, markMessageAsDelivered, markMessageAsRead *)

\* The effect restarts when the number of messages on screen has changed; the
\* call its last run waited for goes on alone.
MarkVisible(u) ==
    /\ open[u] /\ MainFree(u)
    /\ Lengths(list[u]) # sized[u]
    /\ Total(Lengths(list[u])) # Total(sized[u])
    /\ sized' = [sized EXCEPT ![u] = Lengths(list[u])]
    /\ todo' = [todo EXCEPT ![u] = Unread(u)]
    /\ calls' = [calls EXCEPT ![u] = Detached(@)]
    /\ UNCHANGED <<serverVars, eventVars, storeVars, open, list, held,
                   fetch, send, shown, boundVars>>

\* markMessageAsRead of the next message begins with the local update.
MarkReadLocally(u, m) ==
    /\ m \in todo[u] /\ \A c \in calls[u] : ~c.live
    /\ todo' = [todo EXCEPT ![u] = @ \ {m}]
    /\ UpdateLocalMessageStatus(u, m, "read")
    /\ calls' = [calls EXCEPT ![u] = @ \cup {Call("patchRead", m, TRUE)}]
    /\ UNCHANGED <<serverVars, eventVars, open, list, sized, held, fetch,
                   send, shown, boundVars>>

\* The call c of u goes on with the request op, or ends.
Continue(u, c, op) ==
    calls' = [calls EXCEPT ![u] = (@ \ {c}) \cup {[c EXCEPT !.op = op]}]
Finish(u, c) == calls' = [calls EXCEPT ![u] = @ \ {c}]

\* A PATCH of either call; an error ends the call.
CallPatch(u, c) ==
    /\ \/ /\ c.op = "patchDelivered"
          /\ PatchRow(c.msg, "delivered")
          /\ Continue(u, c, "noteDelivered")
          /\ UNCHANGED faults
       \/ /\ c.op = "patchRead"
          /\ PatchRow(c.msg, "read")
          /\ Continue(u, c, "delete")
          /\ UNCHANGED faults
       \/ /\ c.op \in {"patchDelivered", "patchRead"}
          /\ \/ UNCHANGED <<server, upd>>
             \/ c.op = "patchDelivered" /\ PatchRow(c.msg, "delivered")
             \/ c.op = "patchRead" /\ PatchRow(c.msg, "read")
          /\ Finish(u, c)
          /\ Fault
    /\ UNCHANGED <<issued, purged, joined, ins, storeVars, uiVars, fetch, send,
                   shown, moves>>

\* markMessageAsDelivered: the local update follows the 2xx answer.
CallNoteDelivered(u, c) ==
    /\ c.op = "noteDelivered"
    /\ UpdateLocalMessageStatus(u, c.msg, "delivered")
    /\ Finish(u, c)
    /\ UNCHANGED <<serverVars, eventVars, uiVars, fetch, send, shown, boundVars>>

\* markMessageAsRead: the DELETE follows the 2xx answer of the PATCH.
CallDelete(u, c) ==
    /\ c.op = "delete"
    /\ \/ DeleteRow(c.msg) /\ UNCHANGED faults
       \/ UNCHANGED server /\ Fault
    /\ Finish(u, c)
    /\ UNCHANGED <<issued, purged, eventVars, storeVars, uiVars, fetch, send,
                   shown, moves>>

-----------------------------------------------------------------------------

\* What the users do, and what may go wrong around the program.
Environment(u) ==
    \/ OpenChat(u) \/ CloseChat(u)
    \/ Crash(u) \/ Disconnect(u)
    \/ FetchGetFails(u)
    \/ \E m \in Msgs : SendPost(u, m)

\* What the program does by itself.
Fetching(u) ==
    \/ FetchGet(u)
    \/ \E m \in Msgs : FetchRow(u, m)
    \/ FetchPatchRead(u) \/ FetchDelete(u) \/ FetchReturn(u)
Sending(u) ==
    SendSave(u) \/ SendTakePending(u) \/ SendApplyPending(u) \/ SendReturn(u)
Receiving(u) ==
    Subscribe(u) \/ ReceiveInsert(u) \/ ReceiveStatus(u) \/ KeepPending(u)
Calling(u) ==
    \E c \in calls[u] : CallPatch(u, c) \/ CallNoteDelivered(u, c) \/ CallDelete(u, c)
Marking(u) ==
    MarkVisible(u) \/ \E m \in Msgs : MarkReadLocally(u, m)

Next ==
    \/ Purge
    \/ \E u \in Users :
        \/ Environment(u)
        \/ Fetching(u) \/ Sending(u) \/ Receiving(u) \/ Calling(u) \/ Marking(u)

Spec == Init /\ [][Next]_vars

\* Every thread of a device gets to run and every request of it ends within its
\* ten-second timeouts; nothing is assumed of the users.
Fairness ==
    \A u \in Users : /\ WF_vars(Fetching(u)) /\ WF_vars(Sending(u))
                     /\ WF_vars(Receiving(u)) /\ WF_vars(Calling(u))
                     /\ WF_vars(Marking(u))
FairSpec == Spec /\ Fairness

-----------------------------------------------------------------------------
(* Properties *)

CopyFunctions == [Msgs -> Seq(Status)]
RowFunctions  == [Msgs -> Status \cup {Absent}]

TypeOK ==
    /\ server \in RowFunctions
    /\ issued \subseteq Msgs /\ purged \subseteq Msgs /\ shown \subseteq Msgs
    /\ joined \in [Users -> BOOLEAN]
    /\ ins \in [Users -> Seq(Msgs)]
    /\ upd \in [Users -> Seq(Msgs \X Status)]
    /\ box \in [Users -> CopyFunctions]
    /\ pend \in [Users -> RowFunctions]
    /\ open \in [Users -> BOOLEAN]
    /\ list \in [Users -> CopyFunctions]
    /\ sized \in [Users -> [Msgs -> Nat]]
    /\ todo \in [Users -> SUBSET Msgs]
    /\ held \in [Users -> (Msgs \X Status) \cup {<<>>}]
    /\ fetch \in [Users -> [pc : {"idle", "get", "rows", "patch", "delete"},
                            snap : CopyFunctions, rows : RowFunctions,
                            left : SUBSET Msgs, cur : Msgs \cup {NoMsg},
                            live : BOOLEAN]]
    /\ send \in [Users -> [pc : {"idle", "save", "take", "apply", "return"},
                           msg : Msgs \cup {NoMsg}, idx : Nat, status : Status,
                           live : BOOLEAN]]
    /\ calls \in [Users -> SUBSET
                    [op : {"patchDelivered", "noteDelivered", "patchRead", "delete"},
                     msg : Msgs, live : BOOLEAN]]
    /\ faults \in 0..MaxFaults
    /\ moves \in [Users -> Nat] /\ \A u \in Users : moves[u] <= MaxMoves[u]

Stored(u, m) == box[u][m] # <<>>

\* The receiver has got the message: stored on the device or seen on screen.
Received(m) == Stored(To[m], m) \/ m \in shown

\* A message leaves the server, other than by the two-day purge, only when its
\* receiver has it on the device or has seen it: no failed or lost request, no
\* crash between the steps of markMessageAsReadAndSave or markMessageAsRead and
\* no second fetch loses an unseen message.
NoUnseenLoss ==
    \A m \in issued : server[m] = Absent => m \in purged \/ Received(m)

HasTick(copies) == \E i \in DOMAIN copies : copies[i] \in Ticked

\* The ticks tell the truth: when the sender's device shows or stores a message
\* as delivered or read, the receiver has got it, whatever the order in which
\* POST answers, realtime events, fetches and the pending update arrived.
TicksHonest ==
    \A m \in Msgs :
        HasTick(list[From[m]][m]) \/ HasTick(box[From[m]][m]) => Received(m)

\* An own message on the sender's screen is in the sender's store: the row may
\* be deleted by the receiver at any moment, and the conversation would lose it.
OwnMessagesKept ==
    \A m \in Msgs : list[From[m]][m] # <<>> => Stored(From[m], m)

\* A call or fetch of the receiver is about to delete the row of m.
DeletePending(m) ==
    \/ \E c \in calls[To[m]] : c.op = "delete" /\ c.msg = m
    \/ fetch[To[m]].pc = "delete" /\ fetch[To[m]].cur = m

\* Without failures no read message stays behind on the server, not even when
\* the screen was left between the PATCH and the DELETE.
ReadRowsGo ==
    faults = 0 => \A m \in Msgs : server[m] = "read" => DeletePending(m)

\* A message that stays in the list of the receiver's open chat, and that effect 6
\* has started on, is removed from the server in the end, if no request fails: each
\* restart drops the loop over the messages still to be marked, and the next loop
\* reaches them although the call the last one waited for still runs.  Effect 6 does
\* not start on a message that comes when the list is replaced by one that is shorter
\* by as many: it restarts with the size of the list only.
ListedIsConsumed ==
    \A m \in Msgs :
        <>[](open[To[m]] /\ list[To[m]][m] # <<>> /\ sized[To[m]][m] # 0)
            => <>[](server[m] = Absent)

\* A fetch that got a row for its receiver removes it, if no request fails,
\* whether or not the screen is still there.
FetchedIsConsumed ==
    \A m \in Msgs :
        (fetch[To[m]].pc = "rows" /\ m \in fetch[To[m]].left) ~> server[m] = Absent

\* Stated by SocialRepository.kt:4234-4238: markMessageAsRead stores the message
\* before it deletes it.
DeletedIsStored ==
    \A m \in issued : server[m] = Absent => m \in purged \/ Stored(To[m], m)

\* Stated by SocialRepository.kt:3654: ticks go sent -> delivered -> read.
TicksNeverGoBack ==
    [][\A m \in Msgs : \A i \in DOMAIN box[From[m]][m] :
          box[From[m]][m][i] = "read" => box'[From[m]][m][i] = "read"]_vars

\* Stated by SocialRepository.kt:1999-2000: a status that came before its
\* message was stored does not leave the message stuck in "sent".
PendingIsApplied ==
    \A m \in Msgs :
        LET u == From[m] IN
        pend[u][m] # Absent /\ Stored(u, m)
            => send[u].msg = m /\ send[u].pc \in {"save", "take"}
=============================================================================
