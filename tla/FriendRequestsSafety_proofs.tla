-------------------- MODULE FriendRequestsSafety_proofs --------------------
(***************************************************************************)
(* The safety of friend requests and friendships, for any number of users, *)
(* operations and faults.                                                  *)
(***************************************************************************)
EXTENDS FriendRequests_proofs

(* Requests: one at the most, and none comes back.                         *)

\* Only an insertion adds a request, and it adds the request of its call.
LEMMA RequestsGrow ==
    ASSUME Next
    PROVE  \/ requests' \subseteq requests
           \/ \E c \in DOMAIN call :
                /\ \A r \in requests : ~Same(r, call[c].request)
                /\ requests' = requests \union {call[c].request}
<1>1. ASSUME NEW u \in Users, Screen(u)
      PROVE  requests' = requests
  BY <1>1 DEF Screen, SendFriendRequest, RemoveFriend, AcceptFriendRequest,
              CancelFriendRequest, Launch
<1>2. ASSUME NEW c \in DOMAIN call, Call(c), ~InsertRequest(c)
      PROVE  requests' \subseteq requests
  BY <1>2 DEF Call, CheckPending, DeleteRequest, AcceptSelect, AcceptInsert,
              AcceptCommit, AbortDeadlock, DeleteFirst, DeleteSecond, Fails, FirstGoesWrong
<1>3. ASSUME NEW c \in DOMAIN call, InsertRequest(c)
      PROVE  \/ requests' \subseteq requests
             \/ /\ \A r \in requests : ~Same(r, call[c].request)
                /\ requests' = requests \union {call[c].request}
  BY <1>3 DEF InsertRequest
<1> QED
  BY <1>1, <1>2, <1>3 DEF Next

\* A user has one pending request to another at the most: the constraint of the
\* table makes up for the check and the insertion being two requests.
THEOREM OneRequest == Spec => []PendingOnce
<1>1. Init => PendingOnce
  <2> SUFFICES ASSUME Init, NEW r \in requests, NEW q \in requests, Same(r, q)
               PROVE  r = q
    BY DEF PendingOnce
  <2>1. r \in Requests /\ q \in Requests /\ r.nr = q.nr
    BY OldAssumption DEF Init
  <2> QED
    BY <2>1 DEF Same, Requests
<1>2. PendingOnce /\ [Next]_vars => PendingOnce'
  <2> SUFFICES ASSUME PendingOnce, [Next]_vars PROVE PendingOnce'
    OBVIOUS
  <2>1. CASE Next
    BY <2>1, RequestsGrow DEF PendingOnce, Same
  <2>2. CASE UNCHANGED vars
    BY <2>2 DEF vars, PendingOnce
  <2> QED
    BY <2>1, <2>2
<1> QED
  BY <1>1, <1>2, PTL DEF Spec

-----------------------------------------------------------------------------
(* The kinds of steps, by what they do to a friendship.                    *)

\* An acceptance has read its request and not ended; a removal has not ended.
Reading(c) == call[c].op = "accept" /\ call[c].at \in {"first", "second", "commit"}
Removing(c) == call[c].op = "remove" /\ call[c].at \in {"delete1", "delete2"}

\* A step of a send or a cancellation, or the end of an acceptance without effect.
Quiet(c) ==
    /\ Moves(c) /\ Unmarred
    /\ call[c].op # "remove" /\ call'[c].at \notin {"first", "second", "commit"}
    /\ UNCHANGED <<friends, bond, torn>>

\* An acceptance reads its request.
ReadsRequest(c) ==
    /\ Moves(c) /\ Reads(c) /\ call[c].op = "accept" /\ call[c].at = "select"
    /\ UNCHANGED <<friends, bond, torn>>

\* An acceptance inserts a row, or finds it inserted.
Inserts(c, from, to) ==
    /\ Moves(c) /\ Unmarred
    /\ call[c].op = "accept" /\ call[c].at = from /\ call'[c].at = to
    /\ call'[c].adds = call[c].adds \union ({Row(call[c].request, from)} \ friends)
    /\ UNCHANGED <<friends, bond, torn>>

\* An acceptance takes effect.
Commits(c) ==
    LET p == Pair(call[c].request) IN
    /\ Moves(c) /\ Unmarred
    /\ call[c].op = "accept" /\ call[c].at = "commit" /\ call'[c].at = "done"
    /\ friends' = friends \union call[c].adds /\ bond' = bond \union {p}
    /\ torn' = IF call[c].marred THEN torn \union {p} ELSE torn \ {p}

\* A removal's first DELETE is made, or has an error that is ignored.
DeletesFirst(c) ==
    /\ Moves(c) /\ \A d \in DOMAIN call : d # c => call'[d].marred = call[d].marred
    /\ call[c].op = "remove" /\ call[c].at = "delete1" /\ call'[c].at = "delete2"
    /\ \/ friends' = friends \ {Row(call[c].request, "first")}
          /\ call'[c].marred = call[c].marred
       \/ friends' = friends /\ call'[c].marred
    /\ UNCHANGED <<bond, torn>>

\* A removal's second DELETE ends it.
DeletesSecond(c) ==
    LET p == Pair(call[c].request) IN
    /\ Moves(c) /\ Unmarred
    /\ call[c].op = "remove" /\ call[c].at = "delete2" /\ call'[c].at = "done"
    /\ friends' = friends \ {Row(call[c].request, "second")}
    /\ torn' = IF call[c].marred THEN torn \union {p} ELSE torn \ {p}
    /\ bond' = bond

\* A removal breaks off.
BreaksOff(c) ==
    /\ Moves(c) /\ Unmarred
    /\ call[c].op = "remove" /\ Removing(c) /\ call'[c].at = "done"
    /\ friends' \in {friends, friends \ {Row(call[c].request, "first")}}
    /\ torn' = torn \union {Pair(call[c].request)} /\ bond' = bond

\* The kinds of a step of operation c.
Kinds(c) ==
    \/ Quiet(c) \/ ReadsRequest(c) \/ Inserts(c, "first", "second")
    \/ Inserts(c, "second", "commit") \/ Commits(c) \/ DeletesFirst(c)
    \/ DeletesSecond(c) \/ BreaksOff(c)

\* Every step of an operation is of one of the kinds, and an operation that is
\* over makes none.
LEMMA CallKinds ==
    ASSUME TypeInv, NEW c \in DOMAIN call, Call(c)
    PROVE  Kinds(c) /\ Moves(c) /\ call[c].at # "done"
<1>1. /\ TypeOK
      /\ call[c].op \in {"send", "accept", "cancel", "remove"}
      /\ call[c].at \in Places(call[c].op)
      /\ "done" \in Steps /\ "delete2" \in Steps /\ "insert" \in Steps
  BY CallTypes DEF TypeInv, Sound, Calls, Steps
<1>2. CASE CheckPending(c)
  <2>1. PICK to \in {"done", "insert"} : GoTo(c, to)
    BY <1>2 DEF CheckPending
  <2>2. Moves(c) /\ Unmarred /\ call'[c].at = to
    BY <1>1, <2>1, GoToMoves
  <2>3. Quiet(c)
    BY <1>1, <1>2, <2>2 DEF CheckPending, Quiet, Places, history
  <2> QED
    BY <1>2, <2>2, <2>3 DEF CheckPending, Kinds
<1>3. CASE InsertRequest(c) \/ DeleteRequest(c)
  <2>1. Moves(c) /\ Unmarred /\ call'[c].at = "done"
    BY <1>1, <1>3, GoToMoves DEF InsertRequest, DeleteRequest
  <2>2. call[c].at \in {"insert", "delete"} /\ UNCHANGED <<friends, bond, torn>>
    BY <1>3 DEF InsertRequest, DeleteRequest, history
  <2>3. Quiet(c)
    BY <1>1, <2>1, <2>2 DEF Quiet, Places
  <2> QED
    BY <2>1, <2>2, <2>3 DEF Kinds
<1>4. CASE AcceptSelect(c)
  <2>1. call[c].at = "select" /\ call[c].op = "accept" /\ UNCHANGED <<friends, bond, torn>>
    BY <1>1, <1>4 DEF AcceptSelect, Places, history
  <2>2. Moves(c) /\ (\/ Reads(c)
                     \/ Unmarred /\ call'[c].at = "done")
    BY <1>1, <1>4, SelectMoves
  <2> QED
    BY <2>1, <2>2 DEF Kinds, Quiet, ReadsRequest
<1>5. ASSUME NEW from \in {"first", "second"}, NEW to \in {"second", "commit"},
             AcceptInsert(c, from, to)
      PROVE  Inserts(c, from, to) /\ Moves(c) /\ call[c].at # "done"
  <2>1. call[c].at = from /\ to \in Steps /\ UNCHANGED <<friends, bond, torn>>
    BY <1>5 DEF AcceptInsert, Steps, history
  <2>2. call[c].op = "accept"
    BY <1>1, <2>1 DEF Places
  <2> QED
    BY <1>5, <2>1, <2>2, InsertMoves DEF Inserts
<1>6. CASE AcceptCommit(c)
  <2>1. call[c].at = "commit" /\ call[c].op = "accept"
    BY <1>1, <1>6 DEF AcceptCommit, Places
  <2>2. Moves(c) /\ Unmarred /\ call'[c].at = "done"
    BY <1>6, EndMoves DEF AcceptCommit
  <2> QED
    BY <1>6, <2>1, <2>2 DEF AcceptCommit, Commits, Kinds
<1>7. CASE AbortDeadlock(c)
  <2>1. call[c].at \in {"first", "second"}
    BY <1>7 DEF AbortDeadlock, WaitsFor
  <2>2. Moves(c) /\ Unmarred /\ call'[c].at = "done"
    BY <1>7, EndMoves DEF AbortDeadlock
  <2>3. call[c].op # "remove" /\ UNCHANGED <<friends, bond, torn>>
    BY <1>1, <1>7, <2>1 DEF AbortDeadlock, Places, history
  <2> QED
    BY <2>1, <2>2, <2>3 DEF Quiet, Kinds
<1>8. CASE DeleteFirst(c)
  <2>1. call[c].at = "delete1" /\ call[c].op = "remove"
    BY <1>1, <1>8 DEF DeleteFirst, Places
  <2>2. Moves(c) /\ Unmarred /\ call'[c].at = "delete2"
    BY <1>1, <1>8, GoToMoves DEF DeleteFirst
  <2>3. friends' = friends \ {Row(call[c].request, "first")} /\ UNCHANGED <<bond, torn>>
    BY <1>8 DEF DeleteFirst, Row, history
  <2> QED
    BY <2>1, <2>2, <2>3 DEF DeletesFirst, Unmarred, Kinds
<1>9. CASE DeleteSecond(c)
  <2>1. call[c].at = "delete2" /\ call[c].op = "remove"
    BY <1>1, <1>9 DEF DeleteSecond, Places
  <2>2. Moves(c) /\ Unmarred /\ call'[c].at = "done"
    BY <1>1, <1>9, GoToMoves DEF DeleteSecond
  <2>3. friends' = friends \ {Row(call[c].request, "second")}
    BY <1>9 DEF DeleteSecond, Row
  <2> QED
    BY <1>9, <2>1, <2>2, <2>3 DEF DeleteSecond, DeletesSecond, Kinds
<1>10. CASE Fails(c)
  <2>1. call[c].at \in {"check", "insert", "delete", "select", "delete1", "delete2"}
    BY <1>10 DEF Fails
  <2>2. PICK to \in {"done", "insert"} :
          GoTo(c, to) /\ (to = "insert" => call[c].at = "check")
    BY <1>10 DEF Fails
  <2>3. Moves(c) /\ Unmarred /\ call'[c].at = to
    BY <1>1, <2>2, GoToMoves
  <2>4. CASE call[c].op = "remove"
    <3>1. call[c].at \in {"delete1", "delete2"} /\ to = "done"
      BY <1>1, <2>1, <2>2, <2>4 DEF Places
    <3> QED
      BY <1>10, <2>3, <2>4, <3>1 DEF Fails, Removing, BreaksOff, Kinds
  <2>5. CASE call[c].op # "remove"
    BY <1>10, <2>1, <2>3, <2>5 DEF Fails, Quiet, Kinds
  <2> QED
    BY <2>4, <2>5
<1>11. CASE FirstGoesWrong(c)
  <2>1. call[c].at = "delete1" /\ call[c].op = "remove" /\ UNCHANGED bond
    BY <1>1, <1>11 DEF FirstGoesWrong, Places
  <2>2. CASE /\ GoTo(c, "done") /\ torn' = torn \union {Pair(call[c].request)}
             /\ friends' = friends \ {Row(call[c].request, "first")}
    <3>1. Moves(c) /\ Unmarred /\ call'[c].at = "done"
      BY <1>1, <2>2, GoToMoves
    <3> QED
      BY <2>1, <2>2, <3>1 DEF Removing, BreaksOff, Kinds
  <2>3. CASE /\ call' = [call EXCEPT ![c].at = "delete2", ![c].marred = TRUE]
             /\ UNCHANGED <<friends, torn>>
    BY <1>1, <2>1, <2>3, MarMoves DEF DeletesFirst, Kinds
  <2> QED
    BY <1>11, <2>2, <2>3 DEF FirstGoesWrong, Row
<1> QED
  BY <1>2, <1>3, <1>4, <1>5, <1>6, <1>7, <1>8, <1>9, <1>10, <1>11 DEF Call, Kinds
-----------------------------------------------------------------------------
(* Withdrawn requests.                                                     *)

\* The call that sends a request is over once the request is in a table.
Sent(calls, r) ==
    \/ r.nr = 0
    \/ r.nr \in DOMAIN calls /\ calls[r.nr].op = "send" /\ calls[r.nr].at = "done"

\* The requests that a table, a history or an acceptance holds have been sent.
Numbered ==
    /\ \A c \in DOMAIN call :
         /\ call[c].op = "send" => call[c].request.nr = c
         /\ call[c].op = "accept" => Sent(call, call[c].request)
    /\ \A r \in requests \union withdrawn \union made : Sent(call, r)

\* A request is pending, withdrawn or made a friendship, one of these only; a
\* request that a running acceptance has read is not withdrawn.
Apart ==
    /\ requests \intersect withdrawn = {} /\ requests \intersect made = {}
    /\ withdrawn \intersect made = {}
    /\ \A c \in DOMAIN call :
         call[c].at \in {"first", "second", "commit"} => call[c].request \notin withdrawn

RequestInv == TypeInv /\ Numbered /\ Apart

\* The screens add one operation, which has read nothing, and leave the others
\* where they are.
LEMMA ScreenCalls ==
    ASSUME TypeInv, NEW u \in Users, Screen(u)
    PROVE  /\ \A d \in DOMAIN call :
                /\ d \in DOMAIN call'
                /\ call'[d].op = call[d].op /\ call'[d].at = call[d].at
                /\ call'[d].request = call[d].request /\ call'[d].adds = call[d].adds
           /\ \A d \in DOMAIN call' \ DOMAIN call :
                /\ d = Len(call) + 1
                /\ call'[d].at \in {"check", "select", "delete", "delete1"}
                /\ call'[d].op = "send" => call'[d].request.nr = d
                /\ call'[d].op = "accept" => call'[d].request \in requests
           /\ UNCHANGED <<requests, withdrawn, made>>
<1>1. ASSUME NEW op \in {"send", "accept", "cancel"}, NEW r \in Requests,
             NEW at \in {"check", "select", "delete"}, Starts(op, u, r, at)
      PROVE  /\ \A d \in DOMAIN call' \ DOMAIN call :
                  /\ d = Len(call) + 1 /\ call'[d].at = at
                  /\ call'[d].op = "send" => call'[d].request.nr = d
                  /\ call'[d].op = "accept" => call'[d].request \in requests
             /\ Begins(op, u, r, at) /\ UNCHANGED <<requests, withdrawn, made>>
  BY <1>1 DEF Starts, Begins, history
<1>2. ASSUME NEW v \in Users, StartsRemoval(u, v)
      PROVE  /\ \A d \in DOMAIN call' \ DOMAIN call :
                  /\ d = Len(call) + 1 /\ call'[d].at = "delete1"
                  /\ call'[d].op = "remove"
             /\ Begins("remove", u, Request(u, v, Len(call) + 1), "delete1")
             /\ UNCHANGED <<requests, withdrawn, made>>
  BY <1>2 DEF StartsRemoval, Begins
<1>3. ASSUME NEW op, NEW r, NEW at, Begins(op, u, r, at)
      PROVE  \A d \in DOMAIN call :
                /\ d \in DOMAIN call'
                /\ call'[d].op = call[d].op /\ call'[d].at = call[d].at
                /\ call'[d].request = call[d].request /\ call'[d].adds = call[d].adds
  BY <1>3 DEF Begins
<1>4. CASE \E v \in Users : StartsRemoval(u, v)
  BY <1>2, <1>3, <1>4
<1>5. CASE \E op \in {"send", "accept", "cancel"}, r \in Requests,
             at \in {"check", "select", "delete"} : Starts(op, u, r, at)
  BY <1>1, <1>3, <1>5
<1> QED
  BY <1>4, <1>5, ScreenStarts

\* No step takes back that a request was sent.
LEMMA SentStays ==
    ASSUME TypeInv, NEW r, Sent(call, r), Next
    PROVE  Sent(call', r)
<1>1. ASSUME NEW u \in Users, Screen(u)
      PROVE  Sent(call', r)
  <2>1. /\ DOMAIN call \subseteq DOMAIN call'
        /\ \A d \in DOMAIN call : call'[d].op = call[d].op /\ call'[d].at = call[d].at
    BY <1>1, ScreenCalls
  <2> QED
    BY <2>1 DEF Sent
<1>2. ASSUME NEW c \in DOMAIN call, Call(c)
      PROVE  Sent(call', r)
  <2>1. Moves(c) /\ call[c].at # "done"
    BY <1>2, CallKinds
  <2> QED
    BY <2>1 DEF Moves, Sent
<1> QED
  BY <1>1, <1>2 DEF Next

\* The screens keep the numbers and the histories apart.
LEMMA RequestScreen ==
    ASSUME RequestInv, NEW u \in Users, Screen(u)
    PROVE  Numbered' /\ Apart'
<1>1. Next /\ TypeInv
  BY DEF Next, RequestInv
<1>2. UNCHANGED <<requests, withdrawn, made>>
  BY <1>1, ScreenCalls
<1>3. \A r \in requests' \union withdrawn' \union made' : Sent(call', r)
  BY <1>1, <1>2, SentStays DEF RequestInv, Numbered
<1>4. ASSUME NEW c \in DOMAIN call'
      PROVE  /\ call'[c].op = "send" => call'[c].request.nr = c
             /\ call'[c].op = "accept" => Sent(call', call'[c].request)
             /\ call'[c].at \in {"first", "second", "commit"} =>
                  call'[c].request \notin withdrawn
  <2>1. CASE c \in DOMAIN call
    <3>1. /\ call'[c].op = call[c].op /\ call'[c].at = call[c].at
          /\ call'[c].request = call[c].request
      BY <1>1, <2>1, ScreenCalls
    <3>2. call[c].op = "accept" => Sent(call', call[c].request)
      BY <1>1, <2>1, SentStays DEF RequestInv, Numbered
    <3> QED
      BY <2>1, <3>1, <3>2 DEF RequestInv, Numbered, Apart
  <2>2. CASE c \notin DOMAIN call
    BY <1>1, <1>2, <1>3, <2>2, ScreenCalls
  <2> QED
    BY <2>1, <2>2
<1> QED
  BY <1>2, <1>3, <1>4 DEF RequestInv, Numbered, Apart

\* The operations do: a request that is inserted is new, one that is withdrawn
\* is pending and not read by an acceptance, one that is made is not withdrawn.
LEMMA RequestCall ==
    ASSUME RequestInv, NEW c \in DOMAIN call, Call(c)
    PROVE  Numbered' /\ Apart'
<1> DEFINE r == call[c].request
           known == requests \union withdrawn \union made
<1>1. Next /\ TypeInv
  BY DEF Next, RequestInv
<1>2. /\ Moves(c) /\ call[c].at # "done"
      /\ call[c].op \in {"send", "accept", "cancel", "remove"}
      /\ call[c].at \in Places(call[c].op)
  BY <1>1, CallKinds, CallTypes DEF TypeInv, Sound, Calls
<1>3. ASSUME NEW d \in DOMAIN call
      PROVE  /\ call'[d].op = "send" => call'[d].request.nr = d
             /\ call'[d].op = "accept" => Sent(call', call'[d].request)
  <2>1. call'[d].op = call[d].op /\ call'[d].request = call[d].request
    BY <1>2 DEF Moves
  <2>2. call[d].op = "accept" => Sent(call', call[d].request)
    BY <1>1, SentStays DEF RequestInv, Numbered
  <2> QED
    BY <2>1, <2>2 DEF RequestInv, Numbered
<1>4. \A q \in known : Sent(call', q)
  BY <1>1, SentStays DEF RequestInv, Numbered
<1>5. CASE InsertRequest(c)
  <2>1. /\ call[c].at = "insert" /\ requests' \subseteq requests \union {r}
        /\ withdrawn' = withdrawn /\ made' = made /\ call'[c].at = "done"
    <3>1. GoTo(c, "done") /\ "done" \in Steps
      BY <1>5 DEF InsertRequest, Steps
    <3>2. call'[c].at = "done"
      BY <1>1, <3>1, GoToMoves DEF TypeInv
    <3> QED
      BY <1>5, <3>2 DEF InsertRequest, history
  <2>2. call[c].op = "send" /\ r.nr = c
    BY <1>2, <2>1 DEF Places, RequestInv, Numbered
  <2>3. c # 0 /\ ~Sent(call, r)
    <3>1. c # 0
      BY <1>1, CallTypes DEF TypeInv
    <3> QED
      BY <2>1, <2>2, <3>1 DEF Sent
  <2>4. r \notin known
    BY <2>3 DEF RequestInv, Numbered
  <2>5. Sent(call', r)
    BY <1>2, <2>1, <2>2 DEF Sent, Moves
  <2>6. Numbered'
    BY <1>3, <1>2, <1>4, <2>1, <2>5 DEF Numbered, Moves
  <2>7. \A d \in DOMAIN call : call'[d].at \in {"first", "second", "commit"} =>
          d # c /\ call[d].at = call'[d].at /\ call'[d].request = call[d].request
    BY <1>2, <2>1 DEF Moves
  <2> QED
    BY <1>2, <2>1, <2>4, <2>6, <2>7 DEF RequestInv, Apart, Moves
<1>6. CASE DeleteRequest(c)
  <2>1. call'[c].at = "done"
    <3>1. GoTo(c, "done") /\ "done" \in Steps
      BY <1>6 DEF DeleteRequest, Steps
    <3> QED
      BY <1>1, <3>1, GoToMoves DEF TypeInv
  <2>2. requests' = requests \ {r} /\ made' = made
    BY <1>6 DEF DeleteRequest
  <2>3. \/ withdrawn' = withdrawn
        \/ /\ withdrawn' = withdrawn \union {r} /\ r \in requests
           /\ \A a \in Accepting(Pair(r)) : call[a].request # r
    BY <1>6 DEF DeleteRequest
  <2>4. Numbered'
    BY <1>2, <1>3, <1>4, <2>2, <2>3 DEF Numbered, Moves
  <2>5. ASSUME NEW d \in DOMAIN call', call'[d].at \in {"first", "second", "commit"}
        PROVE  call'[d].request \notin withdrawn'
    <3>1. /\ d \in DOMAIN call /\ d # c /\ call[d].at \in {"first", "second", "commit"}
          /\ call'[d].request = call[d].request
      BY <1>2, <2>1, <2>5 DEF Moves
    <3>2. call[d].request \notin withdrawn
      BY <3>1 DEF RequestInv, Apart
    <3>3. ASSUME call[d].request = r
          PROVE  d \in Accepting(Pair(r))
      <4>1. call[d].op \in {"send", "accept", "cancel", "remove"}
            /\ call[d].at \in Places(call[d].op)
        BY <1>1, <3>1, CallTypes DEF TypeInv, Sound, Calls
      <4>2. call[d].op = "accept"
        BY <3>1, <4>1 DEF Places
      <4> QED
        BY <3>1, <3>3, <4>2 DEF Accepting, Under, Running
    <3> QED
      BY <2>3, <3>1, <3>2, <3>3
  <2> QED
    BY <2>2, <2>3, <2>4, <2>5 DEF RequestInv, Apart
<1>7. CASE AcceptCommit(c)
  <2>1. /\ call[c].at = "commit" /\ call'[c].at = "done"
        /\ requests' = requests \ {r} /\ made' = made \union {r} /\ withdrawn' = withdrawn
    BY <1>1, <1>7, EndMoves DEF AcceptCommit
  <2>2. r \notin withdrawn
    BY <2>1 DEF RequestInv, Apart
  <2>3. Sent(call', r)
    BY <1>1, <1>2, <2>1, SentStays DEF Places, RequestInv, Numbered
  <2>4. \A d \in DOMAIN call' : call'[d].at \in {"first", "second", "commit"} =>
          call'[d].request \notin withdrawn
    BY <1>2, <2>1 DEF RequestInv, Apart, Moves
  <2>5. Numbered'
    BY <1>2, <1>3, <1>4, <2>1, <2>3 DEF Numbered, Moves
  <2> QED
    BY <2>1, <2>2, <2>4, <2>5 DEF RequestInv, Apart
<1>8. CASE ~InsertRequest(c) /\ ~DeleteRequest(c) /\ ~AcceptCommit(c)
  <2>1. UNCHANGED <<requests, withdrawn, made>>
    BY <1>8 DEF Call, CheckPending, AcceptSelect, AcceptInsert, AbortDeadlock,
                DeleteFirst, DeleteSecond, Fails, FirstGoesWrong, history
  <2>2. Numbered'
    BY <1>2, <1>3, <1>4, <2>1 DEF Numbered, Moves
  <2>3. ASSUME call'[c].at \in {"first", "second", "commit"}
        PROVE  r \notin withdrawn
    <3>1. \/ ReadsRequest(c) \/ Inserts(c, "first", "second")
          \/ Inserts(c, "second", "commit")
      BY <1>1, <2>3, CallKinds DEF Kinds, Quiet, Commits, DeletesFirst, DeletesSecond, BreaksOff
    <3>2. CASE ReadsRequest(c)
      BY <3>2 DEF ReadsRequest, Reads, RequestInv, Apart
    <3> QED
      BY <3>1, <3>2 DEF Inserts, RequestInv, Apart
  <2>4. \A d \in DOMAIN call' : call'[d].at \in {"first", "second", "commit"} =>
          call'[d].request \notin withdrawn
    BY <1>2, <2>3 DEF RequestInv, Apart, Moves
  <2> QED
    BY <2>1, <2>2, <2>4 DEF RequestInv, Apart
<1> QED
  BY <1>5, <1>6, <1>7, <1>8

\* Initially no call has begun, and nothing is withdrawn or made.
LEMMA RequestInit == Init => RequestInv
<1> SUFFICES ASSUME Init PROVE RequestInv
  OBVIOUS
<1>1. TypeInv
  BY TypeInit
<1>2. DOMAIN call = {}
  BY DEF Init
<1> QED
  BY OldAssumption, <1>1, <1>2 DEF Init, RequestInv, Numbered, Apart, Sent

\* Every step keeps RequestInv.
LEMMA RequestNext == RequestInv /\ [Next]_vars => RequestInv'
<1> SUFFICES ASSUME RequestInv, [Next]_vars PROVE RequestInv'
  OBVIOUS
<1>1. TypeInv'
  BY TypeNext DEF RequestInv
<1>2. CASE UNCHANGED vars
  <2>1. UNCHANGED <<requests, call, withdrawn, made>>
    BY <1>2 DEF vars, history
  <2> QED
    BY <1>1, <2>1 DEF RequestInv, Numbered, Apart, Sent
<1> QED
  BY <1>1, <1>2, RequestScreen, RequestCall DEF Next, RequestInv

\* A request that its sender withdrew before an acceptance had read it never
\* makes a friendship, whatever the lists on the screens still show.
THEOREM Withdrawn == Spec => []WithdrawnIsGone
<1>1. RequestInv => WithdrawnIsGone
  BY DEF RequestInv, Apart, WithdrawnIsGone
<1> QED
  BY <1>1, RequestInit, RequestNext, PTL DEF Spec
-----------------------------------------------------------------------------
(* Friendships.                                                            *)

PairOf(c) == Pair(call[c].request)

\* A removal and an acceptance that has read its request mar each other when
\* they are of one pair.
Crossed ==
    \A c, d \in DOMAIN call :
        Removing(c) /\ Reading(d) /\ PairOf(c) = PairOf(d) =>
            call[c].marred /\ call[d].marred

\* An unmarred removal finds its pair no friends, and its first row stays away.
Removals ==
    \A c \in DOMAIN call :
        Removing(c) /\ ~call[c].marred =>
            /\ PairOf(c) \notin bond
            /\ call[c].at = "delete2" => Row(call[c].request, "first") \notin friends

\* An unmarred acceptance has the rows that it has come past.
Acceptances ==
    \A c \in DOMAIN call :
        Reading(c) /\ ~call[c].marred =>
            /\ call[c].at # "first" =>
                 Row(call[c].request, "first") \in friends \union call[c].adds
            /\ call[c].at = "commit" =>
                 Row(call[c].request, "second") \in friends \union call[c].adds

FriendInv == TypeInv /\ Crossed /\ Removals /\ Acceptances /\ FriendsAreMutual

\* The rows of an operation are rows of its pair, and of no other pair.
LEMMA OwnRows ==
    ASSUME TypeInv, NEW c \in DOMAIN call
    PROVE  /\ PairOf(c) \in Pairs
           /\ Rows(PairOf(c)) =
                {Row(call[c].request, "first"), Row(call[c].request, "second")}
           /\ call[c].adds \subseteq Rows(PairOf(c))
           /\ \A p \in Pairs : p # PairOf(c) => Rows(p) \intersect Rows(PairOf(c)) = {}
<1>1. /\ call[c].request \in Requests
      /\ call[c].adds \subseteq Rows(PairOf(c))
  BY CallTypes DEF TypeInv, Sound, PairOf
<1>2. \A p \in Pairs : p # PairOf(c) => Rows(p) \intersect Rows(PairOf(c)) = {}
  BY DEF Rows
<1> QED
  BY <1>1, <1>2, PairTypes DEF PairOf, Row

\* Removals and acceptances that are under way, in the words of the model.
LEMMA Words ==
    ASSUME TypeInv, NEW p
    PROVE  /\ Under("remove", p) = {c \in DOMAIN call : Removing(c) /\ PairOf(c) = p}
           /\ Accepting(p) = {c \in DOMAIN call : Reading(c) /\ PairOf(c) = p}
<1>1. \A c \in DOMAIN call :
        /\ call[c].op \in {"send", "accept", "cancel", "remove"}
        /\ call[c].at \in Places(call[c].op)
  BY CallTypes DEF TypeInv, Sound, Calls
<1>2. \A c \in DOMAIN call :
        /\ Running(c, "remove") <=> Removing(c)
        /\ Running(c, "accept") /\ call[c].at # "select" <=> Reading(c)
  BY <1>1 DEF Places, Running, Removing, Reading
<1> QED
  BY <1>2 DEF Under, Accepting, PairOf

\* An operation's step leaves the others removing or reading, or not.
LEMMA OthersStay ==
    ASSUME NEW c \in DOMAIN call, Moves(c)
    PROVE  /\ DOMAIN call' = DOMAIN call
           /\ \A d \in DOMAIN call : PairOf(d)' = PairOf(d)
           /\ \A d \in DOMAIN call : d # c =>
                /\ Removing(d)' <=> Removing(d)
                /\ Reading(d)' <=> Reading(d)
                /\ call'[d].at = call[d].at /\ call'[d].adds = call[d].adds
                /\ call'[d].request = call[d].request
BY DEF Moves, Removing, Reading, PairOf

\* Only AcceptSelect lets an acceptance have read; no step starts a removal again
\* or takes a mark back.
LEMMA OtherKinds ==
    ASSUME TypeInv, NEW c \in DOMAIN call, Kinds(c), ~ReadsRequest(c)
    PROVE  \A d \in DOMAIN call :
             /\ Removing(d)' => Removing(d)
             /\ Reading(d)' => Reading(d)
             /\ call[d].marred => call'[d].marred
<1>1. Moves(c)
  BY DEF Kinds, Quiet, Inserts, Commits, DeletesFirst, DeletesSecond, BreaksOff
<1>2. /\ Removing(c)' => Removing(c)
      /\ Reading(c)' => Reading(c)
  BY DEF Kinds, Quiet, Inserts, Commits, DeletesFirst, DeletesSecond, BreaksOff,
         Moves, Removing, Reading
<1>3. \A d \in DOMAIN call : call[d].marred => call'[d].marred
  BY DEF Kinds, Quiet, Inserts, Commits, DeletesFirst, DeletesSecond, BreaksOff, Unmarred
<1> QED
  BY <1>1, <1>2, <1>3, OthersStay

\* A step of an operation keeps Crossed: AcceptSelect marks both sides.
LEMMA CrossedCall ==
    ASSUME TypeInv, Crossed, NEW c \in DOMAIN call, Kinds(c), Moves(c)
    PROVE  Crossed'
<1> SUFFICES ASSUME NEW a \in DOMAIN call, NEW d \in DOMAIN call,
                    Removing(a)', Reading(d)', PairOf(a) = PairOf(d)
             PROVE  call'[a].marred /\ call'[d].marred
  BY OthersStay DEF Crossed
<1>1. CASE ~ReadsRequest(c)
  BY <1>1, OtherKinds DEF Crossed
<1>2. CASE ReadsRequest(c)
  <2>1. a # c /\ Removing(a)
    BY <1>2, OthersStay DEF ReadsRequest, Moves, Removing
  <2>2. CASE d = c
    <3>1. a \in Under("remove", PairOf(c))
      BY <2>1, <2>2, Words
    <3> QED
      BY <1>2, <2>1, <2>2, <3>1 DEF ReadsRequest, Reads, PairOf
  <2>3. CASE d # c
    <3>1. Reading(d)
      BY <2>3, OthersStay
    <3>2. call[a].marred /\ call[d].marred
      BY <2>1, <3>1 DEF Crossed
    <3> QED
      BY <1>2, <2>1, <2>3, <3>2 DEF ReadsRequest, Reads
  <2> QED
    BY <2>2, <2>3
<1> QED
  BY <1>1, <1>2

\* A step of an operation keeps Removals: an acceptance that commits under a
\* removal of its pair has marred it, and only acceptances add rows.
LEMMA RemovalsCall ==
    ASSUME TypeInv, Crossed, Removals, NEW c \in DOMAIN call, Kinds(c), Moves(c)
    PROVE  Removals'
<1> SUFFICES ASSUME NEW a \in DOMAIN call, Removing(a)', ~call'[a].marred
             PROVE  /\ PairOf(a) \notin bond'
                    /\ call'[a].at = "delete2" =>
                         Row(call[a].request, "first") \notin friends'
  BY OthersStay DEF Removals, Moves
<1>1. Removing(a) /\ ~call[a].marred
  <2>1. CASE ReadsRequest(c)
    <3>1. a # c
      BY <2>1 DEF ReadsRequest, Moves, Removing
    <3> QED
      BY <2>1, <3>1, OthersStay DEF ReadsRequest, Reads
  <2> QED
    BY <2>1, OtherKinds
<1>2. /\ PairOf(a) \notin bond
      /\ call[a].at = "delete2" => Row(call[a].request, "first") \notin friends
  BY <1>1 DEF Removals
<1>3. CASE Commits(c)
  <2>1. Reading(c) /\ a # c
    BY <1>1, <1>3 DEF Commits, Reading, Removing
  <2>2. PairOf(a) # PairOf(c)
    BY <1>1, <2>1 DEF Crossed
  <2>3. Row(call[a].request, "first") \notin call[c].adds
    BY <2>2, OwnRows
  <2>4. call'[a].at = call[a].at
    BY <2>1, OthersStay
  <2> QED
    BY <1>2, <1>3, <2>2, <2>3, <2>4 DEF Commits, PairOf
<1>4. CASE DeletesFirst(c)
  <2>1. CASE a = c
    BY <1>2, <1>4, <2>1 DEF DeletesFirst
  <2>2. CASE a # c
    BY <1>2, <1>4, <2>2, OthersStay DEF DeletesFirst
  <2> QED
    BY <2>1, <2>2
<1>5. CASE ~Commits(c) /\ ~DeletesFirst(c)
  <2>1. bond' = bond /\ friends' \subseteq friends
    BY <1>5 DEF Kinds, Quiet, ReadsRequest, Inserts, DeletesSecond, BreaksOff
  <2>2. call'[a].at = "delete2" => call[a].at = "delete2"
    <3>1. CASE a = c
      BY <1>1, <1>5, <3>1 DEF Kinds, Quiet, ReadsRequest, Reads, Inserts, DeletesSecond,
                              BreaksOff, Removing
    <3> QED
      BY <3>1, OthersStay
  <2> QED
    BY <1>2, <2>1, <2>2
<1> QED
  BY <1>3, <1>4, <1>5

\* A step of an operation keeps Acceptances: a removal that deletes a row under
\* an acceptance of its pair has marred it.
LEMMA AcceptancesCall ==
    ASSUME TypeInv, Crossed, Acceptances, NEW c \in DOMAIN call, Kinds(c), Moves(c)
    PROVE  Acceptances'
<1> DEFINE first(a) == Row(call[a].request, "first")
           second(a) == Row(call[a].request, "second")
<1> SUFFICES ASSUME NEW a \in DOMAIN call, Reading(a)', ~call'[a].marred
             PROVE  /\ call'[a].at # "first" => first(a) \in friends' \union call'[a].adds
                    /\ call'[a].at = "commit" => second(a) \in friends' \union call'[a].adds
  BY OthersStay DEF Acceptances, Moves
<1>1. CASE ReadsRequest(c) /\ a = c
  BY <1>1 DEF ReadsRequest, Reads
<1>2. CASE ~(ReadsRequest(c) /\ a = c)
  <2>1. Reading(a) /\ ~call[a].marred
    BY <1>2, OtherKinds, OthersStay DEF ReadsRequest, Reads
  <2>2. /\ call[a].at # "first" => first(a) \in friends \union call[a].adds
        /\ call[a].at = "commit" => second(a) \in friends \union call[a].adds
    BY <2>1 DEF Acceptances
  <2>3. CASE Removing(c)
    <3>1. a # c /\ PairOf(a) # PairOf(c)
      BY <2>1, <2>3 DEF Crossed, Removing, Reading
    <3>2. first(a) # first(c) /\ first(a) # second(c)
          /\ second(a) # first(c) /\ second(a) # second(c)
      BY <3>1, OwnRows
    <3>3. call'[a].at = call[a].at /\ call'[a].adds = call[a].adds
      BY <3>1, OthersStay
    <3>4. friends \ {first(c), second(c)} \subseteq friends'
      BY <2>3 DEF Kinds, Quiet, ReadsRequest, Inserts, Commits, DeletesFirst, DeletesSecond,
                  BreaksOff, Removing
    <3> QED
      BY <2>2, <3>2, <3>3, <3>4
  <2>4. CASE ~Removing(c)
    <3>1. friends \subseteq friends'
      BY <2>4 DEF Kinds, Quiet, ReadsRequest, Inserts, Commits, DeletesFirst, DeletesSecond,
                  BreaksOff, Removing
    <3>2. CASE a # c
      <4>1. call'[a].at = call[a].at /\ call'[a].adds = call[a].adds
        BY <3>2, OthersStay
      <4> QED
        BY <2>2, <3>1, <4>1
    <3>3. CASE a = c /\ (Inserts(c, "first", "second") \/ Inserts(c, "second", "commit"))
      BY <2>2, <3>1, <3>3 DEF Inserts
    <3>4. CASE a = c /\ ~Inserts(c, "first", "second") /\ ~Inserts(c, "second", "commit")
      BY <1>2, <2>1, <2>4, <3>4 DEF Kinds, Quiet, Commits, DeletesFirst, DeletesSecond,
                                    BreaksOff, Removing, Reading
    <3> QED
      BY <3>2, <3>3, <3>4
  <2> QED
    BY <2>3, <2>4
<1> QED
  BY <1>1, <1>2

\* A step of an operation keeps FriendsAreMutual.
LEMMA MutualCall ==
    ASSUME FriendInv, NEW c \in DOMAIN call, Kinds(c), Moves(c)
    PROVE  FriendsAreMutual'
<1> USE DEF FriendInv
<1> SUFFICES ASSUME NEW p \in Pairs, p \notin torn', Under("remove", p)' = {}
             PROVE  friends' \intersect Rows(p) = IF p \in bond' THEN Rows(p) ELSE {}
  BY DEF FriendsAreMutual, Rows
<1>1. \A d \in DOMAIN call : Removing(d)' => PairOf(d) # p
  <2>1. \A d \in DOMAIN call' : Removing(d)' => PairOf(d)' # p
    BY DEF Under, Running, Removing, PairOf
  <2> QED
    BY <2>1, OthersStay
<1>2. ASSUME ~Removing(c) \/ p # PairOf(c), p \notin torn
      PROVE  friends \intersect Rows(p) = IF p \in bond THEN Rows(p) ELSE {}
  <2>1. \A d \in DOMAIN call : Removing(d) => PairOf(d) # p
    BY <1>1, <1>2, OthersStay
  <2>2. Under("remove", p) = {}
    BY <2>1, Words
  <2> QED
    BY <1>2, <2>2 DEF FriendsAreMutual
<1>3. CASE p # PairOf(c)
  <2>1. /\ bond' \in {bond, bond \union {PairOf(c)}}
        /\ torn' \in {torn, torn \union {PairOf(c)}, torn \ {PairOf(c)}}
    BY DEF Kinds, Quiet, ReadsRequest, Inserts, Commits, DeletesFirst, DeletesSecond,
           BreaksOff, PairOf
  <2>2. /\ friends' \subseteq friends \union Rows(PairOf(c))
        /\ friends \subseteq friends' \union Rows(PairOf(c))
    BY OwnRows DEF Kinds, Quiet, ReadsRequest, Inserts, Commits, DeletesFirst,
                   DeletesSecond, BreaksOff
  <2>3. friends' \intersect Rows(p) = friends \intersect Rows(p)
    BY <1>3, <2>2, OwnRows
  <2> QED
    BY <1>2, <1>3, <2>1, <2>3
<1>4. CASE p = PairOf(c)
  <2>1. CASE Commits(c)
    <3>1. ~call[c].marred /\ Reading(c) /\ call[c].at = "commit" /\ p \in bond'
      BY <1>4, <2>1 DEF Commits, Reading, PairOf
    <3>2. /\ Row(call[c].request, "first") \in friends'
          /\ Row(call[c].request, "second") \in friends'
      BY <2>1, <3>1 DEF Acceptances, Commits
    <3> QED
      BY <1>4, <3>1, <3>2, OwnRows
  <2>2. CASE DeletesFirst(c)
    BY <1>1, <1>4, <2>2 DEF DeletesFirst, Moves, Removing
  <2>3. CASE DeletesSecond(c)
    <3>1. ~call[c].marred /\ Removing(c) /\ call[c].at = "delete2"
      BY <1>4, <2>3 DEF DeletesSecond, Removing, PairOf
    <3>2. p \notin bond' /\ Row(call[c].request, "first") \notin friends
      BY <1>4, <2>3, <3>1 DEF Removals, DeletesSecond
    <3>3. friends' = friends \ {Row(call[c].request, "second")}
      BY <2>3 DEF DeletesSecond
    <3> QED
      BY <1>4, <3>2, <3>3, OwnRows
  <2>4. CASE BreaksOff(c)
    BY <1>4, <2>4 DEF BreaksOff, PairOf
  <2>5. CASE ~Commits(c) /\ ~DeletesFirst(c) /\ ~DeletesSecond(c) /\ ~BreaksOff(c)
    <3>1. ~Removing(c) /\ UNCHANGED <<friends, bond, torn>>
      BY <2>5 DEF Kinds, Quiet, ReadsRequest, Inserts, Removing
    <3> QED
      BY <1>2, <3>1
  <2> QED
    BY <2>1, <2>2, <2>3, <2>4, <2>5
<1> QED
  BY <1>3, <1>4

\* A send, an acceptance or a cancellation that begins keeps FriendInv.
LEMMA FriendStarts ==
    ASSUME FriendInv, NEW op \in {"send", "accept", "cancel"}, NEW u \in Users,
           NEW r \in Requests, NEW at \in {"check", "select", "delete"}, Starts(op, u, r, at)
    PROVE  Crossed' /\ Removals' /\ Acceptances' /\ FriendsAreMutual'
<1> USE DEF FriendInv
<1>1. UNCHANGED <<friends, bond, torn>>
  BY DEF Starts, history
<1>2. ASSUME NEW d \in DOMAIN call', Removing(d)' \/ Reading(d)'
      PROVE  d \in DOMAIN call
  BY <1>2 DEF Starts, Begins, Removing, Reading
<1>3. ASSUME NEW d \in DOMAIN call
      PROVE  /\ d \in DOMAIN call' /\ PairOf(d)' = PairOf(d)
             /\ call'[d].request = call[d].request /\ call'[d].at = call[d].at
             /\ call'[d].adds = call[d].adds /\ call'[d].marred = call[d].marred
             /\ Removing(d)' <=> Removing(d)
             /\ Reading(d)' <=> Reading(d)
  BY DEF Starts, Begins, Unmarred, PairOf, Removing, Reading
<1>4. Crossed'
  BY <1>2, <1>3 DEF Crossed
<1>5. Removals'
  BY <1>1, <1>2, <1>3 DEF Removals
<1>6. Acceptances'
  BY <1>1, <1>2, <1>3 DEF Acceptances
<1>7. FriendsAreMutual'
  <2> SUFFICES ASSUME NEW p \in Pairs, p \notin torn, Under("remove", p)' = {}
               PROVE  friends \intersect Rows(p) = IF p \in bond THEN Rows(p) ELSE {}
    BY <1>1 DEF FriendsAreMutual, Rows
  <2>1. \A d \in DOMAIN call' : Removing(d)' => PairOf(d)' # p
    BY DEF Under, Running, Removing, PairOf
  <2>2. Under("remove", p) = {}
    BY <1>3, <2>1, Words
  <2> QED
    BY <2>2 DEF FriendsAreMutual
<1> QED
  BY <1>4, <1>5, <1>6, <1>7

\* A removal that begins keeps FriendInv: it and the acceptances mar each other.
LEMMA FriendRemoval ==
    ASSUME FriendInv, NEW u \in Users, NEW v \in Users, StartsRemoval(u, v)
    PROVE  Crossed' /\ Removals' /\ Acceptances' /\ FriendsAreMutual'
<1> DEFINE pair == {u, v}
<1> USE DEF FriendInv
<1>0. PICK n : n = Len(call) + 1
  OBVIOUS
<1>1. bond' = bond \ {pair} /\ UNCHANGED <<friends, torn>>
  BY DEF StartsRemoval
<1>2. /\ n \in DOMAIN call' /\ n \notin DOMAIN call
      /\ call'[n].op = "remove" /\ call'[n].at = "delete1" /\ PairOf(n)' = pair
      /\ \A d \in DOMAIN call' : d \in DOMAIN call \/ d = n
  BY <1>0 DEF StartsRemoval, Begins, PairOf, Pair, Request
<1>3. Removing(n)' /\ ~Reading(n)'
  BY <1>2 DEF Removing, Reading
<1>4. ASSUME NEW d \in DOMAIN call
      PROVE  /\ d \in DOMAIN call' /\ PairOf(d)' = PairOf(d)
             /\ call'[d].request = call[d].request /\ call'[d].at = call[d].at
             /\ call'[d].adds = call[d].adds
             /\ Removing(d)' <=> Removing(d)
             /\ Reading(d)' <=> Reading(d)
  BY DEF StartsRemoval, Begins, PairOf, Removing, Reading
<1>5. /\ \A d \in DOMAIN call : call[d].marred => call'[d].marred
      /\ \A d \in DOMAIN call : Reading(d) /\ PairOf(d) = pair => call'[d].marred /\ call'[n].marred
  BY <1>0, Words DEF StartsRemoval
<1> HIDE DEF pair
<1>6. Crossed'
  <2> SUFFICES ASSUME NEW a \in DOMAIN call', NEW d \in DOMAIN call',
                      Removing(a)', Reading(d)', PairOf(a)' = PairOf(d)'
               PROVE  call'[a].marred /\ call'[d].marred
    BY DEF Crossed
  <2>1. d \in DOMAIN call /\ Reading(d)
    BY <1>2, <1>3, <1>4
  <2>2. CASE a = n
    BY <1>2, <1>4, <1>5, <2>1, <2>2
  <2>3. CASE a # n
    BY <1>2, <1>4, <1>5, <2>1, <2>3 DEF Crossed
  <2> QED
    BY <2>2, <2>3
<1>7. Removals'
  <2> SUFFICES ASSUME NEW a \in DOMAIN call', Removing(a)', ~call'[a].marred
               PROVE  /\ PairOf(a)' \notin bond'
                      /\ call'[a].at = "delete2" =>
                           Row(call'[a].request, "first") \notin friends'
    BY DEF Removals
  <2>1. CASE a = n
    BY <1>1, <1>2, <2>1
  <2>2. CASE a # n
    BY <1>1, <1>2, <1>4, <1>5, <2>2 DEF Removals
  <2> QED
    BY <2>1, <2>2
<1>8. Acceptances'
  <2> SUFFICES ASSUME NEW a \in DOMAIN call, Reading(a), ~call[a].marred
               PROVE  /\ call[a].at # "first" =>
                           Row(call[a].request, "first") \in friends \union call[a].adds
                      /\ call[a].at = "commit" =>
                           Row(call[a].request, "second") \in friends \union call[a].adds
    BY <1>1, <1>2, <1>3, <1>4, <1>5 DEF Acceptances
  <2> QED
    BY DEF Acceptances
<1>9. FriendsAreMutual'
  <2> SUFFICES ASSUME NEW p \in Pairs, p \notin torn, Under("remove", p)' = {}
               PROVE  friends \intersect Rows(p) = IF p \in bond' THEN Rows(p) ELSE {}
    BY <1>1 DEF FriendsAreMutual, Rows
  <2>1. \A d \in DOMAIN call' : Removing(d)' => PairOf(d)' # p
    BY DEF Under, Running, Removing, PairOf
  <2>2. p # pair
    BY <1>2, <1>3, <2>1
  <2>3. Under("remove", p) = {}
    BY <1>4, <2>1, Words
  <2> QED
    BY <1>1, <2>2, <2>3 DEF FriendsAreMutual
<1> QED
  BY <1>6, <1>7, <1>8, <1>9

\* Initially every pair is whole, and no operation has begun.
LEMMA FriendInit == Init => FriendInv
<1> SUFFICES ASSUME Init PROVE FriendInv
  OBVIOUS
<1>1. TypeInv
  BY TypeInit
<1>2. DOMAIN call = {} /\ friends = UNION {Rows(p) : p \in bond}
  BY DEF Init
<1>3. FriendsAreMutual
  <2>1. \A p, q : p # q => Rows(p) \intersect Rows(q) = {}
    BY DEF Rows
  <2>2. \A p : friends \intersect Rows(p) = IF p \in bond THEN Rows(p) ELSE {}
    BY <1>2, <2>1
  <2> QED
    BY <2>2 DEF FriendsAreMutual
<1> QED
  BY <1>1, <1>2, <1>3 DEF FriendInv, Crossed, Removals, Acceptances

\* Every step keeps FriendInv.
LEMMA FriendNext == FriendInv /\ [Next]_vars => FriendInv'
<1> SUFFICES ASSUME FriendInv, [Next]_vars PROVE FriendInv'
  OBVIOUS
<1>1. TypeInv'
  BY TypeNext DEF FriendInv
<1>2. CASE UNCHANGED vars
  <2>1. UNCHANGED <<friends, call, bond, torn>>
    BY <1>2 DEF vars, history
  <2> QED
    BY <1>1, <2>1 DEF FriendInv, Crossed, Removals, Acceptances, FriendsAreMutual, Removing,
                      Reading, PairOf, Under, Running
<1>3. ASSUME NEW u \in Users, Screen(u)
      PROVE  FriendInv'
  BY <1>1, <1>3, ScreenStarts, FriendStarts, FriendRemoval DEF FriendInv
<1>4. ASSUME NEW c \in DOMAIN call, Call(c)
      PROVE  FriendInv'
  <2>1. Kinds(c) /\ Moves(c)
    BY <1>4, CallKinds DEF FriendInv
  <2> QED
    BY <1>1, <2>1, CrossedCall, RemovalsCall, AcceptancesCall, MutualCall DEF FriendInv
<1> QED
  BY <1>2, <1>3, <1>4 DEF Next

\* A friendship has both of its rows or none, as its pair is friends or not,
\* except where a removal broke off or crossed an acceptance.
THEOREM Mutual == Spec => []FriendsAreMutual
<1>1. FriendInv => FriendsAreMutual
  BY DEF FriendInv
<1> QED
  BY <1>1, FriendInit, FriendNext, PTL DEF Spec
=============================================================================
