--------------------------- MODULE FriendRequests ---------------------------
(***************************************************************************)
(* Friend requests and friendships (SocialRepository.kt): the tables       *)
(* friend_requests and friends of the server and the calls the screens     *)
(* launch, one HTTP request after the other.  A friendship is two rows of  *)
(* friends, one of each direction.                                         *)
(* A profile's button may offer any operation, whatever the tables hold:   *)
(* checkRelationshipStatus says "none" when an answer is lost.  One's own  *)
(* profile has the button too, and nothing compares the two users: a user  *)
(* may be a friend of himself, which is one row.                           *)
(***************************************************************************)
EXTENDS Naturals, Sequences, FiniteSets

CONSTANTS
  Users,
  OldRequests, \* bound: the requests that may be pending at first
  OldFriends,  \* bound: the pairs that may be friends at first
  MaxCalls,  \* bound: operations started
  MaxFaults  \* bound: requests or answers lost, and error answers

ASSUME BoundsAssumption == MaxCalls \in Nat /\ MaxFaults \in Nat

\* A row of friend_requests: nr, the call that inserted it, stands for its id.
Requests == [sender : Users, receiver : Users, nr : 0 .. MaxCalls]
Request(u, v, nr) == [sender |-> u, receiver |-> v, nr |-> nr]

VARIABLES
  requests,  \* table friend_requests; every row is pending
  friends,   \* table friends, pairs <<user_id, friend_id>>
  call,      \* the operations started, in their order
  faults,
  bond,      \* history: the pairs accepted, and not removed since
  torn,      \* history: the pairs that a broken or crossed removal left undefined
  withdrawn, \* history: requests cancelled before an acceptance had read them
  made       \* history: requests whose acceptance was committed

history == <<bond, torn, withdrawn, made>>
vars == <<requests, friends, call, faults, history>>

Pair(r) == {r.sender, r.receiver}
Rows(p) == {row \in Users \X Users : {row[1], row[2]} = p}
Pairs == {Pair(r) : r \in Requests}

ASSUME OldAssumption ==
  OldRequests \subseteq {r \in Requests : r.nr = 0} /\ OldFriends \subseteq Pairs

Init ==
  /\ bond \in SUBSET OldFriends
  /\ friends = UNION {Rows(p) : p \in bond}
  /\ requests \in SUBSET OldRequests
  /\ call = <<>> /\ faults = 0
  /\ torn = {} /\ withdrawn = {} /\ made = {}

Running(c, op) == call[c].op = op /\ call[c].at # "done"
\* Calls of the operation op on the pair p that are under way.
Under(op, p) == {c \in DOMAIN call : Running(c, op) /\ Pair(call[c].request) = p}
\* Acceptances of the pair that have read their request.
Accepting(p) == {c \in Under("accept", p) : call[c].at # "select"}
-----------------------------------------------------------------------------
(* The screens: an operation is started from a row that a list shows.  The  *)
(* lists are not state: a list that is out of date is an operation started *)
(* when it was read, whose first request is long under way.  Rejecting     *)
(* passes a status that updateConnectionStatus does not know, which changes *)
(* nothing: it has no step.                                                *)

Launch(op, user, request, at, marred) ==
  /\ Len(call) < MaxCalls
  /\ call' = Append(call, [op |-> op, user |-> user, request |-> request,
                           at |-> at, adds |-> {}, marred |-> marred])
  /\ UNCHANGED <<requests, friends, faults>>

SendFriendRequest(u, v) ==
  /\ Launch("send", u, Request(u, v, Len(call) + 1), "check", FALSE)
  /\ UNCHANGED history

AcceptFriendRequest(u, r) ==
  /\ r \in requests /\ r.receiver = u
  /\ Launch("accept", u, r, "select", FALSE)
  /\ UNCHANGED history

CancelFriendRequest(u, r) ==
  /\ r \in requests /\ r.sender = u
  /\ Launch("cancel", u, r, "delete", FALSE)
  /\ UNCHANGED history

\* A removal and an acceptance of one pair that cross mar each other: what
\* they leave of the friendship depends on the order of their requests.
RemoveFriend(u, v) ==
  LET p == {u, v} IN
  /\ <<u, v>> \in friends
  /\ Len(call) < MaxCalls
  /\ call' = Append([c \in DOMAIN call |->
                       [call[c] EXCEPT !.marred = @ \/ c \in Accepting(p)]],
                    [op |-> "remove", user |-> u, at |-> "delete1", adds |-> {},
                     request |-> Request(u, v, Len(call) + 1),
                     marred |-> Accepting(p) # {}])
  /\ bond' = bond \ {p}
  /\ UNCHANGED <<requests, friends, faults, torn, withdrawn, made>>

Screen(u) ==
  \/ \E v \in Users : SendFriendRequest(u, v) \/ RemoveFriend(u, v)
  \/ \E r \in requests : AcceptFriendRequest(u, r) \/ CancelFriendRequest(u, r)
-----------------------------------------------------------------------------
(* sendFriendRequest: a check and an insertion.                            *)

GoTo(c, to) == call' = [call EXCEPT ![c].at = to]
Same(r, q) == r.sender = q.sender /\ r.receiver = q.receiver

CheckPending(c) ==
  /\ call[c].at = "check"
  /\ GoTo(c, IF \E r \in requests : Same(r, call[c].request) THEN "done" ELSE "insert")
  /\ UNCHANGED <<requests, friends, faults, history>>

\* A faulty variant of InsertRequest: the table has no such constraint.
InsertAnyway(c) ==
  /\ call[c].at = "insert"
  /\ GoTo(c, "done")
  /\ requests' = requests \union {call[c].request}
  /\ UNCHANGED <<friends, faults, history>>

\* The constraint friend_requests_unique refuses a second row.
InsertRequest(c) ==
  /\ call[c].at = "insert"
  /\ GoTo(c, "done")
  /\ requests' = IF \E r \in requests : Same(r, call[c].request) THEN requests
                 ELSE requests \union {call[c].request}
  /\ UNCHANGED <<friends, faults, history>>

(* cancelFriendRequest: one DELETE.                                        *)
DeleteRequest(c) ==
  LET r == call[c].request IN
  /\ call[c].at = "delete"
  /\ GoTo(c, "done")
  /\ requests' = requests \ {r}
  /\ withdrawn' = IF r \in requests /\ \A a \in Accepting(Pair(r)) : call[a].request # r
                  THEN withdrawn \union {r} ELSE withdrawn
  /\ UNCHANGED <<friends, faults, bond, torn, made>>
-----------------------------------------------------------------------------
(* accept_friend_request: a transaction of the server.  Its SELECT locks   *)
(* nothing; the rows it inserts are seen by others once it commits, and an *)
(* insertion of the same row waits until then.                             *)

\* A faulty variant of AcceptSelect: a request that is gone is not noticed.
SelectNothing(c) ==
  LET r == call[c].request IN
  /\ call[c].at = "select"
  /\ call' = [d \in DOMAIN call |->
       IF d = c THEN [call[c] EXCEPT !.at = "first",
                                     !.marred = Under("remove", Pair(r)) # {}]
       ELSE [call[d] EXCEPT !.marred = @ \/ d \in Under("remove", Pair(r))]]
  /\ UNCHANGED <<requests, friends, faults, history>>

AcceptSelect(c) ==
  LET r == call[c].request IN
  /\ call[c].at = "select"
  /\ IF r \in requests /\ call[c].user = r.receiver
     THEN call' = [d \in DOMAIN call |->
            IF d = c THEN [call[c] EXCEPT !.at = "first",
                                          !.marred = Under("remove", Pair(r)) # {}]
            ELSE [call[d] EXCEPT !.marred = @ \/ d \in Under("remove", Pair(r))]]
     ELSE GoTo(c, "done")
  /\ UNCHANGED <<requests, friends, faults, history>>

\* A faulty variant of Row: the second row names the receiver twice.
RowOfOne(r, at) ==
  IF at = "first" THEN <<r.sender, r.receiver>> ELSE <<r.receiver, r.receiver>>

Row(r, at) == IF at = "first" THEN <<r.sender, r.receiver>> ELSE <<r.receiver, r.sender>>

\* The row c inserts next is inserted by d, which has not committed.
WaitsFor(c, d) ==
  /\ c # d
  /\ call[c].at \in {"first", "second"}
  /\ Row(call[c].request, call[c].at) \in call[d].adds

\* A faulty variant of AcceptInsert: the second row is forgotten.
InsertOneRow(c, from, to) ==
  /\ call[c].at = from
  /\ \A d \in DOMAIN call : ~WaitsFor(c, d)
  /\ call' = [call EXCEPT ![c].at = to,
                          ![c].adds = {Row(call[c].request, "first")} \ friends]
  /\ UNCHANGED <<requests, friends, faults, history>>

AcceptInsert(c, from, to) ==
  /\ call[c].at = from
  /\ \A d \in DOMAIN call : ~WaitsFor(c, d)
  /\ call' = [call EXCEPT ![c].at = to,
                          ![c].adds = @ \union ({Row(call[c].request, from)} \ friends)]
  /\ UNCHANGED <<requests, friends, faults, history>>

\* A faulty variant of AcceptCommit: the transaction keeps its locks.
CommitKeepsLocks(c) ==
  LET r == call[c].request IN
  /\ call[c].at = "commit"
  /\ friends' = friends \union call[c].adds
  /\ requests' = requests \ {r}
  /\ call' = [call EXCEPT ![c].at = "done"]
  /\ bond' = bond \union {Pair(r)}
  /\ torn' = IF call[c].marred THEN torn \union {Pair(r)} ELSE torn \ {Pair(r)}
  /\ made' = made \union {r}
  /\ UNCHANGED <<faults, withdrawn>>

AcceptCommit(c) ==
  LET r == call[c].request IN
  /\ call[c].at = "commit"
  /\ friends' = friends \union call[c].adds
  /\ requests' = requests \ {r}
  /\ call' = [call EXCEPT ![c].at = "done", ![c].adds = {}]
  /\ bond' = bond \union {Pair(r)}
  /\ torn' = IF call[c].marred THEN torn \union {Pair(r)} ELSE torn \ {Pair(r)}
  /\ made' = made \union {r}
  /\ UNCHANGED <<faults, withdrawn>>

\* The server ends a deadlock: two transactions that wait for each other.
AbortDeadlock(c) ==
  /\ \E d \in DOMAIN call : WaitsFor(c, d) /\ WaitsFor(d, c)
  /\ call' = [call EXCEPT ![c].at = "done", ![c].adds = {}]
  /\ UNCHANGED <<requests, friends, faults, history>>
-----------------------------------------------------------------------------
(* removeFriend: two DELETEs.                                              *)

DeleteFirst(c) ==
  LET r == call[c].request IN
  /\ call[c].at = "delete1"
  /\ GoTo(c, "delete2")
  /\ friends' = friends \ {<<r.sender, r.receiver>>}
  /\ UNCHANGED <<requests, faults, history>>

DeleteSecond(c) ==
  LET r == call[c].request IN
  /\ call[c].at = "delete2"
  /\ GoTo(c, "done")
  /\ friends' = friends \ {<<r.receiver, r.sender>>}
  /\ torn' = IF call[c].marred THEN torn \union {Pair(r)} ELSE torn \ {Pair(r)}
  /\ UNCHANGED <<requests, faults, bond, withdrawn, made>>
-----------------------------------------------------------------------------
(* Faults.                                                                 *)

\* An exception or an error answer ends the call, save that an error answer to
\* the check of a send is taken for "none pending"; the request has no effect.
Fails(c) ==
  /\ faults < MaxFaults /\ faults' = faults + 1
  /\ call[c].at \in {"check", "insert", "delete", "select", "delete1", "delete2"}
  /\ \/ GoTo(c, "done")
     \/ call[c].at = "check" /\ GoTo(c, "insert")
  /\ torn' = IF call[c].op = "remove" THEN torn \union {Pair(call[c].request)} ELSE torn
  /\ UNCHANGED <<requests, friends, bond, withdrawn, made>>

\* The first DELETE of a removal: its answer is lost, which ends the call, or
\* it is an error, which is ignored and mars the removal.
FirstGoesWrong(c) ==
  LET r == call[c].request IN
  /\ faults < MaxFaults /\ faults' = faults + 1
  /\ call[c].at = "delete1"
  /\ \/ GoTo(c, "done") /\ friends' = friends \ {<<r.sender, r.receiver>>}
        /\ torn' = torn \union {Pair(r)}
     \/ call' = [call EXCEPT ![c].at = "delete2", ![c].marred = TRUE]
        /\ UNCHANGED <<friends, torn>>
  /\ UNCHANGED <<requests, bond, withdrawn, made>>

Call(c) ==
  \/ CheckPending(c) \/ InsertRequest(c) \/ DeleteRequest(c)
  \/ AcceptSelect(c) \/ AcceptInsert(c, "first", "second")
  \/ AcceptInsert(c, "second", "commit") \/ AcceptCommit(c) \/ AbortDeadlock(c)
  \/ DeleteFirst(c) \/ DeleteSecond(c)
  \/ Fails(c) \/ FirstGoesWrong(c)

Next ==
  \/ \E u \in Users : Screen(u)
  \/ \E c \in DOMAIN call : Call(c)

Spec == Init /\ [][Next]_vars

\* Every request of a call is answered, within its timeout or by an error.
Goes(c) == c \in DOMAIN call /\ Call(c)
FairSpec == Spec /\ \A c \in 1 .. MaxCalls : WF_vars(Goes(c))
-----------------------------------------------------------------------------
(* Properties.                                                             *)

Steps == {"check", "insert", "delete", "select", "first", "second", "commit",
          "delete1", "delete2", "done"}

\* The types; in particular a transaction inserts rows of its request's two
\* users only.
TypeOK ==
  /\ requests \subseteq Requests /\ friends \subseteq Users \X Users
  /\ Len(call) <= MaxCalls
  /\ call \in Seq([op : {"send", "accept", "cancel", "remove"}, user : Users,
                   request : Requests, at : Steps, adds : SUBSET (Users \X Users),
                   marred : BOOLEAN])
  /\ \A c \in DOMAIN call : call[c].adds \subseteq Rows(Pair(call[c].request))
  /\ faults \in 0 .. MaxFaults
  /\ bond \subseteq Pairs /\ torn \subseteq Pairs
  /\ withdrawn \subseteq Requests /\ made \subseteq Requests

\* A user has one pending request to another at the most, however many calls
\* checked for one before they insert it.
PendingOnce == \A r, q \in requests : Same(r, q) => r = q

\* A friendship has its two rows from the end of an acceptance to the next
\* removal, and none otherwise, unless the last of them was a removal that
\* went wrong or one that crossed an acceptance.
FriendsAreMutual ==
  \A p \in Pairs \ torn : Under("remove", p) = {} =>
    friends \intersect Rows(p) = IF p \in bond THEN Rows(p) ELSE {}

\* A request that its sender withdrew before an acceptance had read it makes no
\* friendship, although the receiver's list shows it still.
WithdrawnIsGone == withdrawn \intersect made = {}

\* Every operation ends, also acceptances of crossed requests, whose
\* transactions insert the same rows in opposite orders.
OperationsEnd ==
  \A c \in 1 .. MaxCalls :
    c \in DOMAIN call /\ call[c].at # "done" ~> c \in DOMAIN call /\ call[c].at = "done"
=============================================================================
