----------------------- MODULE FriendRequests_proofs -----------------------
(***************************************************************************)
(* The types of friend requests and friendships, for any number of users,  *)
(* operations and faults, and what the actions do to the operations.       *)
(***************************************************************************)
EXTENDS FriendRequests, SequenceTheorems, TLAPS

\* The types of the operations, as in TypeOK.
Calls == [op : {"send", "accept", "cancel", "remove"}, user : Users,
          request : Requests, at : Steps, adds : SUBSET (Users \X Users),
          marred : BOOLEAN]

\* An operation begins as one more element of call; the others stay.
LEMMA Append_ ==
    ASSUME TypeOK, NEW e \in Calls, Len(call) < MaxCalls, call' = Append(call, e)
    PROVE  /\ call' \in Seq(Calls)
           /\ Len(call') = Len(call) + 1
           /\ DOMAIN call' = 1 .. Len(call) + 1
           /\ DOMAIN call = 1 .. Len(call)
           /\ call'[Len(call) + 1] = e
           /\ \A d \in DOMAIN call : call'[d] = call[d]
<1>1. call \in Seq(Calls)
  BY DEF TypeOK, Calls
<1> QED
  BY <1>1, AppendProperties, LenProperties

\* A step of an operation changes its record; the others stay.
LEMMA Change ==
    ASSUME TypeOK, NEW c \in DOMAIN call, NEW e \in Calls,
           call' = [call EXCEPT ![c] = e]
    PROVE  /\ call' \in Seq(Calls)
           /\ Len(call') = Len(call)
           /\ DOMAIN call' = DOMAIN call
           /\ call'[c] = e
           /\ \A d \in DOMAIN call : d # c => call'[d] = call[d]
<1>1. call \in Seq(Calls) /\ DOMAIN call = 1 .. Len(call)
  BY LenProperties DEF TypeOK, Calls
<1> QED
  BY <1>1, ExceptSeq, LenProperties

\* A step of several operations changes their records one by one.
LEMMA ChangeAll ==
    ASSUME TypeOK, call' = [d \in DOMAIN call |-> call'[d]],
           \A d \in DOMAIN call : call'[d] \in Calls
    PROVE  call' \in Seq(Calls) /\ Len(call') = Len(call) /\ DOMAIN call' = DOMAIN call
<1>1. call \in Seq(Calls) /\ Len(call) \in Nat /\ DOMAIN call = 1 .. Len(call)
  BY LenProperties DEF TypeOK, Calls
<1>2. call' \in [1 .. Len(call) -> Calls]
  BY <1>1
<1>3. call' \in Seq(Calls)
  BY <1>1, <1>2, SeqDef
<1> QED
  BY <1>1, <1>3, LenProperties
-----------------------------------------------------------------------------
(* Types.                                                                  *)

\* A user's requests and rows have their types.
LEMMA PairTypes ==
    ASSUME NEW r \in Requests
    PROVE  /\ Pair(r) \in Pairs
           /\ Rows(Pair(r)) = {<<r.sender, r.receiver>>, <<r.receiver, r.sender>>}
<1>1. r.sender \in Users /\ r.receiver \in Users
  BY DEF Requests
<1>2. Pair(r) \in Pairs
  BY DEF Pairs
<1>3. ASSUME NEW row \in Users \X Users
      PROVE  {row[1], row[2]} = Pair(r) <=>
               row \in {<<r.sender, r.receiver>>, <<r.receiver, r.sender>>}
  BY <1>1 DEF Pair
<1>4. Rows(Pair(r)) = {<<r.sender, r.receiver>>, <<r.receiver, r.sender>>}
  BY <1>1, <1>3 DEF Rows
<1> QED
  BY <1>2, <1>4

\* The pair of two users, with their request of any number.
LEMMA UserPairs ==
    ASSUME NEW u \in Users, NEW v \in Users, NEW n \in 0 .. MaxCalls
    PROVE  /\ Request(u, v, n) \in Requests
           /\ Request(u, v, n).sender = u /\ Request(u, v, n).receiver = v
           /\ Request(u, v, n).nr = n
           /\ {u, v} \in Pairs
           /\ Rows({u, v}) = {<<u, v>>, <<v, u>>}
<1>1. /\ Request(u, v, n) \in Requests
      /\ Request(u, v, n).sender = u /\ Request(u, v, n).receiver = v
      /\ Request(u, v, n).nr = n
  BY DEF Request, Requests
<1>2. Pair(Request(u, v, n)) = {u, v}
  BY <1>1 DEF Pair
<1> QED
  BY <1>1, <1>2, PairTypes
-----------------------------------------------------------------------------
(* What the actions do to the operations.                                  *)

\* Operation c makes a step: the others keep their place and their rows.
Moves(c) ==
    /\ call' \in Seq(Calls) /\ Len(call') = Len(call) /\ DOMAIN call' = DOMAIN call
    /\ \A d \in DOMAIN call :
         /\ call'[d].op = call[d].op /\ call'[d].user = call[d].user
         /\ call'[d].request = call[d].request
         /\ d # c => call'[d].at = call[d].at /\ call'[d].adds = call[d].adds

\* No operation is marred by the step.
Unmarred == \A d \in DOMAIN call : call'[d].marred = call[d].marred

\* An operation begins.
Begins(op, u, r, at) ==
    /\ call' \in Seq(Calls) /\ Len(call') = Len(call) + 1
    /\ DOMAIN call = 1 .. Len(call) /\ DOMAIN call' = 1 .. Len(call) + 1
    /\ Len(call) \in Nat /\ Len(call) < MaxCalls
    /\ LET n == Len(call) + 1
       IN  /\ call'[n].op = op /\ call'[n].user = u /\ call'[n].request = r
           /\ call'[n].at = at /\ call'[n].adds = {}
    /\ \A d \in DOMAIN call :
         /\ call'[d].op = call[d].op /\ call'[d].user = call[d].user
         /\ call'[d].request = call[d].request
         /\ call'[d].at = call[d].at /\ call'[d].adds = call[d].adds

\* The records of call have their types.
LEMMA CallTypes ==
    ASSUME TypeOK
    PROVE  /\ call \in Seq(Calls) /\ Len(call) \in Nat /\ DOMAIN call = 1 .. Len(call)
           /\ \A d \in DOMAIN call :
                /\ call[d] \in Calls
                /\ call[d].request \in Requests /\ Pair(call[d].request) \subseteq Users
                /\ call[d].adds \subseteq Users \X Users /\ call[d].marred \in BOOLEAN
<1>1. call \in Seq(Calls) /\ Len(call) \in Nat /\ DOMAIN call = 1 .. Len(call)
  BY LenProperties DEF TypeOK, Calls
<1>2. \A d \in DOMAIN call : call[d] \in Calls
  BY <1>1, ElementOfSeq
<1> QED
  BY <1>1, <1>2 DEF Calls, Requests, Pair

\* GoTo changes the place of one operation.
LEMMA GoToMoves ==
    ASSUME TypeOK, NEW c \in DOMAIN call, NEW to \in Steps, GoTo(c, to)
    PROVE  Moves(c) /\ Unmarred /\ call'[c].at = to /\ call'[c].adds = call[c].adds
<1> DEFINE e == [call[c] EXCEPT !.at = to]
<1>1. call[c] \in Calls
  BY CallTypes
<1>2. e \in Calls
  BY <1>1 DEF Calls
<1>3. call' = [call EXCEPT ![c] = e]
  BY DEF GoTo
<1>4. /\ call' \in Seq(Calls) /\ Len(call') = Len(call) /\ DOMAIN call' = DOMAIN call
      /\ call'[c] = e /\ \A d \in DOMAIN call : d # c => call'[d] = call[d]
  <2> HIDE DEF e
  <2> QED
    BY <1>2, <1>3, Change
<1> QED
  BY <1>1, <1>4 DEF Moves, Unmarred, Calls

\* The steps of an acceptance change their place and rows.
LEMMA AddsMoves ==
    ASSUME TypeOK, NEW c \in DOMAIN call, NEW to \in Steps,
           NEW rows \in SUBSET (Users \X Users),
           call' = [call EXCEPT ![c].at = to, ![c].adds = rows]
    PROVE  Moves(c) /\ Unmarred /\ call'[c].at = to /\ call'[c].adds = rows
<1> DEFINE e == [call[c] EXCEPT !.at = to, !.adds = rows]
<1>1. call[c] \in Calls
  BY CallTypes
<1>2. e \in Calls
  BY <1>1 DEF Calls
<1>3. call' = [call EXCEPT ![c] = e]
  OBVIOUS
<1>4. /\ call' \in Seq(Calls) /\ Len(call') = Len(call) /\ DOMAIN call' = DOMAIN call
      /\ call'[c] = e /\ \A d \in DOMAIN call : d # c => call'[d] = call[d]
  <2> HIDE DEF e
  <2> QED
    BY <1>2, <1>3, Change
<1> QED
  BY <1>1, <1>4 DEF Moves, Unmarred, Calls

\* Launch begins an operation without rows.
LEMMA LaunchBegins ==
    ASSUME TypeOK, NEW op \in {"send", "accept", "cancel", "remove"}, NEW u \in Users,
           NEW r \in Requests, NEW at \in Steps, Launch(op, u, r, at, FALSE)
    PROVE  /\ Begins(op, u, r, at) /\ Unmarred /\ ~call'[Len(call) + 1].marred
           /\ UNCHANGED <<requests, friends, faults>>
<1> DEFINE e == [op |-> op, user |-> u, request |-> r, at |-> at, adds |-> {},
                 marred |-> FALSE]
<1>1. e \in Calls
  BY DEF Calls
<1>2. Len(call) < MaxCalls /\ call' = Append(call, e) /\ UNCHANGED <<requests, friends, faults>>
  BY DEF Launch
<1>3. /\ call' \in Seq(Calls) /\ Len(call') = Len(call) + 1
      /\ DOMAIN call' = 1 .. Len(call) + 1 /\ DOMAIN call = 1 .. Len(call)
      /\ call'[Len(call) + 1] = e /\ \A d \in DOMAIN call : call'[d] = call[d]
  <2> HIDE DEF e
  <2> QED
    BY <1>1, <1>2, Append_
<1> QED
  BY <1>2, <1>3, CallTypes DEF Begins, Unmarred

\* A transaction that finds its request reads it; removals of the pair that are
\* under way mar it and are marred.
Reads(c) ==
    LET p == Pair(call[c].request) IN
    /\ call[c].request \in requests /\ call[c].user = call[c].request.receiver
    /\ call'[c].at = "first"
    /\ call'[c].marred = (Under("remove", p) # {})
    /\ \A d \in DOMAIN call : d # c =>
         call'[d].marred = (call[d].marred \/ d \in Under("remove", p))

\* AcceptSelect reads the request or ends the operation.
LEMMA SelectMoves ==
    ASSUME TypeOK, NEW c \in DOMAIN call, AcceptSelect(c)
    PROVE  /\ Moves(c) /\ call'[c].adds = call[c].adds
           /\ \/ Reads(c)
              \/ Unmarred /\ call'[c].at = "done"
<1> DEFINE r == call[c].request
           p == Pair(r)
           m == Under("remove", p) # {}
           e(d) == IF d = c THEN [call[c] EXCEPT !.at = "first", !.marred = m]
                   ELSE [call[d] EXCEPT !.marred = @ \/ d \in Under("remove", p)]
<1>1. CASE ~(r \in requests /\ call[c].user = r.receiver)
  <2>1. GoTo(c, "done") /\ "done" \in Steps
    BY <1>1 DEF AcceptSelect, Steps
  <2> QED
    BY <2>1, GoToMoves
<1>2. CASE r \in requests /\ call[c].user = r.receiver
  <2>1. call' = [d \in DOMAIN call |-> e(d)]
    BY <1>2 DEF AcceptSelect
  <2>2. ASSUME NEW d \in DOMAIN call
        PROVE  /\ e(d) \in Calls
               /\ e(d).op = call[d].op /\ e(d).user = call[d].user
               /\ e(d).request = call[d].request /\ e(d).adds = call[d].adds
               /\ d # c => /\ e(d).at = call[d].at
                           /\ e(d).marred = (call[d].marred \/ d \in Under("remove", p))
               /\ d = c => e(d).at = "first" /\ e(d).marred = m
    <3>1. call[d] \in Calls
      BY CallTypes
    <3>2. m \in BOOLEAN /\ (d \in Under("remove", p)) \in BOOLEAN
      OBVIOUS
    <3> HIDE DEF m
    <3> QED
      BY <3>1, <3>2 DEF Calls, Steps
  <2>3. \A d \in DOMAIN call : call'[d] = e(d)
    BY <2>1
  <2> HIDE DEF e
  <2>4. call' \in Seq(Calls) /\ Len(call') = Len(call) /\ DOMAIN call' = DOMAIN call
    BY <2>1, <2>2, <2>3, ChangeAll
  <2>5. Moves(c) /\ call'[c].adds = call[c].adds
    <3> HIDE DEF m
    <3> QED
      BY <2>2, <2>3, <2>4 DEF Moves
  <2>6. call'[c].at = "first" /\ call'[c].marred = m
    BY <2>2, <2>3
  <2>7. \A d \in DOMAIN call : d # c =>
          call'[d].marred = (call[d].marred \/ d \in Under("remove", p))
    BY <2>2, <2>3
  <2>8. Reads(c)
    BY <1>2, <2>6, <2>7 DEF Reads
  <2> QED
    BY <2>5, <2>8
<1> QED
  BY <1>1, <1>2

\* A removal begins; it and the acceptances of its pair mar each other.
LEMMA RemoveBegins ==
    ASSUME TypeOK, NEW u \in Users, NEW v \in Users, RemoveFriend(u, v)
    PROVE  LET n == Len(call) + 1 IN
           /\ Begins("remove", u, Request(u, v, n), "delete1")
           /\ call'[n].marred = (Accepting({u, v}) # {})
           /\ \A d \in DOMAIN call :
                call'[d].marred = (call[d].marred \/ d \in Accepting({u, v}))
           /\ bond' = bond \ {{u, v}}
           /\ UNCHANGED <<requests, friends, faults, torn, withdrawn, made>>
<1> DEFINE n == Len(call) + 1
           p == {u, v}
           m == Accepting(p) # {}
           f(d) == [call[d] EXCEPT !.marred = @ \/ d \in Accepting(p)]
           s == [d \in DOMAIN call |-> f(d)]
           e == [op |-> "remove", user |-> u, at |-> "delete1", adds |-> {},
                 request |-> Request(u, v, n), marred |-> m]
<1>1. call \in Seq(Calls) /\ Len(call) \in Nat /\ DOMAIN call = 1 .. Len(call)
  BY CallTypes
<1>2. call' = Append(s, e) /\ Len(call) < MaxCalls
  BY DEF RemoveFriend
<1>3. e \in Calls
  <2>1. n \in 0 .. MaxCalls
    BY <1>1, <1>2, BoundsAssumption
  <2>2. Request(u, v, n) \in Requests
    BY <2>1, UserPairs
  <2>3. m \in BOOLEAN
    OBVIOUS
  <2> HIDE DEF m, n
  <2> QED
    BY <2>2, <2>3 DEF Calls, Steps
<1>4. ASSUME NEW d \in DOMAIN call
      PROVE  /\ f(d) \in Calls
             /\ f(d).op = call[d].op /\ f(d).user = call[d].user
             /\ f(d).request = call[d].request /\ f(d).adds = call[d].adds
             /\ f(d).at = call[d].at
             /\ f(d).marred = (call[d].marred \/ d \in Accepting(p))
  <2>1. call[d] \in Calls /\ (d \in Accepting(p)) \in BOOLEAN
    BY CallTypes
  <2> QED
    BY <2>1 DEF Calls
<1>5. s \in Seq(Calls) /\ Len(s) = Len(call) /\ \A d \in DOMAIN call : s[d] = f(d)
  <2>1. s \in [1 .. Len(call) -> Calls]
    BY <1>1, <1>4
  <2>2. s \in Seq(Calls)
    <3> HIDE DEF s
    <3> QED
      BY <1>1, <2>1, SeqDef
  <2>3. Len(s) = Len(call)
    BY <1>1, <2>1, <2>2, LenProperties
  <2> QED
    BY <2>2, <2>3
<1>6. /\ call' \in Seq(Calls) /\ Len(call') = n /\ call'[n] = e
      /\ DOMAIN call' = 1 .. n
      /\ \A d \in DOMAIN call : call'[d] = s[d]
  <2> HIDE DEF s, e
  <2> QED
    BY <1>1, <1>2, <1>3, <1>5, AppendProperties, LenProperties
<1>7. e.op = "remove" /\ e.user = u /\ e.at = "delete1" /\ e.adds = {}
      /\ e.request = Request(u, v, n) /\ e.marred = m
  OBVIOUS
<1>8. /\ bond' = bond \ {p}
      /\ UNCHANGED <<requests, friends, faults, torn, withdrawn, made>>
  BY DEF RemoveFriend
<1> HIDE DEF f, s, e, m
<1>9. Begins("remove", u, Request(u, v, n), "delete1")
  BY <1>1, <1>2, <1>4, <1>5, <1>6, <1>7 DEF Begins
<1> QED
  BY ZenonT(30), <1>4, <1>5, <1>6, <1>7, <1>8, <1>9 DEF m

\* An error of a removal's first DELETE mars it.
LEMMA MarMoves ==
    ASSUME TypeOK, NEW c \in DOMAIN call,
           call' = [call EXCEPT ![c].at = "delete2", ![c].marred = TRUE]
    PROVE  /\ Moves(c) /\ call'[c].at = "delete2" /\ call'[c].adds = call[c].adds
           /\ call'[c].marred
           /\ \A d \in DOMAIN call : d # c => call'[d].marred = call[d].marred
<1> DEFINE e == [call[c] EXCEPT !.at = "delete2", !.marred = TRUE]
<1>1. call[c] \in Calls
  BY CallTypes
<1>2. e \in Calls
  BY <1>1 DEF Calls, Steps
<1>3. call' = [call EXCEPT ![c] = e]
  OBVIOUS
<1>4. /\ call' \in Seq(Calls) /\ Len(call') = Len(call) /\ DOMAIN call' = DOMAIN call
      /\ call'[c] = e /\ \A d \in DOMAIN call : d # c => call'[d] = call[d]
  <2> HIDE DEF e
  <2> QED
    BY <1>2, <1>3, Change
<1> QED
  BY <1>1, <1>4 DEF Moves, Calls
-----------------------------------------------------------------------------
(* The type invariant.                                                     *)

\* The places of an operation.
Places(op) ==
    CASE op = "send"   -> {"check", "insert", "done"}
      [] op = "cancel" -> {"delete", "done"}
      [] op = "accept" -> {"select", "first", "second", "commit", "done"}
      [] op = "remove" -> {"delete1", "delete2", "done"}

\* An operation inserts rows of its pair only, and is at a place of its own.
Sound ==
    \A c \in DOMAIN call :
        /\ call[c].adds \subseteq Rows(Pair(call[c].request))
        /\ call[c].at \in Places(call[c].op)

TypeInv == TypeOK /\ Sound

\* A step of an operation between its own places keeps Sound.
LEMMA SoundMoves ==
    ASSUME TypeInv, NEW c \in DOMAIN call, Moves(c), call'[c].at \in Places(call[c].op),
           call'[c].adds \subseteq Rows(Pair(call[c].request))
    PROVE  Sound' /\ call' \in Seq(Calls) /\ Len(call') <= MaxCalls
<1>1. Len(call) <= MaxCalls
  BY DEF TypeInv, TypeOK
<1>2. ASSUME NEW d \in DOMAIN call'
      PROVE  /\ call'[d].adds \subseteq Rows(Pair(call'[d].request))
             /\ call'[d].at \in Places(call'[d].op)
  BY DEF TypeInv, Sound, Moves
<1> QED
  BY <1>1, <1>2 DEF Moves, Sound

\* An operation that begins at a place of its own keeps Sound.
LEMMA SoundBegins ==
    ASSUME TypeInv, NEW op \in {"send", "accept", "cancel", "remove"}, NEW u \in Users,
           NEW r \in Requests, NEW at \in Places(op), Begins(op, u, r, at)
    PROVE  Sound' /\ call' \in Seq(Calls) /\ Len(call') <= MaxCalls
<1>1. ASSUME NEW d \in DOMAIN call'
      PROVE  /\ call'[d].adds \subseteq Rows(Pair(call'[d].request))
             /\ call'[d].at \in Places(call'[d].op)
  <2>1. CASE d = Len(call) + 1
    BY <2>1 DEF Begins
  <2>2. CASE d # Len(call) + 1
    <3>1. d \in DOMAIN call
      BY <2>2 DEF Begins
    <3> QED
      BY <3>1 DEF TypeInv, Sound, Begins
  <2> QED
    BY <2>1, <2>2
<1>2. Len(call') <= MaxCalls
  BY BoundsAssumption DEF Begins
<1> QED
  BY <1>1, <1>2 DEF Begins, Sound

\* Requests and rows have their types, as TypeOK says.
Tables(reqs, frs) == reqs \subseteq Requests /\ frs \subseteq Users \X Users

\* The parts of TypeInv after a step.
LEMMA TypeParts ==
    ASSUME Sound', call' \in Seq(Calls), Len(call') <= MaxCalls,
           Tables(requests', friends'), faults' \in 0 .. MaxFaults,
           bond' \subseteq Pairs, torn' \subseteq Pairs,
           withdrawn' \subseteq Requests, made' \subseteq Requests
    PROVE  TypeInv'
BY DEF TypeInv, TypeOK, Sound, Calls, Tables

\* A send, an acceptance or a cancellation begins.
Starts(op, u, r, at) ==
    /\ Begins(op, u, r, at) /\ Unmarred
    /\ at \in Places(op)
    /\ op = "send" => r.nr = Len(call) + 1 /\ at = "check"
    /\ op \in {"accept", "cancel"} => r \in requests /\ at \in {"select", "delete"}
    /\ UNCHANGED <<requests, friends, faults, history>>

\* A removal begins; it and the acceptances of its pair mar each other.
StartsRemoval(u, v) ==
    /\ Request(u, v, Len(call) + 1) \in Requests
    /\ Begins("remove", u, Request(u, v, Len(call) + 1), "delete1")
    /\ call'[Len(call) + 1].marred = (Accepting({u, v}) # {})
    /\ \A d \in DOMAIN call :
         call'[d].marred = (call[d].marred \/ d \in Accepting({u, v}))
    /\ bond' = bond \ {{u, v}}
    /\ UNCHANGED <<requests, friends, faults, torn, withdrawn, made>>

\* What the screens launch.
LEMMA ScreenStarts ==
    ASSUME TypeInv, NEW u \in Users, Screen(u)
    PROVE  \/ \E op \in {"send", "accept", "cancel"}, r \in Requests,
                 at \in {"check", "select", "delete"} : Starts(op, u, r, at)
           \/ \E v \in Users : StartsRemoval(u, v)
<1> USE DEF TypeInv, TypeOK
<1>1. ASSUME NEW v \in Users, SendFriendRequest(u, v)
      PROVE  \E r \in Requests : Starts("send", u, r, "check")
  <2> DEFINE r == Request(u, v, Len(call) + 1)
  <2>1. Len(call) \in Nat /\ Len(call) < MaxCalls
    BY <1>1, CallTypes DEF SendFriendRequest, Launch
  <2>2. Len(call) + 1 \in 0 .. MaxCalls
    BY <2>1, BoundsAssumption
  <2>3. r \in Requests /\ r.nr = Len(call) + 1
    BY <2>1, <2>2 DEF Request, Requests
  <2>4. Launch("send", u, r, "check", FALSE) /\ UNCHANGED history
    BY <1>1 DEF SendFriendRequest
  <2> HIDE DEF r
  <2>5. Begins("send", u, r, "check") /\ Unmarred /\ UNCHANGED <<requests, friends, faults>>
    BY <2>3, <2>4, LaunchBegins DEF Steps
  <2> QED
    BY <2>3, <2>4, <2>5 DEF Starts, Places
<1>2. ASSUME NEW v \in Users, RemoveFriend(u, v)
      PROVE  StartsRemoval(u, v)
  <2>1. <<u, v>> \in friends /\ Len(call) \in Nat /\ Len(call) < MaxCalls
    BY <1>2, CallTypes DEF RemoveFriend
  <2>2. Len(call) + 1 \in 0 .. MaxCalls
    BY <2>1, BoundsAssumption
  <2>3. Request(u, v, Len(call) + 1) \in Requests
    BY <2>2 DEF Request, Requests
  <2> QED
    BY <1>2, <2>3, RemoveBegins DEF StartsRemoval
<1>3. ASSUME NEW r \in requests, AcceptFriendRequest(u, r)
      PROVE  Starts("accept", u, r, "select")
  <2>1. Begins("accept", u, r, "select") /\ Unmarred /\ UNCHANGED <<requests, friends, faults>>
    BY <1>3, LaunchBegins DEF AcceptFriendRequest, Steps
  <2> QED
    BY <1>3, <2>1 DEF AcceptFriendRequest, Starts, Places
<1>4. ASSUME NEW r \in requests, CancelFriendRequest(u, r)
      PROVE  Starts("cancel", u, r, "delete")
  <2>1. Begins("cancel", u, r, "delete") /\ Unmarred /\ UNCHANGED <<requests, friends, faults>>
    BY <1>4, LaunchBegins DEF CancelFriendRequest, Steps
  <2> QED
    BY <1>4, <2>1 DEF CancelFriendRequest, Starts, Places
<1>5. requests \subseteq Requests
  OBVIOUS
<1> QED
  BY <1>1, <1>2, <1>3, <1>4, <1>5 DEF Screen

\* The operations that the screens launch keep TypeInv.
LEMMA TypeScreen ==
    ASSUME TypeInv, NEW u \in Users, Screen(u)
    PROVE  TypeInv'
<1> USE DEF TypeInv, TypeOK, Tables
<1>1. ASSUME NEW op \in {"send", "accept", "cancel"}, NEW r \in Requests,
             NEW at \in {"check", "select", "delete"}, Starts(op, u, r, at)
      PROVE  TypeInv'
  BY <1>1, SoundBegins, TypeParts DEF Starts, history
<1>2. ASSUME NEW v \in Users, StartsRemoval(u, v)
      PROVE  TypeInv'
  <2> DEFINE r == Request(u, v, Len(call) + 1)
  <2>1. r \in Requests /\ "delete1" \in Places("remove")
    BY <1>2 DEF StartsRemoval, Request, Places
  <2>2. Begins("remove", u, r, "delete1")
    BY <1>2 DEF StartsRemoval
  <2>3. bond' \subseteq bond /\ UNCHANGED <<requests, friends, faults, torn, withdrawn, made>>
    BY <1>2 DEF StartsRemoval
  <2> HIDE DEF r
  <2>4. Sound' /\ call' \in Seq(Calls) /\ Len(call') <= MaxCalls
    BY <2>1, <2>2, SoundBegins
  <2> QED
    BY <2>3, <2>4, TypeParts
<1> QED
  BY <1>1, <1>2, ScreenStarts

\* A step of one operation keeps TypeInv, as long as it keeps the tables.
LEMMA TypeMoves ==
    ASSUME TypeInv, NEW c \in DOMAIN call, Moves(c), call'[c].at \in Places(call[c].op),
           call'[c].adds \subseteq Rows(Pair(call[c].request)),
           requests' \subseteq requests \union {call[c].request},
           friends' \subseteq friends \union Rows(Pair(call[c].request)),
           faults' \in 0 .. MaxFaults,
           bond' \subseteq bond \union {Pair(call[c].request)},
           torn' \subseteq torn \union {Pair(call[c].request)},
           withdrawn' \subseteq withdrawn \union {call[c].request},
           made' \subseteq made \union {call[c].request}
    PROVE  TypeInv'
<1>1. call[c].request \in Requests
  BY CallTypes DEF TypeInv
<1>2. Pair(call[c].request) \in Pairs /\ Rows(Pair(call[c].request)) \subseteq Users \X Users
  BY <1>1, PairTypes DEF Rows
<1>3. /\ requests \subseteq Requests /\ friends \subseteq Users \X Users
      /\ bond \subseteq Pairs /\ torn \subseteq Pairs
      /\ withdrawn \subseteq Requests /\ made \subseteq Requests
  BY DEF TypeInv, TypeOK
<1>4. requests' \subseteq Requests
  BY <1>1, <1>3
<1>5. friends' \subseteq Users \X Users
  BY <1>2, <1>3
<1>6. Tables(requests', friends')
  BY <1>4, <1>5 DEF Tables
<1>7. /\ bond' \subseteq Pairs /\ torn' \subseteq Pairs
      /\ withdrawn' \subseteq Requests /\ made' \subseteq Requests
  BY <1>1, <1>2, <1>3
<1>8. Sound' /\ call' \in Seq(Calls) /\ Len(call') <= MaxCalls
  BY SoundMoves
<1> QED
  BY <1>6, <1>7, <1>8, TypeParts

\* The step of an acceptance that inserts a row, or waits no longer.
LEMMA InsertMoves ==
    ASSUME TypeInv, NEW c \in DOMAIN call, NEW from \in {"first", "second"},
           NEW to \in Steps, AcceptInsert(c, from, to)
    PROVE  /\ Moves(c) /\ Unmarred /\ call'[c].at = to
           /\ call'[c].adds =
                call[c].adds \union ({Row(call[c].request, from)} \ friends)
           /\ Row(call[c].request, from) \in Rows(Pair(call[c].request))
<1> DEFINE rows == call[c].adds \union ({Row(call[c].request, from)} \ friends)
<1>1. call[c].request \in Requests /\ call[c].adds \subseteq Users \X Users
  BY CallTypes DEF TypeInv
<1>2. Row(call[c].request, from) \in Rows(Pair(call[c].request))
  BY <1>1, PairTypes DEF Row
<1>3. rows \in SUBSET (Users \X Users)
  BY <1>1, <1>2 DEF Rows
<1>4. call' = [call EXCEPT ![c].at = to, ![c].adds = rows]
  BY DEF AcceptInsert
<1> HIDE DEF rows
<1>5. Moves(c) /\ Unmarred /\ call'[c].at = to /\ call'[c].adds = rows
  BY <1>3, <1>4, AddsMoves DEF TypeInv
<1> QED
  BY <1>2, <1>5 DEF rows

\* The end of an acceptance's transaction.
LEMMA EndMoves ==
    ASSUME TypeInv, NEW c \in DOMAIN call,
           call' = [call EXCEPT ![c].at = "done", ![c].adds = {}]
    PROVE  Moves(c) /\ Unmarred /\ call'[c].at = "done" /\ call'[c].adds = {}
BY AddsMoves DEF TypeInv, Steps

\* The steps of an operation keep TypeInv.
LEMMA TypeCall ==
    ASSUME TypeInv, NEW c \in DOMAIN call, Call(c)
    PROVE  TypeInv'
<1>1. /\ call[c].op \in {"send", "accept", "cancel", "remove"}
      /\ call[c].at \in Places(call[c].op)
      /\ call[c].adds \subseteq Rows(Pair(call[c].request))
      /\ call[c].request \in Requests
      /\ faults \in 0 .. MaxFaults
  BY CallTypes DEF TypeInv, Sound, TypeOK, Calls
<1>2. /\ <<call[c].request.sender, call[c].request.receiver>> \in Rows(Pair(call[c].request))
      /\ <<call[c].request.receiver, call[c].request.sender>> \in Rows(Pair(call[c].request))
  BY <1>1, PairTypes
<1>3. "done" \in Places(call[c].op) /\ "done" \in Steps
  BY <1>1 DEF Places, Steps
<1>4. CASE CheckPending(c)
  <2>1. PICK to \in {"done", "insert"} : GoTo(c, to)
    BY <1>4 DEF CheckPending
  <2>2. to \in Steps /\ to \in Places(call[c].op)
    BY <1>1, <1>4 DEF CheckPending, Places, Steps
  <2>3. Moves(c) /\ call'[c].at = to /\ call'[c].adds = call[c].adds
    BY <2>1, <2>2, GoToMoves DEF TypeInv
  <2> QED
    BY <1>1, <1>4, <2>2, <2>3, TypeMoves DEF CheckPending, history
<1>5. CASE InsertRequest(c) \/ DeleteRequest(c)
  <2>1. GoTo(c, "done")
    BY <1>5 DEF InsertRequest, DeleteRequest
  <2>2. Moves(c) /\ call'[c].at = "done" /\ call'[c].adds = call[c].adds
    BY <1>3, <2>1, GoToMoves DEF TypeInv
  <2> QED
    BY <1>1, <1>3, <1>5, <2>2, TypeMoves DEF InsertRequest, DeleteRequest, history
<1>6. CASE AcceptSelect(c)
  <2>1. /\ Moves(c) /\ call'[c].adds = call[c].adds
        /\ call'[c].at \in {"first", "done"}
    BY <1>6, SelectMoves DEF TypeInv, Reads
  <2>2. call'[c].at \in Places(call[c].op)
    BY <1>1, <1>6, <2>1 DEF AcceptSelect, Places
  <2> QED
    BY <1>1, <1>6, <2>1, <2>2, TypeMoves DEF AcceptSelect, history
<1>7. ASSUME NEW from \in {"first", "second"}, NEW to \in {"second", "commit"},
             AcceptInsert(c, from, to)
      PROVE  TypeInv'
  <2>1. to \in Steps /\ to \in Places(call[c].op)
    BY <1>1, <1>7 DEF AcceptInsert, Places, Steps
  <2>2. /\ Moves(c) /\ call'[c].at = to
        /\ call'[c].adds \subseteq Rows(Pair(call[c].request))
    BY <1>1, <1>7, <2>1, InsertMoves
  <2> QED
    BY <1>1, <1>7, <2>1, <2>2, TypeMoves DEF AcceptInsert, history
<1>8. CASE AcceptCommit(c) \/ AbortDeadlock(c)
  <2>1. call' = [call EXCEPT ![c].at = "done", ![c].adds = {}]
    BY <1>8 DEF AcceptCommit, AbortDeadlock
  <2>2. Moves(c) /\ call'[c].at = "done" /\ call'[c].adds = {}
    BY <2>1, EndMoves
  <2>3. /\ requests' \subseteq requests /\ faults' = faults
        /\ friends' \subseteq friends \union call[c].adds
        /\ bond' \subseteq bond \union {Pair(call[c].request)}
        /\ torn' \subseteq torn \union {Pair(call[c].request)}
        /\ withdrawn' = withdrawn /\ made' \subseteq made \union {call[c].request}
    BY <1>8 DEF AcceptCommit, AbortDeadlock, history
  <2> QED
    BY <1>1, <1>3, <2>2, <2>3, TypeMoves
<1>9. CASE DeleteFirst(c)
  <2>1. GoTo(c, "delete2") /\ "delete2" \in Steps /\ "delete2" \in Places(call[c].op)
    BY <1>1, <1>9 DEF DeleteFirst, Places, Steps
  <2>2. Moves(c) /\ call'[c].at = "delete2" /\ call'[c].adds = call[c].adds
    BY <2>1, GoToMoves DEF TypeInv
  <2> QED
    BY <1>1, <1>9, <2>1, <2>2, TypeMoves DEF DeleteFirst, history
<1>10. CASE DeleteSecond(c)
  <2>1. GoTo(c, "done")
    BY <1>10 DEF DeleteSecond
  <2>2. Moves(c) /\ call'[c].at = "done" /\ call'[c].adds = call[c].adds
    BY <1>3, <2>1, GoToMoves DEF TypeInv
  <2> QED
    BY <1>1, <1>3, <1>10, <2>2, TypeMoves DEF DeleteSecond
<1>11. CASE Fails(c)
  <2>1. PICK to \in {"done", "insert"} :
          GoTo(c, to) /\ (to = "insert" => call[c].at = "check")
    BY <1>11 DEF Fails
  <2>2. to \in Steps /\ to \in Places(call[c].op) /\ faults' \in 0 .. MaxFaults
    BY <1>1, <1>3, <1>11, <2>1, BoundsAssumption DEF Fails, Places, Steps
  <2>3. Moves(c) /\ call'[c].at = to /\ call'[c].adds = call[c].adds
    BY <2>1, <2>2, GoToMoves DEF TypeInv
  <2> QED
    BY <1>1, <1>11, <2>2, <2>3, TypeMoves DEF Fails
<1>12. CASE FirstGoesWrong(c)
  <2>1. faults' \in 0 .. MaxFaults
    BY <1>1, <1>12, BoundsAssumption DEF FirstGoesWrong
  <2>2. \/ GoTo(c, "done")
        \/ call' = [call EXCEPT ![c].at = "delete2", ![c].marred = TRUE]
    BY <1>12 DEF FirstGoesWrong
  <2>3. Moves(c) /\ call'[c].at \in {"done", "delete2"} /\ call'[c].adds = call[c].adds
    BY <1>3, <2>2, GoToMoves, MarMoves DEF TypeInv
  <2>4. call'[c].at \in Places(call[c].op)
    BY <1>1, <1>12, <2>3 DEF FirstGoesWrong, Places
  <2>5. /\ friends' \subseteq friends /\ torn' \subseteq torn \union {Pair(call[c].request)}
        /\ UNCHANGED <<requests, bond, withdrawn, made>>
    BY <1>12 DEF FirstGoesWrong
  <2> QED
    BY <1>1, <2>1, <2>3, <2>4, <2>5, TypeMoves
<1> QED
  BY <1>4, <1>5, <1>6, <1>7, <1>8, <1>9, <1>10, <1>11, <1>12 DEF Call

\* The initial tables and histories have their types.
LEMMA TypeInit == Init => TypeInv
<1> SUFFICES ASSUME Init PROVE TypeInv
  OBVIOUS
<1>1. call = <<>> /\ Len(call) = 0 /\ DOMAIN call = {}
  BY DEF Init
<1>2. call \in Seq(Calls)
  BY <1>1
<1>3. requests \subseteq Requests
  BY OldAssumption DEF Init
<1>4. friends \subseteq Users \X Users /\ bond \subseteq Pairs
  BY OldAssumption DEF Init, Rows
<1>5. Len(call) <= MaxCalls /\ faults \in 0 .. MaxFaults
  BY <1>1, BoundsAssumption DEF Init
<1>6. torn \subseteq Pairs /\ withdrawn \subseteq Requests /\ made \subseteq Requests
  BY DEF Init
<1>7. TypeOK
  BY <1>1, <1>2, <1>3, <1>4, <1>5, <1>6 DEF TypeOK, Calls
<1>8. Sound
  BY <1>1 DEF Sound
<1> QED
  BY <1>7, <1>8 DEF TypeInv

\* Every step keeps TypeInv.
LEMMA TypeNext == TypeInv /\ [Next]_vars => TypeInv'
<1> SUFFICES ASSUME TypeInv, [Next]_vars PROVE TypeInv'
  OBVIOUS
<1>1. CASE UNCHANGED vars
  <2>1. UNCHANGED <<requests, friends, call, faults, bond, torn, withdrawn, made>>
    BY <1>1 DEF vars, history
  <2>2. TypeOK'
    BY <2>1 DEF TypeInv, TypeOK
  <2>3. Sound'
    BY <2>1 DEF TypeInv, Sound
  <2> QED
    BY <2>2, <2>3 DEF TypeInv
<1> QED
  BY <1>1, TypeScreen, TypeCall DEF Next

\* The tables, the operations and the histories keep their types.
THEOREM TypeCorrect == Spec => []TypeOK
<1>1. TypeInv => TypeOK
  BY DEF TypeInv
<1> QED
  BY <1>1, TypeInit, TypeNext, PTL DEF Spec
=============================================================================
