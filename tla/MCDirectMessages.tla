------------------------- MODULE MCDirectMessages -------------------------
(* Small instances of DirectMessages for TLC. *)
EXTENDS MailboxRefinement, TLC

CONSTANTS alice, bob, m1, m2

\* One message from alice to bob.
OneFrom == m1 :> alice
OneTo   == m1 :> bob

\* Two of them.
TwoFrom == m1 :> alice @@ m2 :> alice
TwoTo   == m1 :> bob @@ m2 :> bob

\* States that differ only in what no step of a device reads again are explored
\* once: the pending status of a received message, and whether an unread one is
\* "sent" or "delivered" on its receiver's device.
Unread_(status) == IF status = "delivered" THEN "sent" ELSE status
Folded(copies) == [i \in DOMAIN copies |-> Unread_(copies[i])]
SeenCopies(copies) == [m \in Msgs |-> <<copies[From[m]][m], Folded(copies[To[m]][m])>>]
SeenFetch(u) ==
    IF \A m \in Msgs : From[m] = u THEN fetch[u]
    ELSE [fetch[u] EXCEPT
            !.snap = [m \in Msgs |-> IF From[m] = u THEN @[m] ELSE Folded(@[m])],
            !.rows = [m \in Msgs |-> IF From[m] = u THEN @[m] ELSE Unread_(@[m])]]
View ==
    << server, issued, purged, joined, ins, upd, open, sized, todo, held, send,
       calls, shown, faults, moves, SeenCopies(box), SeenCopies(list),
       [m \in Msgs |-> pend[From[m]][m]], [u \in Users |-> SeenFetch(u)] >>

\* The liveness run.  Steps of alice's device that bob's cannot notice come first: for
\* what is said of bob's device any other order of theirs gives the same.
AliceOpens == moves[alice] = 0
AliceWorks == fetch[alice].pc # "idle" \/ send[alice].pc # "idle"

\* Once the second message is sent, status events and markMessageAsDelivered are done
\* at once, and bob opens the screen once.  Before that nothing of bob's is ordered.
Delivering(u) == {c \in calls[u] : c.op \in {"patchDelivered", "noteDelivered"}}
First(u) ==
    IF upd[u] # <<>> THEN ReceiveStatus(u)
    ELSE Delivering(u) # {} =>
           \E c \in Delivering(u) : CallPatch(u, c) \/ CallNoteDelivered(u, c)

InOrder ==
    /\ IF AliceOpens THEN OpenChat(alice)
       ELSE IF AliceWorks THEN Fetching(alice) \/ Sending(alice)
       ELSE m2 \in issued => First(bob)
    /\ m2 \in issued' => m1 \in issued /\ moves'[bob] <= 1
LiveSpec == Init /\ [][Next /\ InOrder]_vars /\ Fairness

\* How often each of them opens or leaves the screen.
Moves11 == (alice :> 1) @@ (bob :> 1)
Moves12 == (alice :> 1) @@ (bob :> 2)
Moves13 == (alice :> 1) @@ (bob :> 3)
Moves23 == (alice :> 2) @@ (bob :> 3)
=============================================================================
