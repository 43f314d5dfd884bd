------------------------------ MODULE Mailbox ------------------------------
(***************************************************************************)
(* What the ephemeral direct messages promise, without devices, requests,   *)
(* events or threads: a message is handed to the server once, is received   *)
(* by the other user, leaves the server for good, and its sender may be     *)
(* told of it.                                                              *)
(*                                                                          *)
(* Comments: setup_realtime_messages_ephemeral.sql (the purge of old rows)  *)
(* and SocialRepository.kt:1589-1594, 3650-3656, 4232-4235.                 *)
(***************************************************************************)
CONSTANT Msgs

VARIABLES
    phase,   \* message -> "unsent", "waiting" on the server, or "gone" from it
    got,     \* messages the receiver has stored or seen
    ticked   \* messages the sender's device calls delivered or read

vars == <<phase, got, ticked>>

Waiting == {m \in Msgs : phase[m] = "waiting"}
Sent    == {m \in Msgs : phase[m] # "unsent"}

Init ==
    /\ phase = [m \in Msgs |-> "unsent"]
    /\ got = {}
    /\ ticked = {}

\* The message reaches the server.
Send(m) ==
    /\ phase[m] = "unsent"
    /\ phase' = [phase EXCEPT ![m] = "waiting"]
    /\ UNCHANGED <<got, ticked>>

\* Receivers get messages that were sent, and keep what they have got; the
\* senders' ticks come and go, but only messages received have one.
Progress(new) ==
    /\ new \subseteq Sent
    /\ got' = got \cup new
    /\ ticked' \subseteq got'
    /\ UNCHANGED phase

\* A message its receiver has got leaves the server.
Remove(m) ==
    /\ m \in Waiting \cap got
    /\ phase' = [phase EXCEPT ![m] = "gone"]
    /\ UNCHANGED <<got, ticked>>

\* Messages older than two days leave it in any case.
Expire(old) ==
    /\ old \subseteq Waiting
    /\ phase' = [m \in Msgs |-> IF m \in old THEN "gone" ELSE phase[m]]
    /\ UNCHANGED <<got, ticked>>

Next ==
    \/ \E m \in Msgs : Send(m) \/ Remove(m)
    \/ \E ms \in SUBSET Msgs : Progress(ms) \/ Expire(ms)

Spec == Init /\ [][Next]_vars
=============================================================================
