------------------------- MODULE MailboxRefinement -------------------------
(***************************************************************************)
(* The direct messages of two devices and a server implement the mailbox.   *)
(***************************************************************************)
EXTENDS DirectMessages

phase ==
    [m \in Msgs |-> IF m \notin issued THEN "unsent"
                    ELSE IF server[m] = Absent THEN "gone" ELSE "waiting"]

got == {m \in Msgs : Received(m)}

ticked == {m \in Msgs : HasTick(list[From[m]][m]) \/ HasTick(box[From[m]][m])}

M == INSTANCE Mailbox WITH
    Msgs <- Msgs, phase <- phase, got <- got, ticked <- ticked

\* The conversation behaves as the mailbox: a row is inserted once and does not
\* come back after it was deleted (a late PATCH of markMessageAsDelivered or
\* markMessageAsRead does not revive it), only received or purged messages
\* leave the server, only messages that were sent are received, a received
\* message is not forgotten, and the ticks stay true.
ImplementsMailbox == M!Spec
=============================================================================
