----------------------------- MODULE LlmSession -----------------------------
(***************************************************************************)
(* One native instance of a language model (LLMInference, llm_inference.cpp)*)
(* as a value and its calls as operators on it.  A message is its role and  *)
(* the set of the answers its words come from; lengths in bytes and tokens  *)
(* are counted in messages.                                                 *)
(***************************************************************************)
EXTENDS Naturals, Sequences

CONSTANT
  KeptMessages  \* messages left by a truncation: the first and the last ones

ASSUME KeptAssumption == KeptMessages \in Nat \ {0}

Message(role, text) == [role |-> role, text |-> text]

\* load_model: an empty transcript.  prev is prev_len, the messages that need
\* not be sent again; the batch is the messages after from up to upto; given
\* counts the messages that the KV cache holds without a gap, tokens missing within
\* an answer apart; cut says that a truncation dropped messages.
NewSession ==
  [messages |-> <<>>, prev |-> 0, from |-> 0, upto |-> 0, given |-> 0,
   response |-> {}, cut |-> FALSE]

\* add_chat_message refuses an empty text.
AddMessage(s, role, text) ==
  IF text = {} THEN s
  ELSE [s EXCEPT !.messages = Append(@, Message(role, text))]

\* The first message and the last KeptMessages - 1 of them.
Truncated(messages) ==
  IF Len(messages) <= KeptMessages THEN messages
  ELSE <<messages[1]>> \o
       SubSeq(messages, Len(messages) - KeptMessages + 2, Len(messages))

\* A faulty variant of StartCompletion: prev_len survives a truncation.
KeepLength(s, text, long) ==
  LET asked == AddMessage(s, "user", text)
  IN  IF ~long THEN asked
      ELSE [asked EXCEPT !.messages = Truncated(@), !.from = 0, !.upto = 0, !.given = 0,
                         !.cut = Len(asked.messages) > KeptMessages \/ @]

\* start_completion, first part: the question joins the transcript.  Is what is to
\* be sent too long for the context, old messages go and all others are sent again;
\* a batch that another completion left is of none of them.
StartCompletion(s, text, long) ==
  LET asked == AddMessage(s, "user", text)
  IN  IF ~long THEN asked
      ELSE [asked EXCEPT !.messages = Truncated(@), !.prev = 0, !.from = 0, !.upto = 0,
                         !.given = 0,
                         !.cut = Len(asked.messages) > KeptMessages \/ @]

\* Second part: the messages after prev_len, as it is now, are the prompt.
Batched(s) == [s EXCEPT !.from = s.prev, !.upto = Len(s.messages)]

\* completion_loop, first part: llama_decode computes the batch, which is the
\* prompt and then one token after the other; a prompt that begins after
\* messages the cache does not hold leaves them out.  Was the batch not held, the
\* cache is without it.
Decode(s, held) == IF s.given < s.from \/ ~held THEN s ELSE [s EXCEPT !.given = s.upto]

\* Second part: a token is sampled, its words join the response; it is the next batch.
Sample(s, text) == [s EXCEPT !.response = @ \union text, !.from = s.upto]

\* Faulty variants of StopCompletion and CancelCompletion: the response stays.
StopKeepsResponse(s) ==
  LET kept == AddMessage(s, "assistant", s.response)
  IN  [kept EXCEPT !.prev = Len(kept.messages),
                   !.given = IF @ = Len(s.messages) THEN Len(kept.messages) ELSE @]

CancelKeepsResponse(s) == [s EXCEPT !.prev = Len(s.messages)]

\* stop_completion keeps the response as a message, cancel_completion drops
\* it; both take all messages so far for sent.
StopCompletion(s) ==
  LET kept == AddMessage(s, "assistant", s.response)
  IN  [kept EXCEPT !.response = {}, !.prev = Len(kept.messages),
                   !.given = IF @ = Len(s.messages) THEN Len(kept.messages) ELSE @]

CancelCompletion(s) == [s EXCEPT !.response = {}, !.prev = Len(s.messages)]
=============================================================================
