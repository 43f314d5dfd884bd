------------------------ MODULE ChatGeneration_proofs ------------------------
(***************************************************************************)
(* Theorems about ChatGeneration: types, the flag of an answer, the model's *)
(* response, the stored answers and the transcript the model was given.     *)
(***************************************************************************)
EXTENDS ChatGeneration, SequenceTheorems, FiniteSetTheorems, TLAPS

JobRecord == [at : JobSteps, chat : Chats, object : 0 .. MaxLoads,
              cancelled : BOOLEAN, erred : BOOLEAN]
LoadRecord == [at : LoadSteps, chat : Chats, object : 0 .. MaxLoads,
               todo : Seq(Messages)]
SessionRecord == [messages : Seq(Messages), prev : Nat, from : Nat, upto : Nat,
                  given : Nat, response : SUBSET Jobs, cut : BOOLEAN]

\* prev_len, the batch and the KV cache never exceed the transcript.
SessionOK(s) ==
  /\ s \in SessionRecord
  /\ s.prev <= Len(s.messages) /\ s.given <= Len(s.messages)
  /\ s.from <= s.upto /\ s.upto <= Len(s.messages)

-----------------------------------------------------------------------------
(* The calls of a native instance.                                         *)

\* The bounds are numbers; questions and loads are numbers from 1 on.
LEMMA Bounds ==
  /\ MaxAsked \in Nat /\ MaxLoads \in Nat /\ MaxStarted \in Nat /\ First \in Chats
  /\ Jobs \subseteq Nat \ {0} /\ Jobs \subseteq 0 .. MaxAsked
  /\ Loads \subseteq Nat \ {0} /\ 0 .. MaxLoads = Loads \union {0}
  /\ \A q \in Jobs : {q} \in SUBSET (0 .. MaxAsked)
  /\ \A r \in SUBSET Jobs : r \in SUBSET (0 .. MaxAsked)
  /\ KeptMessages \in Nat \ {0}
  BY BoundsAssumption, KeptAssumption DEF Jobs, Loads

\* A message is a record of its role and its text.
LEMMA MessageFields ==
  ASSUME NEW role, NEW text
  PROVE  /\ Message(role, text).role = role /\ Message(role, text).text = text
         /\ role \in {"user", "assistant"} /\ text \in SUBSET (0 .. MaxAsked)
              => Message(role, text) \in Messages
  BY DEF Message, Messages

\* add_chat_message appends the message, unless its text is empty.
LEMMA Added ==
  ASSUME NEW s, SessionOK(s), NEW role \in {"user", "assistant"},
         NEW text \in SUBSET (0 .. MaxAsked)
  PROVE  LET a == AddMessage(s, role, text)
         IN  /\ SessionOK(a)
             /\ a.messages = IF text = {} THEN s.messages
                             ELSE Append(s.messages, Message(role, text))
             /\ a.prev = s.prev /\ a.from = s.from /\ a.upto = s.upto
             /\ a.given = s.given /\ a.response = s.response /\ a.cut = s.cut
             /\ Len(s.messages) <= Len(a.messages)
  <1> DEFINE longer == Append(s.messages, Message(role, text))
  <1>0. s.messages \in Seq(Messages) /\ Message(role, text) \in Messages
    BY MessageFields DEF SessionOK, SessionRecord
  <1>1. longer \in Seq(Messages) /\ Len(longer) = Len(s.messages) + 1
        /\ Len(s.messages) \in Nat
    BY <1>0
  <1>2. CASE text = {}
    BY <1>1, <1>2 DEF AddMessage, SessionOK
  <1>3. CASE text # {}
    <2>1. AddMessage(s, role, text) = [s EXCEPT !.messages = longer]
      BY <1>3 DEF AddMessage
    <2> HIDE DEF longer
    <2>2. PICK a \in SessionRecord : a = [s EXCEPT !.messages = longer]
      BY <1>1 DEF SessionOK, SessionRecord
    <2>3. /\ a.messages = longer /\ a.prev = s.prev /\ a.from = s.from
          /\ a.upto = s.upto /\ a.given = s.given
          /\ a.response = s.response /\ a.cut = s.cut
      BY <2>2 DEF SessionOK, SessionRecord
    <2>4. SessionOK(a) /\ Len(s.messages) <= Len(a.messages)
      BY SMTT(30), <1>1, <2>2, <2>3 DEF SessionOK, SessionRecord
    <2> QED
      BY <1>3, <2>1, <2>2, <2>3, <2>4 DEF longer
  <1> QED
    BY <1>2, <1>3

\* A truncation leaves the first message and the last ones in their order: a map from the
\* places that are left to the old places.
LEMMA TruncatedPlaces ==
  ASSUME NEW messages0 \in Seq(Messages)
  PROVE  /\ Truncated(messages0) \in Seq(Messages)
         /\ Len(messages0) <= KeptMessages => Truncated(messages0) = messages0
         /\ \A i \in DOMAIN Truncated(messages0) : \E n \in DOMAIN messages0 :
               Truncated(messages0)[i] = messages0[n]
         /\ \A i, j \in DOMAIN Truncated(messages0) : i < j =>
               \E n, m \in DOMAIN messages0 :
                  /\ n < m /\ Truncated(messages0)[i] = messages0[n]
                  /\ Truncated(messages0)[j] = messages0[m]
  <1> DEFINE len == Len(messages0)
             t == Truncated(messages0)
             k == KeptMessages
  <1>1. len \in Nat /\ k \in Nat /\ k > 0 /\ DOMAIN messages0 = 1 .. len
    BY Bounds
  <1>2. CASE len <= k
    BY <1>1, <1>2 DEF Truncated
  <1>3. CASE len > k
    <2> DEFINE tail == SubSeq(messages0, len - k + 2, len)
    <2>1. /\ tail \in Seq(Messages) /\ Len(tail) = k - 1
          /\ \A i \in 1 .. k - 1 : tail[i] = messages0[len - k + 1 + i]
      <3>1. len - k + 2 \in Nat /\ len - k + 2 >= 1
        BY <1>1, <1>3
      <3>2. \A i \in len - k + 2 .. len : messages0[i] \in Messages
        BY <1>1, <3>1
      <3> QED
        BY <1>1, <1>3, <3>1, <3>2
    <2>2. t = <<messages0[1]>> \o tail
      BY <1>1, <1>3 DEF Truncated
    <2> HIDE DEF tail
    <2>3. messages0[1] \in Messages
      BY <1>1, <1>3
    <2>4. /\ t \in Seq(Messages) /\ DOMAIN t = 1 .. k /\ t[1] = messages0[1]
          /\ \A i \in 2 .. k : t[i] = messages0[len - k + i]
      <3> DEFINE one == <<messages0[1]>>
      <3>1. one \in Seq(Messages) /\ Len(one) = 1 /\ one[1] = messages0[1]
        BY <2>3
      <3> HIDE DEF one
      <3>2. t = one \o tail
        BY <2>2 DEF one
      <3> HIDE DEF t
      <3>3. /\ t \in Seq(Messages) /\ Len(t) = 1 + (k - 1)
            /\ \A i \in 1 .. 1 + (k - 1) : t[i] = IF i <= 1 THEN one[i] ELSE tail[i - 1]
        <4>1. /\ one \o tail \in Seq(Messages) /\ Len(one \o tail) = Len(one) + Len(tail)
              /\ \A i \in 1 .. Len(one) + Len(tail) :
                    (one \o tail)[i] = IF i <= Len(one) THEN one[i] ELSE tail[i - Len(one)]
          BY <2>1, <3>1, ConcatProperties
        <4> QED
          BY <2>1, <3>1, <3>2, <4>1
      <3>4. t[1] = messages0[1]
        BY <1>1, <3>1, <3>3
      <3>5. ASSUME NEW i \in 2 .. k PROVE t[i] = messages0[len - k + i]
        <4>1. t[i] = tail[i - 1] /\ i - 1 \in 1 .. k - 1
          BY <1>1, <3>3, <3>5
        <4>2. tail[i - 1] = messages0[len - k + 1 + (i - 1)]
          BY <2>1, <4>1
        <4>3. len - k + 1 + (i - 1) = len - k + i
          BY <1>1
        <4> QED
          BY <4>1, <4>2, <4>3
      <3> QED
        BY <1>1, <3>3, <3>4, <3>5
    <2> HIDE DEF t
    <2>5. \A i \in 1 .. k : t[i] = messages0[IF i = 1 THEN 1 ELSE len - k + i]
      BY <1>1, <2>4
    <2>6. \A i \in 1 .. k : (IF i = 1 THEN 1 ELSE len - k + i) \in 1 .. len
      BY <1>1, <1>3
    <2>7. \A i, j \in 1 .. k :
             i < j => (IF i = 1 THEN 1 ELSE len - k + i) < (IF j = 1 THEN 1 ELSE len - k + j)
      BY <1>1, <1>3
    <2>8. \A i \in DOMAIN t : \E n \in DOMAIN messages0 : t[i] = messages0[n]
      BY <1>1, <2>4, <2>5, <2>6
    <2>9. ASSUME NEW i \in DOMAIN t, NEW j \in DOMAIN t, i < j
          PROVE  \E n, m \in DOMAIN messages0 :
                    n < m /\ t[i] = messages0[n] /\ t[j] = messages0[m]
      <3> DEFINE n == IF i = 1 THEN 1 ELSE len - k + i
                 m == IF j = 1 THEN 1 ELSE len - k + j
      <3>1. n \in DOMAIN messages0 /\ m \in DOMAIN messages0 /\ n < m
        BY <1>1, <2>4, <2>6, <2>7, <2>9
      <3>2. t[i] = messages0[n] /\ t[j] = messages0[m]
        BY <2>4, <2>5
      <3> QED
        BY <3>1, <3>2
    <2> QED
      BY <1>1, <1>3, <2>4, <2>8, <2>9 DEF t
  <1> QED
    BY <1>1, <1>2, <1>3

\* The batch goes from prev_len to the end of the transcript.
LEMMA BatchedFields ==
  ASSUME NEW s, SessionOK(s)
  PROVE  LET a == Batched(s)
         IN  /\ SessionOK(a) /\ a.messages = s.messages /\ a.prev = s.prev
             /\ a.from = s.prev /\ a.upto = Len(s.messages) /\ a.given = s.given
             /\ a.response = s.response /\ a.cut = s.cut
  <1>1. /\ s \in SessionRecord /\ Len(s.messages) \in Nat
        /\ s.prev <= Len(s.messages) /\ s.given <= Len(s.messages)
    BY DEF SessionOK, SessionRecord
  <1>2. PICK a \in SessionRecord : a = [s EXCEPT !.from = s.prev, !.upto = Len(s.messages)]
    BY <1>1 DEF SessionRecord
  <1>3. /\ a.messages = s.messages /\ a.prev = s.prev
        /\ a.from = s.prev /\ a.upto = Len(s.messages) /\ a.given = s.given
        /\ a.response = s.response /\ a.cut = s.cut
    BY <1>1, <1>2 DEF SessionRecord
  <1>4. SessionOK(a)
    BY <1>1, <1>2, <1>3 DEF SessionOK
  <1>5. Batched(s) = a
    BY <1>2 DEF Batched
  <1> QED
    BY <1>3, <1>4, <1>5

\* start_completion adds the question; when the prompt is too long it drops old messages
\* and sends all the others again.
LEMMA Started ==
  ASSUME NEW s, SessionOK(s), NEW text \in SUBSET (0 .. MaxAsked), text # {},
         NEW long \in BOOLEAN
  PROVE  LET a == StartCompletion(s, text, long)
             longer == Append(s.messages, Message("user", text))
         IN  /\ SessionOK(a) /\ a.response = s.response
             /\ \/ /\ a.messages = longer /\ a.cut = s.cut
                   /\ a.prev = s.prev /\ a.given = s.given
                \/ /\ a.messages = Truncated(longer) /\ a.prev = 0 /\ a.given = 0
                   /\ s.cut => a.cut
                   /\ a.cut \/ a.messages = longer
  <1> DEFINE b == AddMessage(s, "user", text)
             longer == Append(s.messages, Message("user", text))
             cut == Len(b.messages) > KeptMessages \/ b.cut
             all == [b EXCEPT !.messages = Truncated(b.messages), !.prev = 0, !.from = 0,
                              !.upto = 0, !.given = 0,
                              !.cut = Len(b.messages) > KeptMessages \/ b.cut]
  <1>1. /\ SessionOK(b) /\ b.messages = longer /\ b.prev = s.prev /\ b.given = s.given
        /\ b.response = s.response /\ b.cut = s.cut
    BY Added
  <1>0. StartCompletion(s, text, long) = IF ~long THEN b ELSE all
    BY DEF StartCompletion
  <1>2. CASE ~long
    <2> HIDE DEF b, longer
    <2> QED
      BY <1>0, <1>1, <1>2 DEF longer
  <1>3. CASE long
    <2> HIDE DEF b
    <2>1. longer \in Seq(Messages) /\ s.cut \in BOOLEAN
      BY <1>1 DEF SessionOK, SessionRecord
    <2>2. /\ Truncated(longer) \in Seq(Messages)
          /\ Len(longer) <= KeptMessages => Truncated(longer) = longer
      BY <2>1, TruncatedPlaces
    <2>4. cut \in BOOLEAN /\ 0 \in Nat /\ (cut <=> Len(longer) > KeptMessages \/ s.cut)
      BY <1>1, <2>1
    <2>3. all = [b EXCEPT !.messages = Truncated(b.messages), !.prev = 0, !.from = 0,
                          !.upto = 0, !.given = 0, !.cut = cut]
      OBVIOUS
    <2> HIDE DEF longer, cut, all
    <2>5. PICK c \in SessionRecord :
             c = [b EXCEPT !.messages = Truncated(b.messages), !.prev = 0, !.from = 0,
                           !.upto = 0, !.given = 0, !.cut = cut]
      BY <1>1, <2>2, <2>4 DEF SessionOK, SessionRecord
    <2>6. /\ c.messages = Truncated(longer) /\ c.prev = 0 /\ c.given = 0
          /\ c.from = 0 /\ c.upto = 0 /\ c.cut = cut /\ c.response = s.response
      BY <1>1, <2>5 DEF SessionOK, SessionRecord
    <2>7. Len(c.messages) \in Nat /\ Len(longer) \in Nat
      BY <2>1, <2>2, <2>6
    <2>8. SessionOK(c)
      BY <2>6, <2>7 DEF SessionOK
    <2>9. StartCompletion(s, text, long) = c
      BY <1>0, <1>3, <2>3, <2>5
    <2>10. c.cut \/ c.messages = longer
      BY <2>2, <2>4, <2>6, <2>7, Bounds
    <2> QED
      BY <2>4, <2>6, <2>8, <2>9, <2>10 DEF longer
  <1> QED
    BY <1>2, <1>3

\* llama_decode: a batch that follows what the context holds is held, or is not.
LEMMA Decoded ==
  ASSUME NEW s, SessionOK(s), NEW held \in BOOLEAN
  PROVE  LET a == Decode(s, held)
         IN  /\ SessionOK(a) /\ a.messages = s.messages /\ a.prev = s.prev
             /\ a.from = s.from /\ a.upto = s.upto
             /\ a.response = s.response /\ a.cut = s.cut
             /\ a.given = IF s.given < s.from \/ ~held THEN s.given ELSE s.upto
  <1>1. /\ s \in SessionRecord /\ Len(s.messages) \in Nat /\ s.upto <= Len(s.messages)
        /\ s.prev <= Len(s.messages) /\ s.from <= s.upto /\ s.upto \in Nat
    BY DEF SessionOK, SessionRecord
  <1>2. PICK a \in SessionRecord : a = [s EXCEPT !.given = s.upto]
    BY <1>1 DEF SessionRecord
  <1>3. /\ a.messages = s.messages /\ a.prev = s.prev
        /\ a.from = s.from /\ a.upto = s.upto
        /\ a.response = s.response /\ a.cut = s.cut
        /\ a.given = s.upto
    BY <1>1, <1>2 DEF SessionRecord
  <1>4. Decode(s, held) = IF s.given < s.from \/ ~held THEN s ELSE a
    BY <1>2 DEF Decode
  <1>5. SessionOK(a)
    BY <1>1, <1>3 DEF SessionOK
  <1> QED
    BY <1>3, <1>4, <1>5

\* A token is sampled: its words join the response, and it is the next batch.
LEMMA Sampled ==
  ASSUME NEW s, SessionOK(s), NEW text \in SUBSET Jobs
  PROVE  LET a == Sample(s, text)
         IN  /\ SessionOK(a) /\ a.messages = s.messages /\ a.prev = s.prev
             /\ a.from = s.upto /\ a.upto = s.upto
             /\ a.given = s.given /\ a.cut = s.cut
             /\ a.response = s.response \union text
  <1>1. /\ s \in SessionRecord /\ Len(s.messages) \in Nat /\ s.upto <= Len(s.messages)
        /\ s.prev <= Len(s.messages) /\ s.given <= Len(s.messages) /\ s.upto \in Nat
    BY DEF SessionOK, SessionRecord
  <1>2. PICK a \in SessionRecord :
           a = [s EXCEPT !.response = s.response \union text, !.from = s.upto]
    BY <1>1 DEF SessionRecord
  <1>3. /\ a.messages = s.messages /\ a.prev = s.prev
        /\ a.from = s.upto /\ a.upto = s.upto
        /\ a.given = s.given /\ a.cut = s.cut
        /\ a.response = s.response \union text
    BY <1>1, <1>2 DEF SessionRecord
  <1>4. Sample(s, text) = a
    BY <1>2 DEF Sample
  <1>5. SessionOK(a)
    BY <1>1, <1>3 DEF SessionOK
  <1> QED
    BY <1>3, <1>4, <1>5

\* cancel_completion drops the response and takes all messages for sent.
LEMMA Cancelled ==
  ASSUME NEW s, SessionOK(s)
  PROVE  LET a == CancelCompletion(s)
         IN  /\ SessionOK(a) /\ a.messages = s.messages /\ a.given = s.given
             /\ a.from = s.from /\ a.upto = s.upto
             /\ a.cut = s.cut /\ a.response = {} /\ a.prev = Len(a.messages)
  <1>1. s \in SessionRecord /\ Len(s.messages) \in Nat
    BY DEF SessionOK, SessionRecord
  <1>2. PICK a \in SessionRecord : a = [s EXCEPT !.response = {}, !.prev = Len(s.messages)]
    BY <1>1 DEF SessionRecord
  <1>3. /\ a.messages = s.messages /\ a.given = s.given
        /\ a.from = s.from /\ a.upto = s.upto
        /\ a.cut = s.cut /\ a.response = {} /\ a.prev = Len(a.messages)
    BY <1>1, <1>2 DEF SessionRecord
  <1>4. CancelCompletion(s) = a
    BY <1>2 DEF CancelCompletion
  <1>5. SessionOK(a)
    BY <1>1, <1>2, <1>3 DEF SessionOK
  <1> QED
    BY <1>3, <1>4, <1>5

\* stop_completion keeps the response as a message and takes all messages for sent; when
\* the context held the transcript before, it holds it afterwards.
LEMMA Stopped ==
  ASSUME NEW s, SessionOK(s)
  PROVE  LET a == StopCompletion(s)
         IN  /\ SessionOK(a) /\ a.cut = s.cut /\ a.response = {}
             /\ a.messages = IF s.response = {} THEN s.messages
                             ELSE Append(s.messages, Message("assistant", s.response))
             /\ a.prev = Len(a.messages)
             /\ s.given = Len(s.messages) => a.given = Len(a.messages)
  <1> DEFINE b == AddMessage(s, "assistant", s.response)
             given == IF b.given = Len(s.messages) THEN Len(b.messages) ELSE b.given
  <1>0. s.response \in SUBSET (0 .. MaxAsked) /\ Len(s.messages) \in Nat
    <2>1. s.response \in SUBSET Jobs /\ s.messages \in Seq(Messages)
      BY DEF SessionOK, SessionRecord
    <2>2. Len(s.messages) \in Nat
      BY <2>1
    <2> QED
      BY <2>1, <2>2, Bounds
  <1>1. /\ SessionOK(b) /\ b.prev = s.prev /\ b.given = s.given
        /\ b.messages = IF s.response = {} THEN s.messages
                        ELSE Append(s.messages, Message("assistant", s.response))
        /\ b.response = s.response /\ b.cut = s.cut /\ Len(s.messages) <= Len(b.messages)
    BY <1>0, Added
  <1>2. StopCompletion(s) = [b EXCEPT !.response = {}, !.prev = Len(b.messages),
                                      !.given = given]
    BY DEF StopCompletion
  <1> HIDE DEF b
  <1>3. b \in SessionRecord /\ Len(b.messages) \in Nat
    BY <1>1 DEF SessionOK, SessionRecord
  <1>4. given \in Nat /\ given <= Len(b.messages)
        /\ (s.given = Len(s.messages) => given = Len(b.messages))
    BY <1>1, <1>3 DEF SessionOK, SessionRecord
  <1> HIDE DEF given
  <1>5. PICK a \in SessionRecord :
           a = [b EXCEPT !.response = {}, !.prev = Len(b.messages), !.given = given]
    BY <1>3, <1>4 DEF SessionRecord
  <1>6. /\ a.messages = b.messages /\ a.given = given
        /\ a.from = b.from /\ a.upto = b.upto
        /\ a.cut = b.cut /\ a.response = {} /\ a.prev = Len(a.messages)
    BY <1>3, <1>5 DEF SessionRecord
  <1>8. b.from <= b.upto /\ b.upto <= Len(b.messages)
    BY <1>1 DEF SessionOK
  <1>7. SessionOK(a)
    BY <1>3, <1>4, <1>5, <1>6, <1>8 DEF SessionOK
  <1> QED
    BY <1>1, <1>2, <1>4, <1>5, <1>6, <1>7

-----------------------------------------------------------------------------
(* What the actions do, record by record.                                  *)

\* Questions and loads are started in the order of their numbers, and there is a place
\* left for the load of the pending effect.
Ordered ==
  /\ \A q \in Jobs : job[q].at = "none" <=> q > asked
  /\ \A l \in Loads : load[l].at = "none" <=> l > loads
  /\ effect => loads < MaxLoads

Types == TypeOK /\ Ordered

\* The types, record by record.
LEMMA Typed ==
  Types => /\ currChat \in Chats /\ hasModel \in [Chats -> BOOLEAN]
           /\ effect \in BOOLEAN /\ isGeneratingResponse \in BOOLEAN
           /\ isInitializingModel \in BOOLEAN /\ crossed \in BOOLEAN /\ mixed \in BOOLEAN
           /\ early \in BOOLEAN
           /\ partialResponse \in SUBSET Jobs /\ commands \in SUBSET Jobs
           /\ messages \in [Chats -> Seq(Messages)]
           /\ asked \in 0 .. MaxAsked /\ loads \in 0 .. MaxLoads
           /\ asked \in Nat /\ loads \in Nat
           /\ job \in [Jobs -> JobRecord]
           /\ load \in [Loads -> LoadRecord]
           /\ localOrabel \in 0 .. MaxLoads /\ nativePtr \in [Loads -> 0 .. MaxLoads]
           /\ session \in [Loads -> SessionRecord]
           /\ \A l \in Loads : SessionOK(session[l])
  BY DEF Types, TypeOK, JobRecord, LoadRecord, SessionRecord, SessionOK

\* The types, record by record.
Records ==
  /\ currChat \in Chats /\ hasModel \in [Chats -> BOOLEAN]
  /\ effect \in BOOLEAN /\ isGeneratingResponse \in BOOLEAN
  /\ isInitializingModel \in BOOLEAN /\ crossed \in BOOLEAN /\ mixed \in BOOLEAN
  /\ early \in BOOLEAN
  /\ partialResponse \in SUBSET Jobs /\ commands \in SUBSET Jobs
  /\ messages \in [Chats -> Seq(Messages)]
  /\ asked \in 0 .. MaxAsked /\ loads \in 0 .. MaxLoads
  /\ job \in [Jobs -> JobRecord]
  /\ load \in [Loads -> LoadRecord]
  /\ localOrabel \in 0 .. MaxLoads /\ nativePtr \in [Loads -> 0 .. MaxLoads]
  /\ session \in [Loads -> SessionRecord]
  /\ \A l \in Loads : SessionOK(session[l])

\* The types of the variables follow from those of the records.
LEMMA TypedAgain == Records /\ Ordered => Types
  BY DEF Types, TypeOK, Records, JobRecord, LoadRecord, SessionRecord, SessionOK

\* A call of an Orabel object changes its native instance and no other.
LEMMA Applied ==
  ASSUME Types, NEW o \in 0 .. MaxLoads, NEW x, Ptr(o) # 0 => SessionOK(x), Apply(o, x)
  PROVE  /\ session' \in [Loads -> SessionRecord]
         /\ \A l \in Loads : SessionOK(session'[l])
         /\ \A l \in Loads : session'[l] = IF l = Ptr(o) THEN x ELSE session[l]
  <1>1. /\ session \in [Loads -> SessionRecord] /\ \A l \in Loads : SessionOK(session[l])
        /\ Ptr(o) \in Loads \union {0} /\ 0 \notin Loads
    BY Typed, Bounds DEF Ptr
  <1>2. CASE Ptr(o) = 0
    BY <1>1, <1>2 DEF Apply
  <1>3. CASE Ptr(o) # 0
    BY <1>1, <1>3 DEF Apply, SessionOK
  <1> QED
    BY <1>2, <1>3

\* The instance behind an object, if there is one.
LEMMA OfTyped ==
  ASSUME Types, NEW o \in 0 .. MaxLoads, Ptr(o) # 0
  PROVE  Ptr(o) \in Loads /\ SessionOK(Of(o)) /\ Of(o) = session[Ptr(o)]
  BY Typed, Bounds DEF Ptr, Of

\* A step of an answer's coroutine that changes its place only.
LEMMA JobGoes ==
  ASSUME Types, NEW q \in Jobs, NEW to \in JobSteps, job' = [job EXCEPT ![q].at = to]
  PROVE  /\ job' \in [Jobs -> JobRecord]
         /\ \A r \in Jobs :
               /\ job'[r].at = IF r = q THEN to ELSE job[r].at
               /\ job'[r].chat = job[r].chat /\ job'[r].object = job[r].object
               /\ job'[r].cancelled = job[r].cancelled /\ job'[r].erred = job[r].erred
  <1>1. job \in [Jobs -> JobRecord]
    BY Typed
  <1>2. PICK x \in JobRecord : x = [job[q] EXCEPT !.at = to]
    BY <1>1 DEF JobRecord
  <1>3. /\ x.at = to /\ x.chat = job[q].chat /\ x.object = job[q].object
        /\ x.cancelled = job[q].cancelled /\ x.erred = job[q].erred
    BY <1>1, <1>2 DEF JobRecord
  <1>4. job' = [job EXCEPT ![q] = x]
    BY <1>1, <1>2
  <1> QED
    BY <1>1, <1>3, <1>4

\* The coroutine takes the Orabel object in use.
LEMMA Asks ==
  ASSUME Types, NEW q \in Jobs, Ask(q)
  PROVE  /\ job' \in [Jobs -> JobRecord]
         /\ job[q].at = "asking"
         /\ \A r \in Jobs :
               /\ job'[r].at = IF r # q THEN job[r].at
                               ELSE IF localOrabel = 0 THEN "emitting" ELSE "starting"
               /\ job'[r].object = IF r = q THEN localOrabel ELSE job[r].object
               /\ job'[r].chat = job[r].chat
               /\ job'[r].cancelled = job[r].cancelled /\ job'[r].erred = job[r].erred
  <1> DEFINE to == IF localOrabel = 0 THEN "emitting" ELSE "starting"
  <1>1. /\ job \in [Jobs -> JobRecord] /\ localOrabel \in 0 .. MaxLoads /\ to \in JobSteps
        /\ job[q].at = "asking"
        /\ job' = [job EXCEPT ![q].at = to, ![q].object = localOrabel]
    BY Typed DEF JobSteps, Ask
  <1> HIDE DEF to
  <1>2. PICK x \in JobRecord : x = [job[q] EXCEPT !.at = to, !.object = localOrabel]
    BY <1>1 DEF JobRecord
  <1>3. /\ x.at = to /\ x.chat = job[q].chat /\ x.object = localOrabel
        /\ x.cancelled = job[q].cancelled /\ x.erred = job[q].erred
    BY <1>1, <1>2 DEF JobRecord
  <1>4. job' = [job EXCEPT ![q] = x]
    BY <1>1, <1>2
  <1> QED
    BY <1>1, <1>3, <1>4 DEF to

\* The coroutine's place and its erred flag change: decoding failed or read other tokens.
LEMMA JobErrs ==
  ASSUME Types, NEW q \in Jobs, NEW to \in JobSteps,
         job' = [job EXCEPT ![q].at = to, ![q].erred = TRUE]
  PROVE  /\ job' \in [Jobs -> JobRecord]
         /\ \A r \in Jobs :
               /\ job'[r].at = IF r = q THEN to ELSE job[r].at
               /\ job'[r].chat = job[r].chat /\ job'[r].object = job[r].object
               /\ job'[r].cancelled = job[r].cancelled
               /\ job'[r].erred = IF r = q THEN TRUE ELSE job[r].erred
  <1>1. job \in [Jobs -> JobRecord]
    BY Typed
  <1>2. PICK x \in JobRecord : x = [job[q] EXCEPT !.at = to, !.erred = TRUE]
    BY <1>1 DEF JobRecord
  <1>3. /\ x.at = to /\ x.chat = job[q].chat /\ x.object = job[q].object
        /\ x.cancelled = job[q].cancelled /\ x.erred = TRUE
    BY <1>1, <1>2 DEF JobRecord
  <1>4. job' = [job EXCEPT ![q] = x]
    BY <1>1, <1>2
  <1> QED
    BY <1>1, <1>3, <1>4

\* The coroutine has ended and holds no object.
LEMMA JobEnds ==
  ASSUME Types, NEW q \in Jobs, EndJob(q)
  PROVE  /\ job' \in [Jobs -> JobRecord]
         /\ job[q].at = "ending"
         /\ \A r \in Jobs :
               /\ job'[r].at = IF r = q THEN "done" ELSE job[r].at
               /\ job'[r].object = IF r = q THEN 0 ELSE job[r].object
               /\ job'[r].chat = job[r].chat
               /\ job'[r].cancelled = job[r].cancelled /\ job'[r].erred = job[r].erred
  <1>1. /\ job \in [Jobs -> JobRecord] /\ job[q].at = "ending" /\ 0 \in 0 .. MaxLoads
        /\ job' = [job EXCEPT ![q].at = "done", ![q].object = 0] /\ "done" \in JobSteps
    BY Typed, Bounds DEF EndJob, JobSteps
  <1>2. PICK x \in JobRecord : x = [job[q] EXCEPT !.at = "done", !.object = 0]
    BY <1>1 DEF JobRecord
  <1>3. /\ x.at = "done" /\ x.chat = job[q].chat /\ x.object = 0
        /\ x.cancelled = job[q].cancelled /\ x.erred = job[q].erred
    BY <1>1, <1>2 DEF JobRecord
  <1>4. job' = [job EXCEPT ![q] = x]
    BY <1>1, <1>2
  <1> QED
    BY <1>1, <1>3, <1>4

\* A question is sent: the next coroutine starts.
LEMMA Sends ==
  ASSUME Types, SendUserQuery
  PROVE  /\ asked + 1 \in Jobs /\ asked' = asked + 1 /\ job[asked + 1].at = "none"
         /\ job' \in [Jobs -> JobRecord]
         /\ \A r \in Jobs :
               /\ job'[r].at = IF r = asked + 1 THEN "analysing" ELSE job[r].at
               /\ job'[r].chat = IF r = asked + 1 THEN currChat ELSE job[r].chat
               /\ job'[r].object = job[r].object
               /\ job'[r].cancelled = job[r].cancelled /\ job'[r].erred = job[r].erred
         /\ messages' \in [Chats -> Seq(Messages)]
         /\ messages' = [messages EXCEPT ![currChat] =
                           Append(messages[currChat], Message("user", {asked + 1}))]
         /\ Message("user", {asked + 1}) \in Messages
  <1> DEFINE q == asked + 1
  <1>1. /\ job \in [Jobs -> JobRecord] /\ asked \in Nat /\ asked < MaxAsked
        /\ currChat \in Chats /\ messages \in [Chats -> Seq(Messages)]
        /\ MaxAsked \in Nat /\ "analysing" \in JobSteps
    BY Typed, Bounds DEF SendUserQuery, MayAsk, JobSteps
  <1>2. q \in Jobs
    BY <1>1 DEF Jobs
  <1>3. job[q].at = "none"
    BY <1>1, <1>2 DEF Types, Ordered
  <1>4. job' = [job EXCEPT ![q].at = "analysing", ![q].chat = currChat] /\ asked' = q
    BY DEF SendUserQuery
  <1> HIDE DEF q
  <1>5. PICK x \in JobRecord : x = [job[q] EXCEPT !.at = "analysing", !.chat = currChat]
    BY <1>1, <1>2 DEF JobRecord
  <1>6. /\ x.at = "analysing" /\ x.chat = currChat /\ x.object = job[q].object
        /\ x.cancelled = job[q].cancelled /\ x.erred = job[q].erred
    BY <1>1, <1>2, <1>5 DEF JobRecord
  <1>7. job' = [job EXCEPT ![q] = x]
    BY <1>1, <1>2, <1>4, <1>5
  <1>8. Message("user", {q}) \in Messages
    BY <1>2, Bounds, MessageFields
  <1>9. Append(messages[currChat], Message("user", {q})) \in Seq(Messages)
    BY <1>1, <1>8, AppendProperties
  <1>10. messages' = [messages EXCEPT ![currChat] =
                        Append(messages[currChat], Message("user", {q}))]
    BY DEF SendUserQuery, q
  <1>11. messages' \in [Chats -> Seq(Messages)]
    BY <1>1, <1>9, <1>10
  <1> QED
    BY <1>1, <1>2, <1>3, <1>4, <1>6, <1>7, <1>8, <1>10, <1>11 DEF q

\* Stopping cancels the last coroutine, if it goes on, and drops the response of the
\* object in use.
LEMMA Stops ==
  ASSUME Types, Stop
  PROVE  /\ isGeneratingResponse' = FALSE
         /\ early' <=> early \/ (Active /\ StoppedEarly)
         /\ job' \in [Jobs -> JobRecord]
         /\ \A r \in Jobs :
               /\ job'[r].at = job[r].at
               /\ job'[r].chat = job[r].chat /\ job'[r].object = job[r].object
               /\ job'[r].erred = job[r].erred
               /\ job'[r].cancelled <=> job[r].cancelled \/ (Active /\ r = asked)
         /\ session' \in [Loads -> SessionRecord]
         /\ \A l \in Loads : SessionOK(session'[l])
         /\ \A l \in Loads :
               session'[l] = IF Active /\ l = Ptr(localOrabel)
                             THEN CancelCompletion(session[l]) ELSE session[l]
  <1>1. /\ job \in [Jobs -> JobRecord] /\ asked \in 0 .. MaxAsked
        /\ localOrabel \in 0 .. MaxLoads
        /\ session \in [Loads -> SessionRecord] /\ \A l \in Loads : SessionOK(session[l])
    BY Typed
  <1>2. CASE ~Active
    BY <1>1, <1>2 DEF Stop
  <1>3. CASE Active
    <2>1. asked \in Jobs
      BY <1>1, <1>3, Bounds DEF Active, Jobs
    <2>2. PICK x \in JobRecord : x = [job[asked] EXCEPT !.cancelled = TRUE]
      BY <1>1, <2>1 DEF JobRecord
    <2>3. /\ x.at = job[asked].at /\ x.chat = job[asked].chat
          /\ x.object = job[asked].object /\ x.cancelled = TRUE
          /\ x.erred = job[asked].erred
      BY <1>1, <2>1, <2>2 DEF JobRecord
    <2>4. job' = [job EXCEPT ![asked] = x]
      BY <1>1, <1>3, <2>1, <2>2 DEF Stop
    <2>5. Ptr(localOrabel) # 0 =>
             SessionOK(CancelCompletion(Of(localOrabel)))
             /\ Of(localOrabel) = session[Ptr(localOrabel)]
      BY <1>1, OfTyped, Cancelled
    <2>6. Apply(localOrabel, CancelCompletion(Of(localOrabel)))
      BY <1>3 DEF Stop
    <2>7. /\ session' \in [Loads -> SessionRecord]
          /\ \A l \in Loads : SessionOK(session'[l])
          /\ \A l \in Loads :
                session'[l] = IF l = Ptr(localOrabel)
                              THEN CancelCompletion(Of(localOrabel)) ELSE session[l]
      BY <1>1, <2>5, <2>6, Applied
    <2>8. isGeneratingResponse' = FALSE /\ (early' <=> early \/ StoppedEarly)
      BY <1>3 DEF Stop
    <2>9. 0 \notin Loads
      BY Bounds
    <2> QED
      BY <1>1, <1>3, <2>1, <2>3, <2>4, <2>5, <2>7, <2>8, <2>9
  <1> QED
    BY <1>2, <1>3

\* loadModel starts the next coroutine for a chat with a model.
LEMMA LoadStarts ==
  ASSUME Types, NEW chat \in Chats, NEW has \in BOOLEAN, LoadModel(chat, has),
         has => loads + 1 \in Loads
  PROVE  /\ has => /\ loads' = loads + 1 /\ load[loads + 1].at = "none"
                   /\ isInitializingModel' = TRUE
                   /\ mixed' <=> mixed \/ Loading \/ Answering
         /\ ~has => UNCHANGED <<isInitializingModel, loads, load, mixed>>
         /\ load' \in [Loads -> LoadRecord]
         /\ \A l \in Loads :
               load'[l] = IF has /\ l = loads + 1
                          THEN [at |-> "check", chat |-> chat, object |-> 0, todo |-> <<>>]
                          ELSE load[l]
  <1> DEFINE new == [at |-> "check", chat |-> chat, object |-> 0, todo |-> <<>>]
  <1>1. load \in [Loads -> LoadRecord] /\ loads \in Nat
    BY Typed
  <1>2. CASE ~has
    BY <1>1, <1>2 DEF LoadModel
  <1>3. CASE has
    <2>1. new \in LoadRecord
      BY Bounds DEF LoadRecord, LoadSteps
    <2>2. load' = [load EXCEPT ![loads + 1] = new] /\ loads' = loads + 1
      BY <1>3 DEF LoadModel
    <2>3. load[loads + 1].at = "none"
      BY <1>1, <1>3 DEF Types, Ordered
    <2>4. isInitializingModel' = TRUE /\ (mixed' <=> mixed \/ Loading \/ Answering)
      BY <1>3 DEF LoadModel
    <2> HIDE DEF new
    <2> QED
      BY <1>1, <1>3, <2>1, <2>2, <2>3, <2>4 DEF new
  <1> QED
    BY <1>2, <1>3

\* A step of a load's coroutine that changes its place only.
LEMMA LoadGoes ==
  ASSUME Types, NEW l \in Loads, NEW from, NEW to \in LoadSteps, LoadAt(l, from, to)
  PROVE  /\ load[l].at = from
         /\ load' \in [Loads -> LoadRecord]
         /\ \A k \in Loads :
               /\ load'[k].at = IF k = l THEN to ELSE load[k].at
               /\ load'[k].chat = load[k].chat /\ load'[k].object = load[k].object
               /\ load'[k].todo = load[k].todo
  <1>1. load \in [Loads -> LoadRecord] /\ load[l].at = from
    BY Typed DEF LoadAt
  <1>2. PICK x \in LoadRecord : x = [load[l] EXCEPT !.at = to]
    BY <1>1 DEF LoadRecord
  <1>3. /\ x.at = to /\ x.chat = load[l].chat /\ x.object = load[l].object
        /\ x.todo = load[l].todo
    BY <1>1, <1>2 DEF LoadRecord
  <1>4. load' = [load EXCEPT ![l] = x]
    BY <1>1, <1>2 DEF LoadAt
  <1> QED
    BY <1>1, <1>3, <1>4

\* The load's coroutine creates an instance in the object in use; the call returns.
LEMMA Creates ==
  ASSUME Types, NEW l \in Loads, Create(l) \/ Created(l)
  PROVE  LET to == IF load[l].at = "create" THEN "loading" ELSE "reading"
         IN  /\ load[l].at \in {"create", "loading"}
             /\ Create(l) <=> load[l].at = "create"
             /\ load' \in [Loads -> LoadRecord]
             /\ \A k \in Loads :
                   /\ load'[k].at = IF k = l THEN to ELSE load[k].at
                   /\ load'[k].chat = load[k].chat /\ load'[k].todo = load[k].todo
                   /\ load'[k].object = IF k # l THEN load[k].object
                                        ELSE IF to = "loading" THEN localOrabel ELSE 0
  <1> DEFINE to == IF load[l].at = "create" THEN "loading" ELSE "reading"
             o == IF load[l].at = "create" THEN localOrabel ELSE 0
  <1>1. /\ load \in [Loads -> LoadRecord] /\ to \in LoadSteps /\ o \in 0 .. MaxLoads
        /\ load[l].at \in {"create", "loading"}
        /\ load' = [load EXCEPT ![l].at = to, ![l].object = o]
    BY Typed, Bounds DEF Create, Created, LoadSteps
  <1>2. (Create(l) <=> load[l].at = "create") /\ (load[l].at = "create" <=> to = "loading")
    BY DEF Create, Created
  <1>3. o = IF to = "loading" THEN localOrabel ELSE 0
    OBVIOUS
  <1> HIDE DEF to, o
  <1>4. PICK x \in LoadRecord : x = [load[l] EXCEPT !.at = to, !.object = o]
    BY <1>1 DEF LoadRecord
  <1>5. x.at = to /\ x.chat = load[l].chat /\ x.object = o /\ x.todo = load[l].todo
    BY <1>1, <1>4 DEF LoadRecord
  <1>6. load' = [load EXCEPT ![l] = x]
    BY <1>1, <1>4
  <1>7. /\ load' \in [Loads -> LoadRecord]
        /\ \A k \in Loads :
              /\ load'[k].at = IF k = l THEN to ELSE load[k].at
              /\ load'[k].chat = load[k].chat /\ load'[k].todo = load[k].todo
              /\ load'[k].object = IF k # l THEN load[k].object
                                   ELSE IF to = "loading" THEN localOrabel ELSE 0
    BY <1>1, <1>3, <1>5, <1>6
  <1> QED
    BY <1>1, <1>2, <1>7 DEF to

\* The load reads the messages of its chat, or adds one of them.
LEMMA Reads ==
  ASSUME Types, NEW l \in Loads, ReadHistory(l) \/ AddHistory(l)
  PROVE  /\ load[l].at \in {"reading", "adding"}
         /\ ReadHistory(l) <=> load[l].at = "reading"
         /\ load[l].at = "adding" => load[l].todo # <<>>
         /\ load' \in [Loads -> LoadRecord]
         /\ \A k \in Loads :
               /\ load'[k].at = IF k = l THEN "adding" ELSE load[k].at
               /\ load'[k].chat = load[k].chat /\ load'[k].object = load[k].object
               /\ load'[k].todo = IF k # l THEN load[k].todo
                                  ELSE IF load[l].at = "reading" THEN messages[load[l].chat]
                                  ELSE Tail(load[l].todo)
  <1> DEFINE todo == IF load[l].at = "reading" THEN messages[load[l].chat]
                     ELSE Tail(load[l].todo)
  <1>1. /\ load \in [Loads -> LoadRecord] /\ messages \in [Chats -> Seq(Messages)]
        /\ load[l] \in LoadRecord /\ load[l].todo \in Seq(Messages)
        /\ load[l].chat \in Chats
    BY Typed DEF LoadRecord
  <1>2. /\ load[l].at \in {"reading", "adding"}
        /\ ReadHistory(l) <=> load[l].at = "reading"
        /\ load[l].at = "adding" => load[l].todo # <<>>
    BY DEF ReadHistory, AddHistory
  <1>3. todo \in Seq(Messages)
    BY <1>1, <1>2
  <1>4. "adding" \in LoadSteps
    BY DEF LoadSteps
  <1>5. ASSUME NEW x \in LoadRecord, x.at = "adding", x.chat = load[l].chat,
               x.object = load[l].object, x.todo = todo, load' = [load EXCEPT ![l] = x]
        PROVE  /\ load' \in [Loads -> LoadRecord]
               /\ \A k \in Loads :
                     /\ load'[k].at = IF k = l THEN "adding" ELSE load[k].at
                     /\ load'[k].chat = load[k].chat /\ load'[k].object = load[k].object
                     /\ load'[k].todo = IF k # l THEN load[k].todo ELSE todo
    BY <1>1, <1>5
  <1>6. CASE ReadHistory(l)
    <2>1. load' = [load EXCEPT ![l].at = "adding", ![l].todo = todo]
      BY <1>2, <1>6 DEF ReadHistory
    <2> HIDE DEF todo
    <2>2. PICK x \in LoadRecord : x = [load[l] EXCEPT !.at = "adding", !.todo = todo]
      BY <1>1, <1>3, <1>4 DEF LoadRecord
    <2>3. /\ x.at = "adding" /\ x.chat = load[l].chat /\ x.object = load[l].object
          /\ x.todo = todo
      BY <1>1, <2>2 DEF LoadRecord
    <2>4. load' = [load EXCEPT ![l] = x]
      BY <1>1, <2>1, <2>2
    <2> QED
      BY <1>2, <1>5, <2>3, <2>4 DEF todo
  <1>7. CASE AddHistory(l)
    <2>1. load' = [load EXCEPT ![l].todo = todo] /\ load[l].at = "adding"
      BY <1>2, <1>7 DEF AddHistory
    <2> HIDE DEF todo
    <2>2. PICK x \in LoadRecord : x = [load[l] EXCEPT !.todo = todo]
      BY <1>1, <1>3, <1>4 DEF LoadRecord
    <2>3. /\ x.at = "adding" /\ x.chat = load[l].chat /\ x.object = load[l].object
          /\ x.todo = todo
      BY <1>1, <2>1, <2>2 DEF LoadRecord
    <2>4. load' = [load EXCEPT ![l] = x]
      BY <1>1, <2>1, <2>2
    <2> QED
      BY <1>2, <1>5, <2>3, <2>4 DEF todo
  <1> QED
    BY <1>6, <1>7

\* What there is of the answer is stored in the chat of its question.
LEMMA Saves ==
  ASSUME Types, NEW q \in Jobs, Save(q)
  PROVE  /\ job[q].at = "saving" /\ job[q].chat \in Chats
         /\ partialResponse = {} => UNCHANGED messages
         /\ partialResponse # {} =>
              /\ Message("assistant", partialResponse) \in Messages
              /\ messages' = [messages EXCEPT ![job[q].chat] =
                                Append(messages[job[q].chat],
                                       Message("assistant", partialResponse))]
         /\ messages' \in [Chats -> Seq(Messages)]
  <1>1. /\ job[q].chat \in Chats /\ messages \in [Chats -> Seq(Messages)]
        /\ partialResponse \in SUBSET (0 .. MaxAsked) /\ job[q].at = "saving"
    BY Typed, Bounds DEF JobRecord, Save, JobAt
  <1> DEFINE m == Message("assistant", partialResponse)
             longer == Append(messages[job[q].chat], m)
  <1>2. m \in Messages
    BY <1>1, MessageFields
  <1>3. longer \in Seq(Messages)
    BY <1>1, <1>2, AppendProperties
  <1>4. messages' = IF partialResponse = {} THEN messages
                    ELSE [messages EXCEPT ![job[q].chat] = longer]
    BY DEF Save
  <1> HIDE DEF longer
  <1>5. messages' \in [Chats -> Seq(Messages)]
    BY <1>1, <1>3, <1>4
  <1> QED
    BY <1>1, <1>2, <1>4, <1>5 DEF longer

\* What a call by an answer's coroutine makes of the instance it is for.
LEMMA JobCalls ==
  ASSUME Types, NEW q \in Jobs,
         \/ Start(q) \/ Prompt(q) \/ Decodes(q) \/ Piece(q)
         \/ StopOwn(q) \/ StopShared(q) \/ CancelShared(q)
  PROVE  LET o == IF job[q].at \in {"stopped", "caught"} THEN localOrabel ELSE job[q].object
         IN  /\ session' \in [Loads -> SessionRecord]
             /\ \A l \in Loads : SessionOK(session'[l])
             /\ \A l \in Loads : l # Ptr(o) => session'[l] = session[l]
             /\ \A l \in Loads : l = Ptr(o) =>
                  /\ Start(q) => \E long \in BOOLEAN :
                        session'[l] = StartCompletion(session[l], {q}, long)
                  /\ Prompt(q) => session'[l] = Batched(session[l])
                  /\ Decodes(q) => \E held \in BOOLEAN :
                        /\ session'[l] = Decode(session[l], held)
                        /\ ~held => job'[q].erred
                  /\ Piece(q) => session'[l] = Sample(session[l], {q})
                  /\ StopOwn(q) \/ StopShared(q) =>
                        session'[l] = StopCompletion(session[l])
                  /\ CancelShared(q) => session'[l] = CancelCompletion(session[l])
  <1> DEFINE o == IF job[q].at \in {"stopped", "caught"} THEN localOrabel ELSE job[q].object
             s == session[Ptr(o)]
  <1>1. /\ o \in 0 .. MaxLoads /\ {q} \in SUBSET (0 .. MaxAsked) /\ {q} \in SUBSET Jobs
        /\ {q} # {} /\ 0 \notin Loads
    BY Typed, Bounds DEF JobRecord
  <1>2. Ptr(o) # 0 => Ptr(o) \in Loads /\ SessionOK(s) /\ Of(o) = s
    BY <1>1, OfTyped
  <1>3. ASSUME NEW x, Ptr(o) # 0 => SessionOK(x), Apply(o, x)
        PROVE  /\ session' \in [Loads -> SessionRecord]
               /\ \A l \in Loads : SessionOK(session'[l])
               /\ \A l \in Loads : session'[l] = IF l = Ptr(o) THEN x ELSE session[l]
    BY <1>1, <1>3, Applied
  <1> HIDE DEF o
  <1>5. CASE Start(q)
    <2>1. PICK long \in BOOLEAN :
             Apply(job[q].object, StartCompletion(Of(job[q].object), {q}, long))
      BY <1>5 DEF Start
    <2>2. o = job[q].object /\ job[q].at = "starting"
      BY <1>5 DEF o, Start, JobAt
    <2>3. Ptr(o) # 0 => SessionOK(StartCompletion(Of(o), {q}, long))
      BY <1>1, <1>2, Started
    <2>4. /\ session' \in [Loads -> SessionRecord]
          /\ \A l \in Loads : SessionOK(session'[l])
          /\ \A l \in Loads : session'[l] = IF l = Ptr(o) THEN StartCompletion(Of(o), {q}, long)
                                            ELSE session[l]
      BY <1>3, <2>1, <2>2, <2>3
    <2>5. /\ ~Prompt(q) /\ ~Decodes(q) /\ ~Piece(q) /\ ~StopOwn(q) /\ ~StopShared(q)
          /\ ~CancelShared(q)
      BY <2>2 DEF Prompt, Decodes, Piece, StopOwn, StopShared, CancelShared, JobAt
    <2> QED
      BY <1>1, <1>2, <1>5, <2>4, <2>5 DEF o
  <1>10. CASE Prompt(q)
    <2>1. /\ Apply(o, Batched(Of(o))) /\ job[q].at = "prompting"
      BY <1>10 DEF o, Prompt, JobAt
    <2>2. Ptr(o) # 0 => SessionOK(Batched(Of(o)))
      BY <1>2, BatchedFields
    <2>3. /\ ~Start(q) /\ ~Decodes(q) /\ ~Piece(q) /\ ~StopOwn(q) /\ ~StopShared(q)
          /\ ~CancelShared(q)
      BY <2>1 DEF Start, Decodes, Piece, StopOwn, StopShared, CancelShared, JobAt
    <2>4. /\ session' \in [Loads -> SessionRecord]
          /\ \A l \in Loads : SessionOK(session'[l])
          /\ \A l \in Loads : session'[l] = IF l = Ptr(o) THEN Batched(Of(o)) ELSE session[l]
      BY <1>3, <2>1, <2>2
    <2> QED
      BY <1>1, <1>2, <2>3, <2>4 DEF o
  <1>6. CASE Decodes(q)
    <2>1. PICK held \in BOOLEAN :
             /\ job' = [job EXCEPT ![q].at = "sampling", ![q].erred = @ \/ ~held]
             /\ Apply(job[q].object, Decode(Of(job[q].object), held))
      BY <1>6 DEF Decodes
    <2>5. o = job[q].object /\ job[q].at = "decoding"
      BY <1>6 DEF o, Decodes
    <2>2. Ptr(o) # 0 => SessionOK(Decode(Of(o), held))
      BY <1>1, <1>2, Decoded
    <2>3. /\ ~Start(q) /\ ~Prompt(q) /\ ~Piece(q) /\ ~StopOwn(q) /\ ~StopShared(q)
          /\ ~CancelShared(q)
      BY <2>5 DEF Start, Prompt, Piece, StopOwn, StopShared, CancelShared, JobAt
    <2>4. /\ session' \in [Loads -> SessionRecord]
          /\ \A l \in Loads : SessionOK(session'[l])
          /\ \A l \in Loads : session'[l] = IF l = Ptr(o) THEN Decode(Of(o), held)
                                            ELSE session[l]
      BY <1>3, <2>1, <2>2, <2>5
    <2>6. ~held => job'[q].erred
      <3>1. job \in [Jobs -> JobRecord] /\ job[q] \in JobRecord
        BY Typed
      <3>2. ASSUME ~held PROVE job'[q].erred = TRUE
        <4>1. (job[q].erred \/ ~held) = TRUE
          BY <3>2
        <4> QED
          BY <2>1, <3>1, <4>1 DEF JobRecord
      <3> QED
        BY <3>2
    <2> QED
      BY <1>1, <1>2, <2>3, <2>4, <2>6 DEF o
  <1>7. CASE Piece(q)
    <2>1. /\ Apply(o, Sample(Of(o), {q})) /\ job[q].at = "sampling"
      BY <1>7 DEF o, Piece, JobAt
    <2>2. Ptr(o) # 0 => SessionOK(Sample(Of(o), {q}))
      BY <1>1, <1>2, Sampled
    <2>3. /\ ~Start(q) /\ ~Prompt(q) /\ ~Decodes(q) /\ ~StopOwn(q) /\ ~StopShared(q)
          /\ ~CancelShared(q)
      BY <2>1 DEF Start, Prompt, Decodes, StopOwn, StopShared, CancelShared, JobAt
    <2>4. /\ session' \in [Loads -> SessionRecord]
          /\ \A l \in Loads : SessionOK(session'[l])
          /\ \A l \in Loads : session'[l] = IF l = Ptr(o) THEN Sample(Of(o), {q})
                                            ELSE session[l]
      BY <1>3, <2>1, <2>2
    <2> QED
      BY <1>1, <1>2, <2>3, <2>4 DEF o
  <1>8. CASE StopOwn(q) \/ StopShared(q)
    <2>1. /\ Apply(o, StopCompletion(Of(o))) /\ job[q].at \in {"stopping", "stopped"}
      BY <1>8 DEF o, StopOwn, StopShared, JobAt
    <2>2. Ptr(o) # 0 => SessionOK(StopCompletion(Of(o)))
      BY <1>1, <1>2, Stopped
    <2>3. ~Start(q) /\ ~Prompt(q) /\ ~Decodes(q) /\ ~Piece(q) /\ ~CancelShared(q)
      BY <2>1 DEF Start, Prompt, Decodes, Piece, CancelShared, JobAt
    <2>4. /\ session' \in [Loads -> SessionRecord]
          /\ \A l \in Loads : SessionOK(session'[l])
          /\ \A l \in Loads : session'[l] = IF l = Ptr(o) THEN StopCompletion(Of(o))
                                            ELSE session[l]
      BY <1>3, <2>1, <2>2
    <2> QED
      BY <1>1, <1>2, <2>3, <2>4 DEF o
  <1>9. CASE CancelShared(q)
    <2>1. /\ Apply(o, CancelCompletion(Of(o))) /\ job[q].at = "caught"
      BY <1>9 DEF o, CancelShared, JobAt
    <2>2. Ptr(o) # 0 => SessionOK(CancelCompletion(Of(o)))
      BY <1>1, <1>2, Cancelled
    <2>3. /\ ~Start(q) /\ ~Prompt(q) /\ ~Decodes(q) /\ ~Piece(q) /\ ~StopOwn(q)
          /\ ~StopShared(q)
      BY <2>1 DEF Start, Prompt, Decodes, Piece, StopOwn, StopShared, JobAt
    <2>4. /\ session' \in [Loads -> SessionRecord]
          /\ \A l \in Loads : SessionOK(session'[l])
          /\ \A l \in Loads : session'[l] = IF l = Ptr(o) THEN CancelCompletion(Of(o))
                                            ELSE session[l]
      BY <1>3, <2>1, <2>2
    <2> QED
      BY <1>1, <1>2, <2>3, <2>4 DEF o
  <1> QED
    BY <1>5, <1>6, <1>7, <1>8, <1>9, <1>10

\* What a load adds to the instance of the object in use.
LEMMA AddsOne ==
  ASSUME Types, NEW l \in Loads, AddHistory(l)
  PROVE  LET m == Head(load[l].todo)
         IN  /\ m \in Messages
             /\ session' \in [Loads -> SessionRecord]
             /\ \A k \in Loads : SessionOK(session'[k])
             /\ \A k \in Loads :
                   session'[k] = IF k = Ptr(localOrabel)
                                 THEN AddMessage(session[k], m.role, m.text)
                                 ELSE session[k]
  <1> DEFINE m == Head(load[l].todo)
             x == AddMessage(Of(localOrabel), m.role, m.text)
  <1>1. load[l].todo \in Seq(Messages) /\ load[l].todo # <<>> /\ localOrabel \in 0 .. MaxLoads
    BY Typed DEF AddHistory, LoadRecord
  <1>2. m \in Messages
    BY <1>1
  <1>3. Apply(localOrabel, x)
    BY DEF AddHistory
  <1> HIDE DEF m
  <1>4. m.role \in {"user", "assistant"} /\ m.text \in SUBSET (0 .. MaxAsked)
    BY <1>2 DEF Messages
  <1>5. Ptr(localOrabel) # 0 =>
           SessionOK(x) /\ Of(localOrabel) = session[Ptr(localOrabel)]
    BY <1>1, <1>4, OfTyped, Added
  <1>6. /\ session' \in [Loads -> SessionRecord]
        /\ \A k \in Loads : SessionOK(session'[k])
        /\ \A k \in Loads : session'[k] = IF k = Ptr(localOrabel) THEN x ELSE session[k]
    BY <1>1, <1>3, <1>5, Applied
  <1>7. 0 \notin Loads
    BY Bounds
  <1> QED
    BY <1>2, <1>5, <1>6, <1>7 DEF m

\* Nothing but the place of q, its object, its erred flag.
SameButPlace(q) ==
  /\ job' \in [Jobs -> JobRecord]
  /\ \A r \in Jobs :
        /\ r # q => job'[r].at = job[r].at /\ job'[r].object = job[r].object
                    /\ job'[r].erred = job[r].erred
        /\ job'[r].chat = job[r].chat /\ job'[r].cancelled = job[r].cancelled
        /\ job[r].erred => job'[r].erred

\* Where a step of an answer's coroutine may lead.
LEMMA JobMoves ==
  ASSUME Types, NEW q \in Jobs, Job(q)
  PROVE  /\ SameButPlace(q)
         /\ UNCHANGED <<currChat, effect, hasModel, isInitializingModel, asked, loads, load,
                        crossed, mixed, localOrabel, nativePtr>>
         /\ IF Command(q)
            THEN commands' = commands \union {q} /\ early' = (early \/ NotRead)
            ELSE UNCHANGED <<commands, early>>
         /\ \/ EndAnalysis(q) /\ job[q].at = "analysing" /\ job'[q].at = "asking"
            \/ /\ Ask(q) /\ job[q].at = "asking"
               /\ job'[q].at = IF localOrabel = 0 THEN "emitting" ELSE "starting"
            \/ Command(q) /\ job[q].at = "asking" /\ job'[q].at = "answering"
            \/ /\ EmitResult(q) /\ job[q].at = "answering"
               /\ job'[q].at = IF job[q].cancelled THEN "caught" ELSE "stopped"
            \/ Start(q) /\ job[q].at = "starting" /\ job'[q].at = "prompting"
            \/ Prompt(q) /\ job[q].at = "prompting" /\ job'[q].at = "decoding"
            \/ /\ DecodeFails(q) /\ job[q].at = "decoding" /\ job'[q].at = "emitting"
               /\ job'[q].erred
            \/ Decodes(q) /\ job[q].at = "decoding" /\ job'[q].at = "sampling"
            \/ Piece(q) /\ job[q].at = "sampling" /\ job'[q].at = "emitting"
            \/ EndOfGeneration(q) /\ job[q].at = "sampling" /\ job'[q].at = "stopping"
            \/ /\ Emit(q) /\ job[q].at = "emitting"
               /\ job'[q].at = IF job[q].cancelled THEN "caught"
                               ELSE IF job[q].object = 0 THEN "stopped" ELSE "decoding"
            \/ StopOwn(q) /\ job[q].at = "stopping" /\ job'[q].at = "stopped"
            \/ StopShared(q) /\ job[q].at = "stopped" /\ job'[q].at = "saving"
            \/ CancelShared(q) /\ job[q].at = "caught" /\ job'[q].at = "saving"
            \/ Save(q) /\ job[q].at = "saving" /\ job'[q].at = "ending"
            \/ EndJob(q) /\ job[q].at = "ending" /\ job'[q].at = "done"
         /\ \A r \in Jobs : job'[r].object =
               IF r = q /\ Ask(q) THEN localOrabel
               ELSE IF r = q /\ EndJob(q) THEN 0 ELSE job[r].object
  <1> USE DEF ui, history, Steady, SameButPlace
  <1>1. job \in [Jobs -> JobRecord] /\ job[q] \in JobRecord
    BY Typed
  <1>2. ASSUME NEW from, NEW to \in JobSteps, JobAt(q, from, to), ~Ask(q), ~EndJob(q)
        PROVE  /\ SameButPlace(q) /\ job[q].at = from /\ job'[q].at = to
               /\ \A r \in Jobs : job'[r].object = job[r].object
    <2>1. /\ job' \in [Jobs -> JobRecord]
          /\ \A r \in Jobs :
                /\ job'[r].at = IF r = q THEN to ELSE job[r].at
                /\ job'[r].chat = job[r].chat /\ job'[r].object = job[r].object
                /\ job'[r].cancelled = job[r].cancelled /\ job'[r].erred = job[r].erred
      BY <1>2, JobGoes DEF JobAt
    <2>2. job[q].at = from
      BY <1>2 DEF JobAt
    <2> QED
      BY <2>1, <2>2
  <1>3. Ask(q) <=> Ask(q) /\ job[q].at = "asking"
    BY DEF Ask
  <1>4. EndJob(q) <=> EndJob(q) /\ job[q].at = "ending"
    BY DEF EndJob
  <1>18. Command(q) => /\ job[q].at = "asking" /\ ~Ask(q)
    <2> SUFFICES ASSUME Command(q) PROVE job[q].at = "asking" /\ ~Ask(q)
      OBVIOUS
    <2>1. job[q].at = "asking" /\ job' = [job EXCEPT ![q].at = "answering"]
          /\ "answering" \in JobSteps
      BY DEF Command, JobAt, JobSteps
    <2>2. job'[q].at = "answering"
      BY <1>1, <2>1 DEF JobRecord
    <2>3. Ask(q) => job'[q].at \in {"emitting", "starting"}
      BY Asks
    <2> QED
      BY <2>1, <2>2, <2>3
  <1>5. CASE EndAnalysis(q)
    <2>1. JobAt(q, "analysing", "asking") /\ ~Ask(q) /\ ~EndJob(q) /\ "asking" \in JobSteps
          /\ ~Command(q)
      BY <1>5 DEF EndAnalysis, JobAt, Ask, EndJob, JobSteps, Command
    <2>2. /\ SameButPlace(q) /\ job[q].at = "analysing" /\ job'[q].at = "asking"
          /\ \A r \in Jobs : job'[r].object = job[r].object
      BY <1>2, <2>1
    <2> QED
      BY <1>5, <2>1, <2>2 DEF EndAnalysis, llm
  <1>19. CASE Command(q)
    <2>1. JobAt(q, "asking", "answering") /\ ~Ask(q) /\ ~EndJob(q) /\ "answering" \in JobSteps
      BY <1>18, <1>19 DEF Command, JobAt, EndJob, JobSteps
    <2>2. /\ SameButPlace(q) /\ job[q].at = "asking" /\ job'[q].at = "answering"
          /\ \A r \in Jobs : job'[r].object = job[r].object
      BY <1>2, <2>1
    <2>3. UNCHANGED <<currChat, effect, hasModel, isInitializingModel, asked, loads, load,
                      crossed, mixed, localOrabel, nativePtr>>
      BY <1>19 DEF Command, llm
    <2>4. commands' = commands \union {q} /\ early' = (early \/ NotRead)
      BY <1>19 DEF Command
    <2> QED
      BY <1>19, <2>1, <2>2, <2>3, <2>4
  <1>20. CASE EmitResult(q)
    <2> DEFINE to == IF job[q].cancelled THEN "caught" ELSE "stopped"
    <2>1. JobAt(q, "answering", to) /\ ~Ask(q) /\ ~EndJob(q) /\ to \in JobSteps
          /\ ~Command(q)
      BY <1>20 DEF EmitResult, JobAt, Ask, EndJob, JobSteps, Command
    <2> HIDE DEF to
    <2>2. /\ SameButPlace(q) /\ job[q].at = "answering" /\ job'[q].at = to
          /\ \A r \in Jobs : job'[r].object = job[r].object
      BY <1>2, <2>1
    <2> QED
      BY <1>20, <2>1, <2>2 DEF EmitResult, llm, to
  <1>6. CASE Ask(q)
    <2>1. ~EndJob(q) /\ ~Command(q)
      BY <1>6, <1>18 DEF Ask, EndJob
    <2>2. /\ job' \in [Jobs -> JobRecord]
          /\ job[q].at = "asking"
          /\ \A r \in Jobs :
                /\ job'[r].at = IF r # q THEN job[r].at
                                ELSE IF localOrabel = 0 THEN "emitting" ELSE "starting"
                /\ job'[r].object = IF r = q THEN localOrabel ELSE job[r].object
                /\ job'[r].chat = job[r].chat
                /\ job'[r].cancelled = job[r].cancelled /\ job'[r].erred = job[r].erred
      BY <1>6, Asks
    <2>3. SameButPlace(q) /\ \A r \in Jobs : job'[r].object =
             IF r = q /\ Ask(q) THEN localOrabel
             ELSE IF r = q /\ EndJob(q) THEN 0 ELSE job[r].object
      BY <1>6, <2>1, <2>2
    <2>4. UNCHANGED <<currChat, effect, hasModel, isInitializingModel, asked, loads, load,
                      history, localOrabel, nativePtr>>
      BY <1>6 DEF Ask, llm
    <2> QED
      BY <1>6, <2>1, <2>2, <2>3, <2>4
  <1>7. CASE Start(q)
    <2>1. JobAt(q, "starting", "prompting") /\ ~Ask(q) /\ ~EndJob(q) /\ "prompting" \in JobSteps
          /\ ~Command(q)
      BY <1>7 DEF Start, JobAt, Ask, EndJob, JobSteps, Command
    <2>2. /\ SameButPlace(q) /\ job[q].at = "starting" /\ job'[q].at = "prompting"
          /\ \A r \in Jobs : job'[r].object = job[r].object
      BY <1>2, <2>1
    <2> QED
      BY <1>7, <2>1, <2>2 DEF Start
  <1>21. CASE Prompt(q)
    <2>1. JobAt(q, "prompting", "decoding") /\ ~Ask(q) /\ ~EndJob(q) /\ "decoding" \in JobSteps
          /\ ~Command(q)
      BY <1>21 DEF Prompt, JobAt, Ask, EndJob, JobSteps, Command
    <2>2. /\ SameButPlace(q) /\ job[q].at = "prompting" /\ job'[q].at = "decoding"
          /\ \A r \in Jobs : job'[r].object = job[r].object
      BY <1>2, <2>1
    <2> QED
      BY <1>21, <2>1, <2>2 DEF Prompt
  <1>8. CASE DecodeFails(q)
    <2>1. /\ job' = [job EXCEPT ![q].at = "emitting", ![q].erred = TRUE]
          /\ "emitting" \in JobSteps /\ TRUE \in BOOLEAN /\ job[q].at = "decoding"
          /\ ~Ask(q) /\ ~EndJob(q) /\ ~Command(q)
      BY <1>8 DEF DecodeFails, JobSteps, Ask, EndJob, Command, JobAt
    <2>2. /\ SameButPlace(q) /\ job'[q].at = "emitting" /\ job'[q].erred
          /\ \A r \in Jobs : job'[r].object = job[r].object
      <3>1. /\ job' \in [Jobs -> JobRecord]
            /\ \A r \in Jobs :
                  /\ job'[r].at = IF r = q THEN "emitting" ELSE job[r].at
                  /\ job'[r].chat = job[r].chat /\ job'[r].object = job[r].object
                  /\ job'[r].cancelled = job[r].cancelled
                  /\ job'[r].erred = IF r = q THEN TRUE ELSE job[r].erred
        BY <2>1, JobErrs
      <3> QED
        BY <3>1
    <2> QED
      BY <1>8, <2>1, <2>2 DEF DecodeFails, llm
  <1>9. CASE Decodes(q)
    <2>1. PICK held \in BOOLEAN :
             job' = [job EXCEPT ![q].at = "sampling", ![q].erred = @ \/ ~held]
      BY <1>9 DEF Decodes
    <2>2. job' = [job EXCEPT ![q].at = "sampling", ![q].erred = (job[q].erred \/ ~held)]
      BY <1>1, <2>1 DEF JobRecord
    <2>3. \/ job' = [job EXCEPT ![q].at = "sampling", ![q].erred = TRUE]
          \/ /\ job' = [job EXCEPT ![q].at = "sampling", ![q].erred = FALSE]
             /\ ~job[q].erred
      BY <1>1, <2>2 DEF JobRecord
    <2>4. TRUE \in BOOLEAN /\ FALSE \in BOOLEAN
      OBVIOUS
    <2>5. "sampling" \in JobSteps /\ job[q].at = "decoding" /\ ~Ask(q) /\ ~EndJob(q)
          /\ ~Command(q)
      BY <1>9 DEF Decodes, JobSteps, Ask, EndJob, Command, JobAt
    <2>6. /\ SameButPlace(q) /\ job'[q].at = "sampling"
          /\ \A r \in Jobs : job'[r].object = job[r].object
      <3>1. CASE job' = [job EXCEPT ![q].at = "sampling", ![q].erred = TRUE]
        <4>1. /\ job' \in [Jobs -> JobRecord]
              /\ \A r \in Jobs :
                    /\ job'[r].at = IF r = q THEN "sampling" ELSE job[r].at
                    /\ job'[r].chat = job[r].chat /\ job'[r].object = job[r].object
                    /\ job'[r].cancelled = job[r].cancelled
                    /\ job'[r].erred = IF r = q THEN TRUE ELSE job[r].erred
          BY <2>4, <2>5, <3>1, JobErrs
        <4> QED
          BY <4>1
      <3>2. CASE /\ job' = [job EXCEPT ![q].at = "sampling", ![q].erred = FALSE]
                 /\ ~job[q].erred
        <4>1. job[q].erred = FALSE
          BY <1>1, <3>2 DEF JobRecord
        <4>2. job' = [job EXCEPT ![q].at = "sampling"]
          BY <1>1, <3>2, <4>1 DEF JobRecord
        <4>3. /\ job' \in [Jobs -> JobRecord]
              /\ \A r \in Jobs :
                    /\ job'[r].at = IF r = q THEN "sampling" ELSE job[r].at
                    /\ job'[r].chat = job[r].chat /\ job'[r].object = job[r].object
                    /\ job'[r].cancelled = job[r].cancelled
                    /\ job'[r].erred = job[r].erred
          BY <2>5, <4>2, JobGoes
        <4> QED
          BY <4>3
      <3> QED
        BY <2>3, <3>1, <3>2
    <2> QED
      BY <1>9, <2>5, <2>6 DEF Decodes
  <1>10. CASE Piece(q)
    <2>1. JobAt(q, "sampling", "emitting") /\ ~Ask(q) /\ ~EndJob(q) /\ "emitting" \in JobSteps
          /\ ~Command(q)
      BY <1>10 DEF Piece, JobAt, Ask, EndJob, JobSteps, Command
    <2>2. /\ SameButPlace(q) /\ job[q].at = "sampling" /\ job'[q].at = "emitting"
          /\ \A r \in Jobs : job'[r].object = job[r].object
      BY <1>2, <2>1
    <2> QED
      BY <1>10, <2>1, <2>2 DEF Piece
  <1>11. CASE EndOfGeneration(q)
    <2>1. JobAt(q, "sampling", "stopping") /\ ~Ask(q) /\ ~EndJob(q) /\ "stopping" \in JobSteps
          /\ ~Command(q)
      BY <1>11 DEF EndOfGeneration, JobAt, Ask, EndJob, JobSteps, Command
    <2>2. /\ SameButPlace(q) /\ job[q].at = "sampling" /\ job'[q].at = "stopping"
          /\ \A r \in Jobs : job'[r].object = job[r].object
      BY <1>2, <2>1
    <2> QED
      BY <1>11, <2>1, <2>2 DEF EndOfGeneration, llm
  <1>12. CASE Emit(q)
    <2> DEFINE to == IF job[q].cancelled THEN "caught"
                     ELSE IF job[q].object = 0 THEN "stopped" ELSE "decoding"
    <2>1. JobAt(q, "emitting", to) /\ ~Ask(q) /\ ~EndJob(q) /\ to \in JobSteps
          /\ ~Command(q)
      BY <1>12 DEF Emit, JobAt, Ask, EndJob, JobSteps, Command
    <2> HIDE DEF to
    <2>2. /\ SameButPlace(q) /\ job[q].at = "emitting" /\ job'[q].at = to
          /\ \A r \in Jobs : job'[r].object = job[r].object
      BY <1>2, <2>1
    <2> QED
      BY <1>12, <2>1, <2>2 DEF Emit, llm, to
  <1>13. CASE StopOwn(q)
    <2>1. JobAt(q, "stopping", "stopped") /\ ~Ask(q) /\ ~EndJob(q) /\ "stopped" \in JobSteps
          /\ ~Command(q)
      BY <1>13 DEF StopOwn, JobAt, Ask, EndJob, JobSteps, Command
    <2>2. /\ SameButPlace(q) /\ job[q].at = "stopping" /\ job'[q].at = "stopped"
          /\ \A r \in Jobs : job'[r].object = job[r].object
      BY <1>2, <2>1
    <2> QED
      BY <1>13, <2>1, <2>2 DEF StopOwn
  <1>14. CASE StopShared(q)
    <2>1. JobAt(q, "stopped", "saving") /\ ~Ask(q) /\ ~EndJob(q) /\ "saving" \in JobSteps
          /\ ~Command(q)
      BY <1>14 DEF StopShared, JobAt, Ask, EndJob, JobSteps, Command
    <2>2. /\ SameButPlace(q) /\ job[q].at = "stopped" /\ job'[q].at = "saving"
          /\ \A r \in Jobs : job'[r].object = job[r].object
      BY <1>2, <2>1
    <2> QED
      BY <1>14, <2>1, <2>2 DEF StopShared
  <1>15. CASE CancelShared(q)
    <2>1. JobAt(q, "caught", "saving") /\ ~Ask(q) /\ ~EndJob(q) /\ "saving" \in JobSteps
          /\ ~Command(q)
      BY <1>15 DEF CancelShared, JobAt, Ask, EndJob, JobSteps, Command
    <2>2. /\ SameButPlace(q) /\ job[q].at = "caught" /\ job'[q].at = "saving"
          /\ \A r \in Jobs : job'[r].object = job[r].object
      BY <1>2, <2>1
    <2> QED
      BY <1>15, <2>1, <2>2 DEF CancelShared
  <1>16. CASE Save(q)
    <2>1. JobAt(q, "saving", "ending") /\ ~Ask(q) /\ ~EndJob(q) /\ "ending" \in JobSteps
          /\ ~Command(q)
      BY <1>16 DEF Save, JobAt, Ask, EndJob, JobSteps, Command
    <2>2. /\ SameButPlace(q) /\ job[q].at = "saving" /\ job'[q].at = "ending"
          /\ \A r \in Jobs : job'[r].object = job[r].object
      BY <1>2, <2>1
    <2> QED
      BY <1>16, <2>1, <2>2 DEF Save, llm
  <1>17. CASE EndJob(q)
    <2>1. ~Ask(q) /\ ~Command(q)
      BY <1>17 DEF Ask, EndJob, Command, JobAt
    <2>2. /\ job' \in [Jobs -> JobRecord]
          /\ job[q].at = "ending"
          /\ \A r \in Jobs :
                /\ job'[r].at = IF r = q THEN "done" ELSE job[r].at
                /\ job'[r].object = IF r = q THEN 0 ELSE job[r].object
                /\ job'[r].chat = job[r].chat
                /\ job'[r].cancelled = job[r].cancelled /\ job'[r].erred = job[r].erred
      BY <1>17, JobEnds
    <2>3. SameButPlace(q) /\ \A r \in Jobs : job'[r].object =
             IF r = q /\ Ask(q) THEN localOrabel
             ELSE IF r = q /\ EndJob(q) THEN 0 ELSE job[r].object
      BY <1>17, <2>1, <2>2
    <2>4. UNCHANGED <<currChat, effect, hasModel, isInitializingModel, asked, loads, load,
                      history, localOrabel, nativePtr>>
      BY <1>17 DEF EndJob, llm
    <2> QED
      BY <1>17, <2>1, <2>2, <2>3, <2>4
  <1> QED
    BY <1>5, <1>6, <1>7, <1>8, <1>9, <1>10, <1>11, <1>12, <1>13, <1>14, <1>15, <1>16, <1>17,
      <1>19, <1>20, <1>21 DEF Job

-----------------------------------------------------------------------------
(* Types                                                                   *)

\* The initial state has the types.
LEMMA TypesInit == Init => Types
  <1> SUFFICES ASSUME Init PROVE Types
    OBVIOUS
  <1>1. /\ Before \in SUBSET (0 .. MaxAsked) /\ 0 \in 0 .. MaxLoads /\ 0 \in 0 .. MaxAsked
        /\ First \in Chats /\ "none" \in JobSteps /\ "none" \in LoadSteps
    BY Bounds DEF Before, JobSteps, LoadSteps
  <1>2. Message("user", Before) \in Messages /\ Message("assistant", Before) \in Messages
    BY <1>1, MessageFields
  <1>3. messages \in [Chats -> Seq(Messages)]
    BY <1>2 DEF Init
  <1>4. hasModel \in [Chats -> BOOLEAN]
    BY DEF Init
  <1>5. job \in [Jobs -> JobRecord] /\ \A q \in Jobs : job[q].at = "none"
    BY <1>1 DEF Init, JobRecord
  <1>6. load \in [Loads -> LoadRecord] /\ \A l \in Loads : load[l].at = "none"
    BY <1>1 DEF Init, LoadRecord
  <1>7. SessionOK(NewSession) /\ NewSession \in SessionRecord
    BY DEF SessionOK, SessionRecord, NewSession
  <1>8. session \in [Loads -> SessionRecord] /\ \A l \in Loads : SessionOK(session[l])
    BY <1>7 DEF Init
  <1>9. Records
    <2>1. /\ currChat \in Chats /\ effect \in BOOLEAN /\ isGeneratingResponse \in BOOLEAN
          /\ isInitializingModel \in BOOLEAN /\ crossed \in BOOLEAN /\ mixed \in BOOLEAN
          /\ early \in BOOLEAN
          /\ partialResponse \in SUBSET Jobs /\ commands \in SUBSET Jobs
          /\ asked \in 0 .. MaxAsked /\ loads \in 0 .. MaxLoads
          /\ localOrabel \in 0 .. MaxLoads /\ nativePtr \in [Loads -> 0 .. MaxLoads]
      BY <1>1 DEF Init
    <2> QED
      BY <1>3, <1>4, <1>5, <1>6, <1>8, <2>1 DEF Records
  <1>10. (\A q \in Jobs : q > 0) /\ (\A l \in Loads : l > 0) /\ 0 < MaxLoads
    BY Bounds, BoundsAssumption
  <1>11. Ordered
    BY <1>5, <1>6, <1>10 DEF Ordered, Init
  <1> QED
    BY <1>9, <1>11, TypedAgain

\* A step of an answer's coroutine keeps the types.
LEMMA JobTypes ==
  ASSUME Types, NEW q \in Jobs, Job(q)
  PROVE  /\ session' \in [Loads -> SessionRecord] /\ \A l \in Loads : SessionOK(session'[l])
         /\ messages' \in [Chats -> Seq(Messages)]
         /\ partialResponse' \in SUBSET Jobs
         /\ isGeneratingResponse' \in BOOLEAN
         /\ early' \in BOOLEAN /\ commands' \in SUBSET Jobs
  <1>1. /\ messages \in [Chats -> Seq(Messages)] /\ partialResponse \in SUBSET Jobs
        /\ isGeneratingResponse \in BOOLEAN
        /\ session \in [Loads -> SessionRecord] /\ \A l \in Loads : SessionOK(session[l])
        /\ early \in BOOLEAN /\ commands \in SUBSET Jobs
    BY Typed
  <1>7. early' \in BOOLEAN /\ commands' \in SUBSET Jobs
    <2>1. CASE Command(q)
      <3>1. early' \in BOOLEAN
        BY <2>1 DEF Command
      <3> QED
        BY <1>1, <2>1, <3>1 DEF Command
    <2>2. CASE ~Command(q)
      BY <1>1, <2>2, JobMoves
    <2> QED
      BY <2>1, <2>2
  <1>2. CASE Start(q) \/ Prompt(q) \/ Decodes(q) \/ Piece(q) \/ StopOwn(q) \/ StopShared(q)
             \/ CancelShared(q)
    <2>1. UNCHANGED <<messages, partialResponse, isGeneratingResponse>>
      BY <1>2 DEF Start, Prompt, Decodes, Piece, StopOwn, StopShared, CancelShared, Steady, ui
    <2>2. session' \in [Loads -> SessionRecord] /\ \A l \in Loads : SessionOK(session'[l])
      BY <1>2, JobCalls
    <2> QED
      BY <1>1, <1>7, <2>1, <2>2
  <1>3. CASE EndAnalysis(q) \/ Ask(q) \/ Command(q) \/ DecodeFails(q) \/ EndOfGeneration(q)
    BY <1>1, <1>3, <1>7
      DEF EndAnalysis, Ask, Command, DecodeFails, EndOfGeneration, Steady, ui, llm
  <1>4. CASE Emit(q) \/ EmitResult(q)
    <2>1. partialResponse' \in SUBSET Jobs
      BY <1>1, <1>4 DEF Emit, EmitResult
    <2>2. UNCHANGED <<session, messages, isGeneratingResponse>>
      BY <1>4 DEF Emit, EmitResult, Steady, ui, llm
    <2> QED
      BY <1>1, <1>7, <2>1, <2>2
  <1>5. CASE Save(q)
    BY <1>1, <1>5, <1>7, Saves DEF Save, Steady, ui, llm
  <1>6. CASE EndJob(q)
    BY <1>1, <1>6, <1>7 DEF EndJob, llm
  <1> QED
    BY <1>2, <1>3, <1>4, <1>5, <1>6 DEF Job

\* Where a step of a load's coroutine may lead.
LEMMA LoadMoves ==
  ASSUME Types, NEW l \in Loads, Load(l)
  PROVE  /\ load' \in [Loads -> LoadRecord]
         /\ \A k \in Loads : /\ k # l => load'[k] = load[k]
                             /\ load'[k].chat = load[k].chat
         /\ UNCHANGED Rest
         /\ \/ /\ Fail(l, "check") /\ load[l].at = "check" /\ load'[l].at = "done"
            \/ /\ Fail(l, "create") /\ load[l].at = "create" /\ load'[l].at = "done"
               /\ localOrabel = 0
            \/ Close(l) /\ load[l].at = "check" /\ load'[l].at = "new"
            \/ New(l) /\ load[l].at = "new" /\ load'[l].at = "create"
            \/ /\ Create(l) /\ load[l].at = "create" /\ load'[l].at = "loading"
               /\ load'[l].object = localOrabel
            \/ Created(l) /\ load[l].at = "loading" /\ load'[l].at = "reading"
            \/ /\ ReadHistory(l) /\ load[l].at = "reading" /\ load'[l].at = "adding"
               /\ load'[l].todo = messages[load[l].chat]
            \/ /\ AddHistory(l) /\ load[l].at = "adding" /\ load'[l].at = "adding"
               /\ load[l].todo # <<>> /\ load'[l].todo = Tail(load[l].todo)
            \/ /\ Ready(l) /\ load[l].at = "adding" /\ load'[l].at = "done"
               /\ load[l].todo = <<>>
  <1>1. load \in [Loads -> LoadRecord]
    BY Typed
  <1>2. UNCHANGED Rest
    BY DEF Load, Fail, Close, New, Create, Created, ReadHistory, AddHistory, Ready
  <1>3. ASSUME NEW from, NEW to \in LoadSteps, LoadAt(l, from, to)
        PROVE  /\ load[l].at = from /\ load'[l].at = to
               /\ load' \in [Loads -> LoadRecord]
               /\ \A k \in Loads : (k # l => load'[k] = load[k])
                                   /\ load'[k].chat = load[k].chat
    <2>1. \A k \in Loads : k # l => load'[k] = load[k]
      BY <1>1, <1>3 DEF LoadAt
    <2> QED
      BY <1>3, <2>1, LoadGoes
  <1>4. "done" \in LoadSteps /\ "new" \in LoadSteps /\ "create" \in LoadSteps
    BY DEF LoadSteps
  <1>5. CASE Fail(l, "check")
    BY <1>2, <1>3, <1>4, <1>5 DEF Fail
  <1>6. CASE Fail(l, "create") /\ localOrabel = 0
    BY <1>2, <1>3, <1>4, <1>6 DEF Fail
  <1>7. CASE Close(l)
    BY <1>2, <1>3, <1>4, <1>7 DEF Close
  <1>8. CASE New(l)
    BY <1>2, <1>3, <1>4, <1>8 DEF New
  <1>9. CASE Ready(l)
    BY <1>2, <1>3, <1>4, <1>9 DEF Ready
  <1>10. CASE Create(l)
    <2>1. (\A k \in Loads : k # l => load'[k] = load[k]) /\ load[l].at = "create"
      BY <1>1, <1>10 DEF Create
    <2> QED
      BY <1>2, <1>10, <2>1, Creates
  <1>11. CASE Created(l)
    <2>1. (\A k \in Loads : k # l => load'[k] = load[k]) /\ load[l].at = "loading"
      BY <1>1, <1>11 DEF Created
    <2> QED
      BY <1>2, <1>11, <2>1, Creates
  <1>12. CASE ReadHistory(l)
    <2>1. (\A k \in Loads : k # l => load'[k] = load[k]) /\ load[l].at = "reading"
      BY <1>1, <1>12 DEF ReadHistory
    <2> QED
      BY <1>2, <1>12, <2>1, Reads
  <1>13. CASE AddHistory(l)
    <2>1. (\A k \in Loads : k # l => load'[k] = load[k]) /\ load[l].at = "adding"
      BY <1>1, <1>13 DEF AddHistory
    <2> QED
      BY <1>2, <1>13, <2>1, Reads
  <1> QED
    BY <1>5, <1>6, <1>7, <1>8, <1>9, <1>10, <1>11, <1>12, <1>13 DEF Load

\* A step of a load's coroutine keeps the types.
LEMMA LoadTypes ==
  ASSUME Types, NEW l \in Loads, Load(l)
  PROVE  /\ session' \in [Loads -> SessionRecord] /\ \A k \in Loads : SessionOK(session'[k])
         /\ localOrabel' \in 0 .. MaxLoads /\ nativePtr' \in [Loads -> 0 .. MaxLoads]
         /\ isInitializingModel' \in BOOLEAN
  <1>1. /\ localOrabel \in 0 .. MaxLoads /\ nativePtr \in [Loads -> 0 .. MaxLoads]
        /\ isInitializingModel \in BOOLEAN /\ l \in 0 .. MaxLoads /\ 0 \in 0 .. MaxLoads
        /\ session \in [Loads -> SessionRecord] /\ \A k \in Loads : SessionOK(session[k])
    BY Typed, Bounds
  <1>2. CASE AddHistory(l)
    <2>1. session' \in [Loads -> SessionRecord] /\ \A k \in Loads : SessionOK(session'[k])
      BY <1>2, AddsOne
    <2> QED
      BY <1>1, <1>2, <2>1 DEF AddHistory
  <1>3. CASE Created(l)
    BY ZenonT(30), <1>1, <1>3 DEF Created
  <1>4. CASE ~AddHistory(l) /\ ~Created(l)
    BY <1>1, <1>4 DEF Load, Fail, Close, New, Create, ReadHistory, Ready, llm
  <1> QED
    BY <1>2, <1>3, <1>4

\* loadModel keeps the types.
LEMMA LoadModelTypes ==
  ASSUME Types, NEW chat \in Chats, NEW has \in BOOLEAN, LoadModel(chat, has),
         has => loads < MaxLoads, UNCHANGED <<job, asked>>
  PROVE  /\ loads' \in 0 .. MaxLoads /\ load' \in [Loads -> LoadRecord]
         /\ isInitializingModel' \in BOOLEAN /\ mixed' \in BOOLEAN
         /\ (effect' => loads' < MaxLoads) => Ordered'
  <1>1. /\ isInitializingModel \in BOOLEAN /\ mixed \in BOOLEAN
        /\ loads \in Nat /\ MaxLoads \in Nat /\ loads <= MaxLoads
        /\ load \in [Loads -> LoadRecord]
    BY Typed, Bounds
  <1>2. has => loads + 1 \in Loads
    BY <1>1, Bounds DEF Loads
  <1>3. /\ has => /\ loads' = loads + 1 /\ load[loads + 1].at = "none"
                  /\ isInitializingModel' = TRUE
                  /\ mixed' <=> mixed \/ Loading \/ Answering
        /\ ~has => UNCHANGED <<isInitializingModel, loads, load, mixed>>
        /\ load' \in [Loads -> LoadRecord]
        /\ \A l \in Loads :
              load'[l] = IF has /\ l = loads + 1
                         THEN [at |-> "check", chat |-> chat, object |-> 0, todo |-> <<>>]
                         ELSE load[l]
    BY <1>2, LoadStarts
  <1>4. mixed' \in BOOLEAN
    BY <1>1 DEF LoadModel
  <1>5. Loads \subseteq Nat
    BY Bounds
  <1>6. (\A q \in Jobs : job'[q].at = "none" <=> q > asked')
        /\ \A l \in Loads : load[l].at = "none" <=> l > loads
    BY DEF Types, Ordered
  <1>7. CASE has
    <2>1. \A l \in Loads : load'[l].at = "none" <=> l > loads'
      BY <1>1, <1>3, <1>5, <1>6, <1>7
    <2> QED
      BY <1>1, <1>3, <1>4, <1>6, <1>7, <2>1 DEF Ordered
  <1>8. CASE ~has
    BY <1>1, <1>3, <1>4, <1>6, <1>8 DEF Ordered
  <1> QED
    BY <1>7, <1>8

\* Every step keeps the types.
LEMMA TypesStep == Types /\ [Next]_vars => Types'
  <1> SUFFICES ASSUME Types, [Next]_vars PROVE Types'
    OBVIOUS
  <1> USE DEF ui, llm, history, Steady, Rest
  <1>1. Records /\ asked \in Nat /\ loads \in Nat
    BY Typed DEF Records
  <1>2. Ordered
    BY DEF Types
  <1>3. Records' /\ Ordered' => Types'
    BY TypedAgain, PTL
  <1>4. CASE RunEffect
    <2>1. currChat \in Chats /\ hasModel[currChat] \in BOOLEAN /\ loads < MaxLoads
      BY <1>1, <1>2, <1>4 DEF RunEffect, Records, Ordered
    <2>2. LoadModel(currChat, hasModel[currChat]) /\ UNCHANGED <<job, asked>> /\ effect' = FALSE
      BY <1>4 DEF RunEffect
    <2>3. /\ loads' \in 0 .. MaxLoads /\ load' \in [Loads -> LoadRecord]
          /\ isInitializingModel' \in BOOLEAN /\ mixed' \in BOOLEAN /\ Ordered'
      BY <2>1, <2>2, LoadModelTypes
    <2> QED
      BY <1>1, <1>3, <1>4, <2>3 DEF RunEffect, Records
  <1>5. CASE SendUserQuery
    <2>1. /\ asked + 1 \in Jobs /\ asked' = asked + 1 /\ job' \in [Jobs -> JobRecord]
          /\ \A r \in Jobs :
                job'[r].at = IF r = asked + 1 THEN "analysing" ELSE job[r].at
          /\ messages' \in [Chats -> Seq(Messages)]
      BY <1>5, Sends
    <2>2. asked' \in 0 .. MaxAsked /\ \A q \in Jobs : job'[q].at = "none" <=> q > asked'
      BY <1>1, <1>2, <2>1, Bounds DEF Ordered, Jobs
    <2>3. Ordered'
      BY <1>2, <1>5, <2>2 DEF Ordered, SendUserQuery
    <2>4. crossed' \in BOOLEAN /\ mixed' \in BOOLEAN
      BY <1>1, <1>5 DEF SendUserQuery, Records
    <2> QED
      BY <1>1, <1>3, <1>5, <2>1, <2>2, <2>3, <2>4 DEF SendUserQuery, Records
  <1>6. ASSUME Stop, UNCHANGED <<loads, load, asked, partialResponse, messages, hasModel,
                                 isInitializingModel, localOrabel, nativePtr, crossed, mixed,
                                 commands>>,
               effect' \in BOOLEAN, effect' => loads < MaxLoads, currChat' \in Chats
        PROVE  Types'
    <2>1. /\ job' \in [Jobs -> JobRecord]
          /\ \A r \in Jobs : job'[r].at = job[r].at
          /\ session' \in [Loads -> SessionRecord]
          /\ \A l \in Loads : SessionOK(session'[l])
          /\ isGeneratingResponse' = FALSE
      BY <1>6, Stops
    <2>2. early' \in BOOLEAN
      BY <1>1, <1>6 DEF Stop, Records
    <2> QED
      BY <1>1, <1>2, <1>3, <1>6, <2>1, <2>2 DEF Records, Ordered
  <1>7. CASE StopGeneration
    BY <1>1, <1>2, <1>6, <1>7 DEF StopGeneration, Records, Ordered
  <1>8. CASE SwitchChat
    <2>1. loads < MaxLoads
      BY <1>1, <1>8, Bounds DEF SwitchChat, MayLoad
    <2> QED
      BY <1>6, <1>8, <2>1 DEF SwitchChat
  <1>9. CASE UpdateChat
    <2>1. currChat \in Chats /\ TRUE \in BOOLEAN /\ loads + 1 < MaxLoads /\ loads < MaxLoads
      BY <1>1, <1>9, Bounds DEF UpdateChat, MayLoad, Records
    <2>2. LoadModel(currChat, TRUE) /\ UNCHANGED <<job, asked>>
      BY <1>9 DEF UpdateChat
    <2>3. /\ loads' \in 0 .. MaxLoads /\ load' \in [Loads -> LoadRecord]
          /\ isInitializingModel' \in BOOLEAN /\ mixed' \in BOOLEAN
          /\ (effect' => loads' < MaxLoads) => Ordered'
      BY <2>1, <2>2, LoadModelTypes
    <2>4. loads' = loads + 1
      BY <2>2 DEF LoadModel
    <2>5. hasModel' \in [Chats -> BOOLEAN] /\ effect' \in BOOLEAN
      BY <1>1, <1>9 DEF UpdateChat, Records
    <2> QED
      BY <1>1, <1>3, <1>9, <2>1, <2>3, <2>4, <2>5 DEF UpdateChat, Records
  <1>10. ASSUME NEW q \in Jobs, Job(q) PROVE Types'
    <2>1. /\ SameButPlace(q)
          /\ UNCHANGED <<currChat, effect, hasModel, isInitializingModel, asked, loads, load,
                         crossed, mixed, localOrabel, nativePtr>>
          /\ job[q].at # "none" /\ job'[q].at # "none"
      BY <1>10, JobMoves
    <2>2. /\ session' \in [Loads -> SessionRecord] /\ \A l \in Loads : SessionOK(session'[l])
          /\ messages' \in [Chats -> Seq(Messages)]
          /\ partialResponse' \in SUBSET Jobs
          /\ isGeneratingResponse' \in BOOLEAN
          /\ early' \in BOOLEAN /\ commands' \in SUBSET Jobs
      BY <1>10, JobTypes
    <2>3. Ordered'
      BY <1>2, <2>1 DEF Ordered, SameButPlace
    <2>4. Records'
      BY <1>1, <2>1, <2>2 DEF Records, SameButPlace
    <2> QED
      BY <1>3, <2>3, <2>4
  <1>11. ASSUME NEW l \in Loads, Load(l) PROVE Types'
    <2>1. /\ load' \in [Loads -> LoadRecord]
          /\ \A k \in Loads : k # l => load'[k] = load[k]
          /\ UNCHANGED Rest
          /\ load[l].at # "none" /\ load'[l].at # "none"
      BY <1>11, LoadMoves
    <2>2. /\ session' \in [Loads -> SessionRecord] /\ \A k \in Loads : SessionOK(session'[k])
          /\ localOrabel' \in 0 .. MaxLoads /\ nativePtr' \in [Loads -> 0 .. MaxLoads]
          /\ isInitializingModel' \in BOOLEAN
      BY <1>11, LoadTypes
    <2>3. Ordered'
      BY <1>2, <2>1 DEF Ordered
    <2>4. Records'
      BY <1>1, <2>1, <2>2 DEF Records
    <2> QED
      BY <1>3, <2>3, <2>4
  <1>12. CASE UNCHANGED vars
    BY <1>1, <1>2, <1>3, <1>12 DEF vars, Records, Ordered
  <1> QED
    BY <1>4, <1>5, <1>7, <1>8, <1>9, <1>10, <1>11, <1>12 DEF Next, Main

\* The types are an invariant.
LEMMA TypesInvariant == Spec => []Types
  BY TypesInit, TypesStep, PTL DEF Spec

\* Every coroutine is at one of its steps, and prev_len and the KV cache never exceed the
\* transcript.
THEOREM TypeCorrect == Spec => []TypeOK
  BY TypesInvariant, PTL DEF Types

-----------------------------------------------------------------------------
(* The flag of an answer.                                                  *)

\* No answer is in progress at the start.
LEMMA FlagInit == Init => CanBeStopped
  BY DEF Init, CanBeStopped

\* A question is sent when the flag is off, so every answer that goes on is cancelled;
\* stopping cancels the last one, and only its uncancelled end resets the flag.
LEMMA FlagStep == Types /\ CanBeStopped /\ [Next]_vars => CanBeStopped'
  <1> SUFFICES ASSUME Types, CanBeStopped, [Next]_vars PROVE CanBeStopped'
    OBVIOUS
  <1>1. /\ isGeneratingResponse \in BOOLEAN /\ asked \in Nat
        /\ job \in [Jobs -> JobRecord]
        /\ \A q \in Jobs : job[q].cancelled \in BOOLEAN /\ q > 0 /\ q \in Nat
    BY Typed, Bounds DEF JobRecord
  <1>2. CASE UNCHANGED <<job, asked, isGeneratingResponse>>
    BY <1>2 DEF CanBeStopped
  <1>3. CASE SendUserQuery
    <2>1. /\ asked + 1 \in Jobs /\ asked' = asked + 1
          /\ \A r \in Jobs :
                /\ job'[r].at = IF r = asked + 1 THEN "analysing" ELSE job[r].at
                /\ job'[r].cancelled = job[r].cancelled
      BY <1>3, Sends
    <2>2. ~isGeneratingResponse /\ isGeneratingResponse' = TRUE
      BY <1>3 DEF SendUserQuery
    <2> QED
      BY <2>1, <2>2 DEF CanBeStopped
  <1>4. CASE Stop /\ asked' = asked
    <2>1. \A r \in Jobs :
             /\ job'[r].at = job[r].at
             /\ job'[r].cancelled <=> job[r].cancelled \/ (Active /\ r = asked)
      BY <1>4, Stops
    <2>2. \A r \in Jobs : job'[r].at \notin {"none", "done"} => job'[r].cancelled
      <3> SUFFICES ASSUME NEW r \in Jobs, job'[r].at \notin {"none", "done"},
                          ~job'[r].cancelled
                   PROVE  FALSE
        OBVIOUS
      <3>1. job[r].at \notin {"none", "done"} /\ ~job[r].cancelled
        BY <2>1
      <3>2. r = asked
        BY <3>1 DEF CanBeStopped
      <3>3. Active
        BY <1>1, <3>1, <3>2 DEF Active
      <3> QED
        BY <2>1, <3>2, <3>3
    <2> QED
      BY <2>2 DEF CanBeStopped
  <1>5. ASSUME NEW q \in Jobs, Job(q) PROVE CanBeStopped'
    <2>1. SameButPlace(q) /\ asked' = asked /\ job[q].at \notin {"none", "done"}
      BY <1>5, JobMoves
    <2>2. \A r \in Jobs : /\ r # q => job'[r].at = job[r].at
                          /\ job'[r].cancelled = job[r].cancelled
      BY <2>1 DEF SameButPlace
    <2>3. CASE EndJob(q)
      <3>1. /\ isGeneratingResponse' = (isGeneratingResponse /\ job[q].cancelled)
            /\ job'[q].at = "done"
        BY <2>3, JobEnds DEF EndJob
      <3>2. job[q].cancelled = TRUE \/ job[q].cancelled = FALSE
        BY <1>1
      <3>3. CASE job[q].cancelled = TRUE
        <4>1. isGeneratingResponse' = isGeneratingResponse
          BY <1>1, <3>1, <3>3
        <4> QED
          BY <2>1, <2>2, <3>1, <4>1 DEF CanBeStopped
      <3>4. CASE job[q].cancelled = FALSE
        <4>1. q = asked
          BY <2>1, <3>4 DEF CanBeStopped
        <4>2. \A r \in Jobs : r # q /\ job[r].at \notin {"none", "done"} => job[r].cancelled
          BY <4>1 DEF CanBeStopped
        <4> QED
          BY <2>2, <3>1, <4>2 DEF CanBeStopped
      <3> QED
        BY <3>2, <3>3, <3>4
    <2>4. CASE ~EndJob(q)
      <3>1. isGeneratingResponse' = isGeneratingResponse
        BY <1>5, <2>4 DEF Job, EndAnalysis, Ask, Command, EmitResult, Start, Prompt,
          DecodeFails, Decodes, Piece, EndOfGeneration, Emit, StopOwn, StopShared,
          CancelShared, Save, Steady, ui
      <3> QED
        BY <2>1, <2>2, <3>1 DEF CanBeStopped
    <2> QED
      BY <2>3, <2>4
  <1> QED
    BY <1>2, <1>3, <1>4, <1>5, LoadMoves
      DEF Next, Main, RunEffect, StopGeneration, SwitchChat, UpdateChat, Rest, vars, ui

\* An answer that is being made can be stopped: its flag is on, whatever the order in which
\* answers are asked for, stopped and ended.
THEOREM Stoppable == Spec => []CanBeStopped
  BY TypesInvariant, FlagInit, FlagStep, PTL DEF Spec

-----------------------------------------------------------------------------
(* Who works on which instance, as long as no two coroutines overlap.       *)

\* Without a question sent too early, one coroutine at most is alive: the last.
OneJob == ~crossed => \A q \in Jobs : job[q].at \notin {"none", "done"} => q = asked

\* With no load beside another load or an answer, the last load alone is busy,
Busy(l) == load[l].at \notin {"none", "done"}
OneLoad == \A l \in Loads : Busy(l) => l = loads /\ ~Answering

\* an answer calls the object in use,
HoldsObject == {"starting", "prompting", "decoding", "sampling", "emitting", "stopping"}
OwnObject == \A q \in Jobs : job[q].at \in HoldsObject => job[q].object = localOrabel

\* a load works on its own object,
OwnLoad == \A l \in Loads :
  /\ load[l].at \in {"create", "loading", "reading", "adding"} => localOrabel = l
  /\ load[l].at = "loading" => load[l].object = l
  /\ nativePtr[l] \in {0, l}

\* and an instance is new until its load adds to it.
Fresh == \A l \in Loads :
  /\ load[l].at \in {"none", "check", "new", "create", "loading"} => nativePtr[l] = 0
  /\ nativePtr[l] = 0 \/ load[l].at = "reading" => session[l] = NewSession

Separate == ~mixed => OneLoad /\ OwnObject /\ OwnLoad /\ Fresh
Alone == OneJob /\ Separate

\* At the start nothing goes on.
LEMMA AloneInit == Init => Alone
  BY Bounds DEF Init, Alone, OneJob, Separate, OneLoad, Busy, OwnObject, HoldsObject,
    OwnLoad, Fresh, Answering

\* An answer is in progress when some coroutine is alive, and the last one is when it is
\* active.
LEMMA AnsweringJobs ==
  ASSUME Types
  PROVE  /\ \A q \in Jobs : job[q].at \notin {"none", "done"} => Answering
         /\ Active => Answering /\ asked \in Jobs /\ job[asked].at \notin {"none", "done"}
  <1>1. asked \in 0 .. MaxAsked /\ asked \in Nat
    BY Typed
  <1>2. Active => asked \in Jobs /\ job[asked].at # "none"
    BY <1>1, Bounds DEF Active, Jobs, Types, Ordered
  <1> QED
    BY <1>2 DEF Active, Answering

\* The instance behind an object has the object's number.
LEMMA OwnPtr ==
  ASSUME Types, OwnLoad, NEW o \in 0 .. MaxLoads
  PROVE  /\ Ptr(o) # 0 => Ptr(o) = o /\ o \in Loads /\ nativePtr[o] = o
         /\ \A l \in Loads : l = Ptr(o) => l = o /\ nativePtr[l] = l /\ l # 0
  BY Bounds DEF OwnLoad, Ptr

\* Which instance a step of an answer's coroutine may change.
LEMMA JobInstance ==
  ASSUME Types, NEW q \in Jobs, Job(q), OwnObject
  PROVE  \A l \in Loads : l # Ptr(localOrabel) => session'[l] = session[l]
  <1>1. CASE Start(q) \/ Prompt(q) \/ Decodes(q) \/ Piece(q) \/ StopOwn(q) \/ StopShared(q)
             \/ CancelShared(q)
    <2> DEFINE o == IF job[q].at \in {"stopped", "caught"} THEN localOrabel ELSE job[q].object
    <2>1. job[q].at \in HoldsObject \union {"stopped", "caught"}
      BY <1>1 DEF HoldsObject, Start, Prompt, Decodes, Piece, StopOwn, StopShared,
             CancelShared, JobAt
    <2>2. o = localOrabel
      BY <2>1 DEF OwnObject
    <2>3. \A l \in Loads : l # Ptr(o) => session'[l] = session[l]
      BY <1>1, JobCalls
    <2> QED
      BY <2>2, <2>3
  <1>2. CASE ~(\/ Start(q) \/ Prompt(q) \/ Decodes(q) \/ Piece(q)
               \/ StopOwn(q) \/ StopShared(q) \/ CancelShared(q))
    BY <1>2 DEF Job, EndAnalysis, Ask, Command, EmitResult, DecodeFails, EndOfGeneration,
       Emit, Save, EndJob, llm
  <1> QED
    BY <1>1, <1>2

\* A question is sent when no coroutine is alive, or it crosses the one that is.
LEMMA OneJobStep == Types /\ OneJob /\ [Next]_vars => OneJob'
  <1> SUFFICES ASSUME Types, OneJob, [Next]_vars, ~crossed'
               PROVE  \A q \in Jobs : job'[q].at \notin {"none", "done"} => q = asked'
    BY DEF OneJob
  <1>1. CASE UNCHANGED <<job, asked, crossed>>
    BY <1>1 DEF OneJob
  <1>2. CASE SendUserQuery
    <2>1. /\ asked' = asked + 1
          /\ \A r \in Jobs : job'[r].at = IF r = asked + 1 THEN "analysing" ELSE job[r].at
      BY <1>2, Sends
    <2>2. ~Answering
      BY <1>2 DEF SendUserQuery
    <2> QED
      BY <2>1, <2>2 DEF Answering
  <1>3. CASE Stop /\ UNCHANGED <<asked, crossed>>
    BY <1>3, Stops DEF OneJob
  <1>4. ASSUME NEW q \in Jobs, Job(q)
        PROVE  \A r \in Jobs : job'[r].at \notin {"none", "done"} => r = asked'
    <2>1. /\ SameButPlace(q) /\ asked' = asked /\ crossed' = crossed
          /\ job[q].at \notin {"none", "done"}
      BY <1>4, JobMoves
    <2> QED
      BY <2>1 DEF SameButPlace, OneJob
  <1> QED
    BY <1>1, <1>2, <1>3, <1>4, LoadMoves
      DEF Next, Main, RunEffect, StopGeneration, SwitchChat, UpdateChat, Rest, vars, ui, history

\* A load that starts beside nothing is the only one.
LEMMA SeparateLoad ==
  ASSUME Types, Separate, NEW chat \in Chats, NEW has \in BOOLEAN, LoadModel(chat, has),
         has => loads + 1 \in Loads, UNCHANGED <<job, asked, llm>>
  PROVE  Separate'
  <1> SUFFICES ASSUME ~mixed'
               PROVE  OneLoad' /\ OwnObject' /\ OwnLoad' /\ Fresh'
    BY DEF Separate
  <1>1. /\ has => /\ loads' = loads + 1 /\ load[loads + 1].at = "none"
                  /\ mixed' <=> mixed \/ Loading \/ Answering
        /\ ~has => UNCHANGED <<isInitializingModel, loads, load, mixed>>
        /\ \A l \in Loads :
              load'[l] = IF has /\ l = loads + 1
                         THEN [at |-> "check", chat |-> chat, object |-> 0, todo |-> <<>>]
                         ELSE load[l]
    BY LoadStarts
  <1>2. UNCHANGED <<job, localOrabel, nativePtr, session>>
    BY DEF llm
  <1>3. CASE ~has
    BY <1>1, <1>2, <1>3
      DEF Separate, OneLoad, Busy, OwnObject, OwnLoad, Fresh, Answering
  <1>4. CASE has
    <2>1. ~mixed /\ ~Loading /\ ~Answering
      BY <1>1, <1>4
    <2>2. OneLoad'
      BY <1>1, <1>2, <1>4, <2>1 DEF OneLoad, Busy, Loading, Answering
    <2>3. OwnObject'
      BY <1>2, <2>1 DEF Separate, OwnObject
    <2>4. OwnLoad'
      BY <1>1, <1>2, <1>4, <2>1 DEF Separate, OwnLoad
    <2>5. Fresh'
      BY <1>1, <1>2, <1>4, <2>1 DEF Separate, Fresh
    <2> QED
      BY <2>2, <2>3, <2>4, <2>5
  <1> QED
    BY <1>3, <1>4

\* As long as nothing overlaps, a step of an answer's coroutine calls the object in use,
\* which is not one that a load works on.
LEMMA SeparateJob ==
  ASSUME Types, Separate, NEW q \in Jobs, Job(q)
  PROVE  Separate'
  <1> SUFFICES ASSUME ~mixed' PROVE OneLoad' /\ OwnObject' /\ OwnLoad' /\ Fresh'
    BY DEF Separate
  <1>1. /\ SameButPlace(q) /\ UNCHANGED <<load, loads, localOrabel, nativePtr, mixed>>
        /\ job[q].at \notin {"none", "done"}
        /\ \A r \in Jobs : job'[r].object =
               IF r = q /\ Ask(q) THEN localOrabel
               ELSE IF r = q /\ EndJob(q) THEN 0 ELSE job[r].object
        /\ job'[q].at \in HoldsObject => Ask(q) \/ job[q].at \in HoldsObject
        /\ EndJob(q) => job'[q].at = "done"
    BY JobMoves, JobEnds DEF HoldsObject, history
  <1>2. OneLoad /\ OwnObject /\ OwnLoad /\ Fresh /\ Answering
    BY <1>1, AnsweringJobs DEF Separate
  <1>3. \A l \in Loads : ~Busy(l)
    BY <1>2 DEF OneLoad
  <1>4. OneLoad'
    BY <1>1, <1>3 DEF OneLoad, Busy
  <1>5. OwnObject'
    BY <1>1, <1>2 DEF OwnObject, SameButPlace, HoldsObject
  <1>6. OwnLoad'
    BY <1>1, <1>2 DEF OwnLoad
  <1>7. \A l \in Loads : nativePtr[l] = 0 => session'[l] = session[l]
    BY <1>2, JobInstance, OwnPtr, Typed
  <1>8. Fresh'
    BY <1>1, <1>2, <1>3, <1>7 DEF Fresh, Busy
  <1> QED
    BY <1>4, <1>5, <1>6, <1>8

\* As long as nothing overlaps, a step of the only load works on its own object.
LEMMA SeparateLoads ==
  ASSUME Types, Separate, NEW l \in Loads, Load(l)
  PROVE  Separate'
  <1> SUFFICES ASSUME ~mixed' PROVE OneLoad' /\ OwnObject' /\ OwnLoad' /\ Fresh'
    BY DEF Separate
  <1>1. /\ load' \in [Loads -> LoadRecord]
        /\ \A k \in Loads : k # l => load'[k] = load[k]
        /\ UNCHANGED <<job, loads, mixed>> /\ Busy(l)
    BY LoadMoves DEF Rest, history, Busy
  <1>2. OneLoad /\ OwnObject /\ OwnLoad /\ Fresh
    BY <1>1 DEF Separate
  <1>3. l = loads /\ ~Answering /\ \A k \in Loads : k # l => ~Busy(k)
    BY <1>1, <1>2 DEF OneLoad
  <1>4. OneLoad'
    BY <1>1, <1>3 DEF OneLoad, Busy, Answering
  <1>5. OwnObject'
    BY <1>1, <1>3 DEF OwnObject, HoldsObject, Answering
  <1>6. l # 0
    BY Bounds
  <1>7. OwnLoad' /\ Fresh'
    <2>1. CASE Fail(l, "check") \/ Fail(l, "create")
      <3>1. load'[l].at = "done" /\ UNCHANGED <<localOrabel, nativePtr, session>>
        BY <1>1, <2>1, LoadGoes DEF Fail, LoadSteps, llm
      <3> QED
        BY <1>1, <1>2, <3>1 DEF OwnLoad, Fresh
    <2>2. CASE Close(l) \/ New(l)
      <3>1. \/ /\ load[l].at = "check" /\ load'[l].at = "new" /\ localOrabel' = 0
            \/ /\ load[l].at = "new" /\ load'[l].at = "create" /\ localOrabel' = l
        BY <2>2, LoadGoes DEF Close, New, LoadSteps
      <3>2. UNCHANGED <<nativePtr, session>>
        BY <2>2 DEF Close, New
      <3> QED
        BY <1>1, <1>2, <1>3, <3>1, <3>2 DEF OwnLoad, Fresh, Busy
    <2>3. CASE Create(l)
      <3>1. /\ load[l].at = "create" /\ load'[l].at = "loading"
            /\ load'[l].object = localOrabel
        BY <2>3, Creates
      <3>2. UNCHANGED <<localOrabel, nativePtr, session>>
        BY <2>3 DEF Create, llm
      <3> QED
        BY <1>1, <1>2, <3>1, <3>2 DEF OwnLoad, Fresh
    <2>4. CASE Created(l)
      <3>1. load[l].at = "loading" /\ load'[l].at = "reading" /\ load[l].object = l
        BY ZenonT(30), <1>2, <2>4, Creates DEF Created, OwnLoad
      <3>2. /\ UNCHANGED <<localOrabel, session>>
            /\ nativePtr \in [Loads -> 0 .. MaxLoads]
            /\ \E instance \in {0, l} : nativePtr' = [nativePtr EXCEPT ![l] = instance]
        BY <2>4, <3>1, Typed DEF Created
      <3> QED
        BY <1>1, <1>2, <3>1, <3>2 DEF OwnLoad, Fresh
    <2>5. CASE ReadHistory(l)
      <3>1. load[l].at = "reading" /\ load'[l].at = "adding"
        BY <2>5, Reads
      <3>2. UNCHANGED <<localOrabel, nativePtr, session>>
        BY <2>5 DEF ReadHistory, llm
      <3> QED
        BY <1>1, <1>2, <3>1, <3>2 DEF OwnLoad, Fresh
    <2>6. CASE AddHistory(l)
      <3>1. load[l].at = "adding" /\ load'[l].at = "adding"
        BY <2>6, Reads DEF AddHistory
      <3>2. UNCHANGED <<localOrabel, nativePtr>>
        BY <2>6 DEF AddHistory
      <3>3. localOrabel = l
        BY <1>2, <3>1 DEF OwnLoad
      <3>4. \A k \in Loads : k # l \/ nativePtr[k] = 0 => session'[k] = session[k]
        BY <1>2, <2>6, <3>3, AddsOne, OwnPtr, Typed
      <3> QED
        BY <1>1, <1>2, <3>1, <3>2, <3>4 DEF OwnLoad, Fresh
    <2>7. CASE Ready(l)
      <3>1. load[l].at = "adding" /\ load'[l].at = "done"
        BY <2>7, LoadGoes DEF Ready, LoadSteps
      <3>2. UNCHANGED <<localOrabel, nativePtr, session>>
        BY <2>7 DEF Ready, llm
      <3> QED
        BY <1>1, <1>2, <3>1, <3>2 DEF OwnLoad, Fresh
    <2> QED
      BY <2>1, <2>2, <2>3, <2>4, <2>5, <2>6, <2>7 DEF Load
  <1> QED
    BY <1>4, <1>5, <1>7

\* Each load that starts beside another load or an answer is noted, and a question sent
\* beside a load: without one, everyone works on his own instance.
LEMMA AloneStep == Types /\ Alone /\ [Next]_vars => Alone'
  <1> SUFFICES ASSUME Types, Alone, [Next]_vars PROVE Separate'
    BY OneJobStep DEF Alone
  <1>1. Separate /\ currChat \in Chats /\ hasModel \in [Chats -> BOOLEAN]
        /\ loads \in Nat /\ MaxLoads \in Nat
    BY Typed, Bounds DEF Alone
  <1>2. CASE RunEffect
    <2>1. /\ hasModel[currChat] \in BOOLEAN /\ loads + 1 \in Loads
          /\ LoadModel(currChat, hasModel[currChat]) /\ UNCHANGED <<job, asked, llm>>
      BY <1>1, <1>2 DEF RunEffect, Types, Ordered, Loads
    <2> QED
      BY <1>1, <2>1, SeparateLoad
  <1>3. CASE UpdateChat
    <2>1. LoadModel(currChat, TRUE) /\ UNCHANGED <<job, asked, llm>> /\ loads + 2 <= MaxLoads
      BY <1>3 DEF UpdateChat, MayLoad
    <2>2. TRUE \in BOOLEAN /\ loads + 1 \in Loads
      BY <1>1, <2>1 DEF Loads
    <2> QED
      BY <1>1, <2>1, <2>2, SeparateLoad
  <1>4. CASE SendUserQuery
    <2> SUFFICES ASSUME ~mixed' PROVE OneLoad' /\ OwnObject' /\ OwnLoad' /\ Fresh'
      BY DEF Separate
    <2>1. \A r \in Jobs :
             /\ job'[r].at = IF r = asked + 1 THEN "analysing" ELSE job[r].at
             /\ job'[r].object = job[r].object
      BY <1>4, Sends
    <2>2. /\ ~Loading /\ ~mixed
          /\ UNCHANGED <<loads, load, localOrabel, nativePtr, session>>
      BY <1>4 DEF SendUserQuery, llm
    <2>3. OneLoad'
      BY <2>2 DEF OneLoad, Loading, Busy
    <2>4. OwnObject'
      BY <1>1, <2>1, <2>2 DEF Separate, OwnObject, HoldsObject
    <2> QED
      BY <1>1, <2>2, <2>3, <2>4 DEF Separate, OwnLoad, Fresh
  <1>5. CASE Stop /\ UNCHANGED <<loads, load, localOrabel, nativePtr, mixed>>
    <2> SUFFICES ASSUME ~mixed' PROVE OneLoad' /\ OwnObject' /\ OwnLoad' /\ Fresh'
      BY DEF Separate
    <2>1. /\ \A r \in Jobs : job'[r].at = job[r].at /\ job'[r].object = job[r].object
          /\ \A l \in Loads :
                session'[l] = IF Active /\ l = Ptr(localOrabel)
                              THEN CancelCompletion(session[l]) ELSE session[l]
      BY <1>5, Stops
    <2>2. OneLoad /\ OwnObject /\ OwnLoad /\ Fresh
      BY <1>1, <1>5 DEF Separate
    <2>3. \A l \in Loads : nativePtr[l] = 0 \/ load[l].at = "reading" =>
                              session'[l] = session[l]
      <3>1. \A l \in Loads : l = Ptr(localOrabel) => nativePtr[l] = l /\ l # 0
        BY <2>2, OwnPtr, Typed
      <3>2. Active => \A l \in Loads : load[l].at # "reading"
        BY <2>2, AnsweringJobs DEF OneLoad, Busy
      <3> QED
        BY <2>1, <3>1, <3>2
    <2> QED
      BY <1>5, <2>1, <2>2, <2>3 DEF OneLoad, Busy, OwnObject, OwnLoad, Fresh, Answering
  <1>6. CASE UNCHANGED vars
    BY <1>1, <1>6 DEF vars, llm, history, Separate, OneLoad, Busy, OwnObject, OwnLoad, Fresh,
      Answering
  <1> QED
    BY <1>1, <1>2, <1>3, <1>4, <1>5, <1>6, SeparateJob, SeparateLoads
      DEF Next, Main, StopGeneration, SwitchChat

\* As long as nothing overlaps, everyone works alone on his own instance.
LEMMA AloneInvariant == Spec => []Alone
  BY TypesInvariant, AloneInit, AloneStep, PTL DEF Spec

-----------------------------------------------------------------------------
(* The words of a response.                                                *)

\* Only the answer in progress has words in a response, and only in that of the instance
\* in use.
Pending == {"decoding", "sampling", "emitting", "stopping", "caught"}
ResponseInv ==
  ~crossed /\ ~mixed => \A l \in Loads : session[l].response # {} =>
    /\ asked \in Jobs /\ job[asked].at \in Pending
    /\ l = Ptr(localOrabel) /\ session[l].response = {asked}

\* What was noted stays noted.
LEMMA NotesStay ==
  ASSUME Types, [Next]_vars
  PROVE  /\ (crossed => crossed') /\ (mixed => mixed') /\ (early => early')
         /\ \A q \in Jobs : job[q].erred => job'[q].erred
         /\ commands \subseteq commands'
  <1>1. CASE RunEffect \/ UpdateChat
    <2>1. (mixed => mixed') /\ UNCHANGED <<job, crossed, early, commands>>
      BY <1>1 DEF RunEffect, UpdateChat, LoadModel
    <2> QED
      BY <2>1
  <1>2. CASE SendUserQuery
    <2>1. \A r \in Jobs : job'[r].erred = job[r].erred
      BY <1>2, Sends
    <2> QED
      BY <1>2, <2>1 DEF SendUserQuery
  <1>3. CASE StopGeneration \/ SwitchChat
    <2>1. Stop /\ UNCHANGED <<crossed, mixed, commands>>
      BY <1>3 DEF StopGeneration, SwitchChat
    <2> QED
      BY <2>1, Stops
  <1>4. ASSUME NEW q \in Jobs, Job(q)
        PROVE  /\ UNCHANGED <<crossed, mixed>> /\ (early => early')
               /\ commands \subseteq commands' /\ \A r \in Jobs : job[r].erred => job'[r].erred
    <2>1. /\ SameButPlace(q) /\ UNCHANGED <<crossed, mixed>> /\ (early => early')
          /\ commands \subseteq commands'
      BY <1>4, JobMoves
    <2> QED
      BY <2>1 DEF SameButPlace
  <1>5. ASSUME NEW l \in Loads, Load(l) PROVE UNCHANGED <<history, job>>
    BY <1>5, LoadMoves DEF Rest
  <1> QED
    BY <1>1, <1>2, <1>3, <1>4, <1>5 DEF Next, Main, vars, history

\* No response has words at the start.
LEMMA ResponseInit == Init => ResponseInv
  BY DEF Init, ResponseInv, NewSession

\* No response has words unless the last coroutine is at one of the steps in between.
LEMMA NoResponse ==
  ASSUME Types, ResponseInv, ~crossed, ~mixed,
         asked \in Jobs => job[asked].at \notin Pending
  PROVE  \A l \in Loads : session[l].response = {}
  BY DEF ResponseInv

\* The calls of an answer's coroutine: words join the response of the object in use, which
\* is empty again when the coroutine leaves the loop.
LEMMA ResponseJob ==
  ASSUME Types, Alone, ResponseInv, NEW q \in Jobs, Job(q), ~crossed, ~mixed
  PROVE  ResponseInv'
  <1> DEFINE p == Ptr(localOrabel)
  <1>1. /\ SameButPlace(q) /\ UNCHANGED <<asked, localOrabel, nativePtr>>
        /\ q = asked /\ asked \in Nat
        /\ OwnObject /\ OwnLoad
    BY JobMoves, Typed DEF Alone, OneJob, Separate
  <1>2. p' = p
    BY <1>1 DEF Ptr
  <1>3. \A l \in Loads : l # p => session'[l] = session[l] /\ session[l].response = {}
    BY <1>1, JobInstance DEF ResponseInv
  <1>4. \A l \in Loads : SessionOK(session[l])
    BY Typed
  <1>5. ASSUME NEW l \in Loads, l = p => session'[l].response = {}
        PROVE  session'[l].response = {}
    BY <1>3, <1>5
  <1>6. SUFFICES ASSUME NEW l \in Loads, l = p, session'[l].response # {}
                 PROVE  session'[l].response = {q} /\ job'[q].at \in Pending
    BY <1>1, <1>2, <1>3 DEF ResponseInv
  <1>7. session[l].response # {} => session[l].response = {q} /\ job[q].at \in Pending
    BY <1>1 DEF ResponseInv
  <1>8. CASE UNCHANGED session /\ job'[q].at \in Pending
    BY <1>6, <1>7, <1>8
  <1>9. CASE UNCHANGED session /\ job[q].at \notin Pending
    BY <1>6, <1>7, <1>9
  <1>10. CASE EndAnalysis(q) \/ Ask(q) \/ Command(q) \/ EmitResult(q) \/ Save(q) \/ EndJob(q)
    BY <1>9, <1>10 DEF EndAnalysis, Ask, Command, EmitResult, Save, EndJob, JobAt, llm, Pending
  <1>11. CASE DecodeFails(q) \/ EndOfGeneration(q)
    <2>1. UNCHANGED session
      BY <1>11 DEF DecodeFails, EndOfGeneration, llm
    <2>2. job'[q].at \in Pending
      BY <1>11, JobMoves DEF Pending, DecodeFails, EndOfGeneration, JobAt
    <2> QED
      BY <1>8, <2>1, <2>2
  <1>12. CASE Emit(q)
    <2>1. UNCHANGED session /\ job[q].at = "emitting"
      BY <1>12 DEF Emit, llm
    <2>2. job'[q].at = IF job[q].cancelled THEN "caught"
                       ELSE IF job[q].object = 0 THEN "stopped" ELSE "decoding"
      BY <2>1, JobMoves
    <2>3. job[q].object = localOrabel
      BY <1>1, <2>1 DEF OwnObject, HoldsObject
    <2>4. job[q].object # 0
      BY <1>6, <2>3, Bounds DEF Ptr
    <2> QED
      BY <1>8, <2>1, <2>2, <2>4 DEF Pending
  <1>13. CASE Start(q)
    <2>2. job[q].at = "starting" /\ job[q].object = localOrabel
      BY <1>1, <1>13 DEF Start, JobAt, OwnObject, HoldsObject
    <2>3. PICK long \in BOOLEAN : session'[l] = StartCompletion(session[l], {q}, long)
      BY <1>6, <1>13, <2>2, JobCalls
    <2>4. {q} \in SUBSET (0 .. MaxAsked) /\ {q} # {}
      BY Bounds
    <2>5. StartCompletion(session[l], {q}, long).response = session[l].response
      <3>1. SessionOK(session[l])
        BY <1>4
      <3> QED
        BY ZenonT(30), <2>4, <3>1, Started
    <2> QED
      BY <1>6, <1>7, <2>2, <2>3, <2>5 DEF Pending
  <1>18. CASE Prompt(q)
    <2>1. job[q].at = "prompting" /\ job[q].object = localOrabel
      BY <1>1, <1>18 DEF Prompt, JobAt, OwnObject, HoldsObject
    <2>2. session'[l] = Batched(session[l])
      BY <1>6, <1>18, <2>1, JobCalls
    <2>3. session'[l].response = session[l].response
      BY <1>4, <2>2, BatchedFields
    <2> QED
      BY <1>6, <1>7, <2>1, <2>3 DEF Pending
  <1>14. CASE Decodes(q)
    <2>0. job[q].at = "decoding"
      BY <1>14 DEF Decodes
    <2>1. /\ job[q].at = "decoding" /\ job[q].object = localOrabel
          /\ job'[q].at \in {"sampling", "emitting"}
      BY <1>1, <2>0, JobMoves DEF OwnObject, HoldsObject
    <2>2. PICK held \in BOOLEAN : session'[l] = Decode(session[l], held)
      BY <1>6, <1>14, <2>1, JobCalls
    <2>3. session'[l].response = session[l].response
      BY <1>4, <2>2, Decoded
    <2> QED
      BY <1>6, <1>7, <2>1, <2>3 DEF Pending
  <1>15. CASE Piece(q)
    <2>0. job[q].at = "sampling"
      BY <1>15 DEF Piece, JobAt
    <2>1. /\ job[q].at = "sampling" /\ job[q].object = localOrabel
          /\ job'[q].at \in {"emitting", "stopping"}
      BY <1>1, <2>0, JobMoves DEF OwnObject, HoldsObject
    <2>2. session'[l] = Sample(session[l], {q})
      BY <1>6, <1>15, <2>1, JobCalls
    <2>3. session'[l].response = session[l].response \union {q}
      <3>1. {q} \in SUBSET Jobs
        OBVIOUS
      <3> QED
        BY <1>4, <2>2, <3>1, Sampled
    <2> QED
      BY <1>6, <1>7, <2>1, <2>3 DEF Pending
  <1>16. CASE StopOwn(q) \/ StopShared(q)
    <2>1. /\ job[q].at \in {"stopping", "stopped"}
          /\ job[q].at = "stopping" => job[q].object = localOrabel
      BY <1>1, <1>16 DEF StopOwn, StopShared, JobAt, OwnObject, HoldsObject
    <2>2. session'[l] = StopCompletion(session[l])
      BY <1>6, <1>16, <2>1, JobCalls
    <2> QED
      BY <1>4, <1>6, <2>2, Stopped
  <1>17. CASE CancelShared(q)
    <2>1. job[q].at = "caught"
      BY <1>17 DEF CancelShared, JobAt
    <2>2. session'[l] = CancelCompletion(session[l])
      BY <1>6, <1>17, <2>1, JobCalls
    <2> QED
      BY <1>4, <1>6, <2>2, Cancelled
  <1> QED
    BY <1>10, <1>11, <1>12, <1>13, <1>14, <1>15, <1>16, <1>17, <1>18 DEF Job

\* A load changes no response, and there are no words in one while it runs.
LEMMA ResponseLoad ==
  ASSUME Types, Alone, ResponseInv, NEW l \in Loads, Load(l), ~crossed, ~mixed
  PROVE  ResponseInv'
  <1>1. UNCHANGED <<job, asked>> /\ Busy(l)
    BY LoadMoves DEF Rest, Busy
  <1>2. ~Answering
    BY <1>1 DEF Alone, Separate, OneLoad
  <1>3. asked \in Jobs => job[asked].at \notin Pending
    BY <1>2 DEF Answering, Pending
  <1>4. \A k \in Loads : session[k].response = {} /\ SessionOK(session[k])
    BY <1>3, NoResponse, Typed
  <1>5. \A k \in Loads : session'[k].response = {}
    <2>1. CASE AddHistory(l)
      <3> DEFINE m == Head(load[l].todo)
      <3>1. /\ m \in Messages
            /\ \A k \in Loads :
                  session'[k] = IF k = Ptr(localOrabel)
                                THEN AddMessage(session[k], m.role, m.text)
                                ELSE session[k]
        BY <2>1, AddsOne
      <3> HIDE DEF m
      <3>2. m.role \in {"user", "assistant"} /\ m.text \in SUBSET (0 .. MaxAsked)
        BY <3>1 DEF Messages
      <3>3. \A k \in Loads : AddMessage(session[k], m.role, m.text).response = {}
        BY <1>4, <3>2, Added
      <3> QED
        BY <1>4, <3>1, <3>3
    <2>2. CASE ~AddHistory(l)
      <3>1. UNCHANGED session
        BY <2>2 DEF Load, Fail, Close, New, Create, Created, ReadHistory, Ready, llm
      <3> QED
        BY <1>4, <3>1
    <2> QED
      BY <2>1, <2>2
  <1> QED
    BY <1>5 DEF ResponseInv

\* Every step keeps the words where they belong.
LEMMA ResponseStep == Types /\ Alone /\ ResponseInv /\ [Next]_vars => ResponseInv'
  <1> SUFFICES ASSUME Types, Alone, ResponseInv, [Next]_vars, ~crossed', ~mixed'
               PROVE  ResponseInv'
    BY DEF ResponseInv
  <1>1. ~crossed /\ ~mixed
    BY NotesStay
  <1>2. CASE UNCHANGED <<job, asked, llm, crossed>>
    BY <1>1, <1>2 DEF ResponseInv, Ptr, llm
  <1>3. CASE SendUserQuery
    <2>1. ~Answering /\ UNCHANGED session
      BY <1>3 DEF SendUserQuery, llm
    <2>2. asked \in Jobs => job[asked].at \notin Pending
      BY <2>1 DEF Answering, Pending
    <2>3. \A l \in Loads : session[l].response = {}
      BY <1>1, <2>2, NoResponse
    <2> QED
      BY <2>1, <2>3 DEF ResponseInv
  <1>4. CASE Stop /\ UNCHANGED <<asked, localOrabel, nativePtr>>
    <2>1. /\ \A r \in Jobs : job'[r].at = job[r].at
          /\ \A l \in Loads :
                session'[l] = IF Active /\ l = Ptr(localOrabel)
                              THEN CancelCompletion(session[l]) ELSE session[l]
      BY <1>4, Stops
    <2>2. \A l \in Loads : session'[l].response \in {{}, session[l].response}
      BY <2>1, Typed, Cancelled
    <2> QED
      BY <1>1, <1>4, <2>1, <2>2 DEF ResponseInv, Ptr
  <1> QED
    BY <1>1, <1>2, <1>3, <1>4, ResponseJob, ResponseLoad
      DEF Next, Main, RunEffect, StopGeneration, SwitchChat, UpdateChat, vars, llm, history

\* A completion begins with no words left of the one before, as long as no question was
\* sent while an answer was still ending and no load ran beside another coroutine.
THEOREM NothingLeftOver == Spec => []CleanStart
  <1>1. Types /\ Alone /\ ResponseInv => CleanStart
    <2> SUFFICES ASSUME Types, Alone, ResponseInv, ~crossed, ~mixed, NEW q \in Jobs,
                        job[q].at = "starting", Ptr(job[q].object) # 0
                 PROVE  Of(job[q].object).response = {}
      BY DEF CleanStart
    <2>1. q = asked
      BY DEF Alone, OneJob
    <2>2. \A l \in Loads : session[l].response = {}
      BY <2>1, NoResponse DEF Pending
    <2>3. job[q].object \in 0 .. MaxLoads
      BY Typed DEF JobRecord
    <2> QED
      BY <2>2, <2>3, OfTyped
  <1> QED
    BY <1>1, TypesInvariant, AloneInvariant, ResponseInit, ResponseStep, PTL DEF Spec

-----------------------------------------------------------------------------
(* The stored answers.                                                     *)

Unsaved == {"none", "analysing", "asking", "answering", "starting", "prompting", "decoding",
            "sampling", "emitting", "stopping", "stopped", "caught", "saving"}
Showing == (Unsaved \union {"ending"}) \ {"none", "analysing"}

\* Where a chat's messages hold words of the answer to question q.
Answers(chat, q) == {i \in DOMAIN chat : chat[i].role = "assistant" /\ q \in chat[i].text}

\* With one coroutine at a time the screen shows only words of its answer, nothing is
\* stored of it before the end, and what is stored is one message of the question's chat.
StoredInv ==
  ~crossed => \A q \in Jobs :
    /\ job[q].at \in Showing => partialResponse \subseteq {q}
    /\ job[q].at \in Unsaved => \A c \in Chats : Answers(messages[c], q) = {}
    /\ job[q].at = "ending" /\ q \in partialResponse =>
         \E i : Answers(messages[job[q].chat], q) = {i}
    /\ \A c \in Chats : \A i \in Answers(messages[c], q) :
         c = job[q].chat /\ messages[c][i].text = {q}

\* A message that is appended leaves the others where they are.
LEMMA AnswersAppended ==
  ASSUME NEW chat \in Seq(Messages), NEW m \in Messages, NEW q
  PROVE  /\ Answers(Append(chat, m), q) =
              IF m.role = "assistant" /\ q \in m.text
              THEN Answers(chat, q) \union {Len(chat) + 1} ELSE Answers(chat, q)
         /\ \A i \in Answers(chat, q) : Append(chat, m)[i] = chat[i]
  <1> DEFINE n == Len(chat) + 1
             longer == Append(chat, m)
  <1>1. /\ DOMAIN chat = 1 .. n - 1 /\ n \in Nat
        /\ DOMAIN longer = 1 .. n
        /\ \A i \in 1 .. n - 1 : longer[i] = chat[i]
        /\ longer[n] = m
    BY AppendProperties
  <1>2. 1 .. n = (1 .. n - 1) \union {n} /\ n \notin 1 .. n - 1
    BY <1>1
  <1> HIDE DEF n, longer
  <1>3. Answers(longer, q) = IF m.role = "assistant" /\ q \in m.text
                             THEN Answers(chat, q) \union {n} ELSE Answers(chat, q)
    BY <1>1, <1>2 DEF Answers
  <1> QED
    BY <1>1, <1>3 DEF n, longer, Answers

\* Nothing is stored of any answer at the start.
LEMMA StoredInit == Init => StoredInv
  <1> SUFFICES ASSUME Init PROVE StoredInv
    OBVIOUS
  <1>1. \A q \in Jobs : q # 0 /\ job[q].at = "none"
    BY Bounds DEF Init
  <1>2. ASSUME NEW c \in Chats, NEW q \in Jobs PROVE Answers(messages[c], q) = {}
    <2>1. messages[c] = IF hasModel[c]
                        THEN <<Message("user", {0}), Message("assistant", {0})>> ELSE <<>>
      BY DEF Init, Before
    <2>2. ASSUME NEW i \in DOMAIN messages[c] PROVE messages[c][i].text = {0}
      <3>1. CASE hasModel[c]
        <4>1. messages[c][i] \in {Message("user", {0}), Message("assistant", {0})}
          BY <2>1, <2>2, <3>1
        <4> QED
          BY <4>1 DEF Message
      <3>2. CASE ~hasModel[c]
        BY <2>1, <2>2, <3>2
      <3> QED
        BY <3>1, <3>2
    <2> QED
      BY <1>1, <2>2 DEF Answers
  <1> QED
    BY <1>1, <1>2 DEF StoredInv, Showing

\* A step of an answer's coroutine: only its last steps store, and only its own words.
LEMMA StoredJob ==
  ASSUME Types, OneJob, StoredInv, NEW q \in Jobs, Job(q), ~crossed
  PROVE  StoredInv'
  <1>1. /\ SameButPlace(q) /\ q = asked
        /\ \A r \in Jobs : r # q => job[r].at \in {"none", "done"}
        /\ job[q].at \in (Unsaved \union {"ending"}) \ {"none"}
    BY JobMoves DEF OneJob, Unsaved
  <1>2. /\ \A r \in Jobs : job'[r].chat = job[r].chat /\ (r # q => job'[r].at = job[r].at)
        /\ \A r \in Jobs : job[r].chat \in Chats
        /\ messages \in [Chats -> Seq(Messages)]
    BY <1>1, Typed DEF SameButPlace, JobRecord
  <1>3. /\ job[q].at \in Showing => partialResponse \subseteq {q}
        /\ \A r \in Jobs :
             /\ job[r].at \in Unsaved => \A c \in Chats : Answers(messages[c], r) = {}
             /\ \A c \in Chats : \A i \in Answers(messages[c], r) :
                  c = job[r].chat /\ messages[c][i].text = {r}
    BY DEF StoredInv
  <1>4. ASSUME UNCHANGED messages, job'[q].at \in Unsaved \union {"done"},
               job'[q].at \in Unsaved => job[q].at \in Unsaved,
               job'[q].at \in Showing => partialResponse' \subseteq {q}
        PROVE  StoredInv'
    <2> SUFFICES ASSUME NEW r \in Jobs
                 PROVE  /\ job'[r].at \in Showing => partialResponse' \subseteq {r}
                        /\ job'[r].at \in Unsaved =>
                             \A c \in Chats : Answers(messages'[c], r) = {}
                        /\ job'[r].at = "ending" /\ r \in partialResponse' =>
                             \E i : Answers(messages'[job'[r].chat], r) = {i}
                        /\ \A c \in Chats : \A i \in Answers(messages'[c], r) :
                             c = job'[r].chat /\ messages'[c][i].text = {r}
      BY DEF StoredInv
    <2> QED
      BY <1>1, <1>2, <1>3, <1>4 DEF Showing, Unsaved
  <1>5. CASE EndAnalysis(q)
    <2>1. job[q].at = "analysing" /\ job'[q].at = "asking"
      BY <1>5, JobMoves DEF EndAnalysis, JobAt
    <2> QED
      BY <1>4, <1>5, <2>1 DEF EndAnalysis, Unsaved
  <1>6. CASE Emit(q)
    <2>1. job[q].at = "emitting"
      BY <1>6 DEF Emit
    <2>2. job'[q].at \in {"caught", "stopped", "decoding"}
      BY <2>1, JobMoves
    <2>3. partialResponse' \subseteq {q} /\ UNCHANGED messages
      BY <1>3, <1>6, <2>1 DEF Emit, Showing, Unsaved
    <2> QED
      BY <1>4, <2>1, <2>2, <2>3 DEF Unsaved
  <1>10. CASE EmitResult(q)
    <2>1. job[q].at = "answering" /\ job'[q].at \in {"caught", "stopped"}
      BY <1>10, JobMoves DEF EmitResult, JobAt
    <2>2. partialResponse' \subseteq {q} /\ UNCHANGED messages
      BY <1>3, <1>10, <2>1 DEF EmitResult, Showing, Unsaved
    <2> QED
      BY <1>4, <2>1, <2>2 DEF Unsaved
  <1>7. CASE EndJob(q)
    <2>1. job'[q].at = "done" /\ UNCHANGED <<messages, partialResponse>>
      BY <1>7, JobEnds DEF EndJob
    <2> QED
      BY <1>4, <2>1 DEF Showing, Unsaved
  <1>8. CASE Save(q)
    <2> DEFINE c0 == job[q].chat
               m == Message("assistant", partialResponse)
    <2>1. /\ job[q].at = "saving" /\ UNCHANGED partialResponse
          /\ partialResponse = {} => UNCHANGED messages
          /\ partialResponse # {} =>
               m \in Messages /\ messages' = [messages EXCEPT ![c0] = Append(messages[c0], m)]
      BY <1>8, Saves DEF Save
    <2>2. job'[q].at = "ending"
      BY <2>1, JobMoves
    <2>3. partialResponse \subseteq {q} /\ \A c \in Chats : Answers(messages[c], q) = {}
      BY <1>3, <2>1 DEF Showing, Unsaved
    <2>4. CASE partialResponse = {}
      <3> SUFFICES ASSUME NEW r \in Jobs
                   PROVE  /\ job'[r].at \in Showing => partialResponse' \subseteq {r}
                          /\ job'[r].at \in Unsaved =>
                               \A c \in Chats : Answers(messages'[c], r) = {}
                          /\ job'[r].at = "ending" /\ r \in partialResponse' =>
                               \E i : Answers(messages'[job'[r].chat], r) = {i}
                          /\ \A c \in Chats : \A i \in Answers(messages'[c], r) :
                               c = job'[r].chat /\ messages'[c][i].text = {r}
        BY DEF StoredInv
      <3> QED
        BY <1>1, <1>2, <1>3, <2>1, <2>2, <2>4 DEF Showing, Unsaved
    <2>5. CASE partialResponse # {}
      <3> DEFINE n == Len(messages[c0]) + 1
      <3>1. partialResponse = {q}
        BY <2>3, <2>5
      <3>2. m.role = "assistant" /\ m.text = {q} /\ m \in Messages
        BY <2>1, <2>5, <3>1 DEF Message
      <3>3. c0 \in Chats /\ messages[c0] \in Seq(Messages)
        BY <1>2
      <3>4. \A c \in Chats : messages'[c] = IF c = c0 THEN Append(messages[c0], m)
                                            ELSE messages[c]
        BY <1>2, <2>1, <2>5
      <3> HIDE DEF m
      <3>5. /\ \A r : Answers(Append(messages[c0], m), r) =
                        IF r = q THEN Answers(messages[c0], r) \union {n}
                        ELSE Answers(messages[c0], r)
            /\ \A r : \A i \in Answers(messages[c0], r) :
                  Append(messages[c0], m)[i] = messages[c0][i]
            /\ Append(messages[c0], m)[n] = m
        <4>1. ASSUME NEW r
              PROVE  /\ Answers(Append(messages[c0], m), r) =
                          IF m.role = "assistant" /\ r \in m.text
                          THEN Answers(messages[c0], r) \union {Len(messages[c0]) + 1}
                          ELSE Answers(messages[c0], r)
                     /\ \A i \in Answers(messages[c0], r) :
                           Append(messages[c0], m)[i] = messages[c0][i]
          <5>1. m \in Messages /\ messages[c0] \in Seq(Messages)
            BY <3>2, <3>3
          <5> QED
            BY <5>1, AnswersAppended
        <4>2. Append(messages[c0], m)[n] = m
          BY <3>2, <3>3, AppendProperties
        <4>3. \A r : Answers(Append(messages[c0], m), r) =
                       IF r = q THEN Answers(messages[c0], r) \union {n}
                       ELSE Answers(messages[c0], r)
          BY <3>2, <4>1
        <4>4. \A r : \A i \in Answers(messages[c0], r) :
                 Append(messages[c0], m)[i] = messages[c0][i]
          BY <4>1
        <4> QED
          BY <4>2, <4>3, <4>4
      <3> HIDE DEF n
      <3>6. /\ Answers(messages'[c0], q) = {n} /\ messages'[c0][n].text = {q}
            /\ \A c \in Chats : c # c0 => Answers(messages'[c], q) = {}
        BY <2>3, <3>2, <3>3, <3>4, <3>5
      <3>7. \A r \in Jobs : r # q => \A c \in Chats :
               /\ Answers(messages'[c], r) = Answers(messages[c], r)
               /\ \A i \in Answers(messages[c], r) : messages'[c][i] = messages[c][i]
        BY <3>3, <3>4, <3>5
      <3>8. ASSUME NEW r \in Jobs
            PROVE  /\ job'[r].at \in Showing => partialResponse' \subseteq {r}
                   /\ job'[r].at \in Unsaved =>
                        \A c \in Chats : Answers(messages'[c], r) = {}
                   /\ job'[r].at = "ending" /\ r \in partialResponse' =>
                        \E i : Answers(messages'[job'[r].chat], r) = {i}
                   /\ \A c \in Chats : \A i \in Answers(messages'[c], r) :
                        c = job'[r].chat /\ messages'[c][i].text = {r}
        <4>1. CASE r = q
          BY <1>2, <2>1, <2>2, <3>1, <3>6, <4>1 DEF Unsaved
        <4>2. CASE r # q
          BY <1>1, <1>2, <1>3, <3>7, <4>2 DEF Showing, Unsaved
        <4> QED
          BY <4>1, <4>2
      <3> QED
        BY <3>8 DEF StoredInv
    <2> QED
      BY <2>4, <2>5
  <1>9. CASE ~(EndAnalysis(q) \/ Emit(q) \/ EmitResult(q) \/ EndJob(q) \/ Save(q))
    <2>1. UNCHANGED <<messages, partialResponse>>
      BY <1>9 DEF Job, Ask, Command, Start, Prompt, DecodeFails, Decodes, Piece,
          EndOfGeneration, StopOwn,
        StopShared, CancelShared
    <2>2. job[q].at \in Showing /\ job[q].at \in Unsaved /\ job'[q].at \in Unsaved
      BY <1>9, JobMoves DEF Showing, Unsaved
    <2> QED
      BY <1>3, <1>4, <2>1, <2>2
  <1> QED
    BY <1>5, <1>6, <1>7, <1>8, <1>9, <1>10

\* Every step keeps what is known of the stored answers.
LEMMA StoredStep == Types /\ OneJob /\ StoredInv /\ [Next]_vars => StoredInv'
  <1> SUFFICES ASSUME Types, OneJob, StoredInv, [Next]_vars, ~crossed'
               PROVE  StoredInv'
    BY DEF StoredInv
  <1>1. ~crossed
    BY NotesStay
  <1>2. ASSUME UNCHANGED <<messages, partialResponse>>,
               \A r \in Jobs : job'[r].at = job[r].at /\ job'[r].chat = job[r].chat
        PROVE  StoredInv'
    BY ZenonT(30), <1>1, <1>2 DEF StoredInv
  <1>3. CASE SendUserQuery
    <2> DEFINE n == asked + 1
               m == Message("user", {asked + 1})
    <2>1. /\ n \in Jobs /\ job[n].at = "none"
          /\ \A r \in Jobs :
                /\ job'[r].at = IF r = n THEN "analysing" ELSE job[r].at
                /\ job'[r].chat = IF r = n THEN currChat ELSE job[r].chat
          /\ m \in Messages
          /\ messages' = [messages EXCEPT ![currChat] = Append(messages[currChat], m)]
      BY <1>3, Sends
    <2>2. m.role = "user"
      BY DEF Message
    <2>3. /\ currChat \in Chats /\ messages \in [Chats -> Seq(Messages)]
          /\ messages[currChat] \in Seq(Messages)
      BY Typed
    <2>4. \A c \in Chats : messages'[c] = IF c = currChat THEN Append(messages[currChat], m)
                                          ELSE messages[c]
      BY <2>1, <2>3
    <2>5. UNCHANGED partialResponse /\ ~Answering
      BY <1>3 DEF SendUserQuery
    <2> HIDE DEF m, n
    <2>6. \A r : /\ Answers(Append(messages[currChat], m), r) = Answers(messages[currChat], r)
                 /\ \A i \in Answers(messages[currChat], r) :
                       Append(messages[currChat], m)[i] = messages[currChat][i]
      <3>1. ASSUME NEW r
            PROVE  /\ Answers(Append(messages[currChat], m), r) =
                        IF m.role = "assistant" /\ r \in m.text
                        THEN Answers(messages[currChat], r) \union {Len(messages[currChat]) + 1}
                        ELSE Answers(messages[currChat], r)
                   /\ \A i \in Answers(messages[currChat], r) :
                         Append(messages[currChat], m)[i] = messages[currChat][i]
        <4>1. m \in Messages /\ messages[currChat] \in Seq(Messages)
          BY <2>1, <2>3
        <4> QED
          BY <4>1, AnswersAppended
      <3> QED
        BY <2>2, <3>1
    <2>7. \A r \in Jobs, c \in Chats :
             /\ Answers(messages'[c], r) = Answers(messages[c], r)
             /\ \A i \in Answers(messages[c], r) : messages'[c][i] = messages[c][i]
      BY <2>3, <2>4, <2>6
    <2>8. ASSUME NEW r \in Jobs
          PROVE  /\ job'[r].at \in Showing => partialResponse' \subseteq {r}
                 /\ job'[r].at \in Unsaved =>
                      \A c \in Chats : Answers(messages'[c], r) = {}
                 /\ job'[r].at = "ending" /\ r \in partialResponse' =>
                      \E i : Answers(messages'[job'[r].chat], r) = {i}
                 /\ \A c \in Chats : \A i \in Answers(messages'[c], r) :
                      c = job'[r].chat /\ messages'[c][i].text = {r}
      <3>1. /\ job[r].at \in {"none", "done"}
            /\ job[r].at \in Unsaved => \A c \in Chats : Answers(messages[c], r) = {}
            /\ \A c \in Chats : \A i \in Answers(messages[c], r) :
                 c = job[r].chat /\ messages[c][i].text = {r}
        BY <1>1, <2>5 DEF StoredInv, Answering
      <3>2. /\ job'[r].at \in {"none", "done", "analysing"}
            /\ job'[r].at \in Unsaved => job[r].at \in Unsaved
            /\ job[r].at \notin Unsaved => job'[r].chat = job[r].chat
        BY <2>1, <3>1 DEF Unsaved
      <3>3. job'[r].at \notin Showing /\ job'[r].at # "ending"
        BY <3>2 DEF Showing, Unsaved
      <3>4. \A c \in Chats : \A i \in Answers(messages'[c], r) :
               c = job'[r].chat /\ messages'[c][i].text = {r}
        BY <2>7, <3>1, <3>2
      <3> QED
        BY <2>7, <3>1, <3>2, <3>3, <3>4
    <2> QED
      BY <2>8 DEF StoredInv
  <1>4. CASE Stop /\ UNCHANGED <<messages, partialResponse>>
    BY <1>2, <1>4, Stops
  <1> QED
    BY <1>1, <1>2, <1>3, <1>4, StoredJob, LoadMoves
      DEF Next, Main, RunEffect, StopGeneration, SwitchChat, UpdateChat, Rest, vars, ui

\* Unless a question was sent while a stopped answer was still ending, an answer that showed
\* any words is stored once, in the chat of its question, without words of another answer.
THEOREM StoredOnce == Spec => []AnswerIsStored
  <1>1. StoredInv => AnswerIsStored
    <2> SUFFICES ASSUME StoredInv, ~crossed, NEW q \in Jobs
                 PROVE  /\ job[q].at = "ending" /\ q \in partialResponse =>
                             Cardinality(Stored(job[q].chat, q)) = 1
                        /\ \A c \in Chats : \A i \in Stored(c, q) :
                             c = job[q].chat /\ messages[c][i].text = {q}
      BY DEF AnswerIsStored
    <2>1. \A c : Stored(c, q) = Answers(messages[c], q)
      BY DEF Stored, Answers
    <2>2. \A i : Cardinality({i}) = 1
      BY FS_Singleton
    <2>3. /\ job[q].at = "ending" /\ q \in partialResponse =>
               \E i : Answers(messages[job[q].chat], q) = {i}
          /\ \A c \in Chats : \A i \in Answers(messages[c], q) :
               c = job[q].chat /\ messages[c][i].text = {q}
      BY DEF StoredInv
    <2> QED
      BY SMTT(30), <2>1, <2>2, <2>3
  <1>2. Alone => OneJob
    BY DEF Alone
  <1> QED
    BY <1>1, <1>2, TypesInvariant, AloneInvariant, StoredInit, StoredStep, PTL DEF Spec

-----------------------------------------------------------------------------
(* What the context of the model holds.                                    *)

\* No coroutines overlapped, no decoding failed, and no answer was stopped early.
Faultless == ~crossed /\ ~mixed /\ ~early /\ \A q \in Jobs : ~job[q].erred

\* The last answer uses instance l and is at one of the steps.
In(l, steps) == asked \in Jobs /\ l = Ptr(localOrabel) /\ job[asked].at \in steps

HasBatch == {"decoding", "sampling", "emitting"}
HasRead == {"answering", "sampling", "emitting", "stopping", "stopped", "caught", "saving",
            "ending"}

\* The prompt of an answer in progress follows what the context holds, and after its first
\* decoding, or when it is a command, the context holds the whole transcript.
ReadInv ==
  Faultless => \A l \in Loads :
    /\ session[l].prev <= session[l].given \/ In(l, {"decoding"})
    /\ In(l, HasBatch) => /\ session[l].from <= session[l].given
                          /\ session[l].upto = Len(session[l].messages)
    /\ In(l, HasRead) => session[l].given = Len(session[l].messages)

\* An instance that no answer uses is in order when prev_len does not exceed the context.
LEMMA NotIn ==
  ASSUME asked \in Jobs =>
           job[asked].at \in {"none", "analysing", "asking", "starting", "prompting", "done"}
  PROVE  \A l \in Loads : ~In(l, {"decoding"}) /\ ~In(l, HasBatch) /\ ~In(l, HasRead)
  BY DEF In, HasBatch, HasRead

\* At the start there is nothing to read.
LEMMA ReadInit == Init => ReadInv
  <1> SUFFICES ASSUME Init PROVE ReadInv
    OBVIOUS
  <1>1. asked \notin Jobs
    BY Bounds DEF Init
  <1> QED
    BY <1>1 DEF Init, ReadInv, In, NewSession

\* The calls of an answer's coroutine: the prompt begins where the context ends, or before.
LEMMA ReadJob ==
  ASSUME Types, Alone, ReadInv, NEW q \in Jobs, Job(q), Faultless, Faultless'
  PROVE  ReadInv'
  <1>1. /\ SameButPlace(q) /\ UNCHANGED <<asked, localOrabel, nativePtr>>
        /\ q = asked /\ asked \in Nat
        /\ OwnObject /\ OwnLoad
    BY JobMoves, Typed DEF Alone, OneJob, Separate, Faultless
  <1>2. Ptr(localOrabel)' = Ptr(localOrabel)
    BY <1>1 DEF Ptr
  <1>3. ASSUME NEW l \in Loads, l # Ptr(localOrabel)
        PROVE  session[l].prev <= session[l].given /\ session'[l] = session[l]
    BY <1>1, <1>3, JobInstance DEF ReadInv, In
  <1>4. SUFFICES ASSUME NEW l \in Loads, l = Ptr(localOrabel)
                 PROVE  /\ \/ session'[l].prev <= session'[l].given
                           \/ job'[q].at = "decoding"
                        /\ job'[q].at \in HasBatch =>
                             /\ session'[l].from <= session'[l].given
                             /\ session'[l].upto = Len(session'[l].messages)
                        /\ job'[q].at \in HasRead =>
                             session'[l].given = Len(session'[l].messages)
    BY <1>1, <1>2, <1>3 DEF ReadInv, In
  <1>5. SessionOK(session[l]) /\ SessionOK(session'[l])
    BY Typed, JobTypes
  <1>6. /\ session[l].prev <= session[l].given \/ job[q].at = "decoding"
        /\ job[q].at \in HasBatch => /\ session[l].from <= session[l].given
                                     /\ session[l].upto = Len(session[l].messages)
        /\ job[q].at \in HasRead => session[l].given = Len(session[l].messages)
    BY <1>1, <1>4 DEF ReadInv, In
  <1>7. localOrabel # 0
    BY <1>4, Bounds DEF Ptr
  <1>8. \A x : SessionOK(x) => /\ x.prev <= Len(x.messages) /\ x.from <= x.upto
                              /\ x.upto <= Len(x.messages) /\ x.given <= Len(x.messages)
                              /\ x.prev \in Nat /\ x.from \in Nat /\ x.upto \in Nat
                              /\ x.given \in Nat /\ Len(x.messages) \in Nat
    BY DEF SessionOK, SessionRecord
  <1>9. ~job'[q].erred
    BY DEF Faultless
  <1>10. CASE EndAnalysis(q) \/ Ask(q) \/ Save(q) \/ EndJob(q)
    <2>1. UNCHANGED session
      BY <1>10 DEF EndAnalysis, Ask, Save, EndJob, llm
    <2>2. \/ job[q].at \in {"analysing", "asking"} /\ job'[q].at \in {"asking", "starting"}
          \/ job[q].at \in {"saving", "ending"} /\ job'[q].at \in {"ending", "done"}
      <3>1. Ask(q) => job[q].at = "asking" /\ job'[q].at = "starting"
        BY <1>7, Asks
      <3>2. EndAnalysis(q) \/ Save(q) \/ EndJob(q) => job[q].at # "asking"
        BY DEF EndAnalysis, Save, EndJob, JobAt
      <3> QED
        BY <1>10, <3>1, <3>2, JobMoves DEF EndAnalysis, Save, EndJob, JobAt
    <2> QED
      BY <1>6, <2>1, <2>2 DEF HasBatch, HasRead
  <1>18. CASE Command(q)
    <2>1. UNCHANGED session /\ ~NotRead
      BY <1>18 DEF Command, Faultless, llm
    <2>2. job[q].at = "asking" /\ job'[q].at = "answering"
      BY <1>18, JobMoves DEF Command, JobAt
    <2>3. session[l].given = Len(session[l].messages)
      <3>1. Ptr(localOrabel) # 0 /\ Of(localOrabel) = session[l]
        BY <1>4, Bounds DEF Of
      <3>2. ~(session[l].given < Len(session[l].messages))
        BY <2>1, <3>1 DEF NotRead, Unread
      <3> QED
        BY <1>5, <1>8, <3>2
    <2> QED
      BY <1>6, <2>1, <2>2, <2>3 DEF HasBatch
  <1>19. CASE EmitResult(q)
    <2>1. UNCHANGED session
      BY <1>19 DEF EmitResult, llm
    <2>2. job[q].at = "answering" /\ job'[q].at \in {"caught", "stopped"}
      BY <1>19, JobMoves DEF EmitResult, JobAt
    <2> QED
      BY <1>6, <2>1, <2>2 DEF HasBatch, HasRead
  <1>11. CASE DecodeFails(q)
    <2>1. job'[q].erred
      <3>1. job' = [job EXCEPT ![q].at = "emitting", ![q].erred = TRUE] /\ "emitting" \in JobSteps
        BY <1>11 DEF DecodeFails, JobSteps
      <3>2. \A r \in Jobs : job'[r].erred = IF r = q THEN TRUE ELSE job[r].erred
        BY <3>1, JobErrs
      <3> QED
        BY <3>2
    <2> QED
      BY <1>9, <2>1
  <1>12. CASE EndOfGeneration(q) \/ Emit(q)
    <2>1. UNCHANGED session /\ job[q].at \in {"sampling", "emitting"}
      BY <1>12 DEF EndOfGeneration, Emit, JobAt, llm
    <2>2. job[q].object = localOrabel
      BY <1>1, <2>1 DEF OwnObject, HoldsObject
    <2>3. job'[q].at \in {"stopping", "caught", "decoding"}
      <3>1. CASE EndOfGeneration(q)
        <4>1. job' = [job EXCEPT ![q].at = "stopping"] /\ "stopping" \in JobSteps
          BY <3>1 DEF EndOfGeneration, JobAt, JobSteps
        <4>2. job[q] \in JobRecord /\ job \in [Jobs -> JobRecord]
          BY Typed
        <4> QED
          BY <4>1, <4>2 DEF JobRecord
      <3>2. CASE Emit(q)
        <4>1. job[q].at = "emitting"
          BY <3>2 DEF Emit
        <4> QED
          BY <1>7, <2>2, <4>1, JobMoves
      <3> QED
        BY <1>12, <3>1, <3>2
    <2> QED
      BY <1>5, <1>6, <1>8, <2>1, <2>3 DEF HasBatch, HasRead
  <1>13. CASE Start(q)
    <2>1. job[q].at = "starting" /\ job[q].object = localOrabel
      BY <1>1, <1>13 DEF Start, JobAt, OwnObject, HoldsObject
    <2>2. PICK long \in BOOLEAN : session'[l] = StartCompletion(session[l], {q}, long)
      BY <1>4, <1>13, <2>1, JobCalls
    <2>3. {q} \in SUBSET (0 .. MaxAsked) /\ {q} # {}
      BY Bounds
    <2>4. LET a == StartCompletion(session[l], {q}, long)
          IN  \/ a.prev = session[l].prev /\ a.given = session[l].given
              \/ a.prev = 0 /\ a.given = 0
      BY <1>5, <2>3, Started
    <2>5. session'[l].prev <= session'[l].given
      BY <1>6, <2>1, <2>2, <2>4
    <2>6. job'[q].at = "prompting"
      BY <2>1, JobMoves
    <2> QED
      BY <2>5, <2>6 DEF HasRead, HasBatch
  <1>20. CASE Prompt(q)
    <2>1. job[q].at = "prompting" /\ job[q].object = localOrabel
      BY <1>1, <1>20 DEF Prompt, JobAt, OwnObject, HoldsObject
    <2>2. session'[l] = Batched(session[l])
      BY <1>4, <1>20, <2>1, JobCalls
    <2>3. /\ session'[l].from = session[l].prev
          /\ session'[l].upto = Len(session'[l].messages)
          /\ session'[l].given = session[l].given
      BY <1>5, <2>2, BatchedFields
    <2>4. session'[l].from <= session'[l].given
      BY <1>6, <2>1, <2>3
    <2>5. job'[q].at = "decoding"
      BY <2>1, JobMoves
    <2> QED
      BY <2>3, <2>4, <2>5 DEF HasRead
  <1>14. CASE Decodes(q)
    <2>1. job[q].at = "decoding" /\ job[q].object = localOrabel
      BY <1>1, <1>14 DEF Decodes, OwnObject, HoldsObject
    <2>2. session'[l] = Decode(session[l], TRUE)
      <3>1. PICK held \in BOOLEAN : /\ session'[l] = Decode(session[l], held)
                                    /\ ~held => job'[q].erred
        BY <1>4, <1>14, <2>1, JobCalls
      <3>2. held = TRUE
        BY <1>9, <3>1
      <3> QED
        BY <3>1, <3>2
    <2>3. LET a == Decode(session[l], TRUE)
          IN  /\ a.messages = session[l].messages /\ a.prev = session[l].prev
              /\ a.from = session[l].from /\ a.upto = session[l].upto
              /\ a.given = IF session[l].given < session[l].from THEN session[l].given
                           ELSE session[l].upto
      BY <1>5, Decoded
    <2>4. session[l].from <= session[l].given /\ session[l].upto = Len(session[l].messages)
      BY <1>6, <2>1 DEF HasBatch
    <2>5. ~(session[l].given < session[l].from)
      BY <1>5, <1>8, <2>4
    <2>6. /\ session'[l].given = Len(session'[l].messages)
          /\ session'[l].upto = Len(session'[l].messages)
      BY <2>2, <2>3, <2>4, <2>5
    <2> QED
      BY <1>5, <1>8, <2>6
  <1>15. CASE Piece(q)
    <2>1. job[q].at = "sampling" /\ job[q].object = localOrabel
      BY <1>1, <1>15 DEF Piece, JobAt, OwnObject, HoldsObject
    <2>2. session'[l] = Sample(session[l], {q})
      BY <1>4, <1>15, <2>1, JobCalls
    <2>3. LET a == Sample(session[l], {q})
          IN  /\ a.messages = session[l].messages /\ a.prev = session[l].prev
              /\ a.from = session[l].upto /\ a.upto = session[l].upto
              /\ a.given = session[l].given
      <3>1. {q} \in SUBSET Jobs
        OBVIOUS
      <3> QED
        BY <1>5, <3>1, Sampled
    <2>4. /\ session[l].given = Len(session[l].messages)
          /\ session[l].upto = Len(session[l].messages)
      BY <1>6, <2>1 DEF HasBatch, HasRead
    <2> QED
      BY <1>5, <1>6, <1>8, <2>1, <2>2, <2>3, <2>4
  <1>16. CASE StopOwn(q) \/ StopShared(q)
    <2>1. /\ job[q].at \in {"stopping", "stopped"}
          /\ job[q].at = "stopping" => job[q].object = localOrabel
      BY <1>1, <1>16 DEF StopOwn, StopShared, JobAt, OwnObject, HoldsObject
    <2>2. session'[l] = StopCompletion(session[l])
      BY <1>4, <1>16, <2>1, JobCalls
    <2>3. session'[l].prev = session'[l].given /\ session'[l].given = Len(session'[l].messages)
      BY <1>5, <1>6, <2>1, <2>2, Stopped DEF HasRead
    <2>4. job'[q].at \in {"stopped", "saving"}
      BY <2>1, JobMoves
    <2> QED
      BY <1>5, <1>8, <2>3, <2>4 DEF HasBatch
  <1>17. CASE CancelShared(q)
    <2>1. job[q].at = "caught"
      BY <1>17 DEF CancelShared, JobAt
    <2>2. session'[l] = CancelCompletion(session[l])
      BY <1>4, <1>17, <2>1, JobCalls
    <2>3. session'[l].prev = session'[l].given /\ session'[l].given = Len(session'[l].messages)
      BY <1>5, <1>6, <2>1, <2>2, Cancelled DEF HasRead
    <2>4. job'[q].at = "saving"
      BY <2>1, JobMoves
    <2> QED
      BY <1>5, <1>8, <2>3, <2>4 DEF HasBatch
  <1> QED
    BY <1>10, <1>11, <1>12, <1>13, <1>14, <1>15, <1>16, <1>17, <1>18, <1>19, <1>20 DEF Job

\* A load only appends to a transcript.
LEMMA LoadAppends ==
  ASSUME Types, NEW l \in Loads, Load(l), NEW k \in Loads
  PROVE  session'[k].prev = session[k].prev /\ session'[k].given = session[k].given
  <1>1. CASE AddHistory(l)
    <2> DEFINE m == Head(load[l].todo)
    <2>1. /\ m \in Messages
          /\ session'[k] = IF k = Ptr(localOrabel) THEN AddMessage(session[k], m.role, m.text)
                           ELSE session[k]
      BY <1>1, AddsOne
    <2> HIDE DEF m
    <2>2. m.role \in {"user", "assistant"} /\ m.text \in SUBSET (0 .. MaxAsked)
      BY <2>1 DEF Messages
    <2>3. SessionOK(session[k])
      BY Typed
    <2>4. /\ AddMessage(session[k], m.role, m.text).prev = session[k].prev
          /\ AddMessage(session[k], m.role, m.text).given = session[k].given
      BY <2>2, <2>3, Added
    <2> QED
      BY <2>1, <2>4
  <1>2. CASE ~AddHistory(l)
    BY <1>2 DEF Load, Fail, Close, New, Create, Created, ReadHistory, Ready, llm
  <1> QED
    BY <1>1, <1>2

\* Every step keeps the prompt where the context ends, or before.
LEMMA ReadStep == Types /\ Alone /\ ReadInv /\ [Next]_vars => ReadInv'
  <1> SUFFICES ASSUME Types, Alone, ReadInv, [Next]_vars, Faultless'
               PROVE  ReadInv'
    BY DEF ReadInv
  <1>1. Faultless
    BY NotesStay DEF Faultless
  <1>2. CASE UNCHANGED <<job, asked, llm>>
    BY <1>1, <1>2 DEF ReadInv, In, Ptr, llm
  <1>3. ASSUME ~Answering,
               asked' \in Jobs => job'[asked'].at \in {"none", "analysing", "done"},
               \A l \in Loads : session'[l].prev = session[l].prev
                                /\ session'[l].given = session[l].given
        PROVE  ReadInv'
    <2>1. asked \in Jobs => job[asked].at \in {"none", "done"}
      BY <1>3 DEF Answering
    <2>2. \A l \in Loads : session[l].prev <= session[l].given
      BY <1>1, <2>1, NotIn DEF ReadInv
    <2>3. \A l \in Loads : ~In(l, {"decoding"})' /\ ~In(l, HasBatch)' /\ ~In(l, HasRead)'
      BY <1>3 DEF In, HasBatch, HasRead
    <2> QED
      BY <1>3, <2>2, <2>3 DEF ReadInv
  <1>4. CASE SendUserQuery
    <2>1. ~Answering /\ UNCHANGED session
      BY <1>1, <1>4 DEF SendUserQuery, Faultless, llm
    <2>2. asked' \in Jobs => job'[asked'].at = "analysing"
      BY <1>4, Sends
    <2> QED
      BY <1>3, <2>1, <2>2
  <1>5. ASSUME NEW l \in Loads, Load(l) PROVE ReadInv'
    <2>1. UNCHANGED <<job, asked>> /\ Busy(l)
      BY <1>5, LoadMoves DEF Rest, Busy
    <2>2. ~Answering
      BY <1>1, <2>1 DEF Alone, Separate, OneLoad, Faultless
    <2>3. asked' \in Jobs => job'[asked'].at \in {"none", "done"}
      BY <2>1, <2>2 DEF Answering
    <2>4. \A k \in Loads : session'[k].prev = session[k].prev
                           /\ session'[k].given = session[k].given
      BY <1>5, LoadAppends
    <2> QED
      BY <1>3, <2>2, <2>3, <2>4
  <1>6. CASE Stop /\ UNCHANGED <<asked, localOrabel, nativePtr>>
    <2>1. /\ \A r \in Jobs : job'[r].at = job[r].at
          /\ \A l \in Loads :
                session'[l] = IF Active /\ l = Ptr(localOrabel)
                              THEN CancelCompletion(session[l]) ELSE session[l]
          /\ early' <=> early \/ (Active /\ StoppedEarly)
      BY <1>6, Stops
    <2>2. \A l \in Loads : \A steps : In(l, steps)' <=> In(l, steps)
      BY <1>6, <2>1 DEF In, Ptr
    <2>3. ASSUME NEW l \in Loads
          PROVE  /\ session'[l].prev <= session'[l].given \/ In(l, {"decoding"})
                 /\ In(l, HasBatch) => /\ session'[l].from <= session'[l].given
                                       /\ session'[l].upto = Len(session'[l].messages)
                 /\ In(l, HasRead) => session'[l].given = Len(session'[l].messages)
      <3>1. /\ session[l].prev <= session[l].given \/ In(l, {"decoding"})
            /\ In(l, HasBatch) => /\ session[l].from <= session[l].given
                                  /\ session[l].upto = Len(session[l].messages)
            /\ In(l, HasRead) => session[l].given = Len(session[l].messages)
        BY <1>1 DEF ReadInv
      <3>2. CASE ~(Active /\ l = Ptr(localOrabel))
        BY <2>1, <3>1, <3>2
      <3>3. CASE Active /\ l = Ptr(localOrabel)
        <4>1. SessionOK(session[l])
          BY Typed
        <4>2. /\ session'[l].messages = session[l].messages
              /\ session'[l].given = session[l].given
              /\ session'[l].from = session[l].from /\ session'[l].upto = session[l].upto
              /\ session'[l].prev = Len(session'[l].messages)
          BY <2>1, <3>3, <4>1, Cancelled
        <4>3. asked \in Jobs /\ job[asked].at \notin {"none", "done"}
          BY <3>3, AnsweringJobs
        <4>4. session[l].given \in Nat /\ Len(session[l].messages) \in Nat
          BY <4>1 DEF SessionOK, SessionRecord
        <4>5. CASE job[asked].at \in {"analysing", "asking", "starting", "prompting"}
          <5>1. ~StoppedEarly
            BY <2>1, <3>3 DEF Faultless
          <5>2. Ptr(localOrabel) # 0 /\ Of(localOrabel) = session[l]
            BY <3>3, Bounds DEF Of
          <5>3. ~(session[l].given < Len(session[l].messages))
            BY <4>5, <5>1, <5>2 DEF StoppedEarly, NotRead, Unread
          <5>4. Len(session[l].messages) <= session[l].given
            BY <4>4, <5>3
          <5> QED
            BY <3>1, <4>2, <5>4
        <4>6. CASE job[asked].at \notin {"analysing", "asking", "starting", "prompting"}
          <5>1. In(l, {"decoding"}) \/ In(l, HasRead)
            <6>1. job[asked] \in JobRecord
              BY <4>3, Typed
            <6>2. job[asked].at \in JobSteps
              BY <6>1 DEF JobRecord
            <6> QED
              BY <3>3, <4>3, <4>6, <6>2 DEF In, HasRead, JobSteps
          <5> QED
            BY <3>1, <4>2, <4>4, <5>1
        <4> QED
          BY <4>5, <4>6
      <3> QED
        BY <3>2, <3>3
    <2> QED
      BY <2>2, <2>3 DEF ReadInv
  <1> QED
    BY <1>1, <1>2, <1>4, <1>5, <1>6, ReadJob
      DEF Next, Main, RunEffect, StopGeneration, SwitchChat, UpdateChat, vars, llm

\* Without errors, overlaps, early stops and commands before the history was read, the model
\* has read every message that its next prompt leaves out.
THEOREM ReadAll == Spec => []NothingSkipped
  <1>1. ReadInv => NothingSkipped
    <2> SUFFICES ASSUME ReadInv, AtRest, Faultless
                 PROVE  \A l \in Loads : session[l].prev <= session[l].given
      BY DEF NothingSkipped, Faultless
    <2>1. asked \in Jobs => job[asked].at \in {"none", "done"}
      BY DEF AtRest, Answering
    <2> QED
      BY <2>1, NotIn DEF ReadInv
  <1> QED
    BY <1>1, TypesInvariant, AloneInvariant, ReadInit, ReadStep, PTL DEF Spec

-----------------------------------------------------------------------------
(* The transcript of the model and the messages of the chat.               *)

\* A message comes before another: its words are of an earlier question, or it is the
\* question and the other one its answer.
Follows(m, n) ==
  \E p, r \in 0 .. MaxAsked :
    /\ m.text = {p} /\ n.text = {r}
    /\ p < r \/ (p = r /\ m.role = "user" /\ n.role = "assistant")

Sorted(seq) == \A i, j \in DOMAIN seq : i < j => Follows(seq[i], seq[j])

\* No message comes before itself, nor before one that comes before it.
LEMMA FollowsOneWay == \A m, n : Follows(m, n) => ~Follows(n, m) /\ m # n
  <1> SUFFICES ASSUME NEW m, NEW n, Follows(m, n) PROVE ~Follows(n, m)
    BY DEF Follows
  <1>1. PICK p, r \in 0 .. MaxAsked :
           /\ m.text = {p} /\ n.text = {r}
           /\ p < r \/ (p = r /\ m.role = "user" /\ n.role = "assistant")
    BY DEF Follows
  <1>2. ASSUME Follows(n, m) PROVE FALSE
    <2>1. PICK x, y \in 0 .. MaxAsked :
             /\ n.text = {x} /\ m.text = {y}
             /\ x < y \/ (x = y /\ n.role = "user" /\ m.role = "assistant")
      BY <1>2 DEF Follows
    <2>2. x = r /\ y = p
      <3>1. x \in n.text /\ y \in m.text
        BY <2>1
      <3> QED
        BY <1>1, <3>1
    <2>3. p \in Int /\ r \in Int
      BY Bounds
    <2> QED
      BY <1>1, <2>1, <2>2, <2>3
  <1> QED
    BY <1>2

\* A message that is appended is one more element, at the end.
LEMMA Appended ==
  ASSUME NEW seq \in Seq(Messages), NEW m \in Messages
  PROVE  /\ Append(seq, m) \in Seq(Messages)
         /\ Range(Append(seq, m)) = Range(seq) \union {m}
         /\ Sorted(seq) /\ (\A x \in Range(seq) : Follows(x, m)) => Sorted(Append(seq, m))
  <1> DEFINE n == Len(seq) + 1
             longer == Append(seq, m)
  <1>1. /\ DOMAIN seq = 1 .. n - 1 /\ n \in Nat
        /\ DOMAIN longer = 1 .. n
        /\ \A i \in 1 .. n - 1 : longer[i] = seq[i]
        /\ longer[n] = m
    BY AppendProperties
  <1>2. longer \in Seq(Messages)
    BY AppendProperties
  <1>3. 1 .. n = (1 .. n - 1) \union {n} /\ n \notin 1 .. n - 1
    BY <1>1
  <1> HIDE DEF n, longer
  <1>4. Range(longer) = Range(seq) \union {m}
    BY <1>1, <1>3 DEF Range
  <1>5. ASSUME Sorted(seq), \A x \in Range(seq) : Follows(x, m)
        PROVE  Sorted(longer)
    <2> SUFFICES ASSUME NEW i \in 1 .. n, NEW j \in 1 .. n, i < j
                 PROVE  Follows(longer[i], longer[j])
      BY <1>1 DEF Sorted
    <2>1. i \in 1 .. n - 1 /\ longer[i] = seq[i] /\ seq[i] \in Range(seq)
      BY <1>1 DEF Range
    <2>2. CASE j = n
      BY <1>1, <1>5, <2>1, <2>2
    <2>3. CASE j # n
      <3>1. j \in 1 .. n - 1 /\ longer[j] = seq[j]
        BY <1>1, <1>3, <2>3
      <3> QED
        BY <1>1, <1>5, <2>1, <3>1 DEF Sorted
    <2> QED
      BY <2>2, <2>3
  <1> QED
    BY <1>2, <1>4, <1>5 DEF longer

\* What a truncation leaves is in order, and nothing else.
LEMMA TruncatedSorted ==
  ASSUME NEW seq \in Seq(Messages), Sorted(seq)
  PROVE  Sorted(Truncated(seq)) /\ Range(Truncated(seq)) \subseteq Range(seq)
  <1> DEFINE t == Truncated(seq)
  <1>1. /\ \A i \in DOMAIN t : \E n \in DOMAIN seq : t[i] = seq[n]
        /\ \A i, j \in DOMAIN t : i < j =>
              \E n, m \in DOMAIN seq : n < m /\ t[i] = seq[n] /\ t[j] = seq[m]
    BY TruncatedPlaces
  <1> HIDE DEF t
  <1> QED
    BY <1>1 DEF t, Sorted, Range


\* With one coroutine at a time the messages of every chat are in the order of their
\* questions.
UpTo(chat, n) == \A m \in Range(chat) : \E p \in 0 .. n : m.text = {p}
ChatOrder == ~crossed => \A c \in Chats : Sorted(messages[c]) /\ UpTo(messages[c], asked)

\* The messages of an earlier session are a question and its answer.
LEMMA ChatOrderInit == Init => ChatOrder
  <1> SUFFICES ASSUME Init, NEW c \in Chats
               PROVE  Sorted(messages[c]) /\ UpTo(messages[c], asked)
    BY DEF ChatOrder
  <1> DEFINE u == Message("user", {0})
             a == Message("assistant", {0})
  <1>1. asked = 0 /\ messages[c] = IF hasModel[c] THEN <<u, a>> ELSE <<>>
    BY DEF Init, Before
  <1>2. 0 \in 0 .. MaxAsked /\ 0 \in 0 .. 0
    BY Bounds
  <1>3. /\ u.role = "user" /\ u.text = {0} /\ a.role = "assistant" /\ a.text = {0}
    BY MessageFields
  <1> HIDE DEF u, a
  <1>4. Follows(u, a)
    BY <1>2, <1>3 DEF Follows
  <1>5. CASE hasModel[c]
    <2> DEFINE two == <<u, a>>
    <2>1. DOMAIN two = {1, 2} /\ two[1] = u /\ two[2] = a
      OBVIOUS
    <2> HIDE DEF two
    <2>2. Sorted(two)
      <3>1. \A i, j \in {1, 2} : i < j => i = 1 /\ j = 2
        OBVIOUS
      <3> QED
        BY <1>4, <2>1, <3>1 DEF Sorted
    <2>3. UpTo(two, 0)
      <3>1. Range(two) = {u, a}
        BY <2>1 DEF Range
      <3> QED
        BY <1>2, <1>3, <3>1 DEF UpTo
    <2> QED
      BY <1>1, <1>5, <2>2, <2>3 DEF two
  <1>6. CASE ~hasModel[c]
    <2>1. DOMAIN messages[c] = {}
      BY <1>1, <1>6
    <2> QED
      BY <2>1 DEF Sorted, UpTo, Range
  <1> QED
    BY <1>5, <1>6

\* The next question, and then its answer, come after all that is there.
LEMMA Newest ==
  ASSUME Types, ChatOrder, StoredInv, ~crossed, NEW c \in Chats
  PROVE  /\ asked + 1 \in Jobs =>
              \A m \in Range(messages[c]) : Follows(m, Message("user", {asked + 1}))
         /\ asked \in Jobs /\ job[asked].at \in Unsaved =>
              \A m \in Range(messages[c]) : Follows(m, Message("assistant", {asked}))
  <1>1. /\ asked \in 0 .. MaxAsked /\ asked \in Nat /\ MaxAsked \in Nat
        /\ Jobs = 1 .. MaxAsked
    BY Typed, Bounds DEF Jobs
  <1>2. /\ \A q : Message("user", {q}).text = {q}
        /\ \A q : Message("assistant", {q}).text = {q}
                  /\ Message("assistant", {q}).role = "assistant"
    BY DEF Message
  <1>3. /\ UpTo(messages[c], asked)
        /\ \A m \in Range(messages[c]) : m \in Messages
    <2>1. messages[c] \in Seq(Messages)
      BY Typed
    <2> QED
      BY <2>1 DEF ChatOrder, Range
  <1>4. ASSUME asked + 1 \in Jobs, NEW m \in Range(messages[c])
        PROVE  Follows(m, Message("user", {asked + 1}))
    <2>1. PICK p \in 0 .. asked : m.text = {p}
      BY <1>3, <1>4 DEF UpTo
    <2>2. p \in 0 .. MaxAsked /\ asked + 1 \in 0 .. MaxAsked /\ p < asked + 1
      BY <1>1, <1>4
    <2> QED
      BY <1>2, <2>1, <2>2 DEF Follows
  <1>5. ASSUME asked \in Jobs, job[asked].at \in Unsaved, NEW m \in Range(messages[c])
        PROVE  Follows(m, Message("assistant", {asked}))
    <2>1. PICK p \in 0 .. asked : m.text = {p}
      BY <1>3, <1>5 DEF UpTo
    <2>2. p \in 0 .. MaxAsked /\ (p < asked \/ p = asked)
      BY <1>1
    <2>3. p = asked => m.role = "user"
      <3>1. Answers(messages[c], asked) = {}
        BY <1>5 DEF StoredInv
      <3>2. p = asked => m.role # "assistant"
        BY <1>5, <2>1, <3>1 DEF Answers, Range
      <3> QED
        BY <1>3, <1>5, <3>2 DEF Messages
    <2> QED
      BY <1>1, <1>2, <2>1, <2>2, <2>3 DEF Follows
  <1> QED
    BY <1>4, <1>5

\* A message of a question that was asked joins a chat whose messages it follows.
LEMMA ChatGrows ==
  ASSUME Types, ChatOrder, ~crossed, NEW c0 \in Chats, NEW m \in Messages,
         NEW p \in 0 .. asked', m.text = {p}, asked' \in Nat, asked <= asked',
         \A x \in Range(messages[c0]) : Follows(x, m),
         messages' = [messages EXCEPT ![c0] = Append(messages[c0], m)]
  PROVE  ChatOrder'
  <1>1. /\ messages \in [Chats -> Seq(Messages)] /\ messages[c0] \in Seq(Messages)
        /\ asked \in Nat
    BY Typed
  <1>2. \A c \in Chats : messages'[c] = IF c = c0 THEN Append(messages[c0], m)
                                        ELSE messages[c]
    BY <1>1
  <1>3. /\ Range(Append(messages[c0], m)) = Range(messages[c0]) \union {m}
        /\ Sorted(messages[c0]) => Sorted(Append(messages[c0], m))
    BY <1>1, Appended
  <1>4. \A c \in Chats : Sorted(messages[c]) /\ UpTo(messages[c], asked)
    BY DEF ChatOrder
  <1>5. ASSUME NEW c \in Chats
        PROVE  Sorted(messages'[c]) /\ UpTo(messages'[c], asked')
    <2>1. UpTo(messages[c], asked')
      <3>1. \A k \in 0 .. asked : k \in 0 .. asked'
        BY <1>1
      <3> QED
        BY <1>4, <3>1 DEF UpTo
    <2>2. CASE c = c0
      <3>1. UpTo(Append(messages[c0], m), asked')
        BY <1>3, <2>1, <2>2 DEF UpTo
      <3> QED
        BY <1>2, <1>3, <1>4, <2>2, <3>1
    <2>3. CASE c # c0
      BY <1>2, <1>4, <2>1, <2>3
    <2> QED
      BY <2>2, <2>3
  <1> QED
    BY <1>5 DEF ChatOrder

\* Every step keeps the order: only a question and the end of its answer write to a chat.
LEMMA ChatOrderStep ==
  Types /\ OneJob /\ StoredInv /\ ChatOrder /\ [Next]_vars => ChatOrder'
  <1> SUFFICES ASSUME Types, OneJob, StoredInv, ChatOrder, [Next]_vars, ~crossed'
               PROVE  ChatOrder'
    BY DEF ChatOrder
  <1>1. ~crossed
    BY NotesStay
  <1>2. asked \in Nat /\ asked \in 0 .. MaxAsked
    BY Typed
  <1>3. ASSUME UNCHANGED <<messages, asked>> PROVE ChatOrder'
    BY <1>1, <1>3 DEF ChatOrder
  <1>4. CASE SendUserQuery
    <2> DEFINE m == Message("user", {asked + 1})
    <2>1. /\ asked + 1 \in Jobs /\ asked' = asked + 1 /\ m \in Messages
          /\ messages' = [messages EXCEPT ![currChat] = Append(messages[currChat], m)]
      BY <1>4, Sends
    <2>2. currChat \in Chats
      BY Typed
    <2>3. \A x \in Range(messages[currChat]) : Follows(x, m)
      BY <1>1, <2>1, <2>2, Newest
    <2>4. m.text = {asked + 1}
      BY DEF Message
    <2> HIDE DEF m
    <2>5. asked + 1 \in 0 .. asked' /\ asked <= asked' /\ asked' \in Nat
      BY <1>2, <2>1
    <2> QED
      BY <1>1, <2>1, <2>2, <2>3, <2>4, <2>5, ChatGrows
  <1>5. ASSUME NEW q \in Jobs, Job(q) PROVE ChatOrder'
    <2>1. UNCHANGED asked /\ q = asked
      BY <1>1, <1>5, JobMoves DEF OneJob
    <2>2. CASE ~Save(q) \/ partialResponse = {}
      <3>1. UNCHANGED messages
        BY <1>5, <2>2, Saves DEF Job, EndAnalysis, Ask, Command, EmitResult, Start, Prompt,
          DecodeFails, Decodes, Piece, EndOfGeneration, Emit, StopOwn, StopShared,
          CancelShared, EndJob
      <3> QED
        BY <1>3, <2>1, <3>1
    <2>3. CASE Save(q) /\ partialResponse # {}
      <3> DEFINE m == Message("assistant", partialResponse)
      <3>1. /\ job[q].at = "saving" /\ job[q].chat \in Chats /\ m \in Messages
            /\ messages' = [messages EXCEPT ![job[q].chat] = Append(messages[job[q].chat], m)]
        BY <2>3, Saves
      <3>2. partialResponse = {q}
        BY <1>1, <2>3, <3>1 DEF StoredInv, Showing, Unsaved
      <3>3. \A x \in Range(messages[job[q].chat]) : Follows(x, m)
        BY <1>1, <2>1, <3>1, <3>2, Newest DEF Unsaved
      <3>4. m.text = {q}
        BY <3>2 DEF Message
      <3> HIDE DEF m
      <3>5. q \in 0 .. asked' /\ asked <= asked' /\ asked' \in Nat
        BY <1>2, <2>1
      <3> QED
        BY <1>1, <3>1, <3>3, <3>4, <3>5, ChatGrows
    <2> QED
      BY <2>2, <2>3
  <1> QED
    BY <1>3, <1>4, <1>5, LoadMoves
      DEF Next, Main, RunEffect, StopGeneration, SwitchChat, UpdateChat, Rest, vars, ui


\* The chat on the screen, when it has a model, is the one of the last load, and so is the
\* chat of the answer in progress.
ShownChat == ~effect /\ hasModel[currChat] => loads \in Loads /\ load[loads].chat = currChat
AnswerChat == ~mixed => \A q \in Jobs :
  job[q].at \notin {"none", "done"} => loads \in Loads /\ job[q].chat = load[loads].chat
LoadedChat == ShownChat /\ AnswerChat

\* Nothing is shown or answered before the first frame.
LEMMA LoadedChatInit == Init => LoadedChat
  BY DEF Init, LoadedChat, ShownChat, AnswerChat

\* A load that starts is one of the chat on the screen, and no answer is in progress.
LEMMA LoadedChatLoad ==
  ASSUME Types, LoadedChat, NEW has \in BOOLEAN, LoadModel(currChat, has),
         has => loads + 1 \in Loads, UNCHANGED <<job, asked, currChat>>,
         ~has => effect' \/ ~hasModel'[currChat]
  PROVE  LoadedChat'
  <1>1. /\ has => /\ loads' = loads + 1
                  /\ mixed' <=> mixed \/ Loading \/ Answering
        /\ ~has => UNCHANGED <<loads, load, mixed>>
        /\ \A l \in Loads :
              load'[l] = IF has /\ l = loads + 1
                         THEN [at |-> "check", chat |-> currChat, object |-> 0, todo |-> <<>>]
                         ELSE load[l]
    <2>1. currChat \in Chats
      BY Typed
    <2> QED
      BY <2>1, LoadStarts
  <1>2. ShownChat'
    <2>1. CASE has
      <3>1. loads' \in Loads /\ load'[loads'].chat = currChat
        BY <1>1, <2>1
      <3> QED
        BY <3>1 DEF ShownChat
    <2>2. CASE ~has
      BY <2>2 DEF ShownChat
    <2> QED
      BY <2>1, <2>2
  <1>3. AnswerChat'
    <2>1. CASE has
      <3> SUFFICES ASSUME ~mixed', NEW q \in Jobs, job'[q].at \notin {"none", "done"}
                   PROVE  FALSE
        BY DEF AnswerChat
      <3> QED
        BY <1>1, <2>1 DEF Answering
    <2>2. CASE ~has
      BY <1>1, <2>2 DEF LoadedChat, AnswerChat
    <2> QED
      BY <2>1, <2>2
  <1> QED
    BY <1>2, <1>3 DEF LoadedChat

\* Every step keeps the chats of the last load and of the answer together.
LEMMA LoadedChatStep == Types /\ LoadedChat /\ [Next]_vars => LoadedChat'
  <1> SUFFICES ASSUME Types, LoadedChat, [Next]_vars
               PROVE  LoadedChat'
    OBVIOUS
  <1>1. /\ currChat \in Chats /\ hasModel \in [Chats -> BOOLEAN] /\ loads \in Nat
        /\ MaxLoads \in Nat /\ effect \in BOOLEAN
    BY Typed, Bounds
  <1>2. ASSUME UNCHANGED <<loads, mixed>>,
               \A l \in Loads : load'[l].chat = load[l].chat,
               \A r \in Jobs : /\ job'[r].chat = job[r].chat
                               /\ job'[r].at \notin {"none", "done"} =>
                                    job[r].at \notin {"none", "done"},
               ~effect' /\ hasModel'[currChat'] =>
                 ~effect /\ hasModel[currChat] /\ currChat' = currChat
        PROVE  LoadedChat'
    BY <1>2 DEF LoadedChat, ShownChat, AnswerChat
  <1>3. CASE RunEffect
    <2>1. /\ LoadModel(currChat, hasModel[currChat]) /\ hasModel[currChat] \in BOOLEAN
          /\ UNCHANGED <<job, asked, currChat, hasModel>>
      BY <1>1, <1>3 DEF RunEffect
    <2>2. loads + 1 \in Loads
      BY <1>1, <1>3, Typed DEF RunEffect, Types, Ordered, Loads
    <2> QED
      BY <2>1, <2>2, LoadedChatLoad
  <1>4. CASE UpdateChat
    <2>1. /\ LoadModel(currChat, TRUE) /\ TRUE \in BOOLEAN
          /\ UNCHANGED <<job, asked, currChat>>
      BY <1>4 DEF UpdateChat
    <2>2. loads + 1 \in Loads
      BY <1>1, <1>4 DEF UpdateChat, MayLoad, Loads
    <2> QED
      BY <2>1, <2>2, LoadedChatLoad
  <1>5. CASE SendUserQuery
    <2>1. /\ asked + 1 \in Jobs
          /\ \A r \in Jobs :
                /\ job'[r].at = IF r = asked + 1 THEN "analysing" ELSE job[r].at
                /\ job'[r].chat = IF r = asked + 1 THEN currChat ELSE job[r].chat
      BY <1>5, Sends
    <2>2. /\ UNCHANGED <<currChat, effect, hasModel, loads, load>>
          /\ ~effect /\ hasModel[currChat] /\ (~mixed' => ~mixed)
      BY <1>5 DEF SendUserQuery
    <2>3. loads \in Loads /\ load[loads].chat = currChat
      BY <2>2 DEF LoadedChat, ShownChat
    <2>4. ShownChat'
      BY <2>2, <2>3 DEF ShownChat
    <2>5. AnswerChat'
      BY <2>1, <2>2, <2>3 DEF LoadedChat, AnswerChat
    <2> QED
      BY <2>4, <2>5 DEF LoadedChat
  <1>6. CASE StopGeneration \/ SwitchChat
    <2>1. \A r \in Jobs : job'[r].at = job[r].at /\ job'[r].chat = job[r].chat
      BY <1>6, Stops DEF StopGeneration, SwitchChat
    <2>2. UNCHANGED <<hasModel, loads, load, mixed>>
      BY <1>6 DEF StopGeneration, SwitchChat
    <2>3. ~effect' => ~effect /\ currChat' = currChat
      BY <1>6 DEF StopGeneration, SwitchChat
    <2> QED
      BY <1>2, <2>1, <2>2, <2>3
  <1>7. ASSUME NEW q \in Jobs, Job(q) PROVE LoadedChat'
    <2>1. /\ SameButPlace(q)
          /\ UNCHANGED <<currChat, effect, hasModel, loads, load, mixed>>
          /\ job[q].at \notin {"none", "done"}
      BY <1>7, JobMoves
    <2> QED
      BY <1>2, <2>1 DEF SameButPlace
  <1>8. ASSUME NEW l \in Loads, Load(l) PROVE LoadedChat'
    <2>1. /\ \A k \in Loads : load'[k].chat = load[k].chat
          /\ UNCHANGED <<currChat, effect, hasModel, loads, job, mixed>>
      BY <1>8, LoadMoves DEF Rest, history
    <2> QED
      BY <1>2, <2>1
  <1>9. CASE UNCHANGED vars
    BY <1>9 DEF LoadedChat, ShownChat, AnswerChat, vars, ui, history
  <1> QED
    BY <1>3, <1>4, <1>5, <1>6, <1>7, <1>8, <1>9 DEF Next, Main


\* The question of an answer in progress joins the transcript when the prompt is made, and
\* its words when the completion stops; its message is stored later.
Asking == {"analysing", "asking", "starting"}
Kept   == {"stopped", "saving"}

\* The transcript of s holds the messages of the chat, in their order and, unless a
\* truncation dropped some, all of them; q is the last question and at where its answer is.
Holds(s, chat, q, at, lost, shown) ==
  /\ Sorted(s.messages)
  /\ \A m \in Range(s.messages) :
        m \in Range(chat) \/ (at \in Kept /\ q \in shown /\ m = Message("assistant", {q}))
  /\ ~s.cut => \A m \in Range(chat) :
        \/ m \in Range(s.messages) \/ m \in lost
        \/ at \in Asking /\ m = Message("user", {q})
  /\ at \in Asking => /\ Message("user", {q}) \in Range(chat)
                      /\ \A m \in Range(s.messages) : Follows(m, Message("user", {q}))

\* The words that were shown of an answer that is not lost are the response, and then a message.
Tells(s, q, at, lost, shown) ==
  /\ at \in {"asking", "starting", "prompting"} => shown = {}
  /\ at = "answering" => Message("assistant", {q}) \in lost
  /\ at \in {"decoding", "sampling", "stopping"} =>
       /\ s.response # {} => q \in shown
       /\ q \in shown => s.response = {q} \/ Message("assistant", {q}) \in lost
  /\ at = "emitting" => s.response = {q} \/ Message("assistant", {q}) \in lost
  /\ at = "caught" => Message("assistant", {q}) \in lost
  /\ at \in Kept /\ q \in shown =>
       Message("assistant", {q}) \in Range(s.messages) \union lost

\* Where the last answer is, and which messages need not be in the transcript: those of a
\* command, and an answer that was stopped or had an error.
At == IF asked \in Jobs THEN job[asked].at ELSE "none"
Excused ==
  {Message("assistant", {q}) :
     q \in {p \in Jobs : job[p].cancelled \/ job[p].erred \/ p \in commands}}
  \union {Message("user", {q}) : q \in commands}

\* The instance of the last load, while it is in use, has the messages of its chat.
InUse == loads \in Loads /\ localOrabel = loads /\ nativePtr[loads] # 0
GivenInv == ~crossed /\ ~mixed /\ InUse =>
  /\ load[loads].at = "adding" =>
       /\ session[loads].messages \o load[loads].todo = messages[load[loads].chat]
       /\ ~session[loads].cut
  /\ load[loads].at = "done" =>
       /\ Holds(session[loads], messages[load[loads].chat], asked, At, Excused,
                partialResponse)
       /\ Tells(session[loads], asked, At, Excused, partialResponse)

\* A step that leaves the transcript and the chat alone keeps what the transcript holds.
LEMMA HoldsOn ==
  ASSUME NEW s, NEW t, NEW chat, NEW q, NEW at, NEW lost, NEW more, NEW shown,
         Holds(s, chat, q, at, lost, shown), t.messages = s.messages, t.cut = s.cut,
         lost \subseteq more
  PROVE  Holds(t, chat, q, at, more, shown)
  BY DEF Holds

\* The prompt of a question brings the question.
LEMMA HoldsStart ==
  ASSUME NEW s, SessionOK(s), NEW q \in Jobs, NEW long \in BOOLEAN, NEW chat, NEW lost,
         NEW shown, Holds(s, chat, q, "starting", lost, shown)
  PROVE  Holds(StartCompletion(s, {q}, long), chat, q, "prompting", lost, shown)
  <1> DEFINE u == Message("user", {q})
             longer == Append(s.messages, u)
             t == StartCompletion(s, {q}, long)
  <1>1. u \in Messages /\ {q} \in SUBSET (0 .. MaxAsked) /\ {q} # {}
        /\ s.messages \in Seq(Messages)
    BY Bounds, MessageFields DEF SessionOK, SessionRecord
  <1>2. /\ \/ t.messages = longer /\ t.cut = s.cut
           \/ /\ t.messages = Truncated(longer)
              /\ s.cut => t.cut
              /\ t.cut \/ t.messages = longer
        /\ t.cut \in BOOLEAN /\ s.cut \in BOOLEAN
    <2>1. SessionOK(t)
      BY <1>1, Started
    <2>2. t.cut \in BOOLEAN /\ s.cut \in BOOLEAN
      BY <2>1 DEF SessionOK, SessionRecord
    <2>3. \/ t.messages = longer /\ t.cut = s.cut
          \/ /\ t.messages = Truncated(longer)
             /\ s.cut => t.cut
             /\ t.cut \/ t.messages = longer
      <3> HIDE DEF longer, t
      <3>1. LET a == StartCompletion(s, {q}, long)
                more == Append(s.messages, Message("user", {q}))
            IN  \/ a.messages = more /\ a.cut = s.cut
                \/ /\ a.messages = Truncated(more)
                   /\ s.cut => a.cut
                   /\ a.cut \/ a.messages = more
        BY <1>1, Started
      <3> QED
        BY <3>1 DEF longer, t, u
    <2> QED
      BY <2>2, <2>3
  <1>3. /\ Sorted(s.messages) /\ u \in Range(chat)
        /\ \A m \in Range(s.messages) : m \in Range(chat) /\ Follows(m, u)
        /\ ~s.cut => \A m \in Range(chat) :
              m \in Range(s.messages) \/ m \in lost \/ m = u
    BY DEF Holds, Asking, Kept
  <1>4. /\ Range(longer) = Range(s.messages) \union {u} /\ Sorted(longer)
        /\ longer \in Seq(Messages)
    BY <1>1, <1>3, Appended
  <1>5. Sorted(Truncated(longer)) /\ Range(Truncated(longer)) \subseteq Range(longer)
    BY <1>4, TruncatedSorted
  <1> HIDE DEF u, longer, t
  <1>6. Sorted(t.messages) /\ Range(t.messages) \subseteq Range(longer)
    BY <1>2, <1>4, <1>5
  <1>7. ~t.cut => ~s.cut /\ t.messages = longer
    BY <1>2
  <1>8. Holds(t, chat, q, "prompting", lost, shown)
    BY <1>3, <1>4, <1>6, <1>7 DEF Holds, Asking
  <1> QED
    BY <1>8 DEF t

\* The response that was shown joins the transcript.
LEMMA HoldsStop ==
  ASSUME NEW s, SessionOK(s), NEW q \in Jobs, NEW chat, NEW lost, NEW shown,
         NEW at \in {"stopping", "stopped"}, Holds(s, chat, q, at, lost, shown),
         s.response \subseteq {q}, at = "stopped" => s.response = {},
         s.response # {} => q \in shown,
         \A m \in Range(chat) : Follows(m, Message("assistant", {q}))
  PROVE  LET t == StopCompletion(s)
         IN  /\ Holds(t, chat, q, IF at = "stopping" THEN "stopped" ELSE "saving",
                      lost, shown)
             /\ s.response = {} => t.messages = s.messages
             /\ s.response = {q} => Message("assistant", {q}) \in Range(t.messages)
  <1> DEFINE a == Message("assistant", {q})
             t == StopCompletion(s)
             to == IF at = "stopping" THEN "stopped" ELSE "saving"
  <1>1. a \in Messages /\ s.messages \in Seq(Messages)
    BY Bounds, MessageFields DEF SessionOK, SessionRecord
  <1>2. /\ t.cut = s.cut
        /\ t.messages = IF s.response = {} THEN s.messages
                        ELSE Append(s.messages, Message("assistant", s.response))
    BY Stopped
  <1>3. CASE s.response = {}
    <2>1. t.messages = s.messages /\ t.cut = s.cut
      BY <1>2, <1>3
    <2> HIDE DEF t
    <2>2. Holds(t, chat, q, to, lost, shown)
      BY <2>1 DEF Holds, Asking, Kept
    <2> QED
      BY <1>3, <2>1, <2>2 DEF t
  <1>4. CASE s.response = {q}
    <2>1. t.messages = Append(s.messages, a) /\ t.cut = s.cut /\ at = "stopping"
      BY <1>2, <1>4
    <2>2. \A m \in Range(s.messages) : m \in Range(chat) /\ Follows(m, a)
      BY <2>1 DEF Holds, Kept
    <2>3. Range(t.messages) = Range(s.messages) \union {a} /\ Sorted(t.messages)
      <3>1. Sorted(s.messages)
        BY DEF Holds
      <3> HIDE DEF a, t
      <3> QED
        BY <1>1, <2>1, <2>2, <3>1, Appended
    <2>4. q \in shown
      BY <1>4
    <2> HIDE DEF a, t
    <2>5. Holds(t, chat, q, to, lost, shown)
      BY <2>1, <2>2, <2>3, <2>4 DEF Holds, Asking, Kept, a
    <2> QED
      BY <1>4, <2>3, <2>5 DEF a, t
  <1> QED
    BY <1>3, <1>4

\* The answer that was shown is stored: the transcript has it, or it is lost.
LEMMA HoldsSave ==
  ASSUME NEW s, NEW q \in Jobs, NEW chat \in Seq(Messages), NEW lost, NEW shown,
         Holds(s, chat, q, "saving", lost, shown), Tells(s, q, "saving", lost, shown),
         shown \subseteq {q}, NEW stored,
         stored = IF shown = {} THEN chat ELSE Append(chat, Message("assistant", shown))
  PROVE  Holds(s, stored, q, "ending", lost, shown)
  <1> DEFINE a == Message("assistant", {q})
  <1>1. a \in Messages /\ a.role = "assistant" /\ a.text = {q} /\ q # 0
    BY Bounds, MessageFields
  <1>2. CASE shown = {}
    BY <1>2 DEF Holds, Asking, Kept
  <1>3. CASE shown = {q}
    <2>1. stored = Append(chat, a)
      BY <1>3
    <2>2. Range(stored) = Range(chat) \union {a}
      BY <1>1, <2>1, Appended
    <2>3. a \in Range(s.messages) \/ a \in lost
      BY <1>3 DEF Tells, Kept
    <2> HIDE DEF a
    <2> QED
      BY <2>2, <2>3 DEF Holds, Asking, Kept, a
  <1> QED
    BY <1>2, <1>3

\* A question is asked.
LEMMA HoldsAsk ==
  ASSUME NEW s, NEW q, NEW r, NEW chat \in Seq(Messages), NEW lost, NEW shown,
         NEW at \in {"none", "done"}, Holds(s, chat, r, at, lost, shown),
         Message("user", {q}) \in Messages,
         \A m \in Range(chat) : Follows(m, Message("user", {q}))
  PROVE  Holds(s, Append(chat, Message("user", {q})), q, "analysing", lost, shown)
  <1> DEFINE u == Message("user", {q})
  <1>1. Range(Append(chat, u)) = Range(chat) \union {u}
    BY Appended
  <1> HIDE DEF u
  <1> QED
    BY <1>1 DEF Holds, Asking, Kept, u


\* A step of an answer's coroutine that writes neither to the transcript nor to the chat:
\* what the transcript holds stays.
Moves(q, at, to, more) ==
  \/ at = "analysing" /\ to = "asking"
  \/ at = "asking" /\ to = "starting"
  \/ at = "asking" /\ to = "answering" /\ Message("user", {q}) \in more
  \/ at = "answering" /\ to \in {"stopped", "caught"}
  \/ /\ at \in {"prompting", "decoding", "sampling", "emitting"}
     /\ to \in {"decoding", "sampling", "emitting", "stopping", "caught"}
  \/ at = "caught" /\ to = "saving"
  \/ at = "ending" /\ to = "done"

LEMMA HoldsMoves ==
  ASSUME NEW s, NEW t, NEW chat, NEW q, NEW at, NEW to, NEW lost, NEW more,
         NEW shown, NEW shows, Holds(s, chat, q, at, lost, shown),
         t.messages = s.messages, t.cut = s.cut, lost \subseteq more, Moves(q, at, to, more)
  PROVE  Holds(t, chat, q, to, more, shows)
  <1>1. /\ to \in Asking => at \in Asking
        /\ at \in Asking /\ to \notin Asking => Message("user", {q}) \in more
        /\ at \notin Kept
    BY DEF Moves, Asking, Kept
  <1>2. /\ Holds(s, chat, q, at, lost, shown)
        /\ t.messages = s.messages /\ t.cut = s.cut /\ lost \subseteq more
    OBVIOUS
  <1> QED
    BY <1>1, <1>2 DEF Holds

\* What the steps of an answer's coroutine do to the instance in use, to the messages of its
\* chat and to what is shown.
Effect(s, t, chat, stored, q, at, to, shown, shows, more) ==
  \/ /\ at = "analysing" /\ to = "asking"
     /\ t = s /\ stored = chat /\ shows = {}
  \/ at = "asking" /\ to = "starting" /\ t = s /\ stored = chat /\ shows = shown
  \/ /\ at = "asking" /\ to = "answering" /\ t = s /\ stored = chat /\ shows = shown
     /\ Message("user", {q}) \in more /\ Message("assistant", {q}) \in more
  \/ at = "answering" /\ to = "caught" /\ t = s /\ stored = chat /\ shows = shown
  \/ /\ at = "answering" /\ to = "stopped" /\ t = s /\ stored = chat
     /\ shows = shown \union {q}
  \/ /\ at = "starting" /\ to = "prompting" /\ stored = chat /\ shows = shown
     /\ \E long \in BOOLEAN : t = StartCompletion(s, {q}, long)
  \/ /\ at = "prompting" /\ to = "decoding" /\ stored = chat /\ shows = shown
     /\ t = Batched(s)
  \/ /\ at = "decoding" /\ to = "emitting" /\ t = s /\ stored = chat /\ shows = shown
     /\ Message("assistant", {q}) \in more
  \/ /\ at = "decoding" /\ to = "sampling" /\ stored = chat /\ shows = shown
     /\ \E held \in BOOLEAN : t = Decode(s, held)
  \/ /\ at = "sampling" /\ to = "emitting" /\ stored = chat /\ shows = shown
     /\ t = Sample(s, {q})
  \/ at = "sampling" /\ to = "stopping" /\ t = s /\ stored = chat /\ shows = shown
  \/ /\ at = "emitting" /\ to = "caught" /\ t = s /\ stored = chat /\ shows = shown
     /\ Message("assistant", {q}) \in more
  \/ /\ at = "emitting" /\ to = "decoding" /\ t = s /\ stored = chat
     /\ shows = shown \union {q}
  \/ /\ at = "stopping" /\ to = "stopped" /\ stored = chat /\ shows = shown
     /\ t = StopCompletion(s)
  \/ /\ at = "stopped" /\ to = "saving" /\ stored = chat /\ shows = shown
     /\ t = StopCompletion(s)
  \/ /\ at = "caught" /\ to = "saving" /\ stored = chat /\ shows = shown
     /\ t = CancelCompletion(s)
  \/ /\ at = "saving" /\ to = "ending" /\ t = s /\ shows = shown
     /\ stored = IF shown = {} THEN chat ELSE Append(chat, Message("assistant", shown))
  \/ at = "ending" /\ to = "done" /\ t = s /\ stored = chat /\ shows = shown

LEMMA JobEffects ==
  ASSUME Types, NEW q \in Jobs, Job(q), NEW l \in Loads, l = Ptr(localOrabel),
         job[q].at \in HoldsObject => job[q].object = localOrabel, NEW more,
         job'[q].erred \/ job'[q].cancelled \/ q \in commands' =>
           Message("assistant", {q}) \in more,
         q \in commands' => Message("user", {q}) \in more
  PROVE  Effect(session[l], session'[l], messages[job[q].chat], messages'[job[q].chat], q,
                job[q].at, job'[q].at, partialResponse, partialResponse', more)
  <1>1. localOrabel # 0 /\ SameButPlace(q) /\ job[q] \in JobRecord
        /\ messages \in [Chats -> Seq(Messages)]
    BY JobMoves, Bounds, Typed DEF Ptr
  <1>2. CASE EndAnalysis(q)
    <2>1. job[q].at = "analysing" /\ job'[q].at = "asking"
      BY <1>2, JobMoves DEF EndAnalysis, JobAt
    <2> QED
      BY <1>2, <2>1 DEF EndAnalysis, llm, Effect
  <1>3. CASE Ask(q)
    <2>1. job[q].at = "asking" /\ job'[q].at = "starting"
      BY <1>1, <1>3, Asks
    <2> QED
      BY <1>3, <2>1 DEF Ask, llm, Effect
  <1>4. CASE Start(q)
    <2>1. job[q].at = "starting" /\ job[q].object = localOrabel
      BY <1>4 DEF Start, JobAt, HoldsObject
    <2>2. job'[q].at = "prompting"
      BY <2>1, JobMoves
    <2>3. \E long \in BOOLEAN : session'[l] = StartCompletion(session[l], {q}, long)
      BY <1>4, <2>1, JobCalls
    <2> QED
      BY <1>4, <2>1, <2>2, <2>3 DEF Start, Effect
  <1>15. CASE Prompt(q)
    <2>1. job[q].at = "prompting" /\ job[q].object = localOrabel
      BY <1>15 DEF Prompt, JobAt, HoldsObject
    <2>2. session'[l] = Batched(session[l]) /\ job'[q].at = "decoding"
      BY <1>15, <2>1, JobCalls, JobMoves
    <2> QED
      BY <1>15, <2>1, <2>2 DEF Prompt, Effect
  <1>16. CASE Command(q)
    <2>1. job[q].at = "asking"
      BY <1>16 DEF Command, JobAt
    <2>2. job'[q].at = "answering" /\ q \in commands'
      <3>1. job' = [job EXCEPT ![q].at = "answering"] /\ job \in [Jobs -> JobRecord]
        BY <1>16, Typed DEF Command, JobAt
      <3> QED
        BY <1>1, <1>16, <3>1 DEF JobRecord, Command
    <2> QED
      BY <1>16, <2>1, <2>2 DEF Command, llm, Effect
  <1>17. CASE EmitResult(q)
    <2>1. job[q].at = "answering"
      BY <1>17 DEF EmitResult, JobAt
    <2>2. job'[q].at = IF job[q].cancelled THEN "caught" ELSE "stopped"
      BY <2>1, JobMoves
    <2>3. partialResponse' = IF job[q].cancelled THEN partialResponse
                             ELSE partialResponse \union {q}
      BY <1>17 DEF EmitResult
    <2>4. UNCHANGED <<messages, session>>
      BY <1>17 DEF EmitResult, llm
    <2> QED
      BY <2>1, <2>2, <2>3, <2>4 DEF Effect
  <1>5. CASE DecodeFails(q)
    <2>1. job[q].at = "decoding"
      BY <1>5 DEF DecodeFails
    <2>2. /\ job' = [job EXCEPT ![q].at = "emitting", ![q].erred = TRUE]
          /\ "emitting" \in JobSteps
      BY <1>5 DEF DecodeFails, JobSteps
    <2>3. job'[q].at = "emitting" /\ job'[q].erred = TRUE
      <3>1. \A r \in Jobs : /\ job'[r].at = IF r = q THEN "emitting" ELSE job[r].at
                            /\ job'[r].erred = IF r = q THEN TRUE ELSE job[r].erred
        BY ZenonT(30), <2>2, JobErrs
      <3> QED
        BY <3>1
    <2> QED
      BY <1>5, <2>1, <2>3 DEF DecodeFails, llm, Effect
  <1>6. CASE Decodes(q)
    <2>1. job[q].at = "decoding" /\ job[q].object = localOrabel
      BY <1>6 DEF Decodes, HoldsObject
    <2>2. \E held \in BOOLEAN : session'[l] = Decode(session[l], held)
      BY <1>6, <2>1, JobCalls
    <2>3. job'[q].at = "sampling"
      <3>1. PICK held \in BOOLEAN :
               job' = [job EXCEPT ![q].at = "sampling", ![q].erred = @ \/ ~held]
        BY <1>6 DEF Decodes
      <3>2. job \in [Jobs -> JobRecord]
        BY Typed
      <3> QED
        BY <1>1, <3>1, <3>2 DEF JobRecord
    <2> QED
      BY <1>6, <2>1, <2>2, <2>3 DEF Decodes, Effect
  <1>7. CASE Piece(q)
    <2>1. job[q].at = "sampling" /\ job[q].object = localOrabel
      BY <1>7 DEF Piece, JobAt, HoldsObject
    <2>2. session'[l] = Sample(session[l], {q})
      BY <1>7, <2>1, JobCalls
    <2>3. job'[q].at = "emitting"
      <3>1. job' = [job EXCEPT ![q].at = "emitting"] /\ job \in [Jobs -> JobRecord]
        BY <1>7, Typed DEF Piece, JobAt
      <3> QED
        BY <1>1, <3>1 DEF JobRecord
    <2> QED
      BY <1>7, <2>1, <2>2, <2>3 DEF Piece, Effect
  <1>8. CASE EndOfGeneration(q)
    <2>1. /\ job[q].at = "sampling"
          /\ job' = [job EXCEPT ![q].at = "stopping"] /\ job \in [Jobs -> JobRecord]
      BY <1>8, Typed DEF EndOfGeneration, JobAt
    <2>2. job'[q].at = "stopping"
      BY <1>1, <2>1 DEF JobRecord
    <2> QED
      BY <1>8, <2>1, <2>2 DEF EndOfGeneration, llm, Effect
  <1>9. CASE Emit(q)
    <2>1. job[q].at = "emitting"
      BY <1>9 DEF Emit
    <2>2. /\ job[q].object # 0
          /\ job'[q].at = IF job[q].cancelled THEN "caught"
                          ELSE IF job[q].object = 0 THEN "stopped" ELSE "decoding"
      BY <1>1, <2>1, JobMoves DEF HoldsObject
    <2>3. job'[q].cancelled = job[q].cancelled
      BY <1>1 DEF SameButPlace
    <2>4. UNCHANGED <<messages, session>>
      BY <1>9 DEF Emit, llm
    <2>5. partialResponse' = IF job[q].cancelled THEN partialResponse
                             ELSE partialResponse \union {q}
      BY <1>9 DEF Emit
    <2> QED
      BY <2>1, <2>2, <2>3, <2>4, <2>5 DEF Effect
  <1>10. CASE StopOwn(q)
    <2>1. job[q].at = "stopping" /\ job[q].object = localOrabel
      BY <1>10 DEF StopOwn, JobAt, HoldsObject
    <2>2. session'[l] = StopCompletion(session[l]) /\ job'[q].at = "stopped"
      BY <1>10, <2>1, JobCalls, JobMoves
    <2> QED
      BY <1>10, <2>1, <2>2 DEF StopOwn, Effect
  <1>11. CASE StopShared(q)
    <2>1. job[q].at = "stopped"
      BY <1>11 DEF StopShared, JobAt
    <2>2. session'[l] = StopCompletion(session[l]) /\ job'[q].at = "saving"
      BY <1>11, <2>1, JobCalls, JobMoves
    <2> QED
      BY <1>11, <2>1, <2>2 DEF StopShared, Effect
  <1>12. CASE CancelShared(q)
    <2>1. job[q].at = "caught"
      BY <1>12 DEF CancelShared, JobAt
    <2>2. session'[l] = CancelCompletion(session[l]) /\ job'[q].at = "saving"
      BY <1>12, <2>1, JobCalls, JobMoves
    <2> QED
      BY <1>12, <2>1, <2>2 DEF CancelShared, Effect
  <1>13. CASE Save(q)
    <2>1. job[q].at = "saving" /\ job[q].chat \in Chats
      BY <1>13, Saves
    <2>2. job'[q].at = "ending"
      BY <2>1, JobMoves
    <2>3. messages'[job[q].chat] =
            IF partialResponse = {} THEN messages[job[q].chat]
            ELSE Append(messages[job[q].chat], Message("assistant", partialResponse))
      BY <1>1, <1>13, <2>1, Saves
    <2> QED
      BY <1>13, <2>1, <2>2, <2>3 DEF Save, llm, Effect
  <1>14. CASE EndJob(q)
    <2>1. job[q].at = "ending" /\ job'[q].at = "done"
      BY <1>14, JobEnds
    <2> QED
      BY <1>14, <2>1 DEF EndJob, llm, Effect
  <1> QED
    BY <1>2, <1>3, <1>4, <1>5, <1>6, <1>7, <1>8, <1>9, <1>10, <1>11, <1>12, <1>13, <1>14,
      <1>15, <1>16, <1>17 DEF Job


\* A step of the last answer's coroutine keeps what the transcript holds of the chat and
\* tells of the answer.
LEMMA EffectKeeps ==
  ASSUME NEW s, SessionOK(s), NEW t, NEW chat \in Seq(Messages), NEW stored, NEW q \in Jobs,
         NEW at, NEW to, NEW lost, NEW more, lost \subseteq more,
         NEW shown \in SUBSET Jobs, NEW shows,
         Holds(s, chat, q, at, lost, shown), Tells(s, q, at, lost, shown),
         s.response \subseteq {q}, s.response # {} => at \in Pending,
         at \in Showing => shown \subseteq {q},
         at \in Unsaved => \A m \in Range(chat) : Follows(m, Message("assistant", {q})),
         Effect(s, t, chat, stored, q, at, to, shown, shows, more)
  PROVE  Holds(t, stored, q, to, more, shows) /\ Tells(t, q, to, more, shows)
  <1>1. ASSUME t = s, stored = chat,
               \/ at = "analysing" /\ to = "asking" /\ shows = {}
               \/ at = "asking" /\ to = "starting" /\ shows = shown
               \/ /\ at = "asking" /\ to = "answering" /\ shows = shown
                  /\ Message("user", {q}) \in more /\ Message("assistant", {q}) \in more
               \/ at = "answering" /\ to = "caught" /\ shows = shown
               \/ at = "answering" /\ to = "stopped" /\ shows = shown \union {q}
               \/ /\ at = "decoding" /\ to = "emitting" /\ shows = shown
                  /\ Message("assistant", {q}) \in more
               \/ at = "sampling" /\ to = "stopping" /\ shows = shown
               \/ /\ at = "emitting" /\ to = "caught" /\ shows = shown
                  /\ Message("assistant", {q}) \in more
               \/ at = "emitting" /\ to = "decoding" /\ shows = shown \union {q}
               \/ at = "ending" /\ to = "done" /\ shows = shown
        PROVE  Holds(t, stored, q, to, more, shows) /\ Tells(t, q, to, more, shows)
    <2>1. Holds(t, stored, q, to, more, shows)
      <3>1. t.messages = s.messages /\ t.cut = s.cut /\ stored = chat
        BY <1>1
      <3>2. Moves(q, at, to, more)
        BY <1>1 DEF Moves
      <3>3. Holds(t, chat, q, to, more, shows)
        BY <3>1, <3>2, HoldsMoves
      <3> QED
        BY <3>1, <3>3
    <2>2. Tells(t, q, to, more, shows)
      BY <1>1 DEF Tells, Kept
    <2> QED
      BY <2>1, <2>2
  <1>8. CASE /\ at = "prompting" /\ to = "decoding" /\ stored = chat /\ shows = shown
             /\ t = Batched(s)
    <2>1. t.messages = s.messages /\ t.cut = s.cut /\ t.response = s.response
      BY <1>8, BatchedFields
    <2>2. Holds(t, stored, q, to, more, shows)
      BY <1>8, <2>1, HoldsMoves DEF Moves
    <2>3. t.response = {} /\ shown = {}
      BY <1>8, <2>1 DEF Pending, Tells
    <2>4. Tells(t, q, to, more, shows)
      BY <1>8, <2>3 DEF Tells, Kept
    <2> QED
      BY <2>2, <2>4
  <1>2. CASE /\ at = "starting" /\ to = "prompting" /\ stored = chat /\ shows = shown
             /\ \E long \in BOOLEAN : t = StartCompletion(s, {q}, long)
    <2>1. PICK long \in BOOLEAN : t = StartCompletion(s, {q}, long)
      BY <1>2
    <2>2. Holds(t, chat, q, "prompting", lost, shown)
      BY <1>2, <2>1, HoldsStart
    <2>3. Holds(t, stored, q, to, more, shows)
      <3>1. Holds(t, chat, q, "prompting", more, shown)
        BY <2>2, HoldsOn
      <3> QED
        BY <1>2, <3>1
    <2>4. shown = {}
      BY <1>2 DEF Tells
    <2>5. Tells(t, q, to, more, shows)
      BY <1>2, <2>4 DEF Tells, Kept
    <2> QED
      BY <2>3, <2>5
  <1>3. CASE /\ at = "decoding" /\ to = "sampling" /\ stored = chat /\ shows = shown
             /\ \E held \in BOOLEAN : t = Decode(s, held)
    <2>1. t.messages = s.messages /\ t.cut = s.cut /\ t.response = s.response
      BY <1>3, Decoded
    <2>2. Holds(t, stored, q, to, more, shows)
      BY <1>3, <2>1, HoldsMoves DEF Moves
    <2>3. Tells(t, q, to, more, shows)
      BY <1>3, <2>1 DEF Tells, Kept
    <2> QED
      BY <2>2, <2>3
  <1>4. CASE /\ at = "sampling" /\ to = "emitting" /\ stored = chat /\ shows = shown
             /\ t = Sample(s, {q})
    <2>1. t.messages = s.messages /\ t.cut = s.cut /\ t.response = s.response \union {q}
      <3>1. {q} \in SUBSET Jobs
        OBVIOUS
      <3> QED
        BY <1>4, <3>1, Sampled
    <2>2. Holds(t, stored, q, to, more, shows)
      BY <1>4, <2>1, HoldsMoves DEF Moves
    <2>3. t.response = {q}
      BY <2>1
    <2>4. Tells(t, q, to, more, shows)
      BY <1>4, <2>3 DEF Tells, Kept
    <2> QED
      BY <2>2, <2>4
  <1>5. CASE /\ \/ at = "stopping" /\ to = "stopped"
                \/ at = "stopped" /\ to = "saving"
             /\ stored = chat /\ shows = shown /\ t = StopCompletion(s)
    <2>1. /\ at = "stopped" => s.response = {}
          /\ s.response # {} => q \in shown
          /\ \A m \in Range(chat) : Follows(m, Message("assistant", {q}))
          /\ at \in {"stopping", "stopped"}
      BY <1>5 DEF Pending, Tells, Unsaved
    <2>2. /\ Holds(t, chat, q, to, lost, shown)
          /\ s.response = {} => t.messages = s.messages
          /\ s.response = {q} => Message("assistant", {q}) \in Range(t.messages)
      <3>1. LET a == StopCompletion(s)
            IN  /\ Holds(a, chat, q, IF at = "stopping" THEN "stopped" ELSE "saving",
                         lost, shown)
                /\ s.response = {} => a.messages = s.messages
                /\ s.response = {q} => Message("assistant", {q}) \in Range(a.messages)
        BY <2>1, HoldsStop
      <3> QED
        BY <1>5, <3>1
    <2>3. Holds(t, stored, q, to, more, shows)
      <3>1. Holds(t, chat, q, to, more, shown)
        BY <2>2, HoldsOn
      <3> QED
        BY <1>5, <3>1
    <2>4. to \in Kept /\ (q \in shown =>
             Message("assistant", {q}) \in Range(t.messages) \/ Message("assistant", {q}) \in lost)
      BY <1>5, <2>2 DEF Tells, Kept
    <2>5. Tells(t, q, to, more, shows)
      BY <1>5, <2>4 DEF Tells, Kept
    <2> QED
      BY <2>3, <2>5
  <1>6. CASE /\ at = "caught" /\ to = "saving" /\ stored = chat /\ shows = shown
             /\ t = CancelCompletion(s)
    <2>1. t.messages = s.messages /\ t.cut = s.cut
      BY <1>6, Cancelled
    <2>2. Holds(t, stored, q, to, more, shows)
      BY <1>6, <2>1, HoldsMoves DEF Moves
    <2>3. Tells(t, q, to, more, shows)
      BY <1>6 DEF Tells, Kept
    <2> QED
      BY <2>2, <2>3
  <1>7. CASE /\ at = "saving" /\ to = "ending" /\ t = s /\ shows = shown
             /\ stored = IF shown = {} THEN chat
                         ELSE Append(chat, Message("assistant", shown))
    <2>1. shown \subseteq {q}
      BY <1>7 DEF Showing, Unsaved
    <2>2. Holds(s, stored, q, "ending", lost, shown)
      BY <1>7, <2>1, HoldsSave
    <2>3. Holds(t, stored, q, to, more, shows)
      <3>1. Holds(s, stored, q, "ending", more, shown)
        BY <2>2, HoldsOn
      <3> QED
        BY <1>7, <3>1
    <2>4. Tells(t, q, to, more, shows)
      BY <1>7 DEF Tells, Kept
    <2> QED
      BY <2>3, <2>4
  <1> QED
    BY <1>1, <1>2, <1>3, <1>4, <1>5, <1>6, <1>7, <1>8 DEF Effect

\* A step of an answer's coroutine: what is asked, answered, stopped and stored.
LEMMA GivenJob ==
  ASSUME Types, Alone, ResponseInv, StoredInv, ChatOrder, LoadedChat, GivenInv,
         NEW q \in Jobs, Job(q), ~crossed, ~mixed
  PROVE  GivenInv'
  <1> DEFINE s == session[loads]
             t == session'[loads]
             chat == messages[job[q].chat]
             stored == messages'[job[q].chat]
  <1>1. /\ SameButPlace(q) /\ q = asked
        /\ UNCHANGED <<asked, loads, load, crossed, mixed, localOrabel, nativePtr>>
        /\ commands \subseteq commands'
        /\ OwnObject /\ OwnLoad
        /\ job[q].at \notin {"none", "done"}
    BY JobMoves DEF Alone, OneJob, Separate
  <1>2. ~(load[loads].at = "adding" /\ loads \in Loads)
    <2>1. Answering
      BY <1>1 DEF Answering
    <2> QED
      BY <2>1 DEF Alone, Separate, OneLoad, Busy
  <1>3. At = job[q].at /\ At' = job'[q].at /\ Excused \subseteq Excused'
    <2>1. \A r \in Jobs : job[r].cancelled \/ job[r].erred \/ r \in commands =>
             job'[r].cancelled \/ job'[r].erred \/ r \in commands'
      BY <1>1 DEF SameButPlace
    <2> QED
      BY <1>1, <2>1 DEF At, Excused
  <1>4. InUse' <=> InUse
    BY <1>1 DEF InUse
  <1>5. InUse => job[q].chat = load[loads].chat /\ job[q].chat \in Chats
    <2>1. InUse => loads \in Loads
      BY DEF InUse
    <2> QED
      BY <1>1, <2>1, Typed DEF LoadedChat, AnswerChat, LoadRecord
  <1>6. SUFFICES ASSUME InUse, load[loads].at = "done"
                 PROVE  /\ Holds(t, stored, q, job'[q].at, Excused', partialResponse')
                        /\ Tells(t, q, job'[q].at, Excused', partialResponse')
    <2>1. ~(load'[loads'].at = "adding" /\ InUse')
      BY <1>1, <1>2, <1>4 DEF InUse
    <2> QED
      BY <1>1, <1>3, <1>4, <1>5, <2>1 DEF GivenInv
  <1>7. /\ Holds(s, chat, q, job[q].at, Excused, partialResponse)
        /\ Tells(s, q, job[q].at, Excused, partialResponse)
    BY <1>1, <1>3, <1>5, <1>6 DEF GivenInv
  <1>8. /\ loads \in Loads /\ loads = Ptr(localOrabel)
        /\ SessionOK(s) /\ chat \in Seq(Messages)
    <2>1. loads \in Loads /\ localOrabel = loads /\ nativePtr[loads] # 0
      BY <1>6 DEF InUse
    <2>2. loads = Ptr(localOrabel)
      BY <1>1, <2>1, Bounds DEF Ptr, OwnLoad
    <2> QED
      BY <1>5, <1>6, <2>1, <2>2, Typed
  <1>9. /\ s.response \subseteq {q}
        /\ s.response # {} => job[q].at \in Pending
    BY <1>1, <1>8 DEF ResponseInv
  <1>10. /\ job[q].at \in Showing => partialResponse \subseteq {q}
         /\ partialResponse \in SUBSET Jobs
    BY Typed DEF StoredInv
  <1>11. job[q].at \in Unsaved =>
            \A m \in Range(chat) : Follows(m, Message("assistant", {q}))
    BY <1>1, <1>5, <1>6, Newest
  <1>12. job[q].at \in HoldsObject => job[q].object = localOrabel
    BY <1>1 DEF OwnObject
  <1>13. /\ job'[q].erred \/ job'[q].cancelled \/ q \in commands' =>
                Message("assistant", {q}) \in Excused'
         /\ q \in commands' => Message("user", {q}) \in Excused'
    BY DEF Excused
  <1> DEFINE at == job[q].at
             to == job'[q].at
             more == Excused'
             shown == partialResponse
             shows == partialResponse'
  <1>14. Effect(s, t, chat, stored, q, at, to, shown, shows, more)
    BY <1>8, <1>12, <1>13, JobEffects
  <1> HIDE DEF s, t, chat, stored, at, to, more, shown, shows
  <1>15. /\ Holds(s, chat, q, at, Excused, shown) /\ Tells(s, q, at, Excused, shown)
         /\ Excused \subseteq more /\ shown \in SUBSET Jobs
         /\ SessionOK(s) /\ chat \in Seq(Messages)
         /\ s.response \subseteq {q} /\ (s.response # {} => at \in Pending)
         /\ at \in Showing => shown \subseteq {q}
         /\ at \in Unsaved => \A m \in Range(chat) : Follows(m, Message("assistant", {q}))
    BY <1>3, <1>7, <1>8, <1>9, <1>10, <1>11 DEF at, more, shown
  <1>16. Holds(t, stored, q, to, more, shows) /\ Tells(t, q, to, more, shows)
    BY <1>14, <1>15, EffectKeeps
  <1> QED
    BY <1>16 DEF to, more, shows


\* The first message of those to be added moves to the end of the transcript.
LEMMA MovesOver ==
  ASSUME NEW a \in Seq(Messages), NEW todo \in Seq(Messages), todo # <<>>
  PROVE  /\ Append(a, Head(todo)) \o Tail(todo) = a \o todo
         /\ Head(todo) \in Messages /\ Head(todo) \in Range(a \o todo)
  <1> DEFINE m == Head(todo)
             rest == Tail(todo)
  <1>1. /\ m \in Messages /\ rest \in Seq(Messages) /\ Len(rest) = Len(todo) - 1
        /\ \A i \in 1 .. Len(rest) : rest[i] = todo[i + 1]
        /\ Len(todo) \in Nat /\ Len(todo) > 0 /\ m = todo[1] /\ Len(a) \in Nat
    BY HeadTailProperties
  <1> HIDE DEF m, rest
  <1>2. Append(a, m) \in Seq(Messages) /\ Len(Append(a, m)) = Len(a) + 1
        /\ (\A i \in 1 .. Len(a) : Append(a, m)[i] = a[i]) /\ Append(a, m)[Len(a) + 1] = m
    BY <1>1, AppendProperties
  <1> DEFINE b == Append(a, m)
             x == b \o rest
             y == a \o todo
  <1> HIDE DEF b
  <1>3. /\ b \in Seq(Messages) /\ Len(b) = Len(a) + 1
        /\ (\A i \in 1 .. Len(a) : b[i] = a[i]) /\ b[Len(a) + 1] = m
    BY <1>2 DEF b
  <1>4. /\ x \in Seq(Messages) /\ Len(x) = Len(a) + Len(todo)
        /\ \A i \in 1 .. Len(a) + Len(todo) :
              x[i] = IF i <= Len(a) + 1 THEN b[i] ELSE rest[i - (Len(a) + 1)]
    <2>1. Len(b) + Len(rest) = Len(a) + Len(todo)
      BY <1>1, <1>3
    <2>2. /\ x \in Seq(Messages) /\ Len(x) = Len(b) + Len(rest)
          /\ \A i \in 1 .. Len(b) + Len(rest) :
                x[i] = IF i <= Len(b) THEN b[i] ELSE rest[i - Len(b)]
      BY <1>1, <1>3, ConcatProperties
    <2> HIDE DEF x
    <2> QED
      BY <1>3, <2>1, <2>2
  <1>5. /\ y \in Seq(Messages) /\ Len(y) = Len(a) + Len(todo)
        /\ \A i \in 1 .. Len(a) + Len(todo) :
              y[i] = IF i <= Len(a) THEN a[i] ELSE todo[i - Len(a)]
    BY ConcatProperties
  <1> HIDE DEF x, y
  <1>6. ASSUME NEW i \in 1 .. Len(a) + Len(todo)
        PROVE  x[i] = y[i]
    <2>1. CASE i <= Len(a)
      BY <1>1, <1>3, <1>4, <1>5, <2>1
    <2>2. CASE i = Len(a) + 1
      BY SMTT(30), <1>1, <1>3, <1>4, <1>5, <2>2
    <2>3. CASE i > Len(a) + 1
      <3>1. i - (Len(a) + 1) \in 1 .. Len(rest) /\ i - (Len(a) + 1) + 1 = i - Len(a)
        BY <1>1, <2>3
      <3>2. x[i] = rest[i - (Len(a) + 1)]
        BY <1>1, <1>4, <2>3
      <3>3. rest[i - (Len(a) + 1)] = todo[i - Len(a)]
        BY <1>1, <3>1
      <3>4. y[i] = todo[i - Len(a)]
        BY <1>1, <1>5, <2>3
      <3> QED
        BY <3>2, <3>3, <3>4
    <2> QED
      BY <1>1, <2>1, <2>2, <2>3
  <1>7. x = y
    BY <1>4, <1>5, <1>6, SeqEqual
  <1>8. m \in Range(y)
    <2>1. Len(a) + 1 \in DOMAIN y /\ y[Len(a) + 1] = m
      BY SMTT(30), <1>1, <1>5
    <2> QED
      BY <2>1 DEF Range
  <1> QED
    BY <1>1, <1>7, <1>8 DEF x, y, b, m, rest

\* A load gives the new instance the messages of its chat, one after the other.
LEMMA GivenLoad ==
  ASSUME Types, Alone, ChatOrder, GivenInv, NEW l \in Loads, Load(l), ~crossed, ~mixed
  PROVE  GivenInv'
  <1>1. /\ UNCHANGED Rest /\ Busy(l)
        /\ load' \in [Loads -> LoadRecord]
        /\ load'[l].chat = load[l].chat
    BY LoadMoves DEF Busy
  <1>2. /\ l = loads /\ ~Answering /\ OwnLoad /\ Fresh
        /\ UNCHANGED <<messages, asked, loads, job, partialResponse, commands>>
    BY <1>1 DEF Alone, Separate, OneLoad, Rest, history
  <1>3. /\ load[l].chat \in Chats /\ messages[load[l].chat] \in Seq(Messages)
        /\ load[l].todo \in Seq(Messages) /\ SessionOK(session[l])
        /\ session[l].messages \in Seq(Messages)
    BY Typed DEF LoadRecord, SessionOK, SessionRecord
  <1> DEFINE chat == messages[load[l].chat]
  <1>4. SUFFICES ASSUME InUse'
                 PROVE  /\ load'[l].at = "adding" =>
                             session'[l].messages \o load'[l].todo = chat /\ ~session'[l].cut
                        /\ load'[l].at = "done" =>
                             /\ Holds(session'[l], chat, asked, At', Excused',
                                      partialResponse)
                             /\ Tells(session'[l], asked, At', Excused', partialResponse)
    BY <1>1, <1>2 DEF GivenInv
  <1>5. nativePtr'[l] # 0 /\ localOrabel' = l
    BY <1>2, <1>4 DEF InUse
  <1>6. CASE load[l].at \in {"check", "new", "create"}
    <2>1. nativePtr[l] = 0
      BY <1>2, <1>6 DEF Fresh
    <2>2. UNCHANGED nativePtr
      BY <1>6 DEF Load, Fail, Close, New, Create, Created, ReadHistory, AddHistory, Ready,
        LoadAt, llm
    <2> QED
      BY <1>5, <2>1, <2>2
  <1>7. CASE Created(l)
    BY <1>7, LoadMoves DEF Created
  <1>8. CASE ReadHistory(l)
    <2>1. /\ load[l].at = "reading" /\ UNCHANGED session
          /\ load'[l].at = "adding" /\ load'[l].todo = chat
      <3>1. load[l].at = "reading" /\ UNCHANGED session
        BY <1>8 DEF ReadHistory, llm
      <3>2. /\ load'[l].at = "adding"
            /\ load'[l].todo = IF load[l].at = "reading" THEN messages[load[l].chat]
                               ELSE Tail(load[l].todo)
        BY <1>8, Reads
      <3> QED
        BY <3>1, <3>2
    <2>2. session[l] = NewSession
      BY <1>2, <2>1 DEF Fresh
    <2>3. session'[l].messages = <<>> /\ ~session'[l].cut
      BY <2>1, <2>2 DEF NewSession
    <2>4. <<>> \o chat = chat
      BY <1>3, ConcatEmptySeq
    <2> QED
      BY <2>1, <2>3, <2>4
  <1>9. ASSUME load[l].at = "adding", UNCHANGED <<localOrabel, nativePtr>>
        PROVE  session[l].messages \o load[l].todo = chat /\ ~session[l].cut
    BY <1>2, <1>4, <1>9 DEF GivenInv, InUse
  <1>10. CASE AddHistory(l)
    <2> DEFINE m == Head(load[l].todo)
    <2>1. /\ load[l].at = "adding" /\ load[l].todo # <<>>
          /\ UNCHANGED <<localOrabel, nativePtr>>
          /\ load'[l].at = "adding" /\ load'[l].todo = Tail(load[l].todo)
      BY ZenonT(30), <1>10, Reads DEF AddHistory
    <2>2. session[l].messages \o load[l].todo = chat /\ ~session[l].cut
      BY <1>9, <2>1
    <2>3. /\ Append(session[l].messages, m) \o Tail(load[l].todo) = chat
          /\ m \in Messages /\ m \in Range(chat)
      BY <1>3, <2>1, <2>2, MovesOver
    <2>4. m.text # {}
      <3>1. UpTo(chat, asked)
        BY <1>3 DEF ChatOrder
      <3> QED
        BY <2>3, <3>1 DEF UpTo
    <2>5. l = Ptr(localOrabel)
      BY <1>2, <1>5, <2>1, Bounds DEF Ptr, OwnLoad
    <2>6. session'[l] = AddMessage(session[l], m.role, m.text)
      BY <1>10, <2>5, AddsOne
    <2> HIDE DEF m
    <2>7. /\ session'[l].messages = Append(session[l].messages, Message(m.role, m.text))
          /\ session'[l].cut = session[l].cut
      <3>1. m.role \in {"user", "assistant"} /\ m.text \in SUBSET (0 .. MaxAsked)
        BY <2>3 DEF Messages
      <3>2. LET a == AddMessage(session[l], m.role, m.text)
            IN  /\ a.messages = IF m.text = {} THEN session[l].messages
                                ELSE Append(session[l].messages, Message(m.role, m.text))
                /\ a.cut = session[l].cut
        BY <1>3, <3>1, Added
      <3> QED
        BY <2>4, <2>6, <3>2
    <2>8. Message(m.role, m.text) = m
      BY <2>3 DEF Message, Messages
    <2> QED
      BY <2>1, <2>2, <2>3, <2>7, <2>8
  <1>11. CASE Ready(l)
    <2>1. /\ load[l].at = "adding" /\ load'[l].at = "done" /\ load[l].todo = <<>>
          /\ UNCHANGED llm
      <3>1. LoadAt(l, "adding", "done") /\ load[l].todo = <<>> /\ UNCHANGED llm
            /\ "done" \in LoadSteps
        BY <1>11 DEF Ready, LoadSteps
      <3>2. load[l].at = "adding" /\ \A k \in Loads :
               load'[k].at = IF k = l THEN "done" ELSE load[k].at
        BY <3>1, LoadGoes
      <3> QED
        BY <3>1, <3>2
    <2>2. session[l].messages \o <<>> = chat /\ session'[l] = session[l]
      BY <1>9, <2>1 DEF llm
    <2>3. session'[l].messages = chat
      BY <1>3, <2>2, ConcatEmptySeq
    <2>4. At' \in {"none", "done"}
      BY <1>2 DEF At, Answering
    <2>5. Sorted(chat)
      BY <1>3 DEF ChatOrder
    <2>6. Holds(session'[l], chat, asked, At', Excused', partialResponse)
      BY <2>3, <2>4, <2>5 DEF Holds, Asking
    <2>7. Tells(session'[l], asked, At', Excused', partialResponse)
      BY <2>4 DEF Tells, Kept
    <2> QED
      BY <2>1, <2>6, <2>7
  <1> QED
    BY <1>6, <1>7, <1>8, <1>10, <1>11 DEF Load, Fail, Close, New, Create, LoadAt


\* No instance is there yet.
LEMMA GivenInit == Init => GivenInv
  BY Bounds DEF Init, GivenInv, InUse

\* A step that changes none of this leaves it so.
LEMMA GivenSame ==
  ASSUME GivenInv, UNCHANGED <<crossed, mixed, loads, load, llm, messages, asked, job,
                               partialResponse, commands>>
  PROVE  GivenInv'
  BY DEF GivenInv, InUse, At, Excused, llm

\* A load that starts has no instance yet.
LEMMA GivenLoadStarts ==
  ASSUME Types, GivenInv, Separate', ~mixed', NEW has \in BOOLEAN, LoadModel(currChat, has),
         has => loads + 1 \in Loads,
         UNCHANGED <<crossed, llm, messages, asked, job, partialResponse, commands>>
  PROVE  GivenInv'
  <1>1. currChat \in Chats
    BY Typed
  <1>2. CASE has
    <2>1. /\ loads' = loads + 1 /\ loads + 1 \in Loads
          /\ load'[loads + 1] = [at |-> "check", chat |-> currChat, object |-> 0,
                                 todo |-> <<>>]
      BY <1>1, <1>2, LoadStarts
    <2>2. nativePtr'[loads + 1] = 0
      BY <2>1 DEF Separate, Fresh
    <2> QED
      BY <2>1, <2>2 DEF GivenInv, InUse
  <1>3. CASE ~has
    <2>1. UNCHANGED <<isInitializingModel, loads, load, mixed>>
      BY <1>1, <1>3, LoadStarts
    <2> QED
      BY <2>1, GivenSame
  <1> QED
    BY <1>2, <1>3

\* Stopping takes the response away, and the answer is excused.
LEMMA GivenStop ==
  ASSUME Types, Alone, GivenInv, Stop, ~crossed, ~mixed,
         UNCHANGED <<crossed, mixed, loads, load, localOrabel, nativePtr, messages, asked,
                     partialResponse, commands>>
  PROVE  GivenInv'
  <1>1. /\ \A r \in Jobs :
              /\ job'[r].at = job[r].at /\ job'[r].erred = job[r].erred
              /\ job'[r].cancelled <=> job[r].cancelled \/ (Active /\ r = asked)
        /\ \A k \in Loads :
              session'[k] = IF Active /\ k = Ptr(localOrabel)
                            THEN CancelCompletion(session[k]) ELSE session[k]
    BY Stops
  <1>2. /\ At' = At /\ Excused \subseteq Excused' /\ (InUse' <=> InUse)
        /\ Active => Message("assistant", {asked}) \in Excused' /\ ~Loading
    <2>1. Active => asked \in Jobs /\ Answering
      BY AnsweringJobs
    <2>3. \A r \in Jobs : job[r].cancelled \/ job[r].erred \/ r \in commands =>
             job'[r].cancelled \/ job'[r].erred \/ r \in commands'
      BY <1>1
    <2>2. Active => ~Loading
      BY <2>1 DEF Alone, Separate, OneLoad, Busy, Loading
    <2> QED
      BY <1>1, <2>1, <2>2, <2>3 DEF At, Excused, InUse
  <1>3. SUFFICES ASSUME InUse
                 PROVE  /\ load[loads].at = "adding" =>
                             /\ session'[loads].messages \o load[loads].todo
                                  = messages[load[loads].chat]
                             /\ ~session'[loads].cut
                        /\ load[loads].at = "done" =>
                             /\ Holds(session'[loads], messages[load[loads].chat], asked, At,
                                      Excused', partialResponse)
                             /\ Tells(session'[loads], asked, At, Excused',
                                      partialResponse)
    BY <1>2 DEF GivenInv
  <1> DEFINE s == session[loads]
             t == session'[loads]
             chat == messages[load[loads].chat]
  <1>4. loads \in Loads /\ SessionOK(s)
    BY <1>3, Typed DEF InUse
  <1>5. t.messages = s.messages /\ t.cut = s.cut
    BY <1>1, <1>4, Cancelled
  <1>6. load[loads].at = "adding" => s.messages \o load[loads].todo = chat /\ ~s.cut
    BY <1>3 DEF GivenInv
  <1>7. ASSUME load[loads].at = "done"
        PROVE  /\ Holds(t, chat, asked, At, Excused', partialResponse)
               /\ Tells(t, asked, At, Excused', partialResponse)
    <2>1. /\ Holds(s, chat, asked, At, Excused, partialResponse)
          /\ Tells(s, asked, At, Excused, partialResponse)
      BY <1>3, <1>7 DEF GivenInv
    <2>2. Holds(t, chat, asked, At, Excused', partialResponse)
      BY <1>2, <1>5, <2>1, HoldsOn
    <2>3. t = s \/ (Message("assistant", {asked}) \in Excused' /\ t.response = {})
      BY <1>1, <1>2, <1>4, Cancelled
    <2>4. Tells(t, asked, At, Excused', partialResponse)
      BY <1>2, <1>5, <2>1, <2>3 DEF Tells
    <2> QED
      BY <2>2, <2>4
  <1> QED
    BY <1>5, <1>6, <1>7

\* A question is asked in the chat of the instance in use.
LEMMA GivenSend ==
  ASSUME Types, StoredInv, ChatOrder, LoadedChat, GivenInv, SendUserQuery,
         ~crossed', ~mixed', ~crossed, ~mixed
  PROVE  GivenInv'
  <1> DEFINE q == asked + 1
             u == Message("user", {q})
             s == session[loads]
             chat == messages[currChat]
  <1>1. /\ q \in Jobs /\ asked' = q /\ u \in Messages
        /\ \A r \in Jobs :
              /\ job'[r].at = IF r = q THEN "analysing" ELSE job[r].at
              /\ job'[r].cancelled = job[r].cancelled /\ job'[r].erred = job[r].erred
        /\ messages' = [messages EXCEPT ![currChat] = Append(chat, u)]
    BY Sends
  <1>2. /\ UNCHANGED <<partialResponse, loads, load, llm, commands>>
        /\ ~effect /\ hasModel[currChat] /\ ~Answering /\ ~Loading
    BY DEF SendUserQuery
  <1>3. /\ currChat \in Chats /\ messages \in [Chats -> Seq(Messages)]
        /\ chat \in Seq(Messages)
    BY Typed
  <1>4. loads \in Loads /\ load[loads].chat = currChat /\ load[loads].at # "adding"
    BY <1>2 DEF LoadedChat, ShownChat, Loading
  <1>5. messages'[load'[loads'].chat] = Append(chat, u)
    BY <1>1, <1>2, <1>3, <1>4
  <1>6. At' = "analysing" /\ Excused' = Excused /\ At \in {"none", "done"}
    BY <1>1, <1>2 DEF At, Excused, Answering
  <1>7. \A m \in Range(chat) : Follows(m, u)
    BY <1>1, <1>3, Newest
  <1>8. SUFFICES ASSUME InUse, load[loads].at = "done"
                 PROVE  /\ Holds(s, Append(chat, u), q, "analysing", Excused,
                                 partialResponse)
                        /\ Tells(s, q, "analysing", Excused, partialResponse)
    BY <1>1, <1>2, <1>4, <1>5, <1>6 DEF GivenInv, InUse, llm
  <1>9. Holds(s, chat, asked, At, Excused, partialResponse)
    BY <1>4, <1>8 DEF GivenInv
  <1>10. Holds(s, Append(chat, u), q, "analysing", Excused, partialResponse)
    <2> HIDE DEF q, s, chat
    <2> QED
      BY <1>1, <1>3, <1>6, <1>7, <1>9, HoldsAsk
  <1>11. Tells(s, q, "analysing", Excused, partialResponse)
    BY DEF Tells, Kept
  <1> QED
    BY <1>10, <1>11

\* Every step keeps what the instance in use was given.
LEMMA GivenStep ==
  /\ Types /\ Alone /\ Alone' /\ ResponseInv /\ StoredInv /\ ChatOrder /\ LoadedChat
  /\ GivenInv /\ [Next]_vars
  => GivenInv'
  <1> SUFFICES ASSUME Types, Alone, Alone', ResponseInv, StoredInv, ChatOrder, LoadedChat,
                      GivenInv, [Next]_vars, ~crossed', ~mixed'
               PROVE  GivenInv'
    BY DEF GivenInv
  <1>1. /\ ~crossed /\ ~mixed /\ Separate'
        /\ loads \in Nat /\ MaxLoads \in Nat /\ hasModel \in [Chats -> BOOLEAN]
        /\ currChat \in Chats
    BY NotesStay, Typed, Bounds DEF Alone
  <1>2. CASE RunEffect
    <2>1. /\ LoadModel(currChat, hasModel[currChat]) /\ hasModel[currChat] \in BOOLEAN
          /\ UNCHANGED <<crossed, llm, messages, asked, job, partialResponse, commands>>
      BY <1>1, <1>2 DEF RunEffect
    <2>2. loads + 1 \in Loads
      BY <1>1, <1>2 DEF RunEffect, Types, Ordered, Loads
    <2> QED
      BY <1>1, <2>1, <2>2, GivenLoadStarts
  <1>3. CASE UpdateChat
    <2>1. /\ LoadModel(currChat, TRUE) /\ TRUE \in BOOLEAN
          /\ UNCHANGED <<crossed, llm, messages, asked, job, partialResponse, commands>>
      BY <1>3 DEF UpdateChat
    <2>2. loads + 1 \in Loads
      BY <1>1, <1>3 DEF UpdateChat, MayLoad, Loads
    <2> QED
      BY <1>1, <2>1, <2>2, GivenLoadStarts
  <1>4. CASE SendUserQuery
    BY <1>1, <1>4, GivenSend
  <1>5. CASE StopGeneration \/ SwitchChat
    <2>1. Stop /\ UNCHANGED <<crossed, mixed, loads, load, localOrabel, nativePtr, messages,
                              asked, partialResponse, commands>>
      BY <1>5 DEF StopGeneration, SwitchChat
    <2> QED
      BY <1>1, <2>1, GivenStop
  <1>6. CASE UNCHANGED vars
    BY <1>6, GivenSame DEF vars, history
  <1> QED
    BY <1>1, <1>2, <1>3, <1>4, <1>5, <1>6, GivenJob, GivenLoad DEF Next, Main

\* At rest, and unless coroutines overlapped, the model in use was given all questions and
\* complete answers of the chat on the screen but those of commands, in their order and once
\* each, unless a truncation dropped some.
THEOREM AllIsGiven == Spec => []TranscriptIsGiven
  <1>1. Types /\ Alone /\ ChatOrder /\ LoadedChat /\ GivenInv => TranscriptIsGiven
    <2> SUFFICES ASSUME Types, Alone, ChatOrder, LoadedChat, GivenInv, AtRest, Loaded,
                        ~crossed, ~mixed
                 PROVE  Given(Of(localOrabel))
      BY DEF TranscriptIsGiven
    <2> DEFINE s == session[loads]
               chat == messages[currChat]
    <2>1. loads \in Loads /\ load[loads].chat = currChat
      BY DEF AtRest, Loaded, LoadedChat, ShownChat
    <2>2. nativePtr[loads] # 0 /\ Of(localOrabel) = s
      <3>1. localOrabel = loads /\ Ptr(localOrabel) # 0 /\ OwnLoad
        BY DEF Loaded, Alone, Separate
      <3>2. localOrabel \in 0 .. MaxLoads
        BY Typed
      <3> QED
        BY <2>1, <3>1, <3>2, OwnPtr DEF Of
    <2>3. load[loads].at = "done"
      <3>1. load[loads].at \in {"none", "done"}
        BY <2>1 DEF AtRest, Loading
      <3>2. loads \in Nat /\ ~(loads > loads)
        BY Typed
      <3> QED
        BY <2>1, <3>1, <3>2 DEF Types, Ordered
    <2>4. Holds(s, chat, asked, At, Excused, partialResponse)
      BY <2>1, <2>2, <2>3 DEF GivenInv, InUse, Loaded
    <2>5. At \in {"none", "done"}
      BY DEF At, AtRest, Answering
    <2>6. \A m \in Excused : \A p \in m.text :
             p # 0 /\ (p \in commands \/ (m.role = "assistant" /\ Broken(p)))
      <3>1. commands \subseteq Jobs /\ \A p \in Jobs : p # 0
        BY Typed, Bounds
      <3> QED
        BY <3>1 DEF Excused, Broken, Message
    <2>7. /\ Sorted(s.messages) /\ Range(s.messages) \subseteq Range(chat)
          /\ ~s.cut => \A m \in Range(chat) :
                m \in Range(s.messages) \/ m \in Excused
      BY <2>4, <2>5 DEF Holds, Asking, Kept
    <2>8. Sorted(chat)
          /\ DOMAIN chat \subseteq Int
      <3>1. currChat \in Chats /\ chat \in Seq(Messages)
        BY Typed
      <3> QED
        BY <3>1 DEF ChatOrder
    <2>9. \A m \in Range(chat) : PlaceOf(m) \in DOMAIN chat /\ chat[PlaceOf(m)] = m
      BY DEF PlaceOf, Range
    <2>10. ASSUME NEW m \in Range(chat), NEW n \in Range(chat), Follows(m, n)
           PROVE  PlaceOf(m) < PlaceOf(n)
      <3>1. ~Follows(n, m) /\ m # n
        BY <2>10, FollowsOneWay
      <3>2. /\ chat[PlaceOf(m)] = m /\ chat[PlaceOf(n)] = n
            /\ PlaceOf(m) \in DOMAIN chat /\ PlaceOf(n) \in DOMAIN chat
        BY <2>9
      <3>3. PlaceOf(n) < PlaceOf(m) => Follows(n, m)
        BY <2>8, <3>2 DEF Sorted
      <3> QED
        BY <2>8, <3>1, <3>2, <3>3
    <2>11. \A i, j \in DOMAIN s.messages :
              i < j => PlaceOf(s.messages[i]) < PlaceOf(s.messages[j])
      <3> SUFFICES ASSUME NEW i \in DOMAIN s.messages, NEW j \in DOMAIN s.messages, i < j
                   PROVE  PlaceOf(s.messages[i]) < PlaceOf(s.messages[j])
        OBVIOUS
      <3>1. Follows(s.messages[i], s.messages[j])
        BY <2>7 DEF Sorted
      <3>2. s.messages[i] \in Range(chat) /\ s.messages[j] \in Range(chat)
        BY <2>7 DEF Range
      <3> QED
        BY <2>10, <3>1, <3>2
    <2>12. ASSUME ~s.cut, NEW i \in DOMAIN chat
           PROVE  \/ chat[i] \in Range(s.messages)
                  \/ \A p \in chat[i].text :
                       p # 0 /\ (p \in commands \/ (chat[i].role = "assistant" /\ Broken(p)))
      <3>1. chat[i] \in Range(chat)
        BY DEF Range
      <3> QED
        BY <2>6, <2>7, <2>12, <3>1
    <2> QED
      BY <2>2, <2>7, <2>11, <2>12 DEF Given
  <1>2. Spec => []ChatOrder
    BY TypesInvariant, AloneInvariant, StoredInit, StoredStep, ChatOrderInit, ChatOrderStep,
      PTL DEF Spec, Alone
  <1>3. Spec => []LoadedChat
    BY TypesInvariant, LoadedChatInit, LoadedChatStep, PTL DEF Spec
  <1>4. Spec => []GivenInv
    BY <1>2, <1>3, TypesInvariant, AloneInvariant, ResponseInit, ResponseStep, StoredInit,
      StoredStep, GivenInit, GivenStep, PTL DEF Spec, Alone
  <1> QED
    BY <1>1, <1>2, <1>3, <1>4, TypesInvariant, AloneInvariant, PTL
=============================================================================
