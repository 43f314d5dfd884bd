--------------------------- MODULE ChatGeneration ---------------------------
(***************************************************************************)
(* The assistant chat with a local model: the view model's answer          *)
(* coroutines and load coroutines (ChatScreenViewModel.kt), the one shared *)
(* LLMManager, the Orabel objects it makes and their native instances      *)
(* (LlmSession).  A question is its number, a text the set of questions    *)
(* whose words it holds, 0 for words written before.                       *)
(***************************************************************************)
EXTENDS LlmSession, FiniteSets, Functions

CONSTANTS
  Chats,     \* the chats, all present from the start
  First,     \* the chat opened first
  MaxAsked,  \* bound: questions sent
  MaxLoads,  \* bound: load coroutines started
  MaxStarted \* bound: questions and loads together

ASSUME BoundsAssumption ==
  /\ First \in Chats
  /\ MaxAsked \in Nat /\ MaxLoads \in Nat \ {0} /\ MaxStarted \in Nat

Jobs  == 1 .. MaxAsked
Loads == 1 .. MaxLoads

VARIABLES
  currChat,      \* currChatState
  effect,        \* LaunchedEffect(currChat) runs at the next frame
  hasModel,      \* per chat, llmModelId # -1
  isGeneratingResponse, isInitializingModel, partialResponse,
  messages,      \* the messages box: per chat its messages
  asked, loads,  \* how many jobs and loads were started
  job,           \* per question, its coroutine
  load,          \* per load, its coroutine
  localOrabel,   \* LLMManager: the Orabel object in use, by its load, or 0
  nativePtr,     \* per Orabel object its native instance, or 0
  session,       \* the native instances; none is ever freed
  crossed,       \* history: a question was sent before the last answer ended
  mixed,         \* history: a load ran beside another load or an answer
  early,         \* history: an answer was stopped before its prompt was made, or
                 \* needed none, when the model had not read its transcript yet
  commands       \* history: the questions that were commands

ui == <<currChat, effect, hasModel, isGeneratingResponse, isInitializingModel>>
llm == <<localOrabel, nativePtr, session>>
history == <<crossed, mixed, early, commands>>
vars == <<ui, partialResponse, messages, asked, loads, job, load, llm, history>>

Before == {0}  \* the text of messages from earlier sessions

Init ==
  /\ currChat = First
  /\ effect = TRUE
  /\ \E some \in BOOLEAN : hasModel = [c \in Chats |-> some /\ c = First]
  /\ isGeneratingResponse = FALSE /\ isInitializingModel = FALSE
  /\ partialResponse = {}
  /\ messages = [c \in Chats |->
       IF hasModel[c] THEN <<Message("user", Before), Message("assistant", Before)>>
       ELSE <<>>]
  /\ asked = 0 /\ loads = 0
  /\ job = [q \in Jobs |-> [at |-> "none", chat |-> First, object |-> 0,
                            cancelled |-> FALSE, erred |-> FALSE]]
  /\ load = [l \in Loads |-> [at |-> "none", chat |-> First, object |-> 0,
                              todo |-> <<>>]]
  /\ localOrabel = 0
  /\ nativePtr = [l \in Loads |-> 0]
  /\ session = [l \in Loads |-> NewSession]
  /\ crossed = FALSE /\ mixed = FALSE /\ early = FALSE /\ commands = {}

MayAsk == asked < MaxAsked /\ asked + loads < MaxStarted
MayLoad(n) == loads + n <= MaxLoads /\ asked + loads + n <= MaxStarted

Answering == \E q \in Jobs : job[q].at \notin {"none", "done"}
Loading   == \E l \in Loads : load[l].at \notin {"none", "done"}

\* The native instance behind an Orabel object, changed by one of its calls.
Ptr(o) == IF o = 0 THEN 0 ELSE nativePtr[o]
Apply(o, changed) ==
  session' = IF Ptr(o) = 0 THEN session
             ELSE [session EXCEPT ![Ptr(o)] = changed]
Of(o) == session[Ptr(o)]
Unread(s) == s.given < Len(s.messages)
-----------------------------------------------------------------------------
(* The main thread.  The frame after a change of the chat comes before the *)
(* next input.                                                             *)

\* loadModel: only a chat with a model starts a coroutine.
LoadModel(chat, has) ==
  IF ~has THEN UNCHANGED <<isInitializingModel, loads, load, mixed>>
  ELSE /\ isInitializingModel' = TRUE
       /\ loads' = loads + 1
       /\ load' = [load EXCEPT ![loads + 1] =
                     [at |-> "check", chat |-> chat, object |-> 0, todo |-> <<>>]]
       /\ mixed' = (mixed \/ Loading \/ Answering)

RunEffect ==
  /\ effect
  /\ effect' = FALSE
  /\ LoadModel(currChat, hasModel[currChat])
  /\ UNCHANGED <<currChat, hasModel, isGeneratingResponse, partialResponse,
                 messages, asked, job, llm, crossed, early, commands>>

SendUserQuery ==
  /\ ~effect
  /\ hasModel[currChat]
  /\ ~isGeneratingResponse /\ ~isInitializingModel
  /\ MayAsk
  /\ messages' = [messages EXCEPT ![currChat] =
                    Append(@, Message("user", {asked + 1}))]
  /\ isGeneratingResponse' = TRUE
  /\ asked' = asked + 1
  /\ job' = [job EXCEPT ![asked + 1].at = "analysing", ![asked + 1].chat = currChat]
  /\ crossed' = (crossed \/ Answering)
  /\ mixed' = (mixed \/ Loading)
  /\ UNCHANGED <<currChat, effect, hasModel, isInitializingModel, partialResponse,
                 loads, load, llm, early, commands>>

\* stopGeneration cancels the last coroutine if it is active, and the
\* completion of the Orabel object in use.
Active == /\ asked > 0
          /\ job[asked].at # "done"
          /\ ~job[asked].cancelled

\* History: no prompt was made yet, and there are messages the model has not read.
NotRead == Ptr(localOrabel) # 0 /\ Unread(Of(localOrabel))
StoppedEarly ==
  job[asked].at \in {"analysing", "asking", "starting", "prompting"} /\ NotRead

Stop ==
  /\ isGeneratingResponse' = FALSE
  /\ IF Active
     THEN /\ job' = [job EXCEPT ![asked].cancelled = TRUE]
          /\ Apply(localOrabel, CancelCompletion(Of(localOrabel)))
          /\ early' = (early \/ StoppedEarly)
     ELSE UNCHANGED <<job, session, early>>

StopGeneration ==
  /\ ~effect
  /\ isGeneratingResponse
  /\ Stop
  /\ UNCHANGED <<currChat, effect, hasModel, isInitializingModel, partialResponse,
                 messages, asked, loads, load, localOrabel, nativePtr, crossed, mixed,
                 commands>>

SwitchChat ==
  /\ ~effect
  /\ MayLoad(1)
  /\ Stop
  /\ currChat' \in Chats
  /\ effect' = (currChat' # currChat)
  /\ UNCHANGED <<hasModel, isInitializingModel, partialResponse, messages, asked,
                 loads, load, localOrabel, nativePtr, crossed, mixed, commands>>

\* A model is chosen, or the settings are saved: updateChatLLM or updateChat
\* changes currChatState, loadModel is called, and the effect calls it again.
UpdateChat ==
  /\ ~effect
  /\ MayLoad(2)
  /\ hasModel' = [hasModel EXCEPT ![currChat] = TRUE]
  /\ effect' \in (IF hasModel[currChat] THEN BOOLEAN ELSE {TRUE})
  /\ LoadModel(currChat, TRUE)
  /\ UNCHANGED <<currChat, isGeneratingResponse, partialResponse, messages, asked,
                 job, llm, crossed, early, commands>>

Main == RunEffect \/ SendUserQuery \/ StopGeneration \/ SwitchChat \/ UpdateChat
-----------------------------------------------------------------------------
(* The coroutine of one answer.                                            *)

JobAt(q, from, to) ==
  /\ job[q].at = from
  /\ job' = [job EXCEPT ![q].at = to]

Steady == <<ui, asked, loads, load, history>>

\* analyzeAndSaveIfRelevant ends, also when cancelled: its exceptions are caught.
EndAnalysis(q) ==
  /\ JobAt(q, "analysing", "asking")
  /\ partialResponse' = {}
  /\ UNCHANGED <<Steady, messages, llm>>

\* LLMManager.getResponse takes the Orabel object there is; without one it
\* emits an error and ends.
Ask(q) ==
  /\ job[q].at = "asking"
  /\ job' = [job EXCEPT ![q].at = IF localOrabel = 0 THEN "emitting" ELSE "starting",
                        ![q].object = localOrabel]
  /\ UNCHANGED <<Steady, partialResponse, messages, llm>>

\* A command that shows something: getResponse emits what it shows and ends, and no
\* completion is started.
Command(q) ==
  /\ JobAt(q, "asking", "answering")
  /\ commands' = commands \union {q}
  /\ early' = (early \/ NotRead)
  /\ UNCHANGED <<ui, asked, loads, load, crossed, mixed, partialResponse, messages, llm>>

EmitResult(q) ==
  /\ JobAt(q, "answering", IF job[q].cancelled THEN "caught" ELSE "stopped")
  /\ partialResponse' = IF job[q].cancelled THEN partialResponse
                        ELSE partialResponse \union {q}
  /\ UNCHANGED <<Steady, messages, llm>>

\* start_completion makes the prompt of what prev_len leaves, which cancelCompletion
\* on the main thread may have changed since the question was added.
Start(q) ==
  /\ JobAt(q, "starting", "prompting")
  /\ \E long \in BOOLEAN :
       Apply(job[q].object, StartCompletion(Of(job[q].object), {q}, long))
  /\ UNCHANGED <<Steady, partialResponse, messages, localOrabel, nativePtr>>

Prompt(q) ==
  /\ JobAt(q, "prompting", "decoding")
  /\ Apply(job[q].object, Batched(Of(job[q].object)))
  /\ UNCHANGED <<Steady, partialResponse, messages, localOrabel, nativePtr>>

\* completionLoop returns an error piece, always without an instance, or it
\* decodes; it takes any result that is not negative for success.
DecodeFails(q) ==
  /\ job[q].at = "decoding"
  /\ job' = [job EXCEPT ![q].at = "emitting", ![q].erred = TRUE]
  /\ UNCHANGED <<Steady, partialResponse, messages, llm>>

\* A faulty variant of Decodes: a cancelled coroutine does not decode.
DecodesUnlessCancelled(q) ==
  /\ Ptr(job[q].object) # 0
  /\ JobAt(q, "decoding", IF job[q].cancelled THEN "caught" ELSE "sampling")
  /\ IF job[q].cancelled THEN UNCHANGED session
     ELSE Apply(job[q].object, Decode(Of(job[q].object), TRUE))
  /\ UNCHANGED <<Steady, partialResponse, messages, localOrabel, nativePtr>>

\* The batch is not held when the context has no room for it (a positive result), or
\* when other tokens are decoded: start_completion leaves the batch pointing into a
\* vector that is gone.
Decodes(q) ==
  /\ Ptr(job[q].object) # 0
  /\ job[q].at = "decoding"
  /\ \E held \in BOOLEAN :
       /\ job' = [job EXCEPT ![q].at = "sampling", ![q].erred = @ \/ ~held]
       /\ Apply(job[q].object, Decode(Of(job[q].object), held))
  /\ UNCHANGED <<Steady, partialResponse, messages, localOrabel, nativePtr>>

Piece(q) ==
  /\ JobAt(q, "sampling", "emitting")
  /\ Apply(job[q].object, Sample(Of(job[q].object), {q}))
  /\ UNCHANGED <<Steady, partialResponse, messages, localOrabel, nativePtr>>

EndOfGeneration(q) ==
  /\ JobAt(q, "sampling", "stopping")
  /\ UNCHANGED <<Steady, partialResponse, messages, llm>>

\* A faulty variant of Emit: cancellation is not noticed.
EmitAlways(q) ==
  /\ JobAt(q, "emitting", IF job[q].object = 0 THEN "stopped" ELSE "decoding")
  /\ partialResponse' = partialResponse \union {q}
  /\ UNCHANGED <<Steady, messages, llm>>

\* emit throws in a cancelled coroutine; an error piece does not end the loop.
Emit(q) ==
  /\ job[q].at = "emitting"
  /\ IF job[q].cancelled
     THEN job' = [job EXCEPT ![q].at = "caught"] /\ UNCHANGED partialResponse
     ELSE /\ partialResponse' = partialResponse \union {q}
          /\ job' = [job EXCEPT ![q].at =
                       IF job[q].object = 0 THEN "stopped" ELSE "decoding"]
  /\ UNCHANGED <<Steady, messages, llm>>

\* stopCompletion of the job's own object, then of the object in use.
StopOwn(q) ==
  /\ JobAt(q, "stopping", "stopped")
  /\ Apply(job[q].object, StopCompletion(Of(job[q].object)))
  /\ UNCHANGED <<Steady, partialResponse, messages, localOrabel, nativePtr>>

StopShared(q) ==
  /\ JobAt(q, "stopped", "saving")
  /\ Apply(localOrabel, StopCompletion(Of(localOrabel)))
  /\ UNCHANGED <<Steady, partialResponse, messages, localOrabel, nativePtr>>

CancelShared(q) ==
  /\ JobAt(q, "caught", "saving")
  /\ Apply(localOrabel, CancelCompletion(Of(localOrabel)))
  /\ UNCHANGED <<Steady, partialResponse, messages, localOrabel, nativePtr>>

\* A faulty variant of Save: the answer goes to the chat that is open now.
SaveInOpenChat(q) ==
  /\ JobAt(q, "saving", "ending")
  /\ messages' = IF partialResponse = {} THEN messages
                 ELSE [messages EXCEPT ![currChat] =
                         Append(@, Message("assistant", partialResponse))]
  /\ UNCHANGED <<Steady, partialResponse, llm>>

\* The finally block: what there is of the answer is stored.
Save(q) ==
  /\ JobAt(q, "saving", "ending")
  /\ messages' = IF partialResponse = {} THEN messages
                 ELSE [messages EXCEPT ![job[q].chat] =
                         Append(@, Message("assistant", partialResponse))]
  /\ UNCHANGED <<Steady, partialResponse, llm>>

\* A faulty variant of EndJob: the flag is reset in a cancelled coroutine too.
EndAlwaysResets(q) ==
  /\ job[q].at = "ending"
  /\ job' = [job EXCEPT ![q].at = "done", ![q].object = 0]
  /\ isGeneratingResponse' = FALSE
  /\ UNCHANGED <<currChat, effect, hasModel, isInitializingModel, asked, loads, load,
                 history, partialResponse, messages, llm>>

\* withContext throws in a cancelled coroutine.
EndJob(q) ==
  /\ job[q].at = "ending"
  /\ job' = [job EXCEPT ![q].at = "done", ![q].object = 0]
  /\ isGeneratingResponse' = (isGeneratingResponse /\ job[q].cancelled)
  /\ UNCHANGED <<currChat, effect, hasModel, isInitializingModel, asked, loads, load,
                 history, partialResponse, messages, llm>>

Job(q) ==
  \/ EndAnalysis(q) \/ Ask(q) \/ Command(q) \/ EmitResult(q) \/ Start(q) \/ Prompt(q)
  \/ DecodeFails(q) \/ Decodes(q) \/ Piece(q) \/ EndOfGeneration(q) \/ Emit(q)
  \/ StopOwn(q) \/ StopShared(q) \/ CancelShared(q) \/ Save(q) \/ EndJob(q)
-----------------------------------------------------------------------------
(* The coroutine of one load.                                              *)

LoadAt(l, from, to) ==
  /\ load[l].at = from
  /\ load' = [load EXCEPT ![l].at = to]

Rest == <<currChat, effect, hasModel, isGeneratingResponse, partialResponse,
          messages, asked, loads, job, history>>

\* The file is missing, or the load did not succeed.
Fail(l, from) ==
  /\ LoadAt(l, from, "done")
  /\ isInitializingModel' = FALSE
  /\ UNCHANGED <<Rest, llm>>

\* LLMManager.loadModel: close of the old object has no native counterpart and
\* throws, which is caught; the instance stays.
Close(l) ==
  /\ LoadAt(l, "check", "new")
  /\ localOrabel' = 0
  /\ UNCHANGED <<Rest, isInitializingModel, nativePtr, session>>

New(l) ==
  /\ LoadAt(l, "new", "create")
  /\ localOrabel' = l
  /\ UNCHANGED <<Rest, isInitializingModel, nativePtr, session>>

Create(l) ==
  /\ localOrabel # 0
  /\ load[l].at = "create"
  /\ load' = [load EXCEPT ![l].at = "loading", ![l].object = localOrabel]
  /\ UNCHANGED <<Rest, isInitializingModel, llm>>

\* The native load_model may fail, which create does not notice.
Created(l) ==
  /\ load[l].at = "loading"
  /\ load' = [load EXCEPT ![l].at = "reading", ![l].object = 0]
  /\ \E instance \in {0, l} : nativePtr' = [nativePtr EXCEPT ![load[l].object] = instance]
  /\ UNCHANGED <<Rest, isInitializingModel, localOrabel, session>>

ReadHistory(l) ==
  /\ load[l].at = "reading"
  /\ load' = [load EXCEPT ![l].at = "adding", ![l].todo = messages[load[l].chat]]
  /\ UNCHANGED <<Rest, isInitializingModel, llm>>

AddHistory(l) ==
  /\ load[l].at = "adding"
  /\ load[l].todo # <<>>
  /\ LET m == Head(load[l].todo)
     IN  Apply(localOrabel, AddMessage(Of(localOrabel), m.role, m.text))
  /\ load' = [load EXCEPT ![l].todo = Tail(@)]
  /\ UNCHANGED <<Rest, isInitializingModel, localOrabel, nativePtr>>

Ready(l) ==
  /\ load[l].todo = <<>>
  /\ LoadAt(l, "adding", "done")
  /\ isInitializingModel' = FALSE
  /\ UNCHANGED <<Rest, llm>>

Load(l) ==
  \/ Fail(l, "check")
  \/ Fail(l, "create") /\ localOrabel = 0
  \/ Close(l) \/ New(l) \/ Create(l) \/ Created(l)
  \/ ReadHistory(l) \/ AddHistory(l) \/ Ready(l)

Next ==
  \/ Main
  \/ \E q \in Jobs : Job(q)
  \/ \E l \in Loads : Load(l)

Spec == Init /\ [][Next]_vars

\* An answer's coroutine goes on: native calls and the analysis return.
FairSpec == Spec /\ \A q \in Jobs : WF_vars(Job(q))
-----------------------------------------------------------------------------
(* Properties.                                                             *)

JobSteps == {"none", "analysing", "asking", "answering", "starting", "prompting",
             "decoding", "sampling", "emitting", "stopping", "stopped", "caught",
             "saving", "ending", "done"}
LoadSteps == {"none", "check", "new", "create", "loading", "reading", "adding", "done"}
Messages == [role : {"user", "assistant"}, text : SUBSET (0 .. MaxAsked)]

TypeOK ==
  /\ currChat \in Chats /\ hasModel \in [Chats -> BOOLEAN]
  /\ {effect, isGeneratingResponse, isInitializingModel, crossed, mixed, early}
       \subseteq BOOLEAN
  /\ partialResponse \subseteq Jobs /\ commands \subseteq Jobs
  /\ messages \in [Chats -> Seq(Messages)]
  /\ asked \in 0 .. MaxAsked /\ loads \in 0 .. MaxLoads
  /\ job \in [Jobs -> [at : JobSteps, chat : Chats, object : 0 .. MaxLoads,
                       cancelled : BOOLEAN, erred : BOOLEAN]]
  /\ load \in [Loads -> [at : LoadSteps, chat : Chats, object : 0 .. MaxLoads,
                         todo : Seq(Messages)]]
  /\ localOrabel \in 0 .. MaxLoads /\ nativePtr \in [Loads -> 0 .. MaxLoads]
  /\ session \in [Loads -> [messages : Seq(Messages), prev : Nat, from : Nat, upto : Nat,
                            given : Nat, response : SUBSET Jobs, cut : BOOLEAN]]
  /\ \A l \in Loads : /\ session[l].prev <= Len(session[l].messages)
                      /\ session[l].from <= session[l].upto
                      /\ session[l].upto <= Len(session[l].messages)
                      /\ session[l].given <= Len(session[l].messages)

\* The answers stored for question q, in any chat.
Stored(c, q) == {i \in DOMAIN messages[c] :
                   messages[c][i].role = "assistant" /\ q \in messages[c][i].text}

\* Unless a question was sent while a stopped answer was still ending, an
\* answer that showed any words is stored in the end, cut short or not, once,
\* in the chat of its question and without words of another answer.
AnswerIsStored ==
  ~crossed => \A q \in Jobs :
    /\ job[q].at = "ending" /\ q \in partialResponse =>
         Cardinality(Stored(job[q].chat, q)) = 1
    /\ \A c \in Chats : \A i \in Stored(c, q) :
         c = job[q].chat /\ messages[c][i].text = {q}

\* An answer that is being made can be stopped: its flag is on.
CanBeStopped ==
  \A q \in Jobs :
    job[q].at \notin {"none", "done"} /\ ~job[q].cancelled =>
      isGeneratingResponse /\ q = asked

\* Nothing is going on and the chat has the model of the last load.
AtRest == ~effect /\ ~Answering /\ ~Loading
Loaded == hasModel[currChat] /\ localOrabel = loads /\ Ptr(localOrabel) # 0

\* The place of a message of the model's transcript in the chat.
PlaceOf(m) == CHOOSE i \in DOMAIN messages[currChat] : messages[currChat][i] = m

\* An answer that was stopped, or that the model did not make alone.
Broken(q) == job[q].cancelled \/ job[q].erred

\* The model in use was given the messages of the current chat: all questions and
\* complete answers but those of commands, unless a truncation dropped some, in
\* their order and once each.
Given(s) ==
  /\ Range(s.messages) \subseteq Range(messages[currChat])
  /\ \A i, j \in DOMAIN s.messages :
       i < j => PlaceOf(s.messages[i]) < PlaceOf(s.messages[j])
  /\ ~s.cut => \A i \in DOMAIN messages[currChat] :
       LET m == messages[currChat][i]
       IN  \/ m \in Range(s.messages)
           \/ \A q \in m.text :
                q # 0 /\ (q \in commands \/ (m.role = "assistant" /\ Broken(q)))

TranscriptIsGiven ==
  AtRest /\ Loaded /\ ~crossed /\ ~mixed => Given(Of(localOrabel))
HistoryIsGiven == AtRest /\ Loaded => Given(Of(localOrabel))

\* Without errors the model has read every message that is not to be sent
\* again: what a prompt leaves out because of prev_len, the context holds.  The
\* exception is an answer stopped before its prompt was made, or a command:
\* cancel_completion and stop_completion take the history that was loaded, and never
\* read, for sent.
NothingSkipped ==
  AtRest /\ ~crossed /\ ~mixed /\ ~early /\ (\A q \in Jobs : ~job[q].erred) =>
    \A l \in Loads : session[l].prev <= session[l].given

\* A completion begins with no words left of the one before.
CleanStart ==
  ~crossed /\ ~mixed => \A q \in Jobs :
    job[q].at = "starting" /\ Ptr(job[q].object) # 0 => Of(job[q].object).response = {}

\* A stopped answer ends, although its pieces may be errors without end.
Stopping == \E q \in Jobs : job[q].cancelled /\ job[q].at # "done"
StoppedEnds == Stopping ~> ~Stopping
=============================================================================
