# Lyrion for Android: a TLA+ verification project

Lyrion (`io.orabel.orabelandroid`) is an Android application with two halves: a
local assistant (a language model run by llama.cpp on the device, speech to text
by Whisper) and a small social network on a Supabase server (direct messages,
presence, friend requests, posts). The device part is Kotlin with coroutines, the
server part is SQL and the REST and realtime interfaces of Supabase; the language
model runs in C and C++ below a JNI wrapper.

This directory holds TLA+ modules that model the program's own protocols,
configurations that check them with TLC, and proofs checked by TLAPS.
`PROJECT.json` maps every definition to the lines it models, lists the runs, the
mutated definitions that show each property can fail, and the hazards with the
properties that cover them. In this file `SR` is
`app/src/main/java/io/orabel/orabelandroid/data/social/SocialRepository.kt`,
`DC` is `ui/screens/search/DirectChatScreen.kt` and `UAM` is
`utils/UserActivityManager.kt`, below the same package.

| Module | What it is |
| --- | --- |
| `DirectMessages` | one conversation: two devices, the server, the realtime channels |
| `Mailbox` | what a conversation promises, without devices or requests |
| `MailboxRefinement` | the mapping from the first to the second |
| `MCDirectMessages`, `DM*.cfg` | instances of them for TLC |
| `DirectMessages_proofs` | types and calls in flight |
| `DirectMessagesSafety_proofs` | the safety invariants |
| `MailboxRefinement_proofs` | `DirectMessages` implements `Mailbox` |
| `Presence` | the coroutines of `UserActivityManager` and the user's row |
| `MCPresence`, `Presence*.cfg` | instances of it for TLC |
| `Presence_proofs` | its types and safety invariants |
| `LlmSession` | the native side of a chat: `LLMInference` as a value with its calls |
| `ChatGeneration` | the coroutines of the assistant chat around one shared session |
| `MCChatGeneration`, `ChatGeneration.cfg`, `ChatHistory.cfg` | instances of it |
| `ChatGeneration_proofs` | its types and safety invariants |
| `Threadpool` | the thread pool that computes a graph of the model on the CPU |
| `GraphComputation` | what `ggml_graph_compute` promises, without threads |
| `MCThreadpool`, `Threadpool.cfg` | an instance of it |
| `Threadpool_proofs` | its safety invariants, and that it implements `GraphComputation` |
| `FriendRequests` | the calls and the two tables of friend requests and friendships |
| `MCFriendRequests`, `FriendRequests.cfg` | an instance of it |
| `FriendRequests_proofs` | its types and what its actions do to the calls |
| `FriendRequestsSafety_proofs` | its safety invariants |

## 1. Inventory

### The parts, their state and their operations

**Direct messages** (`SR` 1444-1642, 1910-2033, 3506-3586, 3657-3719, 4198-4319;
`DC`; `setup_realtime_messages_ephemeral.sql`). State: the table
`direct_messages`; on each device the ObjectBox of `LocalMessageEntity`, the map
`pendingStatusUpdates`, and while the chat screen is composed the list of
messages. Operations: `fetchMessages` with `markMessageAsReadAndSave`,
`sendMessage`, two realtime flows, `markMessageAsDelivered`, `markMessageAsRead`,
`updateLocalMessageStatus`, the purge of rows older than two days on INSERT.
Hard: every request can fail or lose its answer, the process can die between the
local save, the PATCH and the DELETE, two requests for one message run at once,
events are lost while the channel is not joined. Correct when no message is lost
before it was seen, own messages stay, ticks tell the truth, and read rows leave
the server.

**Presence and chat status** (`UAM`; `SR` 3724-3762, 3901-3937, 4110-4193;
`fix_realtime_status_FINAL.sql`). State: the row of `users` (`is_active`,
`status`, `chat_status`, `current_chat_partner_id`, `last_heartbeat`);
`isInitialized`, the coroutine scope, `heartbeatJob`. Operations: `initialize`,
`onAppStart`, `onAppStop`, `cleanup`, `setManualStatus`, `enterDirectChat`,
`exitDirectChat`, the heartbeat; on the server `update_heartbeat` and
`cleanup_inactive_users`. Hard: each operation launches a coroutine, and their
requests reach the server in any order; the scope is cancelled and revived.
Correct when there is one heartbeat while the app is used and none afterwards,
and when a wrong row does not stay.

**Friend requests** (`SR` 1103-1345; `setup_accept_friend_request_rpc.sql`). State:
`friend_requests`, `friends` (one row per direction). Operations: send (check,
then insert), accept (one transaction on the server), reject, cancel, remove (two
DELETEs). Hard: check and insert are two requests; cancel and accept race; the
first DELETE of a removal may fail alone; two acceptances insert the same rows.
Correct when friendship is symmetric, nobody becomes a friend through a request
that was withdrawn, and every operation ends.

**Chat generation** (`ui/screens/chat/ChatScreenViewModel.kt`, here `VM`;
`llm/LLMManager.kt`, `data/MessagesDB.kt`; the wrapper `orabel/` with `Orabel.kt`,
`orabel.cpp` and `llm_inference.cpp`). State: the current chat, two flags of the
screen, `partialResponse`, the answer and load coroutines, the `Orabel` object in
use and its native instance with transcript, `prev_len` and response, the stored
messages. Operations: send a query, stop, switch chat, change its model or
settings, load a model. Hard: a cancelled coroutine still runs its `finally` while
the next one starts; the main thread cancels a completion while another thread is
in the middle of it; loads overlap and share one object; a native failure looks
like success. Correct when an answer is stored once, in its own chat, and the
model has been given the chat's messages.

**Graph computation** (`llama.cpp/ggml/src/ggml-cpu/ggml-cpu.c`, lines 435-560,
1264-1390, 2555-3150). State: `struct ggml_threadpool` with its atomic counters and
flags, the state of each worker, the locals of each thread. Operations:
`ggml_threadpool_new`, `_free`, `_pause`, `_resume`, `ggml_graph_compute`; on the
workers polling, sleeping and computing. Hard: all of it is lock-free or on a
condition variable. Correct when nodes are computed in order and chunks once, no
worker touches a graph that is not running, and every call returns.

**Whisper recording and transcription** (`whisper/WhisperRecorder.kt`,
`RecordBuffer.kt`, `WhisperSttRepository.kt`, `WhisperEngine.kt`). State: the
recording job and flag, the shared buffer, `_isProcessing`. Operations: start,
stop, complete, cancel, transcribe. Hard: `onRecordingComplete` runs before the
buffer is set; the flag of an old recording is reset under a new one. Correct when
a transcription reads the recording it belongs to and a cancelled one is dropped.

**The rest** is listed in `PROJECT.json` with the reason it is left out: wrappers
of platform or vendored engines (speech, text to speech, translation, llama.cpp),
single REST requests without state on the device (posts, comments, stories,
groups, calendar), websockets of external services (Gemini), sequential file I/O
(downloads, health diary, reports), layout, and the separate iOS application.

### How they interact

The chat screen of two users is where three parts meet: its effects call the
message operations, `enterDirectChat` runs after the first `fetchMessages` (`DC`
70-77) and `exitDirectChat` when the screen is left (`DC` 195). Both parts share only
the server and the main thread, and neither reads the state of the other; so they
are two modules. Devices interact through the rows and the realtime events of
`direct_messages` only; friend requests share no table with either.

The assistant is a tower: the view model's coroutines call `LLMManager`, it calls
`Orabel`, `Orabel` calls `LLMInference` by JNI, and `llama_decode` computes one graph
after the other with `ggml_graph_compute`. `ChatGeneration` EXTENDS `LlmSession` and
composes the upper four; it takes one decoding for one step, which is what
`Threadpool` shows of the lowest: seen from its caller a graph is computed in order
and the call returns (`ImplementsComputation`, `CallsReturn`).

## 2. Plan

1. `DirectMessages` with `Mailbox` - the core: done, proofs included.
2. `Presence`, `Threadpool` with `GraphComputation`, `ChatGeneration` with
   `LlmSession`, `FriendRequests` - done; model-checked.
3. Proofs - done for every safety invariant and both refinements of the passing
   runs (section 8). `Threadpool` with `Varying = TRUE` has no theorem: the
   statement is false there.
4. `WhisperRecording` - recorder threads, shared buffer and processing flag.

## 3. DirectMessages

### State and actions

`server` is the table (`Absent` when there is no row), `ins` and `upd` are the
events on their way to each device, `box` the ObjectBox entities of each message
in the order of their ids (two fetches may store the same message twice, and the
code then uses the first), `pend` is `pendingStatusUpdates`, `list` the copies on
screen, `sized` and `todo` the state of effect 6, `fetch`, `send` and `calls` the
repository calls in progress with the request each makes next, `held` a lookup of
`updateLocalMessageStatus` that found nothing and has not acted on it. `shown`,
`issued` and `purged` are history.

| Code | Actions |
| --- | --- |
| effect 1, `fetchMessages` | `OpenChat`, `FetchGet`, `FetchGetFails`, `FetchRow`, `FetchReturn` |
| `markMessageAsReadAndSave` | `StoreReceived` in `FetchRow`, `FetchPatchRead`, `FetchDelete` |
| `sendMessage` | `SendPost`, `SendSave`, `SendTakePending`, `SendApplyPending`, `SendReturn` |
| effect 2 | `Subscribe`, `ReceiveInsert` |
| effect 5 | `Subscribe`, `ReceiveStatus`, `KeepPending` |
| effect 6, `markMessageAsRead` | `MarkVisible`, `MarkReadLocally`, `CallPatch`, `CallDelete` |
| `markMessageAsDelivered` | launched by `ReceiveInsert`; `CallPatch`, `CallNoteDelivered` |
| leaving the screen | `CloseChat` |
| purge in SQL | `Purge` |
| faults | `Crash`, `Disconnect`, and a disjunct of each request |

An action is what runs between two points where another thread, the server or a
failure can come in: an HTTP request is one step at the server, followed by a step
that uses its answer. A request fails before it reaches the server, or after: then
the row has changed and the caller believes it has not. Both count as a fault.

### Abstractions

- One `fetchMessages` and one `sendMessage` are in progress per device, which is a
  bound. A screen left during a fetch is not opened again before that fetch has
  ended, so that two fetches of one device never run at once. `isSending` keeps a
  screen to one send, but it is a new state when the screen is opened again, and the
  send of the screen before may still run; the model waits for it.
- Rows of a fetch are processed in any order, and so are the messages effect 6 has
  collected; the code uses the order of `created_at`. Any order contains that one.
- The two channels of the screen join together. Each has a queue of its own.
- `ReceiveStatus` updates the list and begins the launched
  `updateLocalMessageStatus` at once: both are on the main thread, and nothing in
  between touches the entity of an own message.
- A purge may come at any time and take any rows: an INSERT of any conversation
  runs it, and which rows are two days old is left open.
- A message keeps no content. Replies, images and the typing indicator do not
  change any of the steps above.
- Leaving the screen does not interrupt a request that has begun: `HttpURLConnection`
  calls on `Dispatchers.IO` have no suspension point; their result is dropped.
- `MCDirectMessages!View` folds states together that differ in what no step reads:
  the pending status of a received message, and sent against delivered on the
  receiver's own device.

### Properties

- `NoUnseenLoss`: a row leaves the server, except by the purge, only when the
  receiver has stored or seen the message.
- `OwnMessagesKept`: what the sender sees of an own message is in its store.
- `TicksHonest`: a delivered or read tick means that the receiver has the message.
- `ReadRowsGo`: as long as nothing failed, a row marked as read has somebody who
  is about to delete it, even if the screen was left in between.
- `FetchedIsConsumed`: a row a fetch has got leaves the server in the end, whoever
  else marks it meanwhile.
- `ListedIsConsumed`: so does a message that stays listed and that effect 6 has
  started on, although every other message restarts effect 6 and drops its loop.
  "Has started on" is a condition because `LaunchedEffect(messages.size)`
  (`DirectChatScreen.kt` 180) sees the size only: a message may come by realtime, be
  marked, and go when an older, empty result of `fetchMessages` replaces the list;
  comes the next message before the recomposition, the size is what it was, and
  effect 6 does not start on it. It stays on the server until the size changes
  again. Without the condition TLC finds this in `dm_live`.
- `ImplementsMailbox`: the whole is the abstract `Mailbox` under the mapping of
  `MailboxRefinement`: `phase` from `issued` and `server`, `got` from the
  receivers' stores and `shown`, `ticked` from the senders' lists and stores.
  Beyond the invariants it says that a row never comes back, that nothing is
  received before it was sent, and that a received message is not forgotten.

### Runs

| Run | Instance | Properties |
| --- | --- | --- |
| `dm_failures` | one message, receiver's screen moved three times, realtime at the receiver, one fault | `TypeOK`, `NoUnseenLoss`, `OwnMessagesKept`, `ReadRowsGo` |
| `dm_sender` | one message, realtime at the sender, her screen moved twice and the receiver's three times, one fault, purge | `OwnMessagesKept`, `TicksHonest`, `ImplementsMailbox` |
| `dm_live` | two messages, realtime at the receiver, his screen moved twice, `LiveSpec`, no fault | `ListedIsConsumed`, `FetchedIsConsumed` |
| `dm_read_not_stored` | violation | `DeletedIsStored` |
| `dm_tick_regress` | violation | `TicksNeverGoBack` |
| `dm_stuck` | violation | `PendingIsApplied` |

Why the bounds are enough. Rows and copies of different messages meet only in the
list, in effect 6 and in a fetch, so that one message shows the protocol of a row;
`dm_failures` follows it on the receiver's side, `dm_sender` on the sender's. Three
moves are open, leave and open again: a second fetch meets what the first one and
effect 6 left behind. One fault at any point is the one failure between two steps
the code could repair; more of them only stop more calls. `dm_live` has two messages
to one receiver, because a restart of effect 6 is what one message does to another.
Its `LiveSpec` orders some steps to keep the graph small; the step that goes first is
always possible, so that nothing is blocked. What the sender's
device does by itself comes first: the receiver's cannot notice, and the properties
are about the receiver. Once the second message is sent, status events are received
and `markMessageAsDelivered` runs at once, and the receiver has opened the screen
once; as long as there is one message, its calls, events and fetches come in any
order. The proofs have none of
these bounds: they hold for any set of messages, faults and moves.

### What the violations show

Three statements of the comments are not kept; `PROJECT.json` quotes them.
`dm_read_not_stored`: `markMessageAsRead` deletes a realtime message from the
server that the device never stored, so that it is gone once the screen is left.
`dm_tick_regress`: the unconditional PATCHes of `markMessageAsDelivered` and
`markMessageAsRead` may arrive in either order, and a read message becomes
delivered again. `dm_stuck`: `updateLocalMessageStatus` looks for the entity,
`sendMessage` stores it and finds no pending status, and then the status becomes
pending: it stays so, and the entity stays sent.

### Fairness

`Fairness` is weak fairness of each thread of a device: the fetch, the send, the
calls, the effect that marks and the realtime flows. The schedulers of
`Dispatchers.IO` and of the main looper run what is runnable, and every connection
has a connect and a read timeout of ten seconds (`SR` 734-735), so that a request
ends. Nothing is assumed of the users, of faults or of the purge. Requests that
fail are faults, which `dm_live` bounds by none: the code does not retry, and with
a failed DELETE the row does stay until the next fetch.
`CHECK_DEADLOCK FALSE` in every configuration: users may stop.

## 4. Presence

### State and actions

`row` is the user's row, with `stale` for a `last_heartbeat` older than 60 seconds.
`jobs` are the coroutines that have not ended. Each runs one of `Programs`: its
requests in order and, for `onAppStart`, the three steps of `startHeartbeat`.
`alive` is whether `scope` is active, `heartbeatJob` the coroutine that variable
refers to, `main` what the main thread is in the middle of. `raced` and `chatRaced`
are history.

| Code | Actions |
| --- | --- |
| `MainActivity.onCreate`, `initialize` | `Initialize` |
| `MainActivity.onDestroy`, `cleanup` | `BeginCleanup`, `Cleanup` |
| `ModernMainActivity.onStart`, `onAppStart` | `HomeStart` |
| `ModernMainActivity.onStop`, `onAppStop` | `HomeStop`, `AppStopped` |
| `setManualStatus` | `SetManualStatus` |
| `enterDirectChat`, `exitDirectChat` | `EnterDirectChat`; `ExitDirectChat`, `ExitReturns` |
| coroutines | `Request`, `Answer`, `Cancelled`, `NextBeat`, `StartHeartbeat` |
| SQL | `Age`, `CleanupInactiveUsers` |
| process death | `Crash` |

What matters of coroutines: a launch on a cancelled scope does nothing; a request
that has begun reaches the server whatever happens to its coroutine, and
`withContext` throws when it returns to a cancelled one; `startHeartbeat` has no
suspension point, so that a coroutine cancelled just before it still runs it.
`stopHeartbeat` is two steps (cancel, set to null) because it runs on the main
thread and on `Dispatchers.IO` without a lock.

`MainActivity` finishes itself in `onCreate` and is never started, so its `onStart`
and `onStop` are left out; its `onDestroy` may come much later. An answer that is
lost differs from one that came in nothing, because every result is only logged.
`enterMessaging`, `enterChat`, `exitChat` and `exitMessaging` have no caller.
`updateChatStatus` puts a null partner into its body with `JSONObject.put`, which drops
the key on Android (SR 3915-3918): `exitDirectChat` resets `chat_status` and leaves
`current_chat_partner_id` (`left`), although DirectChatScreen 263 says it clears it. The
old partner does no harm, because every "chatting" is written with its own partner.

### Properties and runs

`presence_races` (one partner, three places for coroutines, three user actions,
one fault, `FairSpec`) checks

- `BeatIsOwned`: unless an `onAppStart` coroutine was still in progress when the
  app started or stopped again, there is one heartbeat at most, `heartbeatJob`
  refers to it, and none goes on after `onAppStop`. The condition is needed: such a
  coroutine launches a heartbeat after `onAppStop`, and two of them launch two, one
  of which only `cleanup` stops.
- `CleanupEndsBeats`: a scope that was cancelled has no heartbeat left, also none
  that `heartbeatJob` lost in such a race.
- `ChatIsHonest`: the row says "chatting" only while the chat screen is open, and
  with the partner of that screen, unless something failed or an unfinished
  `enterDirectChat` met `exitDirectChat`, whose PATCH may then arrive first.
- `OfflineInTheEnd`: whatever those races and a process death have left in the row,
  a user without a heartbeat becomes inactive.
- `HeartbeatRepairs`: a heartbeat that goes on makes `is_active` true again and again.
  It repairs nothing else: a late `status = offline` stays until a start of the app or
  the profile screen writes the status.

The run has one partner; that an older chat's partner cannot be taken for the
screen's is left to the theorem `HonestChat`. Three actions are start, stop and start of the app, two overlapping starts and a
stop, or a cleanup with a revival by the chat screen. Three places hold the
coroutines of two starts and one more operation.

`presence_dead_scope` is a violation: `cleanup` leaves the scope cancelled and
`isInitialized` unset, and neither `initialize` nor `onAppStart` revives the scope.
As `MainActivity` is destroyed after each start of the app, the heartbeat of the
home screen is launched on a dead scope.

Fairness: coroutines and the main thread run and requests end (timeouts as above);
time passes (`Age`); some other user's heartbeat, one in ten of which runs the
cleanup, comes in the end (`CleanupInactiveUsers`).

## 5. ChatGeneration and LlmSession

### State and actions

`LlmSession` is a native instance as a record: `messages` is the transcript, `prev`
is `prev_len` counted in messages, `from` and `upto` the messages of `batch` (those
after `prev_len` up to the end of the transcript), `response` the words sampled
since the last stop. `given` (the messages the KV cache holds without a gap) and
`cut` (a truncation dropped messages) are history. Its operators are the calls of
`LLMInference`. A text is the set of questions whose answers its words come from,
`{0}` for words of earlier sessions; bytes and tokens are not counted, and whether a
prompt is too long for the context is left open. A truncation keeps the first
message and the last ones, as the code does (`KeptMessages`, 5 there, 2 in the
runs).

| Code | Actions |
| --- | --- |
| `sendUserQuery` (`VM` 193-199) | `SendUserQuery` |
| its coroutine: analysis, `getResponse`, JNI loop | `EndAnalysis`, `Ask`, `Start`, `Prompt`, `DecodeFails`, `Decodes`, `Piece`, `EndOfGeneration`, `Emit` |
| a view or help command in `getResponse` (`LLMManager.kt` 193-208) | `Command`, `EmitResult` |
| its end: stop, catch, `finally`, `withContext` | `StopOwn`, `StopShared`, `CancelShared`, `Save`, `EndJob` |
| `stopGeneration`, `switchChat` | `StopGeneration`, `SwitchChat` |
| `updateChat`, `updateChatLLM` and `loadModel` | `UpdateChat` |
| `LaunchedEffect(currChat)` | `RunEffect` |
| the load coroutine, `LLMManager.loadModel`, `Orabel.create` | `Close`, `New`, `Create`, `Created`, `ReadHistory`, `AddHistory`, `Ready`, `Fail` |

A step of a coroutine ends where the main thread or another coroutine can come in
between two accesses of something shared. `start_completion` is two steps, up to the
truncation and from the slicing of the prompt on, and so is `completion_loop`,
`llama_decode` and what follows it, because `cancelCompletion` runs on the main
thread without a lock and changes `prev_len` and the response. A question that is a
command to show something ("ayuda", "/mi perfil"; `CommandProcessor.kt` 63-83) is
answered by `getResponse` itself: `Command` may take any question, no completion is
started, the result is shown and stored like an answer, and `stopCompletion` runs
after it. The commands that save are answered by the model like other questions. A cancelled coroutine goes on until `emit` or `withContext`
throws. `Orabel.close` has no native counterpart in `orabel.cpp`, so that its call
throws `UnsatisfiedLinkError`, which is caught: no native instance is ever freed. A
failed native load leaves `nativePtr` 0, and then every call does nothing and every
piece is `[ERROR]`. `start_completion` leaves `batch` pointing into a local vector, so
that the first decoding may fail or read other tokens than the prompt's, and
`completion_loop` refuses only negative results of `llama_decode`, although a positive
one says the context had no room for the batch. Either way the batch is not held
(`Decodes` with `held` false, which marks the answer as `erred`).

Not in the model: the online model, attached files, `deleteModel` (and `deleteChat`,
which nothing calls), an exception `start_completion` throws through JNI, which ends
the process, and data races inside one `std::string` or `std::vector`.

### Properties and runs

`chat_generation` (two chats, two questions, two loads, three of these together,
`FairSpec` for the stop) checks

- `AnswerIsStored`: what an answer showed is stored once, in the chat of its
  question, without words of another answer;
- `CanBeStopped`: an answer that is being made is the one the stop button cancels;
- `TranscriptIsGiven`: at rest the model's transcript is the chat's messages, in
  order and once, except commands and their results, which no completion sees,
  answers cut short or spoilt by an error, and what a truncation dropped;
- `NothingSkipped`: what `prev_len` takes out of the next prompt, the context holds;
- `CleanStart`: a completion begins with an empty response;
- `StoppedEnds`: a stopped answer ends, although pieces may be errors for ever.

Three conditions limit them, and all are the code's. `crossed`: a question was sent
after the last one was stopped but before its coroutine had ended. The flag is reset
at once, so the screen allows it, and then the two share `partialResponse` and the
native response. `mixed`: a load ran beside another load or an answer. `early`: while
the history `loadModel` added had not been decoded yet, an answer was stopped before
its prompt was made, for example while its coroutine still analysed the query (`VM`
241-255), or a command was answered. `cancel_completion` (`llm_inference.cpp` 386-421),
or `stop_completion` after the command (`VM` 218, `llm_inference.cpp` 360-371), then
takes the whole transcript for sent, and the next prompt leaves the history out
although the cache does not hold it. What is left
of `HistoryIsGiven` without the second condition is the violation `chat_history`:
`loadModel` says it adds the messages of the chat to the model (`VM` 278-281), but
one change of the chat calls it twice (`VM` 135 and `ChatActivity.kt` 299), and the
first load goes on adding its messages to the second one's session.

Two chats show an answer that ends after the chat was changed; two questions a
second answer on the state the first left, or beside it; two loads a session
replaced. `WF` of each answer's coroutine is the fairness: `Dispatchers.Default` runs
what is runnable and a native call returns. Users may stop, hence
`CHECK_DEADLOCK FALSE`.

## 6. Threadpool

`tp` is `struct ggml_threadpool`, `pc` what each thread does next, `worker` the two
graph counters of a worker, `task` the locals of `ggml_graph_compute_thread` and of
the matrix product, `barrier` those of `ggml_barrier`, `waiting` the workers in
`ggml_cond_wait`, `locked` a critical section of the main thread which polling
workers can look into. `done` is history: the chunks computed.

| Code | Actions |
| --- | --- |
| `ggml_graph_compute` | `GraphCompute` (with a pool of its own, or the caller's), `Return` |
| `ggml_graph_compute_kickoff` | `KickThreads`, `KickGraph`, `KickWake` |
| `ggml_threadpool_new`, `_free`, `_pause`, `_resume` | `ThreadpoolNew`; `ThreadpoolFree`, `Join`; `Pause`; `Resume` |
| `ggml_graph_compute_secondary_thread` | `TestPause`, `EnterPause`, `LeavePause`, `TestStop`, `SpuriousWakeup` |
| `..._poll_for_work`, `..._thread_ready`, `..._check_for_work` | `PollOrSleep`, `SeeGraph`, `TakeGraph`, `EndPolling`, `CheckForWork` |
| `ggml_graph_compute_thread` | `Begin`, `Node`, `EndNode` |
| `ggml_barrier` | `JoinBarrier`, `ResetBarrier`, `ReleaseBarrier`, `SpinBarrier` |
| `ggml_compute_forward_mul_mat` | `SetChunk`, `Chunk`, `FetchChunk` |

Every access to a field another thread may see is a step. The accesses are taken in
one order for all threads (sequential consistency): the code uses relaxed accesses
where a fence, the mutex or a sequentially consistent `n_graph` or `n_barrier`
orders them, and reorderings the C memory model would allow beyond that are not
explored. The pool is the one built without OpenMP (`orabel/build.gradle.kts` 26
sets `GGML_OPENMP=OFF`). Every node is a matrix product, the only operation that
shares a counter; priorities, affinity and the arithmetic are left out.

`threadpool` runs three threads, a graph of two nodes (three chunks, and one chunk
fewer than there are threads), two graphs in a row for two threads, with polling,
pauses, an abort after any node, pools made for one call and pools kept. It checks
`ChunksOnce`, `NodesInOrder`, `QuietBetweenGraphs`, `CallsReturn` and
`ImplementsComputation`, the refinement of `GraphComputation`: nodes in order, each
chunk once, and a return only when all nodes, or after an abort the first ones, are
complete. `NodesInOrder` asks for all chunks of all earlier nodes. Deadlock is
checked. Three threads are needed for a worker that is at a
barrier neither first nor last; two graphs for a worker that is late for the second.
Fairness: every thread runs (`WF` of the main thread and each worker).

`Varying = FALSE` means that each graph uses all threads of its pool. With a caller
that keeps a pool and asks for fewer threads (`Varying = TRUE`), TLC finds
`QuietBetweenGraphs` violated: a polling worker of no earlier graph reads
`n_threads_cur` between two steps of the next kickoff, which the comment at
`ggml-cpu.c` 3100-3101 excludes. The app only computes with pools made for one call
(`llama_context` attaches none), so that the case does not arise here.

## 7. FriendRequests

`requests` and `friends` are the two tables; `call` the operations in progress or
ended, each with its next request. Lists on the screens are not state: an operation
started from an old list is one that was started when the list was read and whose
first request takes long. `bond`, `torn`, `withdrawn` and `made` are history. The
two users of a row may be one: neither `sendFriendRequest` nor the profile screen
nor a table compares them, and one's own posts lead to one's own profile, with the
button. Such a user has one row in `friends`, which both INSERTs and both DELETEs name.

| Code | Actions |
| --- | --- |
| buttons of the profile and of the friends tab | `SendFriendRequest`, `AcceptFriendRequest`, `CancelFriendRequest`, `RemoveFriend` |
| `sendFriendRequest` | `CheckPending`, `InsertRequest` |
| `cancelFriendRequest` | `DeleteRequest` |
| `accept_friend_request` | `AcceptSelect`, `AcceptInsert`, `AcceptCommit`, `AbortDeadlock` |
| `removeFriend` | `DeleteFirst`, `DeleteSecond` |
| faults | `Fails`, `FirstGoesWrong` |

The server function is a transaction: its SELECT locks nothing, its insertions are
seen when it commits, and an insertion of the same row by another transaction waits
for that. PostgreSQL ends one of two transactions that wait for each other.

`friend_requests` (two users, friends or not and with any requests to each other at
the start, three operations, one fault) checks

- `TypeOK`: also that a transaction inserts rows of its request's two users only;
- `PendingOnce`: one pending request from a user to another, whatever was checked.
  It rests on the unique constraint of `enable_friend_requests.sql` 10, which is in
  the iOS project's scripts for the shared server; the listing of the tables in
  `basededatos.txt` 104-113 shows no unique constraint of any table;
- `FriendsAreMutual`: a friendship has both rows from the end of an acceptance to
  the next removal and none otherwise, unless that removal broke off or crossed an
  acceptance;
- `WithdrawnIsGone`: a request withdrawn before an acceptance read it makes no
  friendship;
- `OperationsEnd`: every operation ends, acceptances of crossed requests too.

Two users suffice because a row concerns two and nothing reads two pairs. Three
operations are two acceptances and a removal, two sends and a cancel, or a user's
send to himself, its acceptance and the removal; `OldRequests` and `OldFriends` bound
what may be in the tables at the start to what is between the two users; one fault
is the one failure of a removal. Fairness: a request is answered or times out (`SR`
734-735), the server runs its transactions. What the properties leave out is what
the code does not promise: a cancel that ends between SELECT and commit is answered
as done and the friendship is made; a removal that crosses an acceptance, or whose
first DELETE fails, leaves one row until a later removal or acceptance is completed,
from when on `FriendsAreMutual` speaks of the pair again. Rejecting is not an action: the friends tab
passes `"rechazada"` (`SocialFeedScreen.kt` 255), which `updateConnectionStatus`
(`SR` 1160-1203) does not know, so that nothing changes; the `"deleted"` it knows is
passed by a second `FriendsDetailScreen` (`ui/screens/search/FriendsDetailScreen.kt`)
that nothing opens.

## 8. Proofs

The proofs are about `Spec`, without fairness, for every value of the constants
that the named assumptions allow:

- `DirectMessages`: `ConversationAssumption` - each message has a sender and another
  user as receiver, and these two are the users;
- `Presence`: `PresenceAssumption` - the two absent values are none of the present
  ones, the bounds are natural numbers;
- `Threadpool`: `SizesAssumption` - there are a thread and a node, each node has
  chunks, and `PerThread` (the code's 4) is positive. Its theorems have the hypothesis
  `~Varying`: with plans that use fewer threads than the pool has,
  `QuietBetweenGraphs` is false (section 6), and so is the inductive invariant. The
  app's plans use all threads, because each call makes its own pool;
- `ChatGeneration`: `BoundsAssumption` and `KeptAssumption` - the first chat is a
  chat, the bounds are natural numbers, there may be a load, and a truncation keeps
  something;
- `FriendRequests`: `BoundsAssumption` and `OldAssumption` - the bounds are natural
  numbers, the rows at the start are such rows.

TLC checked the inductive invariants on the instances of the runs before they were
proved; the proofs have none of the bounds of those instances.

### Direct messages

`DirectMessages_proofs` proves `TypeOK /\ InFlight`. `InFlight` says which message
a fetch and a send in progress are about: without it, the type of the status a
`FetchRow` stores and of the message a `SendSave` stores would not follow.

`DirectMessagesSafety_proofs` proves `NoUnseenLoss`, `OwnMessagesKept`,
`TicksHonest` and `ReadRowsGo`. None of them is inductive: a DELETE in flight, a
read event in a queue, a pending status or a row in a fetch's answer will break them
later unless it is known to be justified. `SafeInv` therefore says of every place a
tick can be in (rows, events, `held`, `pend`, `fetch`, `send`, stores, lists) that
the message was received, and of every call in flight that its message was received.
The lemma that carries the proof is `StepGrows`: no step takes a message out of a
store or out of `shown`, so that "was received" is stable and a justification does
not expire. Then there is one lemma per action, and under it one step per conjunct
the action can disturb; `Frames` gives the others. `ReadRowsGo` is nearly inductive:
the row becomes read in a PATCH of a fetch or of a call, and that caller's next
request is the DELETE (`ReadBegins`). What is to be shown is that no other step
takes this caller away (`FetchKeeps`, `CallKeeps`); `DetachedKeeps` is the case of a
screen that was left, whose call goes on with its result dropped.

`MailboxRefinement_proofs` proves `Spec => ImplementsMailbox`. `KnownInv` adds that
no message is anywhere before its row was inserted. A step that changes the phase
of a message changes nothing else the mailbox sees (`Send`, `Remove`, `Expire`);
every other step is `Progress`, by `StepGrows` and `TicksHonest`.

### Friend requests

`FriendRequests_proofs` proves `TypeOK /\ Sound`. `Sound` says that an operation is
at a place of its own operation, and inserts rows of its own pair only: without it
the rows that a commit adds would have no type. The lemmas
`GoToMoves`, `AddsMoves`, `SelectMoves`, `MarMoves` and `ScreenStarts` say once what
each action does to the records in `call`, so that later proofs need no EXCEPT.

`FriendRequestsSafety_proofs` proves `PendingOnce`, `WithdrawnIsGone` and
`FriendsAreMutual`. The first is inductive: only `InsertRequest` adds a row. For the
second, `Apart` says that pending, withdrawn and accepted requests are disjoint and
that no acceptance that has read its request has a withdrawn one; `Numbered`, that
a request in any of these was sent by a call that is over, so that an insertion
cannot bring one of them back. For the third, `CallKinds` sorts the steps into eight
kinds by their effect on a friendship, and three facts are added: a removal and an
acceptance past its SELECT, of one pair, have marred each other (`Crossed`); an
unmarred removal finds its pair no friends and its first row gone (`Removals`); an
unmarred acceptance has, in the table or in its transaction, the rows it has come
past (`Acceptances`). The proof is then by the pair a step is about: the rows of
another pair do not change (`OwnRows`).

### Presence

`Presence_proofs` proves `TypeOK`, `BeatIsOwned`, `CleanupEndsBeats` and `ChatIsHonest`.
The types need to
know the program of each coroutine and that `heartbeatJob` refers to a heartbeat. For
the second, `BeatInv` follows the start of a heartbeat: unless `raced`, one
`onAppStart` coroutine at most is in progress and none once the app was stopped; the
heartbeat that goes on is `heartbeatJob`'s; and between the cancellation and the launch
inside `startHeartbeat`, where two coroutines could both find none, there is none.
`CleanupEndsBeats` is inductive with the types. For the last, `ChatInv` says that an
`enterDirectChat` in progress is for the partner of the open screen and that
`exitDirectChat` does not wait, so that nothing can undo its PATCH.

### Thread pool

`Threadpool_proofs` proves `TypeOK`, `QuietBetweenGraphs`, `ChunksOnce`,
`NodesInOrder` and `ImplementsComputation`. All rest on `BarrierInv`, the invariant
of `ggml_barrier`. The barriers cut a graph into segments (`Segment`: two per node,
up to the barrier before its chunks and up to the one after them), and `SegmentInv`
says that all threads are in the same one. What makes this subtle is a thread that
was released and has not yet looked: it still spins, while the others are at work
behind the barrier or even wait at the next one. It is `Late`, which its saved
`n_passed` tells, and counts as having left. `CountInv` then says that `n_barrier`
is the number of threads that have joined and are not late, so that the thread which
counts up to all of them finds all others waiting; `PassedInv`, `GraphInv`,
`NodeInv`, `AbortInv` and `PoolInv` give the counters, the graph each worker is in,
its node, the flags and the number of threads. `BoundsInv` adds the bounds of
`TypeOK`. `DataInv` says what has been computed: all chunks of the nodes before the
present segment and none of those after it (`DoneInv`, `FreshInv`); of the present
node, each chunk below the shared counter is done or held by one thread and none
above it is (`ProductInv`, `ChunkInv`); and after an abort only whole nodes
(`AbortKept`, `ReturnInv`). The refinement is then one lemma for each kind of step:
`Chunk` is a chunk of `GraphComputation`, the call and its return are its call and
return, and every other step changes nothing it sees.

### Chat generation

`ChatGeneration_proofs` proves `TypeOK`, `CanBeStopped`, `CleanStart`, `AnswerIsStored`,
`NothingSkipped` and `TranscriptIsGiven`. `TypeOK` says of each native instance that
`prev_len`, the batch and the context do not exceed the transcript, also after a
truncation; `Ordered` adds that questions and loads are numbered as they begin.
`CanBeStopped` is inductive with these. `AnswerIsStored`, `CleanStart`, `NothingSkipped`
and `TranscriptIsGiven` are about coroutines that do not overlap, which `Alone` spells
out: unless `crossed`, only the last answer has not ended (`OneJob`); unless `mixed`,
only the last load has not, and then no answer is in progress (`OneLoad`), an answer
calls the object in use and a load its own (`OwnObject`, `OwnLoad`), and an instance is
empty until its load adds to it (`Fresh`). Then

- `ResponseInv`: only the answer in progress has words in a response, and only in that
  of the instance in use;
- `StoredInv`: the screen shows only words of the answer in progress, nothing of it is
  stored before its end, and what is stored is one message of its question's chat;
- `ReadInv`: without errors and early stops or commands, the prompt of an answer in progress
  follows what the context holds, and after its first decoding the context holds the
  whole transcript;
- `GivenInv`: the transcript is the chat's messages in their order. It needs
  `ChatOrder` (the messages of a chat lie in the order of their questions, each once)
  and `LoadedChat` (the session in use was loaded for the chat on the screen, and so
  is the answer in progress). Its parts are stated by the message a transcript is
  about (`Holds`, `Tells`), because a load, a question, a stop and a truncation each
  change the transcript in another way, and `Excused` are the messages it may lack; `FollowsOneWay`, `Appended` and
  `TruncatedSorted` are the lemmas about sequences, `JobEffects` reduces the steps of
  an answer to their effects on transcript and chat, `EffectKeeps` goes through these.

### Only model-checked

The liveness properties, because liveness under fairness is out of the prover's
reach: `ListedIsConsumed`, `FetchedIsConsumed`, `OfflineInTheEnd`, `HeartbeatRepairs`,
`CallsReturn`, `StoppedEnds`, `OperationsEnd`. The violations, which are
counterexamples of small instances. `KeptMessages = 5`, the code's value, is covered by
the proofs and not by the runs.

## 9. Not modelled

`WhisperRecording`, the next part of the plan (section 2), and for good the parts
listed under "The rest" in section 1. In `DirectMessages`: the inbox flow and the
notification, which read INSERT events and keep nothing a conversation depends on;
the typing indicator, a row of its own; the conversation list. In `Presence`: the
flows that show a partner's status. In `FriendRequests`: the screens' lists and
`checkRelationshipStatus`, which only read. In `ChatGeneration`: what section 5 lists.
Of llama.cpp, which is vendored: everything but the thread pool - model files,
tokenizers, graph building, the KV cache and the kernels are sequential, and the
other backends and the server are not built into the app.
