------------------------------ MODULE Presence ------------------------------
(***************************************************************************)
(* Presence of one user: the coroutines of UserActivityManager, the row of  *)
(* the user in the table users, and the server's cleanup of inactive users. *)
(*                                                                          *)
(* Code: utils/UserActivityManager.kt, the activities and screens that call *)
(* it, updateUserStatus, updateUserActiveStatus, updateChatStatus and       *)
(* sendHeartbeat of SocialRepository.kt, fix_realtime_status_FINAL.sql.     *)
(* The coroutines run on Dispatchers.IO and interleave freely; activities   *)
(* and screens call from the main thread.  A request that has begun is not  *)
(* interrupted by a cancellation: its coroutine ends when the answer comes. *)
(***************************************************************************)
EXTENDS Naturals, Sequences

CONSTANTS
    Partners,    \* users to chat with
    NoPartner,
    Jobs,        \* bound: places for coroutines that have not ended
    NoJob,
    MaxFaults,   \* bound: failed requests and process deaths
    MaxMoves     \* bound: what the user does

ASSUME PresenceAssumption ==
    /\ NoPartner \notin Partners /\ NoJob \notin Jobs
    /\ MaxFaults \in Nat /\ MaxMoves \in Nat

VARIABLES
    row,           \* the user's row: is_active, status, chat_status (chatting),
                   \* current_chat_partner_id (partner), and whether
                   \* last_heartbeat is older than 60 seconds
    initialized,   \* isInitialized
    appActive,     \* _isAppActive
    alive,         \* scope has not been cancelled
    heartbeatJob,  \* the coroutine heartbeatJob refers to, if it has not ended
    jobs,          \* coroutines that have not ended
    main,          \* what the main thread is in the middle of
    launchers,     \* instances of MainActivity not yet destroyed
    home,          \* ModernMainActivity is started
    screen,        \* partner of the chat screen, NoPartner when there is none
    raced,         \* history: a start or stop of the app met a starting one
    chatRaced,     \* history: exitDirectChat met a coroutine of enterDirectChat
    faults, moves

uiVars   == <<launchers, home, screen>>
raceVars == <<raced, chatRaced>>
vars == <<row, initialized, appActive, alive, heartbeatJob, jobs, main, uiVars,
          raceVars, faults, moves>>

\* What each coroutine does, step by step: requests, and steps of startHeartbeat.
Programs == [start     |-> <<"active", "available", "cancel", "forget", "launch">>,
             stop      |-> <<"inactive", "offline">>,
             available |-> <<"available">>,
             offline   |-> <<"offline">>,
             chat      |-> <<"chatting">>,
             beat      |-> <<"heartbeat", "delay">>]

Requests == {"active", "available", "inactive", "offline", "chatting", "heartbeat"}

Job(kind, partner) ==
    [kind |-> kind, at |-> 1, sent |-> FALSE, cancelled |-> FALSE, partner |-> partner]
Ended == [kind |-> "none", at |-> 1, sent |-> FALSE, cancelled |-> FALSE,
          partner |-> NoPartner]

Running(kind) == {j \in Jobs : jobs[j].kind = kind}
Op(j) == Programs[jobs[j].kind][jobs[j].at]

Init ==
    /\ row = [active |-> FALSE, status |-> "offline", chatting |-> FALSE,
              partner |-> NoPartner, stale |-> TRUE]
    /\ initialized = FALSE
    /\ appActive = FALSE
    /\ alive = TRUE
    /\ heartbeatJob = NoJob
    /\ jobs = [j \in Jobs |-> Ended]
    /\ main = "free"
    /\ launchers = 0
    /\ home = FALSE
    /\ screen = NoPartner
    /\ raced = FALSE
    /\ chatRaced = FALSE
    /\ faults = 0
    /\ moves = 0

Fault == faults < MaxFaults /\ faults' = faults + 1

\* The main thread is free to take the user's next action.
Move == main = "free" /\ moves < MaxMoves /\ moves' = moves + 1

\* Faulty variant of Written: the heartbeat writes last_heartbeat only.
WrittenQuietly(r, op, partner) ==
    [active |-> \/ op \in {"active", "available"}
                \/ r.active /\ op \in {"chatting", "left", "heartbeat"},
     status |-> IF op \in {"available", "offline"} THEN op ELSE r.status,
     chatting |-> op = "chatting" \/ (r.chatting /\ op # "left"),
     partner |-> IF op = "chatting" THEN partner ELSE r.partner,
     stale |-> r.stale /\ op \notin {"active", "inactive", "heartbeat"}]

\* What the PATCH of op, or the RPC update_heartbeat, writes.  "left" is the PATCH
\* of exitDirectChat: put(..., null) leaves the partner out of its body, so that
\* the row keeps the old one.
Written(r, op, partner) ==
    [active |-> \/ op \in {"active", "available", "heartbeat"}
                \/ r.active /\ op \in {"chatting", "left"},
     status |-> IF op \in {"available", "offline"} THEN op ELSE r.status,
     chatting |-> op = "chatting" \/ (r.chatting /\ op # "left"),
     partner |-> IF op = "chatting" THEN partner ELSE r.partner,
     stale |-> r.stale /\ op \notin {"active", "inactive", "heartbeat"}]

\* scope.launch: nothing happens on a cancelled scope.
Launch(living, kind, partner) ==
    IF living
    THEN LET free == {j \in Jobs : jobs[j] = Ended} IN
         /\ free # {}
         /\ jobs' = [jobs EXCEPT ![CHOOSE j \in free : TRUE] = Job(kind, partner)]
    ELSE UNCHANGED jobs

\* The first half of stopHeartbeat; the second is heartbeatJob = null.
CancelBeat(js) ==
    IF heartbeatJob = NoJob THEN js ELSE [js EXCEPT ![heartbeatJob].cancelled = TRUE]

-----------------------------------------------------------------------------
(* Main thread *)

\* onAppStart
OnAppStart(living) ==
    /\ appActive' = TRUE
    /\ Launch(living, "start", NoPartner)
    /\ raced' = (raced \/ Running("start") # {})

\* MainActivity.onCreate calls initialize: a cancelled scope is replaced only
\* when isInitialized is still set.
Initialize ==
    /\ Move
    /\ launchers' = launchers + 1
    /\ \/ /\ initialized /\ alive
          /\ UNCHANGED <<initialized, appActive, alive, jobs, raced>>
       \/ /\ initialized /\ ~alive
          /\ alive' = TRUE
          /\ OnAppStart(TRUE)
          /\ UNCHANGED initialized
       \/ /\ ~initialized
          /\ initialized' = TRUE
          /\ OnAppStart(alive)
          /\ UNCHANGED alive
    /\ UNCHANGED <<row, heartbeatJob, main, home, screen, chatRaced, faults>>

\* MainActivity.onDestroy calls cleanup ...
BeginCleanup ==
    /\ main = "free" /\ launchers > 0
    /\ launchers' = launchers - 1
    /\ main' = "cleaning"
    /\ jobs' = CancelBeat(jobs)
    /\ UNCHANGED <<row, initialized, appActive, alive, heartbeatJob, home, screen,
                   raceVars, faults, moves>>

\* Faulty variant of CancelScope: the scope takes no more coroutines, those it
\* has go on.
CancelNothing(js) == js

\* scope.cancel()
CancelScope(js) ==
    [j \in Jobs |-> IF js[j] = Ended THEN Ended
                    ELSE [js[j] EXCEPT !.cancelled = TRUE]]

\* ... which cancels the scope with every coroutine of it.
Cleanup ==
    /\ main = "cleaning"
    /\ main' = "free"
    /\ heartbeatJob' = NoJob
    /\ alive' = FALSE
    /\ jobs' = CancelScope(jobs)
    /\ initialized' = FALSE
    /\ UNCHANGED <<row, appActive, uiVars, raceVars, faults, moves>>

\* ModernMainActivity.onStart
HomeStart ==
    /\ Move /\ ~home
    /\ home' = TRUE
    /\ OnAppStart(alive)
    /\ UNCHANGED <<row, initialized, alive, heartbeatJob, main, launchers, screen,
                   chatRaced, faults>>

\* ModernMainActivity.onStop calls onAppStop: the heartbeat is stopped here ...
HomeStop ==
    /\ Move /\ home
    /\ home' = FALSE
    /\ appActive' = FALSE
    /\ jobs' = CancelBeat(jobs)
    /\ main' = "stopping"
    /\ raced' = (raced \/ Running("start") # {})
    /\ UNCHANGED <<row, initialized, alive, heartbeatJob, launchers, screen,
                   chatRaced, faults>>

\* ... and the row is updated by a coroutine.
AppStopped ==
    /\ main = "stopping"
    /\ main' = "free"
    /\ heartbeatJob' = NoJob
    /\ Launch(alive, "stop", NoPartner)
    /\ UNCHANGED <<row, initialized, appActive, alive, uiVars, raceVars, faults,
                   moves>>

\* setManualStatus from the profile, on a scope that is revived if necessary.
SetManualStatus(status) ==
    /\ Move
    /\ alive' = TRUE
    /\ Launch(TRUE, status, NoPartner)
    /\ UNCHANGED <<row, initialized, appActive, heartbeatJob, main, uiVars, raceVars,
                   faults>>

OpenChat(p) ==
    /\ Move /\ screen = NoPartner
    /\ screen' = p
    /\ UNCHANGED <<row, initialized, appActive, alive, heartbeatJob, jobs, main,
                   launchers, home, raceVars, faults>>

\* Effect 1 after its fetch, or the button of the chat screen.
EnterDirectChat ==
    /\ Move /\ screen # NoPartner
    /\ alive' = TRUE
    /\ Launch(TRUE, "chat", screen)
    /\ UNCHANGED <<row, initialized, appActive, heartbeatJob, main, uiVars, raceVars,
                   faults>>

\* onDispose or the other button: exitDirectChat holds the main thread ...
ExitDirectChat ==
    /\ Move /\ screen # NoPartner
    /\ main' = "exiting"
    /\ screen' \in {screen, NoPartner}
    /\ chatRaced' = (chatRaced \/ Running("chat") # {})
    /\ UNCHANGED <<row, initialized, appActive, alive, heartbeatJob, jobs, launchers,
                   home, raced, faults>>

\* Faulty variant of ExitAnswered: nothing is written.
ExitUnwritten == main = "exiting" /\ main' = "free" /\ UNCHANGED <<row, faults>>

\* ... until its PATCH has been answered.
ExitAnswered ==
    /\ main = "exiting" /\ main' = "free"
    /\ \/ row' = Written(row, "left", NoPartner) /\ UNCHANGED faults
       \/ UNCHANGED row /\ Fault

ExitReturns ==
    /\ ExitAnswered
    /\ UNCHANGED <<initialized, appActive, alive, heartbeatJob, jobs, uiVars, raceVars,
                   moves>>

-----------------------------------------------------------------------------
(* Coroutines *)

\* The coroutine j has ended; nobody can tell a reference to it from null.
End(j) ==
    /\ jobs' = [jobs EXCEPT ![j] = Ended]
    /\ heartbeatJob' = IF heartbeatJob = j THEN NoJob ELSE heartbeatJob

\* Faulty variant of Advance: one step too far.
AdvancePast(j) ==
    IF jobs[j].at <= Len(Programs[jobs[j].kind])
    THEN /\ jobs' = [jobs EXCEPT ![j].at = @ + 1, ![j].sent = FALSE]
         /\ UNCHANGED heartbeatJob
    ELSE End(j)

\* Its next step, if there is one.
Advance(j) ==
    IF jobs[j].at < Len(Programs[jobs[j].kind])
    THEN /\ jobs' = [jobs EXCEPT ![j].at = @ + 1, ![j].sent = FALSE]
         /\ UNCHANGED heartbeatJob
    ELSE End(j)

jobFrame == <<initialized, appActive, alive, main, uiVars, raceVars, moves>>

Request(j) ==
    /\ jobs[j] # Ended /\ Op(j) \in Requests
    /\ ~jobs[j].sent /\ ~jobs[j].cancelled
    /\ jobs' = [jobs EXCEPT ![j].sent = TRUE]
    /\ UNCHANGED <<row, heartbeatJob, faults, jobFrame>>

\* The answer, or an error, which every coroutine only logs.  A cancelled
\* coroutine ends here.
Answer(j) ==
    /\ jobs[j].sent
    /\ \/ row' = Written(row, Op(j), jobs[j].partner) /\ UNCHANGED faults
       \/ UNCHANGED row /\ Fault
    /\ IF jobs[j].cancelled THEN End(j) ELSE Advance(j)
    /\ UNCHANGED jobFrame

\* Before a request, and while it waits, a coroutine notices its cancellation.
Cancelled(j) ==
    /\ jobs[j].cancelled /\ ~jobs[j].sent
    /\ Op(j) \in Requests \cup {"delay"}
    /\ End(j)
    /\ UNCHANGED <<row, faults, jobFrame>>

\* 30 seconds have passed.
NextBeat(j) ==
    /\ jobs[j].kind = "beat" /\ Op(j) = "delay" /\ ~jobs[j].cancelled
    /\ jobs' = [jobs EXCEPT ![j].at = 1]
    /\ UNCHANGED <<row, heartbeatJob, faults, jobFrame>>

\* Faulty variant of StopOldBeat: the old heartbeat is only forgotten.
ForgetOldBeat(j) == jobs' = [jobs EXCEPT ![j].at = @ + 1]

\* startHeartbeat, in the coroutine of onAppStart, whether cancelled or not:
\* heartbeatJob?.cancel() ...
StopOldBeat(j) == jobs' = [CancelBeat(jobs) EXCEPT ![j].at = @ + 1]

StartHeartbeat(j) ==
    /\ jobs[j].kind = "start"
    /\ \/ /\ Op(j) = "cancel"
          /\ StopOldBeat(j)
          /\ UNCHANGED heartbeatJob
       \* ... heartbeatJob = null ...
       \/ /\ Op(j) = "forget"
          /\ jobs' = [jobs EXCEPT ![j].at = @ + 1]
          /\ heartbeatJob' = NoJob
       \* ... heartbeatJob = scope.launch; the coroutine j ends, and the
       \* heartbeat takes its place.
       \/ /\ Op(j) = "launch"
          /\ jobs' = [jobs EXCEPT ![j] = IF alive THEN Job("beat", NoPartner) ELSE Ended]
          /\ heartbeatJob' = IF alive THEN j ELSE NoJob
    /\ UNCHANGED <<row, faults, jobFrame>>

-----------------------------------------------------------------------------
(* Server and process *)

\* No heartbeat for 60 seconds.
Age ==
    /\ ~row.stale
    /\ row' = [row EXCEPT !.stale = TRUE]
    /\ UNCHANGED <<initialized, appActive, alive, heartbeatJob, jobs, main, uiVars,
                   raceVars, faults, moves>>

\* Faulty variant of Inactive: users whose status is offline are passed over.
InactiveOnline == row.active /\ row.stale /\ row.status # "offline"

Inactive == row.active /\ row.stale

\* update_heartbeat of another user, or cleanup_inactive_users.
CleanupInactiveUsers ==
    /\ Inactive
    /\ row' = [row EXCEPT !.active = FALSE, !.status = "offline"]
    /\ UNCHANGED <<initialized, appActive, alive, heartbeatJob, jobs, main, uiVars,
                   raceVars, faults, moves>>

\* The process dies; requests on their way have reached the server or never do.
Crash ==
    /\ Fault
    /\ initialized' = FALSE
    /\ appActive' = FALSE
    /\ alive' = TRUE
    /\ heartbeatJob' = NoJob
    /\ jobs' = [j \in Jobs |-> Ended]
    /\ main' = "free"
    /\ launchers' = 0
    /\ home' = FALSE
    /\ screen' = NoPartner
    /\ UNCHANGED <<row, raceVars, moves>>

MainStep == Cleanup \/ AppStopped \/ ExitReturns
JobStep(j) ==
    Request(j) \/ Answer(j) \/ Cancelled(j) \/ NextBeat(j) \/ StartHeartbeat(j)

User ==
    \/ Initialize \/ BeginCleanup \/ HomeStart \/ HomeStop
    \/ \E s \in {"available", "offline"} : SetManualStatus(s)
    \/ (\E p \in Partners : OpenChat(p)) \/ EnterDirectChat \/ ExitDirectChat

Next ==
    \/ User \/ MainStep \/ Crash
    \/ Age \/ CleanupInactiveUsers
    \/ \E j \in Jobs : JobStep(j)

Spec == Init /\ [][Next]_vars

\* Threads run, requests end within their timeouts, time passes, and some other
\* user's heartbeat, one in ten, runs the cleanup.
FairSpec ==
    /\ Spec
    /\ \A j \in Jobs : WF_vars(JobStep(j))
    /\ WF_vars(MainStep) /\ WF_vars(Age) /\ WF_vars(CleanupInactiveUsers)

-----------------------------------------------------------------------------
(* Properties *)

TypeOK ==
    /\ row \in [active : BOOLEAN, status : {"available", "offline"},
                chatting : BOOLEAN, partner : Partners \cup {NoPartner},
                stale : BOOLEAN]
    /\ initialized \in BOOLEAN /\ appActive \in BOOLEAN /\ alive \in BOOLEAN
    /\ heartbeatJob \in Jobs \cup {NoJob}
    /\ jobs \in [Jobs -> [kind : DOMAIN Programs \cup {"none"}, at : 1..5,
                          sent : BOOLEAN, cancelled : BOOLEAN,
                          partner : Partners \cup {NoPartner}]]
    /\ \A j \in Jobs : jobs[j] = Ended \/ jobs[j].at \in DOMAIN Programs[jobs[j].kind]
    /\ main \in {"free", "stopping", "cleaning", "exiting"}
    /\ launchers \in Nat /\ home \in BOOLEAN
    /\ screen \in Partners \cup {NoPartner}
    /\ raced \in BOOLEAN /\ chatRaced \in BOOLEAN
    /\ faults \in 0..MaxFaults /\ moves \in 0..MaxMoves

\* Heartbeats that go on.
Beating == {j \in Running("beat") : ~jobs[j].cancelled}

\* When no start or stop of the app came while a start was still in progress,
\* there is one heartbeat at most, it is the one heartbeatJob refers to, and
\* none goes on after the app was stopped.
BeatIsOwned ==
    ~raced /\ main = "free" => Beating \subseteq {heartbeatJob} /\ (~appActive => Beating = {})

\* A cancelled scope has no heartbeat left, also none that heartbeatJob lost in a
\* race of two starts.
CleanupEndsBeats == ~alive => Beating = {}

\* When exitDirectChat met no unfinished enterDirectChat and nothing failed, the
\* row says "chatting" only while the chat screen is open, and names the partner of
\* that screen, whatever older coroutines have still to write.
ChatIsHonest ==
    ~chatRaced /\ faults = 0 /\ main # "exiting" /\ row.chatting
        => screen # NoPartner /\ row.partner = screen

\* The row of a user whose app stays stopped without a heartbeat is inactive in
\* the end, in whatever order the coroutines' requests arrived and wherever the
\* process died.
OfflineInTheEnd == <>[](~appActive /\ Running("beat") = {}) => <>[](~row.active)

\* A heartbeat that goes on makes the row active again and again, whatever an
\* older stop of the app or the cleanup has written.
HeartbeatRepairs == <>[](Beating # {}) => []<>(row.active)

\* Stated by UserActivityManager.kt:22 and SocialRepository.kt:4159: the heartbeat
\* keeps the user active while the app is.
ActiveIsBeating ==
    home /\ main = "free" /\ Running("start") = {} /\ ~raced /\ faults = 0
        => Beating # {}
=============================================================================
