--------------------------- MODULE Presence_proofs ---------------------------
(***************************************************************************)
(* Theorems about Presence: its types, the one heartbeat, the end of the    *)
(* heartbeats with their scope, the honest chat status.                     *)
(***************************************************************************)
EXTENDS Presence, TLAPS

JobRecord == [kind : DOMAIN Programs \cup {"none"}, at : 1..5, sent : BOOLEAN,
              cancelled : BOOLEAN, partner : Partners \cup {NoPartner}]

\* A coroutine is ended or at a step of its program, and waits only for requests.
JobOK(x) ==
    /\ x \in JobRecord
    /\ \/ x = Ended
       \/ /\ x.kind # "none"
          /\ x.at \in DOMAIN Programs[x.kind]
          /\ x.sent => Programs[x.kind][x.at] \in Requests

\* heartbeatJob refers to a heartbeat.
Types ==
    /\ TypeOK
    /\ \A j \in Jobs : JobOK(jobs[j])
    /\ heartbeatJob # NoJob => jobs[heartbeatJob].kind = "beat"

-----------------------------------------------------------------------------
(* Coroutines *)

\* The kinds of coroutines and the number of their steps.
LEMMA Kinds ==
    /\ DOMAIN Programs = {"start", "stop", "available", "offline", "chat", "beat"}
    /\ Programs["start"] = <<"active", "available", "cancel", "forget", "launch">>
    /\ Programs["stop"] = <<"inactive", "offline">>
    /\ Programs["available"] = <<"available">>
    /\ Programs["offline"] = <<"offline">>
    /\ Programs["chat"] = <<"chatting">>
    /\ Programs["beat"] = <<"heartbeat", "delay">>
    /\ \A k \in DOMAIN Programs :
          /\ Len(Programs[k]) \in 1..5
          /\ DOMAIN Programs[k] = 1 .. Len(Programs[k])
  BY DEF Programs

\* Which step of which program is which: the steps of startHeartbeat are the last three
\* of onAppStart, and only enterDirectChat writes a partner.
LEMMA Ops ==
    ASSUME NEW k \in DOMAIN Programs, NEW n \in DOMAIN Programs[k]
    PROVE  /\ Programs[k][n] = "cancel" <=> k = "start" /\ n = 3
           /\ Programs[k][n] = "forget" <=> k = "start" /\ n = 4
           /\ Programs[k][n] = "launch" <=> k = "start" /\ n = 5
           /\ Programs[k][n] = "chatting" <=> k = "chat"
           /\ k = "start" => n \in 1..5
           /\ k = "start" => Len(Programs[k]) = 5
           /\ k = "start" /\ Programs[k][n] \in Requests => n \in 1..2
           /\ k = "beat" /\ n # 1 => n = 2 /\ Programs[k][n] = "delay"
  <1>1. CASE k = "start"
    <2>1. n \in 1..5
      BY <1>1, Kinds
    <2>2. n = 1 \/ n = 2 \/ n = 3 \/ n = 4 \/ n = 5
      BY <2>1
    <2> QED
      BY <1>1, <2>1, <2>2, Kinds DEF Requests
  <1>2. CASE k \in {"stop", "beat"}
    <2>1. n = 1 \/ n = 2
      BY <1>2, Kinds
    <2> QED
      BY <1>2, <2>1, Kinds
  <1>3. CASE k \in {"available", "offline", "chat"}
    <2>1. n = 1
      BY <1>3, Kinds
    <2> QED
      BY <1>3, <2>1, Kinds
  <1> QED
    BY <1>1, <1>2, <1>3, Kinds

\* A new coroutine is at its first step, which is a request.
LEMMA NewJob ==
    ASSUME NEW k \in DOMAIN Programs, NEW p \in Partners \cup {NoPartner}
    PROVE  JobOK(Job(k, p)) /\ Job(k, p) # Ended
  <1>1. k # "none" /\ 1 \in DOMAIN Programs[k]
    BY Kinds
  <1> QED
    BY <1>1 DEF JobOK, JobRecord, Job, Ended

\* An ended coroutine.
LEMMA EndedJob == JobOK(Ended) /\ Ended.kind = "none" /\ Ended.cancelled = FALSE
  BY DEF JobOK, JobRecord, Ended

\* Every coroutine is Ended or of some kind.
LEMMA LivingJob ==
    ASSUME NEW x, JobOK(x), x # Ended
    PROVE  x.kind \in DOMAIN Programs /\ x.at \in DOMAIN Programs[x.kind]
  BY DEF JobOK, JobRecord

\* CancelBeat cancels the heartbeat it knows, and only that.
LEMMA BeatCancelled ==
    ASSUME Types
    PROVE  /\ CancelBeat(jobs) \in [Jobs -> JobRecord]
           /\ \A i \in Jobs :
                 /\ JobOK(CancelBeat(jobs)[i])
                 /\ CancelBeat(jobs)[i].kind = jobs[i].kind
                 /\ CancelBeat(jobs)[i].at = jobs[i].at
                 /\ CancelBeat(jobs)[i].sent = jobs[i].sent
                 /\ CancelBeat(jobs)[i].partner = jobs[i].partner
                 /\ i = heartbeatJob => CancelBeat(jobs)[i].cancelled
                 /\ i # heartbeatJob => CancelBeat(jobs)[i] = jobs[i]
  <1>1. jobs \in [Jobs -> JobRecord] /\ heartbeatJob \in Jobs \cup {NoJob}
    BY DEF Types, TypeOK, JobRecord
  <1>2. CASE heartbeatJob = NoJob
    BY <1>1, <1>2, PresenceAssumption DEF CancelBeat, Types
  <1>3. CASE heartbeatJob # NoJob
    <2> DEFINE h == heartbeatJob
               x == [jobs[h] EXCEPT !.cancelled = TRUE]
    <2>1. h \in Jobs /\ jobs[h].kind = "beat" /\ JobOK(jobs[h]) /\ jobs[h] # Ended
      BY <1>1, <1>3 DEF Types, Ended
    <2>2. /\ x \in JobRecord /\ x.kind = jobs[h].kind /\ x.at = jobs[h].at
          /\ x.sent = jobs[h].sent /\ x.partner = jobs[h].partner /\ x.cancelled
      BY <1>1, <2>1 DEF JobRecord
    <2>3. JobOK(x)
      BY <2>1, <2>2 DEF JobOK
    <2>4. CancelBeat(jobs) = [jobs EXCEPT ![h] = x]
      BY <1>1, <1>3 DEF CancelBeat
    <2> HIDE DEF x
    <2> QED
      BY <1>1, <2>1, <2>2, <2>3, <2>4 DEF Types
  <1> QED
    BY <1>2, <1>3

\* scope.cancel() cancels every coroutine that has not ended, and changes nothing else.
LEMMA ScopeCancelled ==
    ASSUME Types, jobs' = CancelScope(jobs)
    PROVE  \A i \in Jobs : /\ jobs'[i].kind = jobs[i].kind /\ jobs'[i].at = jobs[i].at
                           /\ jobs'[i].partner = jobs[i].partner
                           /\ jobs[i].kind # "none" => jobs'[i].cancelled
  <1> SUFFICES ASSUME NEW i \in Jobs
               PROVE  /\ jobs'[i].kind = jobs[i].kind /\ jobs'[i].at = jobs[i].at
                      /\ jobs'[i].partner = jobs[i].partner
                      /\ jobs[i].kind # "none" => jobs'[i].cancelled
    OBVIOUS
  <1>1. jobs[i] \in JobRecord
    BY DEF Types, TypeOK, JobRecord
  <1>2. jobs'[i] = IF jobs[i] = Ended THEN Ended ELSE [jobs[i] EXCEPT !.cancelled = TRUE]
    BY DEF CancelScope
  <1>3. CASE jobs[i] = Ended
    BY <1>2, <1>3, EndedJob
  <1>4. CASE jobs[i] # Ended
    <2>1. jobs'[i] = [jobs[i] EXCEPT !.cancelled = TRUE]
      BY <1>2, <1>4
    <2> QED
      BY <1>1, <2>1 DEF JobRecord
  <1> QED
    BY <1>3, <1>4

\* scope.launch starts one coroutine of the given kind, or none.
LEMMA Launched ==
    ASSUME Types, NEW living \in BOOLEAN, NEW k \in DOMAIN Programs,
           NEW p \in Partners \cup {NoPartner}, Launch(living, k, p)
    PROVE  \/ jobs' = jobs
           \/ \E i \in Jobs : jobs[i] = Ended /\ jobs' = [jobs EXCEPT ![i] = Job(k, p)]
  BY DEF Launch

\* A coroutine's record after one of its steps.
StepOf(x, y) ==
    \/ y = Ended
    \/ /\ y.kind = x.kind /\ y.cancelled = x.cancelled /\ y.partner = x.partner
       /\ x.kind = "start" => y.at = x.at \/ (x.at \in 1..2 /\ y.at \in 2..3)

\* A request, an answer, a cancellation or the next beat changes one coroutine, which
\* ends or goes on as the same kind of coroutine; onAppStart's gets past its requests to
\* startHeartbeat only step by step.
LEMMA CoroutineStep ==
    ASSUME Types, NEW j \in Jobs, Request(j) \/ Answer(j) \/ Cancelled(j) \/ NextBeat(j)
    PROVE  /\ jobs[j] # Ended
           /\ \E y : /\ JobOK(y) /\ StepOf(jobs[j], y)
                     /\ jobs' = [jobs EXCEPT ![j] = y]
                     /\ \/ y # Ended /\ UNCHANGED heartbeatJob
                        \/ /\ y = Ended
                           /\ heartbeatJob' = IF heartbeatJob = j THEN NoJob ELSE heartbeatJob
  <1> DEFINE x == jobs[j]
             Goal(y) == /\ JobOK(y) /\ StepOf(x, y)
                        /\ jobs' = [jobs EXCEPT ![j] = y]
                        /\ \/ y # Ended /\ UNCHANGED heartbeatJob
                           \/ /\ y = Ended
                              /\ heartbeatJob' = IF heartbeatJob = j THEN NoJob
                                                 ELSE heartbeatJob
  <1>1. /\ jobs \in [Jobs -> JobRecord] /\ JobOK(x) /\ x \in JobRecord
    BY DEF Types, TypeOK, JobRecord
  <1>2. x # Ended
    BY <1>1 DEF Request, Answer, Cancelled, NextBeat, Ended, Op
  <1>3. /\ x.kind \in DOMAIN Programs /\ x.kind # "none"
        /\ x.at \in DOMAIN Programs[x.kind]
        /\ Op(j) = Programs[x.kind][x.at]
        /\ x.sent => Op(j) \in Requests
    BY <1>1, <1>2 DEF JobOK, JobRecord, Op
  <1>4. ASSUME End(j) PROVE Goal(Ended)
    BY <1>4, EndedJob DEF End, StepOf
  <1>5. ASSUME Request(j) PROVE \E y : Goal(y)
    <2>1. PICK y \in JobRecord : y = [x EXCEPT !.sent = TRUE]
      BY <1>1 DEF JobRecord
    <2>2. /\ y.kind = x.kind /\ y.at = x.at /\ y.cancelled = x.cancelled
          /\ y.partner = x.partner /\ y.sent
      BY <1>1, <2>1 DEF JobRecord
    <2>3. JobOK(y) /\ StepOf(x, y) /\ y # Ended
      BY <1>3, <1>5, <2>2 DEF JobOK, StepOf, Request, Ended
    <2>4. jobs' = [jobs EXCEPT ![j] = y]
      BY <1>5, <2>1 DEF Request
    <2> QED
      BY <1>5, <2>3, <2>4 DEF Request
  <1>6. ASSUME NextBeat(j) PROVE \E y : Goal(y)
    <2>0. 1 \in 1..5
      OBVIOUS
    <2>1. PICK y \in JobRecord : y = [x EXCEPT !.at = 1]
      BY <1>1, <2>0 DEF JobRecord
    <2>2. /\ y.kind = x.kind /\ y.at = 1 /\ y.cancelled = x.cancelled
          /\ y.partner = x.partner /\ y.sent = x.sent
      BY <1>1, <2>1 DEF JobRecord
    <2>3. x.kind = "beat" /\ x.sent = FALSE
      <3>1. "delay" \notin Requests
        BY DEF Requests
      <3> QED
        BY <1>1, <1>3, <1>6, <3>1 DEF NextBeat, JobRecord
    <2>4. JobOK(y) /\ StepOf(x, y) /\ y # Ended
      BY <1>3, <2>2, <2>3, Kinds DEF JobOK, StepOf, Ended
    <2>5. jobs' = [jobs EXCEPT ![j] = y] /\ UNCHANGED heartbeatJob
      BY <1>6, <2>1 DEF NextBeat
    <2> QED
      BY <2>4, <2>5
  <1>7. ASSUME Advance(j), Op(j) \in Requests PROVE \E y : Goal(y)
    <2>1. CASE x.at < Len(Programs[x.kind])
      <3>1. x.at + 1 \in DOMAIN Programs[x.kind] /\ x.at + 1 \in 1..5 /\ x.at \in Nat
        BY <1>1, <1>3, <2>1, Kinds DEF JobRecord
      <3>2. PICK y \in JobRecord : y = [x EXCEPT !.at = x.at + 1, !.sent = FALSE]
        BY <1>1, <3>1 DEF JobRecord
      <3>3. /\ y.kind = x.kind /\ y.at = x.at + 1 /\ y.cancelled = x.cancelled
            /\ y.partner = x.partner /\ y.sent = FALSE
        BY <1>1, <3>2 DEF JobRecord
      <3>4. x.kind = "start" => x.at \in 1..2 /\ y.at \in 2..3
        BY <1>3, <1>7, <3>1, <3>3, Ops
      <3>5. JobOK(y) /\ StepOf(x, y) /\ y # Ended
        BY <1>3, <3>1, <3>3, <3>4 DEF JobOK, StepOf, Ended
      <3>6. jobs' = [jobs EXCEPT ![j] = y] /\ UNCHANGED heartbeatJob
        BY <1>1, <1>7, <2>1, <3>2 DEF Advance
      <3> QED
        BY <3>5, <3>6
    <2>2. CASE ~(x.at < Len(Programs[x.kind]))
      BY <1>4, <1>7, <2>2 DEF Advance
    <2> QED
      BY <2>1, <2>2
  <1>8. ASSUME Answer(j) PROVE \E y : Goal(y)
    <2>1. Op(j) \in Requests
      BY <1>3, <1>8 DEF Answer
    <2> QED
      BY <1>4, <1>7, <1>8, <2>1 DEF Answer
  <1>9. ASSUME Cancelled(j) PROVE \E y : Goal(y)
    BY <1>4, <1>9 DEF Cancelled
  <1> QED
    BY <1>2, <1>5, <1>6, <1>8, <1>9

\* startHeartbeat: one step of onAppStart's coroutine, the third, fourth or fifth.
LEMMA StartStep ==
    ASSUME Types, NEW j \in Jobs, StartHeartbeat(j)
    PROVE  /\ jobs[j].kind = "start"
           /\ \/ /\ jobs[j].at = 3 /\ heartbeatJob # j /\ UNCHANGED heartbeatJob
                 /\ \E y : /\ JobOK(y) /\ y.kind = "start" /\ y.at = 4
                           /\ jobs' = [CancelBeat(jobs) EXCEPT ![j] = y]
              \/ /\ jobs[j].at = 4 /\ heartbeatJob' = NoJob
                 /\ \E y : /\ JobOK(y) /\ y.kind = "start" /\ y.at = 5
                           /\ jobs' = [jobs EXCEPT ![j] = y]
              \/ /\ jobs[j].at = 5 /\ alive
                 /\ heartbeatJob' = j /\ jobs' = [jobs EXCEPT ![j] = Job("beat", NoPartner)]
              \/ /\ jobs[j].at = 5 /\ ~alive
                 /\ heartbeatJob' = NoJob /\ jobs' = [jobs EXCEPT ![j] = Ended]
  <1> DEFINE x == jobs[j]
  <1>1. /\ jobs \in [Jobs -> JobRecord] /\ JobOK(x) /\ x \in JobRecord
    BY DEF Types, TypeOK, JobRecord
  <1>2. x.kind = "start" /\ x # Ended
    BY DEF StartHeartbeat, Ended
  <1>3. /\ x.at \in DOMAIN Programs[x.kind] /\ x.kind \in DOMAIN Programs
        /\ x.sent => Op(j) \in Requests
        /\ Op(j) = Programs[x.kind][x.at]
    BY <1>1, <1>2, Kinds DEF JobOK, JobRecord, Op
  <1>4. /\ Op(j) = "cancel" <=> x.at = 3
        /\ Op(j) = "forget" <=> x.at = 4
        /\ Op(j) = "launch" <=> x.at = 5
        /\ 3 + 1 = 4 /\ 4 + 1 = 5
    BY <1>2, <1>3, Ops
  <1>5. heartbeatJob # j
    BY <1>1, <1>2, PresenceAssumption DEF Types
  <1>6. CASE Op(j) = "cancel"
    <2> DEFINE c == CancelBeat(jobs)[j]
    <2>1. /\ CancelBeat(jobs) \in [Jobs -> JobRecord] /\ c = x
      BY <1>5, BeatCancelled
    <2>2. PICK y \in JobRecord : y = [x EXCEPT !.at = 4]
      <3>1. 4 \in 1..5
        OBVIOUS
      <3> QED
        BY <1>1, <3>1 DEF JobRecord
    <2>3. /\ y.kind = x.kind /\ y.at = 4 /\ y.sent = x.sent
      BY <1>1, <2>2 DEF JobRecord
    <2>4. x.sent = FALSE
      BY <1>1, <1>3, <1>6 DEF Requests, JobRecord
    <2>5. JobOK(y)
      BY <1>2, <2>3, <2>4, Kinds DEF JobOK
    <2>6. jobs' = [CancelBeat(jobs) EXCEPT ![j] = y] /\ UNCHANGED heartbeatJob
      BY <1>4, <1>6, <2>1, <2>2 DEF StartHeartbeat, StopOldBeat
    <2> QED
      BY <1>2, <1>4, <1>5, <1>6, <2>3, <2>5, <2>6
  <1>7. CASE Op(j) = "forget"
    <2>2. PICK y \in JobRecord : y = [x EXCEPT !.at = 5]
      <3>1. 5 \in 1..5
        OBVIOUS
      <3> QED
        BY <1>1, <3>1 DEF JobRecord
    <2>3. /\ y.kind = x.kind /\ y.at = 5 /\ y.sent = x.sent
      BY <1>1, <2>2 DEF JobRecord
    <2>4. x.sent = FALSE
      BY <1>1, <1>3, <1>7 DEF Requests, JobRecord
    <2>5. JobOK(y)
      BY <1>2, <2>3, <2>4, Kinds DEF JobOK
    <2>6. jobs' = [jobs EXCEPT ![j] = y] /\ heartbeatJob' = NoJob
      BY <1>1, <1>4, <1>7, <2>2 DEF StartHeartbeat
    <2> QED
      BY <1>2, <1>4, <1>7, <2>3, <2>5, <2>6
  <1>8. CASE Op(j) = "launch"
    BY <1>2, <1>4, <1>8 DEF StartHeartbeat
  <1> QED
    BY <1>6, <1>7, <1>8 DEF StartHeartbeat

-----------------------------------------------------------------------------
(* Types *)

\* Init has the types.
LEMMA TypesInit == Init => Types
  <1> SUFFICES ASSUME Init PROVE Types
    OBVIOUS
  <1>1. jobs \in [Jobs -> JobRecord] /\ \A i \in Jobs : jobs[i] = Ended /\ JobOK(jobs[i])
    BY EndedJob DEF Init, JobOK
  <1>2. 0 \in 0..MaxFaults /\ 0 \in 0..MaxMoves /\ 0 \in Nat
    BY PresenceAssumption
  <1>3. row \in [active : BOOLEAN, status : {"available", "offline"},
                 chatting : BOOLEAN, partner : Partners \cup {NoPartner},
                 stale : BOOLEAN]
    BY DEF Init
  <1> QED
    BY <1>1, <1>2, <1>3 DEF Init, Types, TypeOK, JobRecord

\* A change of one coroutine keeps the types of the coroutines.
LEMMA OneJob ==
    ASSUME Types, NEW js \in [Jobs -> JobRecord], \A i \in Jobs : JobOK(js[i]),
           NEW j \in Jobs, NEW y, JobOK(y), jobs' = [js EXCEPT ![j] = y]
    PROVE  jobs' \in [Jobs -> JobRecord] /\ \A i \in Jobs : JobOK(jobs'[i])
  BY DEF JobOK

\* What the types say of the coroutines alone.
LEMMA JobTypes ==
    /\ Types => jobs \in [Jobs -> JobRecord] /\ \A i \in Jobs : JobOK(jobs[i])
    /\ jobs \in [Jobs -> JobRecord] /\ (\A i \in Jobs : JobOK(jobs[i]))
       => \A j \in Jobs : jobs[j] = Ended \/ jobs[j].at \in DOMAIN Programs[jobs[j].kind]
  BY DEF Types, TypeOK, JobRecord, JobOK

\* scope.launch keeps the types.
LEMMA LaunchTypes ==
    ASSUME Types, NEW living \in BOOLEAN, NEW k \in DOMAIN Programs,
           NEW p \in Partners \cup {NoPartner}, Launch(living, k, p)
    PROVE  /\ jobs' \in [Jobs -> JobRecord] /\ \A i \in Jobs : JobOK(jobs'[i])
           /\ heartbeatJob # NoJob => jobs'[heartbeatJob].kind = "beat"
  <1>1. CASE jobs' = jobs
    BY <1>1, JobTypes DEF Types
  <1>2. ASSUME NEW i \in Jobs, jobs[i] = Ended, jobs' = [jobs EXCEPT ![i] = Job(k, p)]
        PROVE  /\ jobs' \in [Jobs -> JobRecord] /\ \A n \in Jobs : JobOK(jobs'[n])
               /\ heartbeatJob # NoJob => jobs'[heartbeatJob].kind = "beat"
    <2>1. heartbeatJob # i /\ heartbeatJob \in Jobs \cup {NoJob}
      BY <1>2, EndedJob, PresenceAssumption DEF Types, TypeOK
    <2> QED
      BY <1>2, <2>1, NewJob, OneJob, JobTypes DEF Types
  <1> QED
    BY <1>1, <1>2, Launched

\* The types of everything but the coroutines.
Fields ==
    /\ row \in [active : BOOLEAN, status : {"available", "offline"},
                chatting : BOOLEAN, partner : Partners \cup {NoPartner},
                stale : BOOLEAN]
    /\ initialized \in BOOLEAN /\ appActive \in BOOLEAN /\ alive \in BOOLEAN
    /\ main \in {"free", "stopping", "cleaning", "exiting"}
    /\ launchers \in Nat /\ home \in BOOLEAN
    /\ screen \in Partners \cup {NoPartner}
    /\ raced \in BOOLEAN /\ chatRaced \in BOOLEAN
    /\ faults \in 0..MaxFaults /\ moves \in 0..MaxMoves

\* The types of the coroutines.
Coroutines ==
    /\ jobs \in [Jobs -> JobRecord] /\ \A i \in Jobs : JobOK(jobs[i])
    /\ heartbeatJob \in Jobs \cup {NoJob}
    /\ heartbeatJob # NoJob => jobs[heartbeatJob].kind = "beat"

\* The types in two parts.
LEMMA TypesParts == Types <=> Fields /\ Coroutines
  BY JobTypes DEF Types, TypeOK, Fields, Coroutines, JobRecord

\* What a request writes is a row.
LEMMA RowWritten ==
    ASSUME Fields, NEW op, NEW p \in Partners \cup {NoPartner}
    PROVE  Written(row, op, p) \in [active : BOOLEAN, status : {"available", "offline"},
                                    chatting : BOOLEAN, partner : Partners \cup {NoPartner},
                                    stale : BOOLEAN]
  BY DEF Fields, Written

\* The bounds of the counters are kept.
LEMMA Counters ==
    ASSUME Fields
    PROVE  /\ Fault => faults' \in 0..MaxFaults
           /\ Move => moves' \in 0..MaxMoves
           /\ launchers + 1 \in Nat
           /\ launchers > 0 => launchers - 1 \in Nat
  BY PresenceAssumption DEF Fields, Fault, Move

\* The coroutines' types are kept by a step of one of them.
LEMMA CoroutinesStep ==
    ASSUME Types, NEW j \in Jobs, JobStep(j)
    PROVE  Coroutines'
  <1>1. Coroutines
    BY TypesParts
  <1>2. CASE StartHeartbeat(j)
    <2>1. ASSUME NEW y, JobOK(y), y.kind = "start",
                 jobs' = [CancelBeat(jobs) EXCEPT ![j] = y],
                 heartbeatJob # j, UNCHANGED heartbeatJob
          PROVE  Coroutines'
      <3>1. jobs' \in [Jobs -> JobRecord] /\ \A i \in Jobs : JobOK(jobs'[i])
        BY <2>1, BeatCancelled, OneJob
      <3>2. heartbeatJob # NoJob => jobs'[heartbeatJob].kind = "beat"
        BY <1>1, <2>1, BeatCancelled DEF Coroutines
      <3> QED
        BY <1>1, <2>1, <3>1, <3>2 DEF Coroutines
    <2>2. ASSUME NEW y, JobOK(y), jobs' = [jobs EXCEPT ![j] = y], heartbeatJob' = NoJob
          PROVE  Coroutines'
      BY <1>1, <2>2, OneJob DEF Coroutines
    <2>3. ASSUME jobs' = [jobs EXCEPT ![j] = Job("beat", NoPartner)], heartbeatJob' = j
          PROVE  Coroutines'
      <3>1. JobOK(Job("beat", NoPartner)) /\ Job("beat", NoPartner).kind = "beat"
        BY NewJob, Kinds DEF Job
      <3>2. jobs' \in [Jobs -> JobRecord] /\ \A i \in Jobs : JobOK(jobs'[i])
        BY <1>1, <2>3, <3>1, OneJob DEF Coroutines
      <3>3. jobs'[j].kind = "beat"
        BY <1>1, <2>3, <3>1 DEF Coroutines
      <3> QED
        BY <2>3, <3>2, <3>3 DEF Coroutines
    <2> QED
      BY <1>2, <2>1, <2>2, <2>3, StartStep, EndedJob
  <1>3. CASE ~StartHeartbeat(j)
    <2>1. PICK y : /\ JobOK(y) /\ StepOf(jobs[j], y)
                   /\ jobs' = [jobs EXCEPT ![j] = y]
                   /\ \/ y # Ended /\ UNCHANGED heartbeatJob
                      \/ /\ y = Ended
                         /\ heartbeatJob' = IF heartbeatJob = j THEN NoJob ELSE heartbeatJob
      BY <1>3, CoroutineStep DEF JobStep
    <2>2. jobs' \in [Jobs -> JobRecord] /\ \A i \in Jobs : JobOK(jobs'[i])
      BY <1>1, <2>1, OneJob DEF Coroutines
    <2>3. heartbeatJob' # NoJob =>
              /\ heartbeatJob' = heartbeatJob
              /\ heartbeatJob = j => jobs'[j].kind = jobs[j].kind
              /\ heartbeatJob # j => jobs'[heartbeatJob] = jobs[heartbeatJob]
      BY <1>1, <2>1 DEF Coroutines, StepOf
    <2> QED
      BY <1>1, <2>2, <2>3, <2>1 DEF Coroutines
  <1> QED
    BY <1>2, <1>3

\* Every step keeps the types.
LEMMA TypesStep == Types /\ [Next]_vars => Types'
  <1> SUFFICES ASSUME Types, [Next]_vars PROVE Types'
    OBVIOUS
  <1> USE DEF uiVars, raceVars
  <1>0. Fields /\ Coroutines /\ NoPartner \in Partners \cup {NoPartner}
    BY TypesParts
  <1>00. Fields' /\ Coroutines' => Types'
    BY TypesParts, PTL
  <1>1. ASSUME NEW living \in BOOLEAN, NEW k \in DOMAIN Programs,
               NEW p \in Partners \cup {NoPartner}, Launch(living, k, p),
               UNCHANGED heartbeatJob
        PROVE  Coroutines'
    BY <1>0, <1>00, <1>1, LaunchTypes DEF Coroutines
  <1>2. ASSUME NEW living \in BOOLEAN, OnAppStart(living), UNCHANGED heartbeatJob
        PROVE  Coroutines' /\ appActive' \in BOOLEAN /\ raced' \in BOOLEAN
    BY <1>0, <1>00, <1>1, <1>2, Kinds DEF OnAppStart, Fields
  <1>3. ASSUME jobs' = CancelBeat(jobs), UNCHANGED heartbeatJob
        PROVE  Coroutines'
    BY <1>0, <1>00, <1>3, BeatCancelled DEF Coroutines
  <1>4. CASE Initialize
    <2>1. CASE initialized /\ alive
      BY <1>0, <1>00, <1>4, <2>1, Counters DEF Initialize, Fields, Coroutines
    <2>2. CASE ~(initialized /\ alive)
      <3>1. alive' \in BOOLEAN /\ initialized' \in BOOLEAN /\ UNCHANGED heartbeatJob
            /\ \E living \in BOOLEAN : OnAppStart(living)
        BY <1>0, <1>4, <2>2 DEF Initialize, Fields
      <3>2. Coroutines' /\ appActive' \in BOOLEAN /\ raced' \in BOOLEAN
        BY <1>2, <3>1
      <3> QED
        BY <1>0, <1>00, <1>4, <3>1, <3>2, Counters DEF Initialize, Fields
    <2> QED
      BY <2>1, <2>2
  <1>5. CASE BeginCleanup
    BY <1>0, <1>00, <1>3, <1>5, Counters DEF BeginCleanup, Fields
  <1>6. CASE HomeStart
    BY <1>0, <1>00, <1>2, <1>6, Counters DEF HomeStart, Fields
  <1>7. CASE HomeStop
    BY <1>0, <1>00, <1>3, <1>7, Counters DEF HomeStop, Fields
  <1>8. ASSUME NEW s \in {"available", "offline"}, SetManualStatus(s)
        PROVE  Types'
    <2>1. s \in DOMAIN Programs /\ TRUE \in BOOLEAN
      BY Kinds
    <2>2. Coroutines'
      BY <1>0, <1>1, <1>8, <2>1 DEF SetManualStatus
    <2>3. Fields'
      BY <1>0, <1>8, Counters DEF SetManualStatus, Fields
    <2> QED
      BY <1>00, <2>2, <2>3
  <1>9. ASSUME NEW p \in Partners, OpenChat(p)
        PROVE  Types'
    BY <1>0, <1>00, <1>9, Counters DEF OpenChat, Fields, Coroutines
  <1>10. CASE EnterDirectChat
    BY ZenonT(30), <1>0, <1>00, <1>1, <1>10, Counters, Kinds DEF EnterDirectChat, Fields
  <1>11. CASE ExitDirectChat
    BY <1>0, <1>00, <1>11, Counters DEF ExitDirectChat, Fields, Coroutines
  <1>12. CASE Cleanup
    <2>1. ASSUME NEW i \in Jobs, jobs[i] # Ended
          PROVE  JobOK([jobs[i] EXCEPT !.cancelled = TRUE])
      <3>1. JobOK(jobs[i]) /\ jobs[i] \in JobRecord
        BY <1>0 DEF Coroutines
      <3>2. PICK y \in JobRecord : y = [jobs[i] EXCEPT !.cancelled = TRUE]
        BY <3>1 DEF JobRecord
      <3>3. y.kind = jobs[i].kind /\ y.at = jobs[i].at /\ y.sent = jobs[i].sent
        BY <3>1, <3>2 DEF JobRecord
      <3>4. JobOK(y)
        BY <2>1, <3>1, <3>3 DEF JobOK
      <3> QED
        BY <3>2, <3>4
    <2>2. \A i \in Jobs : JobOK(jobs'[i])
      BY <1>12, <2>1, EndedJob DEF Cleanup, CancelScope
    <2>3. jobs' \in [Jobs -> JobRecord]
      BY <1>12, <2>2 DEF Cleanup, CancelScope, JobOK
    <2>4. Coroutines'
      BY <1>12, <2>2, <2>3 DEF Cleanup, Coroutines
    <2> QED
      BY <1>0, <1>00, <1>12, <2>4 DEF Cleanup, Fields
  <1>13. CASE AppStopped
    <2>1. jobs' \in [Jobs -> JobRecord] /\ \A i \in Jobs : JobOK(jobs'[i])
      BY <1>0, <1>00, <1>13, LaunchTypes, Kinds DEF AppStopped, Fields
    <2> QED
      BY <1>0, <1>00, <1>13, <2>1 DEF AppStopped, Fields, Coroutines
  <1>14. CASE ExitReturns
    <2>1. row' \in [active : BOOLEAN, status : {"available", "offline"},
                    chatting : BOOLEAN, partner : Partners \cup {NoPartner},
                    stale : BOOLEAN]
      BY <1>0, <1>00, <1>14, RowWritten DEF ExitReturns, ExitAnswered, Fields
    <2>2. faults' \in 0..MaxFaults
      BY <1>0, <1>00, <1>14, Counters DEF ExitReturns, ExitAnswered, Fields
    <2> QED
      BY <1>0, <1>00, <1>14, <2>1, <2>2
        DEF ExitReturns, ExitAnswered, Fields, Coroutines
  <1>15. CASE Crash
    BY <1>0, <1>00, <1>15, Counters, EndedJob DEF Crash, Fields, Coroutines, JobOK
  <1>16. CASE Age \/ CleanupInactiveUsers
    <2>1. row' \in [active : BOOLEAN, status : {"available", "offline"},
                    chatting : BOOLEAN, partner : Partners \cup {NoPartner},
                    stale : BOOLEAN]
      BY <1>0, <1>00, <1>16 DEF Age, CleanupInactiveUsers, Fields
    <2> QED
      BY <1>0, <1>00, <1>16, <2>1 DEF Age, CleanupInactiveUsers, Fields, Coroutines
  <1>17. ASSUME NEW j \in Jobs, JobStep(j)
         PROVE  Types'
    <2>1. row' \in [active : BOOLEAN, status : {"available", "offline"},
                    chatting : BOOLEAN, partner : Partners \cup {NoPartner},
                    stale : BOOLEAN]
      <3>1. jobs[j].partner \in Partners \cup {NoPartner}
        BY <1>0 DEF Coroutines, JobRecord
      <3> QED
        BY <1>0, <1>00, <1>17, <3>1, RowWritten
          DEF JobStep, Request, Answer, Cancelled, NextBeat, StartHeartbeat, Fields
    <2>2. faults' \in 0..MaxFaults
      BY <1>0, <1>00, <1>17, Counters
        DEF JobStep, Request, Answer, Cancelled, NextBeat, StartHeartbeat, Fields
    <2>3. UNCHANGED jobFrame
      BY <1>17 DEF JobStep, Request, Answer, Cancelled, NextBeat, StartHeartbeat
    <2> QED
      BY <1>0, <1>00, <1>17, <2>1, <2>2, <2>3, CoroutinesStep DEF Fields, jobFrame
  <1>18. CASE UNCHANGED vars
    BY <1>0, <1>00, <1>18 DEF vars, Fields, Coroutines
  <1> QED
    BY <1>4, <1>5, <1>6, <1>7, <1>8, <1>9, <1>10, <1>11, <1>12, <1>13, <1>14, <1>15,
      <1>16, <1>17, <1>18
      DEF Next, User, MainStep

\* The types are an invariant.
LEMMA TypesInvariant == Spec => []Types
  BY TypesInit, TypesStep, PTL DEF Spec

\* Every coroutine is at a step of its program, and the row is one a request can write.
THEOREM TypeCorrect == Spec => []TypeOK
  BY TypesInvariant, PTL DEF Types

-----------------------------------------------------------------------------
(* One heartbeat *)

\* Unless starts and stops of the app have met: one start at most is in progress, none
\* after the app was stopped; the heartbeat that goes on is heartbeatJob's, and from
\* the cancellation in startHeartbeat to the new launch there is none.
BeatInv ==
    ~raced =>
       /\ \A i, k \in Running("start") : i = k
       /\ ~appActive => Running("start") = {} /\ Beating = {}
       /\ Beating \subseteq {heartbeatJob}
       /\ \A i \in Running("start") : jobs[i].at \in {4, 5} => Beating = {}
       /\ main = "stopping" => ~appActive

\* Nothing is started and no heartbeat is revived: the invariant is kept when the app
\* stays as it is.
LEMMA CalmStep ==
    ASSUME Types, BeatInv, UNCHANGED <<raced, appActive>>,
           Beating' \subseteq Beating, Running("start")' \subseteq Running("start"),
           \A i \in Running("start") : jobs'[i].at \in {4, 5} => jobs[i].at \in {4, 5},
           heartbeatJob \in Beating' => heartbeatJob' = heartbeatJob,
           main' = "stopping" => main = "stopping"
    PROVE  BeatInv'
  BY DEF BeatInv

\* A change of one coroutine, from x to y, which ends or goes on as it was, is calm.
LEMMA CalmJob ==
    ASSUME Types, NEW j \in Jobs, NEW y, StepOf(jobs[j], y),
           jobs' = [jobs EXCEPT ![j] = y]
    PROVE  /\ Beating' \subseteq Beating /\ Running("start")' \subseteq Running("start")
           /\ \A i \in Running("start") : jobs'[i].at \in {4, 5} => jobs[i].at \in {4, 5}
  <1>1. jobs \in [Jobs -> JobRecord]
    BY JobTypes
  <1>2. \A i \in Jobs : jobs'[i] = IF i = j THEN y ELSE jobs[i]
    BY <1>1
  <1>3. y.kind = jobs[j].kind \/ y.kind = "none"
    BY EndedJob DEF StepOf
  <1>4. jobs[j].kind = "beat" => y.kind = "none" \/ y.cancelled = jobs[j].cancelled
    BY EndedJob DEF StepOf
  <1>5. jobs[j].kind = "start" /\ y.at \in {4, 5} => jobs[j].at \in {4, 5}
    BY EndedJob DEF StepOf, Ended
  <1> QED
    BY <1>2, <1>3, <1>4, <1>5 DEF Beating, Running

\* Launching a coroutine that is not a start is calm.
LEMMA CalmLaunch ==
    ASSUME Types, NEW living \in BOOLEAN, NEW k \in DOMAIN Programs \ {"start"}, k # "beat",
           NEW p \in Partners \cup {NoPartner}, Launch(living, k, p)
    PROVE  /\ Beating' \subseteq Beating /\ Running("start")' \subseteq Running("start")
           /\ \A i \in Running("start") : jobs'[i].at \in {4, 5} => jobs[i].at \in {4, 5}
  <1>1. jobs \in [Jobs -> JobRecord]
    BY JobTypes
  <1>2. CASE jobs' = jobs
    BY <1>2 DEF Beating, Running
  <1>3. ASSUME NEW j \in Jobs, jobs[j] = Ended, jobs' = [jobs EXCEPT ![j] = Job(k, p)]
        PROVE  /\ Beating' \subseteq Beating /\ Running("start")' \subseteq Running("start")
               /\ \A i \in Running("start") :
                     jobs'[i].at \in {4, 5} => jobs[i].at \in {4, 5}
    <2>1. Job(k, p).kind = k /\ jobs[j].kind = "none"
      BY <1>3, EndedJob DEF Job
    <2>2. \A i \in Jobs : jobs'[i] = IF i = j THEN Job(k, p) ELSE jobs[i]
      BY <1>1, <1>3
    <2> QED
      BY <2>1, <2>2 DEF Beating, Running
  <1> QED
    BY <1>2, <1>3, Launched

\* onAppStart keeps the invariant: it marks the race when another start is in progress.
LEMMA StartKeepsBeat ==
    ASSUME Types, BeatInv, NEW living \in BOOLEAN, OnAppStart(living),
           UNCHANGED heartbeatJob, main = "free", UNCHANGED main
    PROVE  BeatInv'
  <1> SUFFICES ASSUME ~raced' PROVE BeatInv'
    BY DEF BeatInv
  <1>1. jobs \in [Jobs -> JobRecord] /\ "start" \in DOMAIN Programs
    BY JobTypes, Kinds
  <1>2. ~raced /\ Running("start") = {} /\ appActive' /\ Beating \subseteq {heartbeatJob}
    BY DEF OnAppStart, BeatInv
  <1>3. CASE jobs' = jobs
    <2>1. Running("start")' = Running("start") /\ Beating' = Beating
      BY <1>3 DEF Running, Beating
    <2> QED
      BY <1>2, <2>1 DEF BeatInv
  <1>4. ASSUME NEW j \in Jobs, jobs[j] = Ended,
               jobs' = [jobs EXCEPT ![j] = Job("start", NoPartner)]
        PROVE  BeatInv'
    <2>1. /\ Job("start", NoPartner).kind = "start" /\ Job("start", NoPartner).at = 1
          /\ jobs[j].kind = "none"
      BY <1>4, EndedJob DEF Job
    <2>2. \A i \in Jobs : jobs'[i] = IF i = j THEN Job("start", NoPartner) ELSE jobs[i]
      BY <1>1, <1>4
    <2>3. Running("start")' \subseteq {j} /\ jobs'[j].at \notin {4, 5}
      BY <1>2, <2>1, <2>2 DEF Running
    <2>4. Beating' \subseteq Beating
      BY <2>1, <2>2 DEF Beating, Running
    <2> QED
      BY <1>2, <2>3, <2>4 DEF BeatInv
  <1> QED
    BY <1>1, <1>3, <1>4, Launched DEF OnAppStart

\* startHeartbeat keeps the invariant: it cancels the heartbeat heartbeatJob refers to
\* before it starts the next.
LEMMA HeartbeatKeepsBeat ==
    ASSUME Types, BeatInv, NEW j \in Jobs, StartHeartbeat(j)
    PROVE  BeatInv'
  <1> SUFFICES ASSUME ~raced' PROVE BeatInv'
    BY DEF BeatInv
  <1>1. /\ jobs \in [Jobs -> JobRecord] /\ heartbeatJob \in Jobs \cup {NoJob}
        /\ CancelBeat(jobs) \in [Jobs -> JobRecord]
    BY JobTypes, BeatCancelled DEF Types, TypeOK
  <1>2. UNCHANGED <<raced, appActive, main>> /\ ~raced
    BY DEF StartHeartbeat, jobFrame, raceVars
  <1>3. jobs[j].kind = "start" /\ Running("start") = {j} /\ appActive
    BY <1>2, StartStep DEF BeatInv, Running
  <1>4. Beating \subseteq {heartbeatJob} /\ (jobs[j].at \in {4, 5} => Beating = {})
        /\ (main = "stopping" => ~appActive)
    BY <1>2, <1>3 DEF BeatInv
  <1>5. ASSUME NEW y, y.kind = "start", jobs' = [CancelBeat(jobs) EXCEPT ![j] = y]
        PROVE  BeatInv'
    <2>1. \A i \in Jobs : jobs'[i] = IF i = j THEN y ELSE CancelBeat(jobs)[i]
      BY <1>1, <1>5
    <2>2. Running("start")' = {j}
      BY <1>3, <1>5, <2>1, BeatCancelled DEF Running
    <2>3. Beating' = {}
      BY <1>3, <1>4, <1>5, <2>1, BeatCancelled DEF Running, Beating
    <2> QED
      BY <1>2, <1>3, <1>4, <2>2, <2>3 DEF BeatInv
  <1>6. ASSUME NEW y, y.kind = "start", jobs' = [jobs EXCEPT ![j] = y], jobs[j].at = 4
        PROVE  BeatInv'
    <2>1. \A i \in Jobs : jobs'[i] = IF i = j THEN y ELSE jobs[i]
      BY <1>1, <1>6
    <2>2. Running("start")' = {j} /\ Beating' = {}
      BY <1>3, <1>4, <1>6, <2>1 DEF Running, Beating
    <2> QED
      BY <1>2, <1>3, <1>4, <2>2 DEF BeatInv
  <1>7. ASSUME NEW y, y.kind # "start", jobs' = [jobs EXCEPT ![j] = y], jobs[j].at = 5,
               y.kind = "beat" => heartbeatJob' = j
        PROVE  BeatInv'
    <2>1. \A i \in Jobs : jobs'[i] = IF i = j THEN y ELSE jobs[i]
      BY <1>1, <1>7
    <2>2. Running("start")' = {} /\ Beating' \subseteq {heartbeatJob'}
      BY <1>3, <1>4, <1>7, <2>1 DEF Running, Beating
    <2> QED
      BY <1>2, <1>3, <1>4, <2>2 DEF BeatInv
  <1>8. Ended.kind # "start" /\ Ended.kind # "beat" /\ Job("beat", NoPartner).kind = "beat"
    BY EndedJob DEF Job
  <1> QED
    BY <1>5, <1>6, <1>7, <1>8, StartStep

\* Every step keeps the invariant.
LEMMA BeatStep == Types /\ BeatInv /\ [Next]_vars => BeatInv'
  <1> SUFFICES ASSUME Types, BeatInv, [Next]_vars PROVE BeatInv'
    OBVIOUS
  <1> USE DEF uiVars, raceVars
  <1>1. /\ jobs \in [Jobs -> JobRecord] /\ heartbeatJob \in Jobs \cup {NoJob}
        /\ CancelBeat(jobs) \in [Jobs -> JobRecord] /\ alive \in BOOLEAN
        /\ NoPartner \in Partners \cup {NoPartner} /\ NoJob \notin Jobs
    BY JobTypes, BeatCancelled, PresenceAssumption DEF Types, TypeOK
  <1>2. ASSUME UNCHANGED <<jobs, raced, appActive, heartbeatJob>>,
               main' = "stopping" => main = "stopping"
        PROVE  BeatInv'
    <2>1. Beating' = Beating /\ Running("start")' = Running("start")
      BY <1>2 DEF Beating, Running
    <2> QED
      BY <1>2, <2>1, CalmStep DEF Running
  <1>3. ASSUME NEW living \in BOOLEAN, NEW k \in DOMAIN Programs \ {"start"}, k # "beat",
               NEW p \in Partners \cup {NoPartner}, Launch(living, k, p),
               UNCHANGED <<raced, appActive, heartbeatJob>>,
               main' = "stopping" => main = "stopping"
        PROVE  BeatInv'
    BY <1>3, CalmLaunch, CalmStep
  <1>4. ASSUME jobs' = CancelBeat(jobs), UNCHANGED heartbeatJob
        PROVE  /\ Running("start")' = Running("start")
               /\ Beating' = Beating \ {heartbeatJob}
               /\ \A i \in Jobs : jobs'[i].at = jobs[i].at
    BY <1>4, BeatCancelled DEF Beating, Running
  <1>5. CASE Initialize
    <2>1. CASE initialized /\ alive
      BY <1>2, <1>5, <2>1 DEF Initialize
    <2>2. CASE ~(initialized /\ alive)
      BY <1>1, <1>5, <2>2, StartKeepsBeat DEF Initialize, Move
    <2> QED
      BY <2>1, <2>2
  <1>6. CASE BeginCleanup
    BY <1>4, <1>6, CalmStep DEF BeginCleanup, Running
  <1>7. CASE HomeStart
    BY <1>1, <1>7, StartKeepsBeat DEF HomeStart, Move
  <1>8. CASE HomeStop
    <2>1. ASSUME ~raced'
          PROVE  Running("start")' = {} /\ Beating' = {} /\ ~appActive'
      BY <1>4, <1>8, <2>1 DEF HomeStop, BeatInv
    <2> QED
      BY <2>1 DEF BeatInv
  <1>9. ASSUME NEW s \in {"available", "offline"}, SetManualStatus(s) PROVE BeatInv'
    <2>1. s \in DOMAIN Programs \ {"start"} /\ s # "beat" /\ TRUE \in BOOLEAN
      BY Kinds
    <2> QED
      BY <1>1, <1>3, <1>9, <2>1 DEF SetManualStatus
  <1>10. ASSUME NEW p \in Partners, OpenChat(p) PROVE BeatInv'
    BY <1>2, <1>10 DEF OpenChat
  <1>11. CASE EnterDirectChat
    <2>1. "chat" \in DOMAIN Programs \ {"start"} /\ TRUE \in BOOLEAN
      BY Kinds
    <2>2. screen \in Partners \cup {NoPartner}
      BY DEF Types, TypeOK
    <2> QED
      BY <1>3, <1>11, <2>1, <2>2 DEF EnterDirectChat
  <1>12. CASE ExitDirectChat
    BY <1>2, <1>12 DEF ExitDirectChat
  <1>13. CASE Cleanup
    <2>2. \A i \in Jobs : /\ jobs'[i].kind = jobs[i].kind /\ jobs'[i].at = jobs[i].at
                          /\ jobs[i].kind # "none" => jobs'[i].cancelled
      BY <1>13, ScopeCancelled DEF Cleanup
    <2>3. Running("start")' = Running("start") /\ Beating' = {}
      BY <2>2, EndedJob DEF Running, Beating
    <2> QED
      BY <1>1, <1>13, <2>2, <2>3 DEF Cleanup, BeatInv, Running
  <1>14. CASE AppStopped
    <2>1. "stop" \in DOMAIN Programs \ {"start"}
      BY Kinds
    <2>2. /\ Beating' \subseteq Beating /\ Running("start")' \subseteq Running("start")
      BY <1>1, <1>14, <2>1, CalmLaunch DEF AppStopped
    <2>3. ~raced => Beating = {} /\ Running("start") = {} /\ ~appActive
      BY <1>14 DEF AppStopped, BeatInv
    <2> QED
      BY <1>14, <2>2, <2>3 DEF AppStopped, BeatInv
  <1>15. CASE ExitReturns
    BY <1>2, <1>15 DEF ExitReturns, ExitAnswered
  <1>16. CASE Crash
    <2>1. Running("start")' = {} /\ Beating' = {}
      BY <1>16, EndedJob DEF Crash, Running, Beating
    <2> QED
      BY <1>16, <2>1 DEF Crash, BeatInv
  <1>17. CASE Age \/ CleanupInactiveUsers
    BY <1>2, <1>17 DEF Age, CleanupInactiveUsers
  <1>18. ASSUME NEW j \in Jobs, JobStep(j), ~StartHeartbeat(j) PROVE BeatInv'
    <2>1. UNCHANGED <<raced, appActive, main>>
      BY <1>18 DEF JobStep, Request, Answer, Cancelled, NextBeat, jobFrame
    <2>2. PICK y : /\ JobOK(y) /\ StepOf(jobs[j], y)
                   /\ jobs' = [jobs EXCEPT ![j] = y]
                   /\ \/ y # Ended /\ UNCHANGED heartbeatJob
                      \/ /\ y = Ended
                         /\ heartbeatJob' = IF heartbeatJob = j THEN NoJob ELSE heartbeatJob
      BY <1>18, CoroutineStep DEF JobStep
    <2>3. jobs'[j] = y
      BY <1>1, <2>2
    <2>4. heartbeatJob \in Beating' => heartbeatJob' = heartbeatJob
      BY <2>2, <2>3, EndedJob DEF Beating, Running
    <2> QED
      BY <2>1, <2>2, <2>4, CalmJob, CalmStep
  <1>19. ASSUME NEW j \in Jobs, StartHeartbeat(j) PROVE BeatInv'
    BY <1>19, HeartbeatKeepsBeat
  <1>20. CASE UNCHANGED vars
    BY <1>2, <1>20 DEF vars
  <1> QED
    BY <1>5, <1>6, <1>7, <1>8, <1>9, <1>10, <1>11, <1>12, <1>13, <1>14, <1>15,
      <1>16, <1>17, <1>18, <1>19, <1>20
      DEF Next, User, MainStep, JobStep

\* Whatever the order in which the coroutines run, are cancelled and end: the only
\* heartbeat that goes on is the one heartbeatJob refers to, and none goes on once the
\* app was stopped, unless a start or stop met an unfinished start.
THEOREM OneHeartbeat == Spec => []BeatIsOwned
  <1>1. Init => BeatInv
    BY EndedJob DEF Init, BeatInv, Running, Beating
  <1>2. BeatInv => BeatIsOwned
    BY DEF BeatInv, BeatIsOwned
  <1> QED
    BY <1>1, <1>2, TypesInvariant, BeatStep, PTL DEF Spec

-----------------------------------------------------------------------------
(* The heartbeats of a cancelled scope *)

\* Launching a coroutine of another kind starts no heartbeat.
LEMMA LaunchNoBeat ==
    ASSUME Types, NEW living \in BOOLEAN, NEW k \in DOMAIN Programs, k # "beat",
           NEW p \in Partners \cup {NoPartner}, Launch(living, k, p)
    PROVE  Beating' \subseteq Beating
  <1>1. jobs \in [Jobs -> JobRecord]
    BY JobTypes
  <1>2. CASE jobs' = jobs
    BY <1>2 DEF Beating, Running
  <1>3. ASSUME NEW j \in Jobs, jobs[j] = Ended, jobs' = [jobs EXCEPT ![j] = Job(k, p)]
        PROVE  Beating' \subseteq Beating
    <2>1. Job(k, p).kind = k
      BY DEF Job
    <2>2. \A i \in Jobs : jobs'[i] = IF i = j THEN Job(k, p) ELSE jobs[i]
      BY <1>1, <1>3
    <2> QED
      BY <2>1, <2>2 DEF Beating, Running
  <1> QED
    BY <1>2, <1>3, Launched

\* startHeartbeat starts one only on a living scope.
LEMMA StartNoBeat ==
    ASSUME Types, NEW j \in Jobs, StartHeartbeat(j), ~alive
    PROVE  Beating' \subseteq Beating
  <1>1. jobs \in [Jobs -> JobRecord] /\ CancelBeat(jobs) \in [Jobs -> JobRecord]
    BY JobTypes, BeatCancelled
  <1>2. ASSUME NEW y, y.kind # "beat", jobs' = [CancelBeat(jobs) EXCEPT ![j] = y]
        PROVE  Beating' \subseteq Beating
    <2>1. \A i \in Jobs : jobs'[i] = IF i = j THEN y ELSE CancelBeat(jobs)[i]
      BY <1>1, <1>2
    <2> QED
      BY <1>2, <2>1, BeatCancelled DEF Beating, Running
  <1>3. ASSUME NEW y, y.kind # "beat", jobs' = [jobs EXCEPT ![j] = y]
        PROVE  Beating' \subseteq Beating
    <2>1. \A i \in Jobs : jobs'[i] = IF i = j THEN y ELSE jobs[i]
      BY <1>1, <1>3
    <2> QED
      BY <1>3, <2>1 DEF Beating, Running
  <1> QED
    BY <1>2, <1>3, StartStep, EndedJob

\* Every step keeps a cancelled scope without heartbeats.
LEMMA ScopeStep == Types /\ CleanupEndsBeats /\ [Next]_vars => CleanupEndsBeats'
  <1> SUFFICES ASSUME Types, CleanupEndsBeats, [Next]_vars, ~alive'
               PROVE  Beating' = {}
    BY DEF CleanupEndsBeats
  <1>1. alive \in BOOLEAN /\ NoPartner \in Partners \cup {NoPartner}
    BY DEF Types, TypeOK
  <1>2. ASSUME UNCHANGED alive, Beating' \subseteq Beating
        PROVE  Beating' = {}
    BY <1>2 DEF CleanupEndsBeats
  <1>3. UNCHANGED jobs => Beating' \subseteq Beating
    BY DEF Beating, Running
  <1>4. jobs' = CancelBeat(jobs) => Beating' \subseteq Beating
    BY BeatCancelled DEF Beating, Running
  <1>5. ASSUME NEW living \in BOOLEAN, OnAppStart(living)
        PROVE  Beating' \subseteq Beating
    BY <1>1, <1>5, LaunchNoBeat, Kinds DEF OnAppStart
  <1>6. CASE Initialize
    BY <1>1, <1>2, <1>3, <1>5, <1>6 DEF Initialize
  <1>7. CASE BeginCleanup \/ HomeStop
    BY <1>2, <1>4, <1>7 DEF BeginCleanup, HomeStop
  <1>8. CASE HomeStart
    BY <1>1, <1>2, <1>5, <1>8 DEF HomeStart
  <1>9. ASSUME (\E s \in {"available", "offline"} : SetManualStatus(s))
               \/ EnterDirectChat \/ Crash
        PROVE  FALSE
    BY <1>9 DEF SetManualStatus, EnterDirectChat, Crash
  <1>10. CASE (\E p \in Partners : OpenChat(p)) \/ ExitDirectChat \/ ExitReturns
              \/ Age \/ CleanupInactiveUsers
    BY <1>2, <1>3, <1>10
      DEF OpenChat, ExitDirectChat, ExitReturns, Age, CleanupInactiveUsers
  <1>11. CASE Cleanup
    <2>1. \A i \in Jobs : /\ jobs'[i].kind = jobs[i].kind
                          /\ jobs[i].kind # "none" => jobs'[i].cancelled
      BY <1>11, ScopeCancelled DEF Cleanup
    <2> QED
      BY <2>1 DEF Beating, Running
  <1>12. CASE AppStopped
    <2>1. "stop" \in DOMAIN Programs
      BY Kinds
    <2> QED
      BY <1>1, <1>2, <1>12, <2>1, LaunchNoBeat DEF AppStopped
  <1>13. ASSUME NEW j \in Jobs, JobStep(j) PROVE Beating' = {}
    <2>1. UNCHANGED alive
      BY <1>13
        DEF JobStep, Request, Answer, Cancelled, NextBeat, StartHeartbeat, jobFrame
    <2>2. CASE StartHeartbeat(j)
      BY <1>2, <2>1, <2>2, StartNoBeat
    <2>3. CASE ~StartHeartbeat(j)
      <3>1. Beating' \subseteq Beating
        BY <1>13, <2>3, CoroutineStep, CalmJob DEF JobStep
      <3> QED
        BY <1>2, <2>1, <3>1
    <2> QED
      BY <2>2, <2>3
  <1>14. CASE UNCHANGED vars
    BY <1>2, <1>3, <1>14 DEF vars
  <1> QED
    BY <1>6, <1>7, <1>8, <1>9, <1>10, <1>11, <1>12, <1>13, <1>14
      DEF Next, User, MainStep

\* cleanup leaves no heartbeat, whatever the order of starts and stops before it, and
\* none begins before the scope is replaced.
THEOREM NoOrphans == Spec => []CleanupEndsBeats
  <1>1. Init => CleanupEndsBeats
    BY DEF Init, CleanupEndsBeats
  <1> QED
    BY <1>1, TypesInvariant, ScopeStep, PTL DEF Spec

-----------------------------------------------------------------------------
(* The honest chat status *)

\* Unless an exit met an enter or something failed: an enter in progress is for the
\* partner of the open screen, and exitDirectChat has not begun; and what the property
\* says of the row.
ChatInv ==
    ~chatRaced /\ faults = 0 =>
       /\ \A j \in Running("chat") :
             main # "exiting" /\ screen # NoPartner /\ jobs[j].partner = screen
       /\ main # "exiting" /\ row.chatting => screen # NoPartner /\ row.partner = screen

\* No enter begins and none changes its partner.
ChatsKept ==
    \A i \in Jobs : jobs'[i].kind = "chat" =>
        jobs[i].kind = "chat" /\ jobs'[i].partner = jobs[i].partner

\* Launching a coroutine of another kind.
LEMMA LaunchNoChat ==
    ASSUME Types, NEW living \in BOOLEAN, NEW k \in DOMAIN Programs, k # "chat",
           NEW p \in Partners \cup {NoPartner}, Launch(living, k, p)
    PROVE  ChatsKept
  <1>1. jobs \in [Jobs -> JobRecord]
    BY JobTypes
  <1>2. CASE jobs' = jobs
    BY <1>2 DEF ChatsKept
  <1>3. ASSUME NEW j \in Jobs, jobs[j] = Ended, jobs' = [jobs EXCEPT ![j] = Job(k, p)]
        PROVE  ChatsKept
    <2>1. Job(k, p).kind = k
      BY DEF Job
    <2>2. \A i \in Jobs : jobs'[i] = IF i = j THEN Job(k, p) ELSE jobs[i]
      BY <1>1, <1>3
    <2> QED
      BY <2>1, <2>2 DEF ChatsKept
  <1> QED
    BY <1>2, <1>3, Launched

\* A step of a coroutine starts no enter, and writes a chat only if it is an enter: then
\* "chatting" with the partner it was launched for.
LEMMA CoroutineChat ==
    ASSUME Types, NEW j \in Jobs, JobStep(j)
    PROVE  /\ ChatsKept
           /\ \/ row'.chatting = row.chatting /\ row'.partner = row.partner
              \/ j \in Running("chat") /\ row'.partner = jobs[j].partner
  <1>1. jobs \in [Jobs -> JobRecord] /\ JobOK(jobs[j])
    BY JobTypes
  <1>2. CASE StartHeartbeat(j)
    <2>1. UNCHANGED row
      BY <1>2 DEF StartHeartbeat
    <2>2. CancelBeat(jobs) \in [Jobs -> JobRecord]
          /\ \A i \in Jobs : /\ CancelBeat(jobs)[i].kind = jobs[i].kind
                             /\ CancelBeat(jobs)[i].partner = jobs[i].partner
      BY BeatCancelled
    <2>3. Job("beat", NoPartner).kind = "beat" /\ Ended.kind = "none"
      BY EndedJob DEF Job
    <2>4. ASSUME NEW y, y.kind # "chat",
                 jobs' = [CancelBeat(jobs) EXCEPT ![j] = y] \/ jobs' = [jobs EXCEPT ![j] = y]
          PROVE  ChatsKept
      BY <1>1, <2>2, <2>4 DEF ChatsKept
    <2> QED
      BY <1>2, <2>1, <2>3, <2>4, StartStep
  <1>3. CASE ~StartHeartbeat(j)
    <2>1. PICK y : StepOf(jobs[j], y) /\ jobs' = [jobs EXCEPT ![j] = y]
      BY <1>3, CoroutineStep DEF JobStep
    <2>2. y.kind = "chat" => jobs[j].kind = "chat" /\ y.partner = jobs[j].partner
      BY <2>1, EndedJob DEF StepOf
    <2>3. ChatsKept
      BY <1>1, <2>1, <2>2 DEF ChatsKept
    <2>4. CASE Answer(j) /\ row' = Written(row, Op(j), jobs[j].partner)
      <3>1. jobs[j] # Ended
        BY <2>4, EndedJob DEF Answer, Ended
      <3>3. Op(j) = "chatting" => jobs[j].kind = "chat"
        BY <1>1, <3>1, LivingJob, Ops DEF Op
      <3>4. Op(j) # "left"
        <4>1. Op(j) = "chatting" \/ Op(j) \in Requests \ {"chatting"}
          BY <1>1, <2>4, <3>1 DEF JobOK, Answer, Op
        <4> QED
          BY <4>1 DEF Requests
      <3>5. Op(j) # "chatting" =>
                row'.partner = row.partner /\ (row'.chatting <=> row.chatting)
        BY <2>4, <3>4 DEF Written
      <3>6. row.chatting \in BOOLEAN /\ row'.chatting \in BOOLEAN
        BY <2>4 DEF Written, Types, TypeOK
      <3>7. Op(j) = "chatting" => row'.partner = jobs[j].partner
        BY <2>4 DEF Written
      <3> QED
        BY <2>3, <3>3, <3>5, <3>6, <3>7 DEF Running
    <2>5. CASE UNCHANGED row
      BY <2>3, <2>5
    <2> QED
      BY <1>3, <2>4, <2>5 DEF JobStep, Request, Answer, Cancelled, NextBeat
  <1> QED
    BY <1>2, <1>3

\* Every step keeps the invariant.
LEMMA ChatStep == Types /\ ChatInv /\ [Next]_vars => ChatInv'
  <1> SUFFICES ASSUME Types, ChatInv, [Next]_vars, ~chatRaced', faults' = 0 PROVE ChatInv'
    BY DEF ChatInv
  <1> USE DEF uiVars, raceVars
  <1>1. /\ jobs \in [Jobs -> JobRecord] /\ alive \in BOOLEAN /\ faults \in Nat
        /\ CancelBeat(jobs) \in [Jobs -> JobRecord]
        /\ NoPartner \in Partners \cup {NoPartner} /\ NoPartner \notin Partners
        /\ screen \in Partners \cup {NoPartner}
    BY JobTypes, BeatCancelled, PresenceAssumption DEF Types, TypeOK
  <1>2. ~Fault
    BY <1>1 DEF Fault
  <1>3. ASSUME UNCHANGED <<chatRaced, faults, screen>>,
               row'.chatting = row.chatting, row'.partner = row.partner, ChatsKept,
               main' = "exiting" <=> main = "exiting"
        PROVE  ChatInv'
    BY <1>3 DEF ChatInv, ChatsKept, Running
  <1>4. ASSUME NEW living \in BOOLEAN, OnAppStart(living)
        PROVE  ChatsKept
    BY <1>1, <1>4, LaunchNoChat, Kinds DEF OnAppStart
  <1>5. jobs' = CancelBeat(jobs) => ChatsKept
    BY BeatCancelled DEF ChatsKept
  <1>6. UNCHANGED jobs => ChatsKept
    BY DEF ChatsKept
  <1>7. CASE Initialize
    <2>1. ChatsKept
      BY <1>1, <1>4, <1>6, <1>7 DEF Initialize
    <2> QED
      BY <1>3, <1>7, <2>1 DEF Initialize
  <1>8. CASE BeginCleanup
    BY <1>3, <1>5, <1>8 DEF BeginCleanup
  <1>9. CASE HomeStart
    BY <1>1, <1>3, <1>4, <1>9 DEF HomeStart
  <1>10. CASE HomeStop
    BY <1>3, <1>5, <1>10 DEF HomeStop, Move
  <1>11. ASSUME NEW s \in {"available", "offline"}, SetManualStatus(s) PROVE ChatInv'
    <2>1. s \in DOMAIN Programs /\ s # "chat" /\ TRUE \in BOOLEAN
      BY Kinds
    <2>2. ChatsKept
      BY <1>1, <1>11, <2>1, LaunchNoChat DEF SetManualStatus
    <2> QED
      BY <1>3, <1>11, <2>2 DEF SetManualStatus
  <1>12. ASSUME NEW p \in Partners, OpenChat(p) PROVE ChatInv'
    <2>1. Running("chat")' = Running("chat")
      BY <1>12 DEF OpenChat, Running
    <2> QED
      BY <1>12, <2>1 DEF OpenChat, Move, ChatInv
  <1>13. CASE EnterDirectChat
    <2>1. main = "free" /\ main' = "free" /\ screen # NoPartner
          /\ UNCHANGED <<screen, row, chatRaced, faults>>
      BY <1>13 DEF EnterDirectChat, Move
    <2>2. Launch(TRUE, "chat", screen) /\ "chat" \in DOMAIN Programs /\ TRUE \in BOOLEAN
      BY <1>13, Kinds DEF EnterDirectChat
    <2>3. CASE jobs' = jobs
      BY <1>3, <1>6, <2>1, <2>3
    <2>4. ASSUME NEW i \in Jobs, jobs' = [jobs EXCEPT ![i] = Job("chat", screen)]
          PROVE  ChatInv'
      <3>1. \A k \in Jobs : jobs'[k] = IF k = i THEN Job("chat", screen) ELSE jobs[k]
        BY <1>1, <2>4
      <3>2. Job("chat", screen).partner = screen
        BY DEF Job
      <3> QED
        BY <2>1, <3>1, <3>2 DEF ChatInv, Running
    <2> QED
      BY <1>1, <2>2, <2>3, <2>4, Launched
  <1>14. CASE ExitDirectChat
    <2>1. Running("chat")' = {}
      BY <1>14 DEF ExitDirectChat, Running
    <2> QED
      BY <1>14, <2>1 DEF ExitDirectChat, ChatInv
  <1>15. CASE Cleanup
    <2>1. ChatsKept
      BY <1>15, ScopeCancelled DEF Cleanup, ChatsKept
    <2> QED
      BY <1>3, <1>15, <2>1 DEF Cleanup
  <1>16. CASE AppStopped
    <2>1. ChatsKept
      BY <1>1, <1>16, LaunchNoChat, Kinds DEF AppStopped
    <2> QED
      BY <1>3, <1>16, <2>1 DEF AppStopped
  <1>17. CASE ExitReturns
    <2>1. ~row'.chatting
      <3>1. row' = Written(row, "left", NoPartner)
        BY <1>2, <1>17 DEF ExitReturns, ExitAnswered
      <3> QED
        BY <3>1 DEF Written
    <2>2. Running("chat")' = Running("chat") /\ main = "exiting"
          /\ UNCHANGED <<chatRaced, faults>>
      BY <1>2, <1>17 DEF ExitReturns, ExitAnswered, Running
    <2> QED
      BY <2>1, <2>2 DEF ChatInv
  <1>18. CASE Crash
    BY <1>2, <1>18 DEF Crash
  <1>19. CASE Age \/ CleanupInactiveUsers
    <2>1. row'.chatting = row.chatting /\ row'.partner = row.partner
      BY <1>19 DEF Age, CleanupInactiveUsers, Types, TypeOK
    <2> QED
      BY <1>3, <1>6, <1>19, <2>1 DEF Age, CleanupInactiveUsers
  <1>20. ASSUME NEW j \in Jobs, JobStep(j) PROVE ChatInv'
    <2>1. UNCHANGED <<chatRaced, screen, main, faults>>
      BY <1>2, <1>20
        DEF JobStep, Request, Answer, Cancelled, NextBeat, StartHeartbeat, jobFrame
    <2>2. ChatsKept
      BY <1>20, CoroutineChat
    <2>3. CASE row'.chatting = row.chatting /\ row'.partner = row.partner
      BY <1>3, <2>1, <2>2, <2>3
    <2>4. CASE j \in Running("chat") /\ row'.partner = jobs[j].partner
      BY <2>1, <2>2, <2>4 DEF ChatInv, ChatsKept, Running
    <2> QED
      BY <1>20, <2>3, <2>4, CoroutineChat
  <1>21. CASE UNCHANGED vars
    BY <1>3, <1>6, <1>21 DEF vars
  <1> QED
    BY <1>7, <1>8, <1>9, <1>10, <1>11, <1>12, <1>13, <1>14, <1>15,
      <1>16, <1>17, <1>18, <1>19, <1>20, <1>21
      DEF Next, User, MainStep

\* Unless exitDirectChat met an unfinished enterDirectChat or something failed, the row
\* says "chatting" only while the chat screen is open, and with the partner of that
\* screen, although exitDirectChat leaves the partner of the row as it is.
THEOREM HonestChat == Spec => []ChatIsHonest
  <1>1. Init => ChatInv
    BY EndedJob DEF Init, ChatInv, Running
  <1>2. ChatInv => ChatIsHonest
    BY DEF ChatInv, ChatIsHonest
  <1> QED
    BY <1>1, <1>2, TypesInvariant, ChatStep, PTL DEF Spec

=============================================================================
