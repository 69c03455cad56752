----------------------------- MODULE PushProofs -----------------------------
(***************************************************************************)
(* Proofs about Push for any URLs, any -w and any number of POSTs: types,  *)
(* the lock around the URL, what may end the agent, and how long HTTP      *)
(* waits.                                                                  *)
(***************************************************************************)
EXTENDS Push, SequenceTheorems, TLAPS

-----------------------------------------------------------------------------
(* Types.                                                                  *)

Texts   == Urls \union VacUrls \union {Null}
Command == [url : Texts, old : BOOLEAN]
Answer  == [status : {200, 500}, old : BOOLEAN]
Job     == [h : Handles \union {Null}, url : Texts, old : BOOLEAN, left : Nat]
VacHandles == {"vac.logger", "vac.curl"}
PCs == [mhd   |-> {"starting", "idle", "stats", "rdlock", "locked", "wait", "wrlock", "wrlocked",
                   "check", "set", "verify", "register"},
        timer |-> {"sleep", "rdlock", "locked", "wait"},
        vac   |-> {"check", "set", "verify", "register", "ended"}]

ThreadsTyped ==
    /\ DOMAIN pc = Threads /\ \A t \in Threads : pc[t] \in PCs[t]
    /\ left \in [Threads -> 0 .. 11] /\ blocked \in Nat /\ up \in BOOLEAN
StatsTyped ==
    /\ readers \subseteq Pushers /\ writer \in {Null, "mhd"}
    /\ push_url \in Urls \union {Null}
    /\ vsb \in [Pushers -> {"clear", "finished"}]
CurlTyped ==
    /\ cmd \in [Handles -> Seq(Command)] /\ rep \in [Handles -> Seq(Answer)]
    /\ job \in Job /\ job.left \in 0 .. W /\ (job.h = Null => job = Idle)
    /\ \A h \in ready : h \in Handles /\ cmd[h] # <<>>
OwnersTyped ==
    /\ tid_to_fd \in [VacHandles -> Registrars \union {Null}] /\ uses \in [Registrars -> VacHandles]
    /\ saw \in [Registrars -> Registrars \union {Null}] /\ tid \in [Registrars -> Registrars]
    /\ posted \in 0 .. MaxPosts /\ vac_url \in VacUrls
Typed == ThreadsTyped /\ StatsTyped /\ CurlTyped /\ OwnersTyped

LEMMA TypedTypeOK == Typed => TypeOK
  BY DEF Typed, ThreadsTyped, StatsTyped, CurlTyped, OwnersTyped, TypeOK, PCs, Threads, VacHandles

LEMMA HandlesAre == Handles = {"http.curl", "timer.curl", "vac.curl"}
  BY DEF Handles, Listeners

LEMMA OwnHandles == OwnHandle["mhd"] = "http.curl" /\ OwnHandle["timer"] = "timer.curl"
  BY DEF OwnHandle, Pushers

LEMMA InitTyped == Init => Typed
  BY PushAssumption, HandlesAre DEF Init, Typed, ThreadsTyped, StatsTyped, CurlTyped, OwnersTyped, PCs, Idle, Job, Texts, Command, Answer, Threads, Pushers, Registrars, VacHandles, Null

\* Where a thread is after it went on, or is done.
LEMMA Goes ==
  ASSUME Typed, NEW t \in Threads, NEW p, Go(t, p)
  PROVE  DOMAIN pc' = Threads /\ \A s \in Threads : pc'[s] = IF s = t THEN p ELSE pc[s]
  BY DEF Typed, ThreadsTyped, Go

LEMMA IsDone ==
  ASSUME Typed, NEW t \in Threads, NEW failed, Done(t, failed)
  PROVE  /\ DOMAIN pc' = Threads /\ \A s \in Threads : s # t => pc'[s] = pc[s] /\ left'[s] = left[s]
         /\ pc'[t] = CASE t = "mhd" -> "idle" [] t = "timer" -> "sleep" [] t = "vac" -> "ended"
         /\ left' \in [Threads -> 0 .. 11] /\ left'[t] \in {0, 1, 11}
         /\ t = "timer" => left'[t] >= 1
         /\ blocked' = IF t = "mhd" THEN 0 ELSE blocked
<1>1. /\ DOMAIN pc' = Threads /\ \A s \in Threads : s # t => pc'[s] = pc[s]
      /\ pc'[t] = CASE t = "mhd" -> "idle" [] t = "timer" -> "sleep" [] t = "vac" -> "ended"
  BY Goes DEF Done
<1>. DEFINE seconds == IF t # "timer" THEN 0 ELSE IF failed THEN 11 ELSE 1
<1>2. seconds \in {0, 1, 11} /\ (t = "timer" => seconds >= 1)
  OBVIOUS
<1>3. left' = [left EXCEPT ![t] = seconds] /\ left \in [Threads -> 0 .. 11] /\ blocked' = IF t = "mhd" THEN 0 ELSE blocked
  BY DEF Typed, ThreadsTyped, Done
<1>. HIDE DEF seconds
<1>4. left' \in [Threads -> 0 .. 11] /\ left'[t] = seconds /\ \A s \in Threads : s # t => left'[s] = left[s]
  BY <1>2, <1>3
<1>. QED  BY <1>1, <1>2, <1>3, <1>4

\* What is left behind is as long as before, and nobody's.
LEMMA OldOnes ==
  ASSUME NEW R, \A c \in R : [c EXCEPT !.old = TRUE] \in R /\ [c EXCEPT !.old = TRUE].old = TRUE,
         NEW s \in Seq(R)
  PROVE  /\ Old(s) \in Seq(R) /\ Len(Old(s)) = Len(s)
         /\ \A i \in DOMAIN Old(s) : Old(s)[i].old
         /\ s # <<>> => Old(s) # <<>>
<1>1. Len(s) \in Nat /\ s \in [1 .. Len(s) -> R] /\ DOMAIN s = 1 .. Len(s)
  BY LenProperties
<1>2. Old(s) = [i \in 1 .. Len(s) |-> [s[i] EXCEPT !.old = TRUE]]
  BY <1>1 DEF Old
<1>3. \A i \in 1 .. Len(s) : s[i] \in R
  BY <1>1
<1>4. DOMAIN Old(s) = 1 .. Len(s) /\ \A i \in 1 .. Len(s) : Old(s)[i] \in R /\ Old(s)[i].old
  BY <1>2, <1>3
<1>5. Old(s) \in [1 .. Len(s) -> R]
  BY <1>2, <1>4
<1>6. Old(s) \in Seq(R) /\ Len(Old(s)) = Len(s)
  BY <1>1, <1>5
<1>. QED  BY <1>1, <1>4, <1>6, EmptySeq

LEMMA OldRecords ==
  /\ \A c \in Command : [c EXCEPT !.old = TRUE] \in Command /\ [c EXCEPT !.old = TRUE].old = TRUE
  /\ \A c \in Answer : [c EXCEPT !.old = TRUE] \in Answer /\ [c EXCEPT !.old = TRUE].old = TRUE
  BY DEF Command, Answer

LEMMA Leaves ==
  ASSUME Typed, NEW h \in Handles, NEW answers \in Seq(Answer), Leave(h, answers)
  PROVE  /\ cmd' \in [Handles -> Seq(Command)] /\ rep' \in [Handles -> Seq(Answer)]
         /\ \A g \in Handles : g # h => cmd'[g] = cmd[g] /\ rep'[g] = rep[g]
         /\ \A g \in Handles : cmd[g] # <<>> => cmd'[g] # <<>>
         /\ \A i \in DOMAIN cmd'[h] : cmd'[h][i].old
         /\ \A i \in DOMAIN rep'[h] : rep'[h][i].old
         /\ Len(cmd'[h]) = Len(cmd[h]) /\ Len(rep'[h]) = Len(answers)
         /\ job' \in Job /\ job'.h = job.h /\ job'.url = job.url /\ job'.left = job.left
         /\ job'.old = IF job.h = h THEN TRUE ELSE job.old
         /\ (job' = Idle <=> job = Idle) /\ ready' = ready
<1>1. cmd' = [cmd EXCEPT ![h] = Old(cmd[h])] /\ rep' = [rep EXCEPT ![h] = Old(answers)]
  BY DEF Leave
<1>2. cmd[h] \in Seq(Command)
  BY DEF Typed, CurlTyped
<1>3. h # Null
  BY HandlesAre DEF Null
<1>4. job \in Job /\ (job.h = Null <=> job = Idle)
  BY DEF Typed, CurlTyped, Idle
<1>5. job' = IF job.h = h THEN [job EXCEPT !.old = TRUE] ELSE job
  BY DEF Leave
<1>6. /\ job' \in Job /\ job'.h = job.h /\ job'.url = job.url /\ job'.left = job.left
      /\ job'.old = IF job.h = h THEN TRUE ELSE job.old
  BY <1>4, <1>5 DEF Job
<1>7. job' = Idle <=> job = Idle
  BY <1>3, <1>4, <1>5, <1>6 DEF Idle
<1>8. /\ Old(cmd[h]) \in Seq(Command) /\ Len(Old(cmd[h])) = Len(cmd[h])
      /\ \A i \in DOMAIN Old(cmd[h]) : Old(cmd[h])[i].old
      /\ cmd[h] # <<>> => Old(cmd[h]) # <<>>
  BY <1>2, OldOnes, OldRecords
<1>9. /\ Old(answers) \in Seq(Answer) /\ Len(Old(answers)) = Len(answers)
      /\ \A i \in DOMAIN Old(answers) : Old(answers)[i].old
  BY OldOnes, OldRecords
<1>. QED  BY <1>1, <1>2, <1>6, <1>7, <1>8, <1>9 DEF Typed, CurlTyped, Leave

\* How a push and a registration return: too late, or with the first answer.
LEMMA PushReturns ==
  ASSUME Typed, NEW t \in Pushers, PushAnswered(t) \/ PushTimeout(t)
  PROVE  /\ up /\ pc[t] = "wait" /\ OwnHandle[t] \in Handles
         /\ \E answers \in Seq(Answer) :
              /\ Leave(OwnHandle[t], answers)
              /\ \/ left[t] = 0 /\ answers = <<>>
                 \/ rep[OwnHandle[t]] # <<>> /\ Len(answers) = Len(rep[OwnHandle[t]]) - 1
         /\ Unlock(t) /\ VsbClear(t) /\ (Done(t, TRUE) \/ Done(t, FALSE))
         /\ UNCHANGED <<up, push_url, owners>>
<1>1. OwnHandle[t] \in Handles /\ rep[OwnHandle[t]] \in Seq(Answer)
  BY OwnHandles, HandlesAre DEF Pushers, Typed, CurlTyped
<1>2. CASE PushAnswered(t)
  <2>1. Done(t, TRUE) \/ Done(t, FALSE)
    <3>1. CASE Head(rep[OwnHandle[t]]).status = 200
      BY <1>2, <3>1 DEF PushAnswered, Done
    <3>2. CASE Head(rep[OwnHandle[t]]).status # 200
      BY <1>2, <3>2 DEF PushAnswered, Done
    <3>. QED  BY <3>1, <3>2
  <2>2. rep[OwnHandle[t]] # <<>> /\ Leave(OwnHandle[t], Tail(rep[OwnHandle[t]]))
    BY <1>2 DEF PushAnswered
  <2>3. Tail(rep[OwnHandle[t]]) \in Seq(Answer) /\ Len(Tail(rep[OwnHandle[t]])) = Len(rep[OwnHandle[t]]) - 1
    BY <1>1, <2>2, HeadTailProperties
  <2>. QED  BY <1>1, <1>2, <2>1, <2>2, <2>3 DEF PushAnswered
<1>3. CASE PushTimeout(t)
  BY <1>1, <1>3, EmptySeq DEF PushTimeout
<1>. QED  BY <1>2, <1>3

LEMMA RegisterReturns ==
  ASSUME Typed, NEW t \in Registrars, Registered(t) \/ RegisterTimeout(t)
  PROVE  /\ up /\ pc[t] = "register" /\ "vac.curl" \in Handles
         /\ \E answers \in Seq(Answer) : Leave("vac.curl", answers)
         /\ RegisterDone(t) /\ UNCHANGED <<lock, stats, owners>>
<1>1. "vac.curl" \in Handles /\ rep["vac.curl"] \in Seq(Answer)
  BY HandlesAre DEF Typed, CurlTyped
<1>2. CASE Registered(t)
  <2>1. Tail(rep["vac.curl"]) \in Seq(Answer)
    BY <1>1, <1>2, HeadTailProperties DEF Registered
  <2>. QED  BY <1>1, <1>2, <2>1 DEF Registered
<1>3. CASE RegisterTimeout(t)
  BY <1>1, <1>3, EmptySeq DEF RegisterTimeout
<1>. QED  BY <1>2, <1>3

-----------------------------------------------------------------------------
(* Every step keeps the types.                                             *)

LEMMA GoTyped ==
  ASSUME Typed, NEW t \in Threads, NEW p \in PCs[t], Go(t, p), up' \in BOOLEAN, UNCHANGED <<left, blocked>>
  PROVE  ThreadsTyped'
  BY Goes DEF Typed, ThreadsTyped

LEMMA DoneTyped ==
  ASSUME Typed, NEW t \in Threads, NEW failed, Done(t, failed), up' \in BOOLEAN
  PROVE  ThreadsTyped'
  BY IsDone DEF Typed, ThreadsTyped, PCs, Threads

LEMMA WaitTyped ==
  ASSUME Typed, NEW t \in Threads, NEW p \in PCs[t], Go(t, p), left' = [left EXCEPT ![t] = ReadTimeout],
         up' \in BOOLEAN, UNCHANGED blocked
  PROVE  ThreadsTyped'
  BY Goes DEF Typed, ThreadsTyped, ReadTimeout

LEMMA ThreadsTypedStep == Typed /\ [Next]_vars => ThreadsTyped'
<1>. SUFFICES ASSUME Typed, [Next]_vars PROVE ThreadsTyped'
  OBVIOUS
<1>0. up \in BOOLEAN /\ {"mhd", "timer"} \subseteq Threads /\ "vac" \in Threads
  BY DEF Typed, ThreadsTyped, Threads
<1>. USE DEF PCs
<1>1. CASE UNCHANGED vars \/ Poll \/ issue_curl \/ curl_easy_perform
  BY <1>1 DEF vars, Poll, issue_curl, Performs, curl_easy_perform, Typed, ThreadsTyped
<1>2. CASE MhdStarts \/ vstat_push_test \/ PutUrl \/ WrLock \/ \E u \in VacUrls : vac_register_reply(u)
  BY <1>0, <1>2, GoTyped DEF MhdStarts, vstat_push_test, PutUrl, WrLock, vac_register_reply
<1>3. CASE vstat_reply
  BY <1>0, <1>3, GoTyped DEF vstat_reply, do_json
<1>4. CASE vstat_run
  BY <1>0, <1>4, GoTyped DEF vstat_run
<1>5. CASE StatsSent \/ \E u \in Urls : SetUrl(u)
  BY <1>0, <1>5, DoneTyped DEF StatsSent, SetUrl
<1>6. ASSUME NEW t \in Pushers, Push(t) PROVE ThreadsTyped'
  <2>1. t \in Threads /\ {"locked", "wait"} \subseteq PCs[t]
    BY DEF Pushers, Threads
  <2>2. CASE RdLock(t)
    BY <1>0, <2>1, <2>2, GoTyped DEF RdLock
  <2>3. CASE PushSend(t)
    BY <1>0, <2>1, <2>3, WaitTyped DEF PushSend, do_json
  <2>4. CASE PushNothing(t) \/ PushAnswered(t) \/ PushTimeout(t)
    BY <1>0, <2>1, <2>4, PushReturns, DoneTyped DEF PushNothing
  <2>. QED  BY <1>6, <2>2, <2>3, <2>4 DEF Push
<1>7. ASSUME NEW t \in Registrars, Register(t) PROVE ThreadsTyped'
  <2>1. t \in Threads /\ {"check", "set", "verify", "register"} \subseteq PCs[t]
    BY DEF Registrars, Threads
  <2>2. CASE ReadOwner(t)
    BY <1>0, <2>1, <2>2, GoTyped DEF ReadOwner
  <2>3. CASE SetOwner(t)
    BY <1>0, <2>1, <2>3, GoTyped DEF SetOwner
  <2>4. CASE NotMine(t)
    BY <2>4 DEF NotMine, Typed, ThreadsTyped
  <2>5. CASE Logged(t)
    BY <1>0, <2>1, <2>5, GoTyped, DoneTyped DEF Logged
  <2>6. CASE RegisterSend(t)
    BY <1>0, <2>1, <2>6, WaitTyped DEF RegisterSend
  <2>7. CASE Registered(t) \/ RegisterTimeout(t)
    <3>1. RegisterDone(t)
      BY <2>7 DEF Registered, RegisterTimeout
    <3>2. CASE tid_to_fd["vac.logger"] = tid[t]
      BY <1>0, <2>1, <3>1, <3>2, DoneTyped DEF RegisterDone
    <3>3. CASE tid_to_fd["vac.logger"] # tid[t]
      BY <3>1, <3>3 DEF RegisterDone, Typed, ThreadsTyped
    <3>. QED  BY <3>2, <3>3
  <2>. QED  BY <1>7, <2>2, <2>3, <2>4, <2>5, <2>6, <2>7 DEF Register
<1>8. CASE Tick
  <2>1. \A t \in Threads : left[t] \in 0 .. 11
    BY DEF Typed, ThreadsTyped
  <2>2. left' \in [Threads -> 0 .. 11]
    BY <1>8, <2>1 DEF Tick
  <2>. QED  BY <1>8, <2>2 DEF Tick, Typed, ThreadsTyped
<1>9. "mhd" \in Pushers /\ "timer" \in Pushers /\ "mhd" \in Registrars /\ "vac" \in Registrars
  BY DEF Pushers, Registrars
<1>. QED  BY <1>1, <1>2, <1>3, <1>4, <1>5, <1>6, <1>7, <1>8, <1>9 DEF Next, Serve, Timer, Curl, Ask

LEMMA StatsTypedStep == Typed /\ [Next]_vars => StatsTyped'
<1>. SUFFICES ASSUME Typed, [Next]_vars PROVE StatsTyped'
  OBVIOUS
<1>0. StatsTyped /\ "mhd" \in Pushers /\ "timer" \in Pushers
  BY DEF Typed, Pushers
<1>1. ASSUME UNCHANGED <<lock, stats>> PROVE StatsTyped'
  BY <1>0, <1>1 DEF StatsTyped, lock, stats
<1>2. CASE UNCHANGED vars \/ Curl \/ Tick
  BY <1>1, <1>2 DEF vars, Curl, Poll, issue_curl, Performs, curl_easy_perform, Tick
<1>3. CASE MhdStarts \/ vstat_push_test \/ PutUrl \/ vstat_run \/ \E u \in VacUrls : vac_register_reply(u)
  BY <1>1, <1>3 DEF MhdStarts, vstat_push_test, PutUrl, vstat_run, vac_register_reply
<1>4. ASSUME NEW t \in Registrars, Register(t) PROVE StatsTyped'
  BY <1>1, <1>4 DEF Register, ReadOwner, SetOwner, NotMine, Logged, RegisterSend, Registered, RegisterTimeout, owners
<1>5. ASSUME NEW t \in Pushers, do_json(t) \/ VsbClear(t) PROVE vsb' \in [Pushers -> {"clear", "finished"}]
  BY <1>0, <1>5 DEF StatsTyped, do_json, VsbClear
<1>6. CASE vstat_reply \/ StatsSent
  BY <1>0, <1>5, <1>6 DEF vstat_reply, StatsSent, StatsTyped, lock
<1>7. ASSUME NEW t \in Pushers, Push(t) PROVE StatsTyped'
  <2>1. CASE RdLock(t) \/ PushNothing(t)
    BY <1>0, <2>1 DEF RdLock, PushNothing, Unlock, StatsTyped, stats
  <2>2. CASE PushSend(t) \/ PushAnswered(t) \/ PushTimeout(t)
    BY <1>0, <1>5, <2>2 DEF PushSend, PushAnswered, PushTimeout, Unlock, StatsTyped, lock
  <2>. QED  BY <1>7, <2>1, <2>2 DEF Push
<1>8. CASE WrLock \/ \E u \in Urls : SetUrl(u)
  BY <1>0, <1>8 DEF WrLock, SetUrl, StatsTyped, stats
<1>9. "mhd" \in Registrars /\ "vac" \in Registrars
  BY DEF Registrars
<1>. QED  BY <1>0, <1>2, <1>3, <1>4, <1>6, <1>7, <1>8, <1>9 DEF Next, Serve, Timer, Ask

\* issue_curl takes the first command of the first handle that is ready.
LEMMA Issued ==
  ASSUME Typed, issue_curl
  PROVE  /\ job = Idle
         /\ \E h \in ready :
              /\ h \in Handles /\ cmd[h] # <<>> /\ Len(cmd[h]) \in Nat \ {0} /\ DOMAIN cmd[h] = 1 .. Len(cmd[h])
              /\ h = "http.curl" \/ (h = "timer.curl" /\ "http.curl" \notin ready)
                 \/ (h = "vac.curl" /\ "http.curl" \notin ready /\ "timer.curl" \notin ready)
              /\ job' \in Job /\ job'.h = h /\ job'.left = W
              /\ job'.url = cmd[h][1].url /\ job'.old = cmd[h][1].old
              /\ cmd' \in [Handles -> Seq(Command)] /\ \A g \in Handles : g # h => cmd'[g] = cmd[g]
              /\ cmd'[h] = Tail(cmd[h]) /\ Len(cmd'[h]) = Len(cmd[h]) - 1
              /\ \A i \in DOMAIN cmd'[h] : cmd'[h][i] = cmd[h][i + 1] /\ i + 1 \in DOMAIN cmd[h]
              /\ ready' = ready \ {h}
<1>1. DOMAIN Listeners = 1 .. 3 /\ Listeners[1] = "http.curl" /\ Listeners[2] = "timer.curl" /\ Listeners[3] = "vac.curl"
  BY DEF Listeners
<1>2. PICK i \in 1 .. 3 :
        /\ Listeners[i] \in ready /\ \A j \in 1 .. i - 1 : Listeners[j] \notin ready
        /\ job' = [h |-> Listeners[i], url |-> Head(cmd[Listeners[i]]).url, old |-> Head(cmd[Listeners[i]]).old, left |-> W]
        /\ cmd' = [cmd EXCEPT ![Listeners[i]] = Tail(@)]
        /\ ready' = ready \ {Listeners[i]}
  BY <1>1 DEF issue_curl, Performs
<1>. DEFINE h == Listeners[i]
<1>3. h \in ready /\ h \in Handles /\ cmd[h] # <<>> /\ cmd[h] \in Seq(Command)
  BY <1>2 DEF Typed, CurlTyped
<1>4. h = "http.curl" \/ (h = "timer.curl" /\ "http.curl" \notin ready)
      \/ (h = "vac.curl" /\ "http.curl" \notin ready /\ "timer.curl" \notin ready)
  BY <1>1, <1>2
<1>5. /\ Len(cmd[h]) \in Nat \ {0} /\ DOMAIN cmd[h] = 1 .. Len(cmd[h])
      /\ Head(cmd[h]) = cmd[h][1] /\ cmd[h][1] \in Command
      /\ Tail(cmd[h]) \in Seq(Command) /\ Len(Tail(cmd[h])) = Len(cmd[h]) - 1
      /\ DOMAIN Tail(cmd[h]) = 1 .. Len(cmd[h]) - 1
      /\ \A k \in 1 .. Len(cmd[h]) - 1 : Tail(cmd[h])[k] = cmd[h][k + 1]
  <2>1. /\ Head(cmd[h]) \in Command /\ Tail(cmd[h]) \in Seq(Command) /\ Len(Tail(cmd[h])) = Len(cmd[h]) - 1
        /\ \A k \in 1 .. Len(Tail(cmd[h])) : Tail(cmd[h])[k] = cmd[h][k + 1]
    BY <1>3, HeadTailProperties
  <2>2. Head(cmd[h]) = cmd[h][1]
    BY <1>3
  <2>3. Len(cmd[h]) \in Nat \ {0}
    BY <1>3, EmptySeq
  <2>. QED  BY <1>3, <2>1, <2>2, <2>3, LenProperties
<1>6. job' \in Job /\ job'.h = h /\ job'.left = W /\ job'.url = cmd[h][1].url /\ job'.old = cmd[h][1].old
  BY <1>2, <1>3, <1>5, PushAssumption DEF Job, Command
<1>7. cmd' \in [Handles -> Seq(Command)] /\ cmd'[h] = Tail(cmd[h]) /\ \A g \in Handles : g # h => cmd'[g] = cmd[g]
  BY <1>2, <1>3, <1>5 DEF Typed, CurlTyped
<1>8. \A k \in DOMAIN cmd'[h] : cmd'[h][k] = cmd[h][k + 1] /\ k + 1 \in DOMAIN cmd[h]
  BY <1>5, <1>7
<1>9. job = Idle /\ ready' = ready \ {h}
  BY <1>2 DEF issue_curl, Performs
<1>. HIDE DEF h
<1>. QED  BY <1>3, <1>4, <1>5, <1>6, <1>7, <1>8, <1>9

\* A command written comes last.
LEMMA Writes ==
  ASSUME Typed, NEW h \in Handles, NEW url \in Texts, IpcWrite(h, url)
  PROVE  /\ cmd' \in [Handles -> Seq(Command)] /\ \A g \in Handles : g # h => cmd'[g] = cmd[g]
         /\ Len(cmd[h]) \in Nat /\ Len(cmd'[h]) = Len(cmd[h]) + 1
         /\ DOMAIN cmd'[h] = 1 .. Len(cmd[h]) + 1 /\ DOMAIN cmd[h] = 1 .. Len(cmd[h])
         /\ \A i \in 1 .. Len(cmd[h]) : cmd'[h][i] = cmd[h][i]
         /\ cmd'[h][Len(cmd[h]) + 1].url = url /\ cmd'[h][Len(cmd[h]) + 1].old = FALSE
         /\ \A g \in Handles : cmd[g] # <<>> => cmd'[g] # <<>>
<1>. DEFINE c == [url |-> url, old |-> FALSE]
<1>1. c \in Command /\ c.url = url /\ c.old = FALSE
  BY DEF Command
<1>2. cmd[h] \in Seq(Command) /\ cmd \in [Handles -> Seq(Command)]
  BY DEF Typed, CurlTyped
<1>3. cmd' = [cmd EXCEPT ![h] = Append(cmd[h], c)]
  BY DEF IpcWrite
<1>. HIDE DEF c
<1>4. /\ Append(cmd[h], c) \in Seq(Command) /\ Len(Append(cmd[h], c)) = Len(cmd[h]) + 1
      /\ \A i \in 1 .. Len(cmd[h]) : Append(cmd[h], c)[i] = cmd[h][i]
      /\ Append(cmd[h], c)[Len(cmd[h]) + 1] = c
  BY <1>1, <1>2, AppendProperties
<1>5. Len(cmd[h]) \in Nat /\ DOMAIN cmd[h] = 1 .. Len(cmd[h]) /\ DOMAIN Append(cmd[h], c) = 1 .. Len(cmd[h]) + 1
  BY <1>2, <1>4, LenProperties
<1>6. Append(cmd[h], c) # <<>>
  BY <1>4, <1>5, EmptySeq
<1>. QED  BY <1>1, <1>2, <1>3, <1>4, <1>5, <1>6

\* An answer written comes last, and curl is free.
LEMMA Performed ==
  ASSUME Typed, curl_easy_perform
  PROVE  /\ job.h \in Handles /\ job' = Idle /\ cmd' = cmd /\ ready' = ready
         /\ rep' \in [Handles -> Seq(Answer)] /\ \A g \in Handles : g # job.h => rep'[g] = rep[g]
         /\ Len(rep[job.h]) \in Nat /\ Len(rep'[job.h]) = Len(rep[job.h]) + 1
         /\ DOMAIN rep'[job.h] = 1 .. Len(rep[job.h]) + 1 /\ DOMAIN rep[job.h] = 1 .. Len(rep[job.h])
         /\ \A i \in 1 .. Len(rep[job.h]) : rep'[job.h][i] = rep[job.h][i]
         /\ rep'[job.h][Len(rep[job.h]) + 1].old = job.old
<1>. DEFINE outcomes == (IF Succeeds THEN {200} ELSE {}) \union (IF job.left = 0 \/ job.url = "dead" THEN {500} ELSE {})
<1>0. PICK status \in outcomes : rep' = [rep EXCEPT ![job.h] = Append(@, [status |-> status, old |-> job.old])]
  BY Zenon DEF curl_easy_perform
<1>1. status \in {200, 500}
  BY <1>0, Zenon
<1>2. job.h \in Handles /\ job \in Job
  BY DEF Typed, CurlTyped, Job, curl_easy_perform
<1>. DEFINE h == job.h
            c == [status |-> status, old |-> job.old]
<1>3. c \in Answer /\ c.old = job.old
  BY <1>2 DEF Answer, Job
<1>4. rep[h] \in Seq(Answer) /\ rep \in [Handles -> Seq(Answer)]
  BY <1>2 DEF Typed, CurlTyped
<1>5. rep' = [rep EXCEPT ![h] = Append(rep[h], c)]
  BY <1>0
<1>. HIDE DEF c
<1>6. /\ Append(rep[h], c) \in Seq(Answer) /\ Len(Append(rep[h], c)) = Len(rep[h]) + 1
      /\ \A i \in 1 .. Len(rep[h]) : Append(rep[h], c)[i] = rep[h][i]
      /\ Append(rep[h], c)[Len(rep[h]) + 1] = c
  BY <1>3, <1>4, AppendProperties
<1>7. Len(rep[h]) \in Nat /\ DOMAIN rep[h] = 1 .. Len(rep[h]) /\ DOMAIN Append(rep[h], c) = 1 .. Len(rep[h]) + 1
  BY <1>4, <1>6, LenProperties
<1>. QED  BY <1>2, <1>3, <1>4, <1>5, <1>6, <1>7 DEF curl_easy_perform

\* Which steps change what curl has to do, and how.
Sends(h, url) == IpcWrite(h, url) /\ UNCHANGED <<rep, job, ready>>
LEMMA CurlSteps ==
  ASSUME Typed, [Next]_vars
  PROVE  \/ UNCHANGED curlvars
         \/ Curl
         \/ \E t \in Pushers : PushSend(t)
         \/ \E t \in Registrars : RegisterSend(t)
         \/ \E t \in Pushers : PushAnswered(t) \/ PushTimeout(t)
         \/ \E t \in Registrars : Registered(t) \/ RegisterTimeout(t)
         \/ Tick
<1>1. "mhd" \in Pushers /\ "timer" \in Pushers /\ "mhd" \in Registrars /\ "vac" \in Registrars
  BY DEF Pushers, Registrars
<1>2. CASE UNCHANGED vars
  BY <1>2 DEF vars
<1>3. CASE MhdStarts \/ StatsSent \/ WrLock \/ (\E u \in Urls : SetUrl(u)) \/ vstat_run \/ Ask
  BY <1>3 DEF MhdStarts, StatsSent, WrLock, SetUrl, vstat_run, Ask, vstat_reply, vstat_push_test, PutUrl, vac_register_reply
<1>4. ASSUME NEW t \in Pushers, RdLock(t) \/ PushNothing(t) PROVE UNCHANGED curlvars
  BY <1>4 DEF RdLock, PushNothing
<1>5. ASSUME NEW t \in Registrars, ReadOwner(t) \/ SetOwner(t) \/ NotMine(t) \/ Logged(t) PROVE UNCHANGED curlvars
  BY <1>5 DEF ReadOwner, SetOwner, NotMine, Logged
<1>. QED  BY <1>1, <1>2, <1>3, <1>4, <1>5 DEF Next, Serve, Timer, Push, Register

\* What is sent is a URL.
LEMMA SentTexts ==
  ASSUME Typed
  PROVE  push_url \in Texts /\ vac_url \in Texts
  BY DEF Typed, StatsTyped, OwnersTyped, Texts

LEMMA CurlTypedStep == Typed /\ [Next]_vars => CurlTyped'
<1>. SUFFICES ASSUME Typed, [Next]_vars PROVE CurlTyped'
  OBVIOUS
<1>0. CurlTyped
  BY DEF Typed
<1>1. CASE UNCHANGED curlvars
  BY <1>0, <1>1 DEF CurlTyped, curlvars
<1>2. CASE Poll
  BY <1>0, <1>2 DEF CurlTyped, Poll
<1>3. CASE issue_curl
  <2>1. rep' = rep
    BY <1>3 DEF issue_curl, Performs
  <2>2. job'.h \in Handles /\ job' \in Job /\ job'.left \in 0 .. W
    BY <1>3, Issued, PushAssumption
  <2>3. cmd' \in [Handles -> Seq(Command)] /\ \A h \in ready' : h \in ready /\ cmd'[h] = cmd[h]
    BY <1>0, <1>3, Issued DEF CurlTyped
  <2>4. Null \notin Handles
    BY HandlesAre DEF Null
  <2>. QED  BY <1>0, <2>1, <2>2, <2>3, <2>4 DEF CurlTyped
<1>4. CASE curl_easy_perform
  <2>1. Idle \in Job /\ Idle.left \in 0 .. W
    BY PushAssumption DEF Idle, Job, Texts
  <2>. QED  BY <1>0, <1>4, <2>1, Performed DEF CurlTyped
<1>5. ASSUME NEW h \in Handles, NEW url \in Texts, Sends(h, url) PROVE CurlTyped'
  BY <1>0, <1>5, Writes DEF CurlTyped, Sends
<1>6. ASSUME NEW h \in Handles, NEW answers \in Seq(Answer), Leave(h, answers) PROVE CurlTyped'
  <2>1. job.h = Null <=> job = Idle
    BY <1>0 DEF CurlTyped, Idle
  <2>. QED  BY <1>0, <1>6, <2>1, Leaves DEF CurlTyped
<1>7. CASE Tick
  <2>1. CASE job = Idle
    BY <1>0, <1>7, <2>1 DEF Tick, CurlTyped
  <2>2. CASE job # Idle
    <3>1. job' = [job EXCEPT !.left = job.left - 1] /\ job.left > 0 /\ job \in Job /\ job.h # Null /\ job.left \in 0 .. W
      BY <1>0, <1>7, <2>2 DEF Tick, CurlBusy, CurlTyped
    <3>2. job' \in Job /\ job'.h = job.h /\ job'.left = job.left - 1
      BY <3>1, PushAssumption DEF Job
    <3>. QED  BY <1>0, <1>7, <3>1, <3>2, PushAssumption DEF Tick, CurlTyped
  <2>. QED  BY <2>1, <2>2
<1>8. ASSUME NEW t \in Pushers, PushSend(t) PROVE CurlTyped'
  BY <1>5, <1>8, SentTexts, OwnHandles, HandlesAre DEF PushSend, Sends, Pushers
<1>9. ASSUME NEW t \in Registrars, RegisterSend(t) PROVE CurlTyped'
  BY <1>5, <1>9, SentTexts, HandlesAre DEF RegisterSend, Sends
<1>. QED  BY <1>1, <1>2, <1>3, <1>4, <1>6, <1>7, <1>8, <1>9, CurlSteps, PushReturns, RegisterReturns DEF Curl

LEMMA OwnersTypedStep == Typed /\ [Next]_vars => OwnersTyped'
<1>. SUFFICES ASSUME Typed, [Next]_vars PROVE OwnersTyped'
  OBVIOUS
<1>0. OwnersTyped /\ "mhd" \in Registrars /\ "vac" \in Registrars /\ "mhd" \in Pushers /\ "timer" \in Pushers
  BY DEF Typed, Registrars, Pushers
<1>1. ASSUME UNCHANGED owners PROVE OwnersTyped'
  BY <1>0, <1>1 DEF OwnersTyped, owners
<1>2. CASE UNCHANGED vars \/ Curl \/ Tick \/ vstat_run
  BY <1>1, <1>2 DEF vars, Curl, Poll, issue_curl, Performs, curl_easy_perform, Tick, vstat_run
<1>3. CASE StatsSent \/ WrLock \/ (\E u \in Urls : SetUrl(u)) \/ vstat_reply \/ vstat_push_test \/ PutUrl
  BY <1>1, <1>3 DEF StatsSent, WrLock, SetUrl, vstat_reply, vstat_push_test, PutUrl
<1>4. ASSUME NEW t \in Pushers, Push(t) PROVE OwnersTyped'
  BY <1>1, <1>4 DEF Push, RdLock, PushNothing, PushSend, PushAnswered, PushTimeout
<1>5. CASE MhdStarts
  <2>1. tid' \in [Registrars -> Registrars]
    BY <1>0, <1>5 DEF MhdStarts, OwnersTyped
  <2>. QED  BY <1>0, <1>5, <2>1 DEF MhdStarts, OwnersTyped
<1>6. ASSUME NEW u \in VacUrls, vac_register_reply(u) PROVE OwnersTyped'
  <2>1. posted' \in 0 .. MaxPosts
    BY <1>0, <1>6, PushAssumption DEF vac_register_reply, OwnersTyped
  <2>. QED  BY <1>0, <1>6, <2>1 DEF vac_register_reply, OwnersTyped, VacHandles
<1>7. ASSUME NEW t \in Registrars, Register(t) PROVE OwnersTyped'
  <2>1. CASE ReadOwner(t) \/ SetOwner(t)
    BY <1>0, <2>1 DEF ReadOwner, SetOwner, OwnersTyped
  <2>2. CASE NotMine(t) \/ RegisterSend(t) \/ Registered(t) \/ RegisterTimeout(t)
    BY <1>1, <2>2 DEF NotMine, RegisterSend, Registered, RegisterTimeout
  <2>3. CASE Logged(t)
    BY <1>0, <2>3 DEF Logged, OwnersTyped, VacHandles
  <2>. QED  BY <1>7, <2>1, <2>2, <2>3 DEF Register
<1>. QED  BY <1>0, <1>2, <1>3, <1>4, <1>5, <1>6, <1>7 DEF Next, Serve, Timer, Ask

LEMMA NextTyped == Typed /\ [Next]_vars => Typed'
  BY ThreadsTypedStep, StatsTypedStep, CurlTypedStep, OwnersTypedStep DEF Typed

\* Type correctness; libcurl is never given more time than -w says.
THEOREM TypeCorrect == Spec => []TypeOK
  BY InitTyped, NextTyped, TypedTypeOK, PTL DEF Spec

-----------------------------------------------------------------------------
(* vstat->lck, and the URL a push uses.                                    *)

LockInv ==
    /\ \A t \in Pushers : t \in readers <=> pc[t] \in {"locked", "wait"}
    /\ writer = "mhd" <=> pc["mhd"] = "wrlocked"
    /\ writer # Null => readers = {}

LEMMA LockStep == Typed /\ LockInv /\ [Next]_vars => LockInv'
<1>. SUFFICES ASSUME Typed, LockInv, [Next]_vars PROVE LockInv'
  OBVIOUS
<1>0. /\ Pushers = {"mhd", "timer"} /\ Registrars = {"mhd", "vac"} /\ Threads = {"mhd", "timer", "vac"} /\ Null # "mhd"
      /\ readers \subseteq Pushers /\ writer \in {Null, "mhd"}
  BY DEF Typed, StatsTyped, Pushers, Registrars, Threads, Null
\* A step that leaves the lock alone, of a thread that neither has it nor gets it.
<1>1. ASSUME UNCHANGED lock, NEW t \in Threads, \A s \in Threads : s # t => pc'[s] = pc[s],
             pc[t] \notin {"locked", "wait", "wrlocked"}, pc'[t] \notin {"locked", "wait", "wrlocked"}
      PROVE  LockInv'
  BY <1>0, <1>1 DEF LockInv, lock
<1>2. ASSUME UNCHANGED <<lock, pc>> PROVE LockInv'
  BY <1>0, <1>2 DEF LockInv, lock
<1>3. CASE UNCHANGED vars \/ Curl \/ Tick
  BY <1>2, <1>3 DEF vars, Curl, Poll, issue_curl, Performs, curl_easy_perform, Tick
<1>4. CASE MhdStarts \/ vstat_push_test \/ PutUrl \/ vstat_reply \/ \E u \in VacUrls : vac_register_reply(u)
  BY <1>0, <1>1, <1>4, Goes DEF MhdStarts, vstat_push_test, PutUrl, vstat_reply, vac_register_reply
<1>5. CASE vstat_run
  BY <1>0, <1>1, <1>5, Goes DEF vstat_run
<1>6. CASE StatsSent
  BY <1>0, <1>1, <1>6, IsDone DEF StatsSent
<1>7. CASE WrLock
  BY <1>0, <1>7, Goes DEF WrLock, LockInv
<1>8. ASSUME NEW u \in Urls, SetUrl(u) PROVE LockInv'
  BY <1>0, <1>8, IsDone DEF SetUrl, LockInv
<1>9. ASSUME NEW t \in Pushers, Push(t) PROVE LockInv'
  <2>1. CASE RdLock(t)
    BY <1>0, <2>1, Goes DEF RdLock, LockInv
  <2>2. ASSUME pc[t] \in {"locked", "wait"}, Unlock(t), NEW failed \in BOOLEAN, Done(t, failed) PROVE LockInv'
    BY <1>0, <2>2, IsDone DEF Unlock, LockInv
  <2>3. CASE PushSend(t)
    <3>1. pc[t] = "locked" /\ Go(t, "wait") /\ UNCHANGED lock
      BY <2>3 DEF PushSend
    <3>2. pc'[t] = "wait" /\ \A s \in Threads : s # t => pc'[s] = pc[s]
      BY <1>0, <3>1, Goes
    <3>. QED  BY <1>0, <3>1, <3>2 DEF LockInv, lock
  <2>. QED  BY <1>9, <2>1, <2>2, <2>3, PushReturns DEF Push, PushNothing
<1>10. ASSUME NEW t \in Registrars, Register(t) PROVE LockInv'
  <2>1. CASE ReadOwner(t)
    BY <1>0, <1>1, <2>1, Goes DEF ReadOwner
  <2>2. CASE SetOwner(t)
    BY <1>0, <1>1, <2>2, Goes DEF SetOwner
  <2>3. CASE NotMine(t)
    BY <1>2, <2>3 DEF NotMine
  <2>4. CASE Logged(t)
    <3>1. pc[t] = "verify" /\ UNCHANGED lock /\ (Done(t, TRUE) \/ Go(t, "check"))
      BY <2>4 DEF Logged, Mine
    <3>2. CASE Done(t, TRUE)
      BY <1>0, <1>1, <3>1, <3>2, IsDone
    <3>3. CASE Go(t, "check")
      BY <1>0, <1>1, <3>1, <3>3, Goes
    <3>. QED  BY <3>1, <3>2, <3>3
  <2>5. CASE RegisterSend(t)
    BY <1>0, <1>1, <2>5, Goes DEF RegisterSend, Mine
  <2>6. CASE Registered(t) \/ RegisterTimeout(t)
    <3>1. pc[t] = "register" /\ RegisterDone(t) /\ UNCHANGED lock
      BY <2>6, RegisterReturns
    <3>. QED  BY <1>0, <1>1, <1>2, <3>1, IsDone DEF RegisterDone
  <2>. QED  BY <1>10, <2>1, <2>2, <2>3, <2>4, <2>5, <2>6 DEF Register
<1>. QED  BY <1>0, <1>3, <1>4, <1>5, <1>6, <1>7, <1>8, <1>9, <1>10 DEF Next, Serve, Timer, Ask

\* Who waits in push_stats, and which URL there is, changes in few steps.
LEMMA WaitSteps ==
  ASSUME Typed, LockInv, [Next]_vars, NEW t \in Pushers
  PROVE  /\ pc[t] = "wait" /\ pc'[t] # "wait" => PushAnswered(t) \/ PushTimeout(t)
         /\ pc[t] = "wait" => push_url' = push_url
         /\ pc[t] # "wait" /\ pc'[t] = "wait" => PushSend(t)
<1>0. /\ Pushers = {"mhd", "timer"} /\ Registrars = {"mhd", "vac"} /\ Threads = {"mhd", "timer", "vac"}
      /\ t \in readers <=> pc[t] \in {"locked", "wait"}
  BY DEF Pushers, Registrars, Threads, LockInv
<1>1. CASE UNCHANGED vars \/ Curl \/ Tick
  BY <1>1 DEF vars, stats, Curl, Poll, issue_curl, Performs, curl_easy_perform, Tick
<1>2. CASE MhdStarts \/ vstat_push_test \/ PutUrl \/ vstat_reply \/ WrLock \/ \E u \in VacUrls : vac_register_reply(u)
  BY <1>0, <1>2, Goes DEF MhdStarts, vstat_push_test, PutUrl, vstat_reply, WrLock, vac_register_reply, stats
<1>3. CASE vstat_run
  BY <1>0, <1>3, Goes DEF vstat_run, stats
<1>4. CASE StatsSent
  BY <1>0, <1>4, IsDone DEF StatsSent
<1>5. ASSUME NEW u \in Urls, SetUrl(u) PROVE pc[t] # "wait" /\ pc'[t] # "wait"
  <2>1. readers = {}
    BY <1>5 DEF LockInv, SetUrl, Null, Typed, StatsTyped
  <2>. QED  BY <1>0, <1>5, <2>1, IsDone DEF SetUrl
<1>6. ASSUME NEW s \in Pushers, Push(s)
      PROVE  push_url' = push_url /\ (s # t => pc'[t] = pc[t])
             /\ (pc[s] = "wait" => PushAnswered(s) \/ PushTimeout(s)) /\ (pc'[s] = "wait" => PushSend(s) \/ pc'[s] = pc[s])
  <2>1. CASE RdLock(s)
    BY <1>0, <2>1, Goes DEF RdLock, stats
  <2>4. CASE PushSend(s)
    <3>1. pc[s] = "locked" /\ Go(s, "wait") /\ UNCHANGED push_url
      BY <2>4 DEF PushSend
    <3>. QED  BY <1>0, <2>4, <3>1, Goes
  <2>2. CASE PushNothing(s)
    BY <1>0, <2>2, IsDone DEF PushNothing, stats
  <2>3. CASE PushAnswered(s) \/ PushTimeout(s)
    BY <1>0, <2>3, IsDone, PushReturns
  <2>. QED  BY <1>6, <2>1, <2>2, <2>3, <2>4 DEF Push
<1>7. ASSUME NEW s \in Registrars, Register(s) PROVE push_url' = push_url /\ (pc[t] = "wait" <=> pc'[t] = "wait")
  <2>1. CASE ReadOwner(s)
    BY <1>0, <2>1, Goes DEF ReadOwner, stats
  <2>2. CASE SetOwner(s)
    BY <1>0, <2>2, Goes DEF SetOwner, stats
  <2>3. CASE NotMine(s)
    BY <2>3 DEF NotMine, stats
  <2>4. CASE Logged(s)
    <3>1. pc[s] = "verify" /\ UNCHANGED stats /\ (Done(s, TRUE) \/ Go(s, "check"))
      BY <2>4 DEF Logged, Mine
    <3>2. CASE Done(s, TRUE)
      BY <1>0, <3>1, <3>2, IsDone DEF stats
    <3>3. CASE Go(s, "check")
      BY <1>0, <3>1, <3>3, Goes DEF stats
    <3>. QED  BY <3>1, <3>2, <3>3
  <2>5. CASE RegisterSend(s)
    BY <1>0, <2>5, Goes DEF RegisterSend, Mine, stats
  <2>6. CASE Registered(s) \/ RegisterTimeout(s)
    <3>1. pc[s] = "register" /\ RegisterDone(s) /\ UNCHANGED stats
      BY <2>6, RegisterReturns
    <3>. QED  BY <1>0, <3>1, IsDone DEF RegisterDone, stats
  <2>. QED  BY <1>7, <2>1, <2>2, <2>3, <2>4, <2>5, <2>6 DEF Register
<1>. QED  BY <1>0, <1>1, <1>2, <1>3, <1>4, <1>5, <1>6, <1>7 DEF Next, Serve, Timer, Ask

\* What is under way on a push's handle and not given up is for the URL set.
UrlInv(t) ==
    /\ \A i \in DOMAIN cmd[OwnHandle[t]] :
          ~cmd[OwnHandle[t]][i].old => pc[t] = "wait" /\ cmd[OwnHandle[t]][i].url = push_url
    /\ job.h = OwnHandle[t] /\ ~job.old => pc[t] = "wait" /\ job.url = push_url

LEMMA UrlStep ==
  ASSUME Typed, LockInv, [Next]_vars, NEW t \in Pushers, UrlInv(t)
  PROVE  UrlInv(t)'
<1>. DEFINE h == OwnHandle[t]
<1>0. /\ OwnHandle' = OwnHandle /\ Handles = {"http.curl", "timer.curl", "vac.curl"}
      /\ h \in Handles /\ h # "vac.curl" /\ h # Null /\ \A s \in Pushers : s # t => OwnHandle[s] # h
  BY OwnHandles, HandlesAre DEF Pushers, Null, OwnHandle
<1>. HIDE DEF h
<1>1. CASE PushAnswered(t) \/ PushTimeout(t)
  <2>1. PICK answers \in Seq(Answer) : Leave(h, answers)
    BY <1>1, PushReturns DEF h
  <2>. QED  BY <1>0, <2>1, Leaves DEF UrlInv, h
<1>. SUFFICES ASSUME ~PushAnswered(t), ~PushTimeout(t) PROVE UrlInv(t)'
  BY <1>1
<1>2. pc[t] = "wait" => pc'[t] = "wait" /\ push_url' = push_url
  BY WaitSteps
<1>3. ASSUME cmd'[h] = cmd[h], job'.h = h => job'.old = job.old /\ job'.url = job.url /\ job.h = h
      PROVE  UrlInv(t)'
  BY <1>0, <1>2, <1>3 DEF UrlInv, h
<1>4. CASE UNCHANGED curlvars \/ Poll
  BY <1>3, <1>4 DEF curlvars, Poll
<1>5. CASE issue_curl
  <2>1. PICK g \in ready :
          /\ g \in Handles /\ DOMAIN cmd[g] = 1 .. Len(cmd[g]) /\ Len(cmd[g]) \in Nat \ {0}
          /\ job'.h = g /\ job'.url = cmd[g][1].url /\ job'.old = cmd[g][1].old
          /\ \A f \in Handles : f # g => cmd'[f] = cmd[f]
          /\ \A i \in DOMAIN cmd'[g] : cmd'[g][i] = cmd[g][i + 1] /\ i + 1 \in DOMAIN cmd[g]
    BY <1>5, Issued
  <2>2. CASE g # h
    BY <1>0, <1>3, <2>1, <2>2
  <2>3. CASE g = h
    <3>1. 1 \in DOMAIN cmd[h]
      BY <2>1, <2>3
    <3>. QED  BY <1>0, <1>2, <2>1, <2>3, <3>1 DEF UrlInv, h
  <2>. QED  BY <2>2, <2>3
<1>6. CASE curl_easy_perform
  <2>1. job'.h = Null /\ cmd' = cmd
    BY <1>6, Performed DEF Idle
  <2>. QED  BY <1>0, <1>3, <2>1
<1>7. ASSUME NEW s \in Pushers, PushSend(s) PROVE UrlInv(t)'
  <2>0. IpcWrite(OwnHandle[s], push_url) /\ OwnHandle[s] \in Handles /\ push_url \in Texts /\ push_url' = push_url
        /\ job' = job /\ pc[s] = "locked" /\ Go(s, "wait") /\ s \in Threads
    BY <1>7, OwnHandles, HandlesAre, SentTexts DEF PushSend, Pushers, Threads
  <2>1. CASE s # t
    <3>1. OwnHandle[s] # h
      BY <1>0, <1>7, <2>1
    <3>2. cmd'[h] = cmd[h]
      BY <1>0, <2>0, <3>1, Writes
    <3>. QED  BY <1>3, <2>0, <3>2
  <2>2. CASE s = t
    <3>1. pc'[t] = "wait" /\ pc[t] # "wait"
      BY <2>0, <2>2, Goes
    <3>2. job'.h = h => job'.old = TRUE
      BY <2>0, <2>2, <3>1 DEF UrlInv, h, Typed, CurlTyped, Job
    <3>3. \A i \in 1 .. Len(cmd[h]) : cmd[h][i].old
      BY <2>0, <2>2, <3>1, Writes DEF UrlInv, h
    <3>4. \A i \in DOMAIN cmd'[h] : ~cmd'[h][i].old => cmd'[h][i].url = push_url
      <4>1. /\ DOMAIN cmd'[h] = 1 .. Len(cmd[h]) + 1 /\ Len(cmd[h]) \in Nat
            /\ \A i \in 1 .. Len(cmd[h]) : cmd'[h][i] = cmd[h][i]
            /\ cmd'[h][Len(cmd[h]) + 1].url = push_url
        BY <2>0, <2>2, Writes DEF h
      <4>2. \A i \in DOMAIN cmd'[h] : i \in 1 .. Len(cmd[h]) \/ i = Len(cmd[h]) + 1
        BY <4>1
      <4>. QED  BY <3>3, <4>1, <4>2
    <3>. QED  BY <1>0, <2>0, <3>1, <3>2, <3>4 DEF UrlInv, h
  <2>. QED  BY <2>1, <2>2
<1>8. ASSUME NEW s \in Registrars, RegisterSend(s) PROVE UrlInv(t)'
  BY <1>0, <1>3, <1>8, Writes, SentTexts DEF RegisterSend
<1>9. ASSUME NEW g \in Handles \ {h}, NEW answers \in Seq(Answer), Leave(g, answers) PROVE UrlInv(t)'
  BY <1>0, <1>3, <1>9, Leaves
<1>10. CASE Tick
  <2>1. cmd' = cmd /\ (job' = job \/ (job \in Job /\ job' = [job EXCEPT !.left = job.left - 1]))
    BY <1>10 DEF Tick, Typed, CurlTyped
  <2>2. job'.h = job.h /\ job'.old = job.old /\ job'.url = job.url
    BY <2>1 DEF Job
  <2>. QED  BY <1>3, <2>1, <2>2
<1>11. ASSUME NEW s \in Pushers, PushAnswered(s) \/ PushTimeout(s) PROVE UrlInv(t)'
  BY <1>0, <1>9, <1>11, PushReturns DEF h
<1>12. ASSUME NEW s \in Registrars, Registered(s) \/ RegisterTimeout(s) PROVE UrlInv(t)'
  BY <1>0, <1>9, <1>12, RegisterReturns
<1>. QED  BY <1>4, <1>5, <1>6, <1>7, <1>8, <1>10, <1>11, <1>12, CurlSteps DEF Curl

UrlsHeld == LockInv /\ \A t \in Pushers : UrlInv(t)

LEMMA InitUrls == Init => UrlsHeld
  BY OwnHandles, HandlesAre DEF Init, UrlsHeld, LockInv, UrlInv, Pushers, Idle, Null

\* vstat_push_url stays out as long as a push to the old URL may be performed.
THEOREM UrlStaysHeld == Spec => []UrlHeld
<1>1. Typed /\ UrlsHeld /\ [Next]_vars => UrlsHeld'
  BY LockStep, UrlStep DEF UrlsHeld
<1>2. Typed /\ UrlsHeld => UrlHeld
  BY OwnHandles DEF UrlsHeld, UrlInv, UrlHeld
<1>. QED  BY <1>1, <1>2, InitTyped, NextTyped, InitUrls, PTL DEF Spec

-----------------------------------------------------------------------------
\* A thread that pushes or registers leaves the other ones where they are.
LEMMA PushMoves ==
  ASSUME Typed, NEW s \in Pushers, Push(s)
  PROVE  /\ \A t \in Threads : t # s => pc'[t] = pc[t] /\ left'[t] = left[t]
         /\ pc[s] \in {"rdlock", "locked", "wait"}
         /\ \/ pc'[s] \in {"locked", "wait"} /\ blocked' = blocked
            \/ Done(s, TRUE) \/ Done(s, FALSE)
<1>0. s \in Threads /\ left \in [Threads -> 0 .. 11]
  BY DEF Pushers, Threads, Typed, ThreadsTyped
<1>1. CASE RdLock(s)
  BY <1>0, <1>1, Goes DEF RdLock
<1>2. CASE PushSend(s)
  <2>1. Go(s, "wait") /\ left' = [left EXCEPT ![s] = ReadTimeout] /\ pc[s] = "locked" /\ blocked' = blocked
    BY <1>2 DEF PushSend
  <2>. QED  BY <1>0, <2>1, Goes
<1>3. CASE PushNothing(s) \/ PushAnswered(s) \/ PushTimeout(s)
  <2>1. (Done(s, TRUE) \/ Done(s, FALSE)) /\ pc[s] \in {"rdlock", "locked", "wait"}
    BY <1>3, PushReturns DEF PushNothing
  <2>. QED  BY <1>0, <2>1, IsDone
<1>. QED  BY <1>1, <1>2, <1>3 DEF Push

LEMMA RegisterMoves ==
  ASSUME Typed, NEW s \in Registrars, Register(s)
  PROVE  /\ \A t \in Threads : t # s => pc'[t] = pc[t] /\ left'[t] = left[t]
         /\ pc[s] \in {"check", "set", "verify", "register"}
         /\ posted' = posted /\ vac_url' = vac_url /\ tid' = tid
         /\ \/ pc'[s] \in {"check", "set", "verify", "register"} /\ blocked' = blocked
            \/ Done(s, TRUE) \/ Done(s, FALSE)
<1>0. s \in Threads /\ left \in [Threads -> 0 .. 11]
  BY DEF Registrars, Threads, Typed, ThreadsTyped
<1>1. CASE ReadOwner(s)
  BY <1>0, <1>1, Goes DEF ReadOwner
<1>2. CASE SetOwner(s)
  BY <1>0, <1>2, Goes DEF SetOwner
<1>3. CASE NotMine(s)
  BY <1>0, <1>3 DEF NotMine, owners
<1>4. CASE Logged(s)
  <2>1. /\ pc[s] = "verify" /\ UNCHANGED <<tid, posted, vac_url>>
        /\ Done(s, TRUE) \/ (Go(s, "check") /\ UNCHANGED <<left, blocked>>)
    BY <1>4 DEF Logged, Mine
  <2>2. CASE Done(s, TRUE)
    BY <1>0, <2>1, <2>2, IsDone
  <2>3. CASE Go(s, "check") /\ UNCHANGED <<left, blocked>>
    BY <1>0, <2>1, <2>3, Goes
  <2>. QED  BY <2>1, <2>2, <2>3
<1>5. CASE RegisterSend(s)
  <2>1. /\ pc[s] = "verify" /\ UNCHANGED <<tid, posted, vac_url, blocked>>
        /\ Go(s, "register") /\ left' = [left EXCEPT ![s] = ReadTimeout]
    BY <1>5 DEF RegisterSend, Mine, owners
  <2>. QED  BY <1>0, <2>1, Goes
<1>6. CASE Registered(s) \/ RegisterTimeout(s)
  <2>1. pc[s] = "register" /\ RegisterDone(s) /\ UNCHANGED <<tid, posted, vac_url>>
    BY <1>6, RegisterReturns DEF owners
  <2>2. Done(s, FALSE) \/ UNCHANGED <<pc, left, blocked>>
    BY <2>1 DEF RegisterDone
  <2>3. CASE Done(s, FALSE)
    BY <1>0, <2>1, <2>3, IsDone
  <2>4. CASE UNCHANGED <<pc, left, blocked>>
    BY <1>0, <2>1, <2>4
  <2>. QED  BY <2>2, <2>3, <2>4
<1>. QED  BY <1>1, <1>2, <1>3, <1>4, <1>5, <1>6 DEF Register

-----------------------------------------------------------------------------
(* What may end the agent.                                                 *)

\* do_json asserts an empty vsb: it is one unless the thread's text is in use.
VsbInv == \A t \in Pushers : pc[t] \notin {"stats", "wait"} => vsb[t] = "clear"

LEMMA VsbStep == Typed /\ LockInv /\ VsbInv /\ [Next]_vars => VsbInv'
<1>. SUFFICES ASSUME Typed, LockInv, VsbInv, [Next]_vars, NEW t \in Pushers, pc'[t] \notin {"stats", "wait"}
              PROVE  vsb'[t] = "clear"
  BY DEF VsbInv
<1>0. /\ Pushers = {"mhd", "timer"} /\ Registrars = {"mhd", "vac"} /\ Threads = {"mhd", "timer", "vac"}
      /\ vsb \in [Pushers -> {"clear", "finished"}]
  BY DEF Pushers, Registrars, Threads, Typed, StatsTyped
<1>1. CASE vsb' = vsb /\ pc[t] \notin {"stats", "wait"}
  BY <1>1 DEF VsbInv
<1>2. ASSUME NEW s \in Pushers, VsbClear(s), vsb[t] = "clear" \/ s = t PROVE vsb'[t] = "clear"
  BY <1>0, <1>2 DEF VsbClear
<1>3. CASE pc[t] = "wait"
  BY <1>2, <1>3, WaitSteps, PushReturns
<1>4. CASE pc[t] = "stats"
  <2>1. t = "mhd"
    BY <1>0, <1>4 DEF Typed, ThreadsTyped, PCs
  <2>2. StatsSent \/ pc'[t] = pc[t]
    <3>1. CASE UNCHANGED vars \/ Curl \/ Tick
      BY <3>1 DEF vars, Curl, Poll, issue_curl, Performs, curl_easy_perform, Tick
    <3>2. CASE Timer \/ Register("vac")
      <4>1. CASE vstat_run
        BY <1>0, <2>1, <4>1, Goes DEF vstat_run
      <4>. QED  BY <1>0, <2>1, <3>2, <4>1, PushMoves, RegisterMoves DEF Timer
    <3>3. CASE Serve \/ Ask
      BY <1>0, <1>4, <2>1, <3>3, PushMoves, RegisterMoves
         DEF Serve, Ask, MhdStarts, WrLock, SetUrl, vstat_reply, vstat_push_test, PutUrl, vac_register_reply
    <3>. QED  BY <3>1, <3>2, <3>3 DEF Next
  <2>. QED  BY <1>0, <1>2, <1>4, <2>1, <2>2 DEF StatsSent
<1>5. CASE pc[t] \notin {"stats", "wait"}
  <2>0. vsb[t] = "clear"
    BY <1>5 DEF VsbInv
  <2>1. ASSUME UNCHANGED stats PROVE vsb'[t] = "clear"
    BY <2>0, <2>1 DEF stats
  <2>2. CASE UNCHANGED vars \/ Curl \/ Tick \/ vstat_run
    BY <2>1, <2>2 DEF vars, Curl, Poll, issue_curl, Performs, curl_easy_perform, Tick, vstat_run
  <2>3. CASE MhdStarts \/ WrLock \/ (\E u \in Urls : SetUrl(u)) \/ vstat_push_test \/ PutUrl \/ (\E u \in VacUrls : vac_register_reply(u))
    BY <2>0, <2>1, <2>3 DEF MhdStarts, WrLock, SetUrl, vstat_push_test, PutUrl, vac_register_reply
  <2>4. CASE StatsSent
    BY <1>0, <1>2, <2>0, <2>4 DEF StatsSent
  <2>5. CASE vstat_reply
    <3>1. pc'["mhd"] = "stats" /\ (t = "mhd" \/ vsb'[t] = vsb[t])
      BY <1>0, <2>5, Goes DEF vstat_reply, do_json
    <3>. QED  BY <2>0, <3>1
  <2>6. ASSUME NEW s \in Pushers, Push(s) PROVE vsb'[t] = "clear"
    <3>1. CASE RdLock(s) \/ PushNothing(s)
      BY <2>1, <3>1 DEF RdLock, PushNothing
    <3>2. CASE PushSend(s)
      <4>1. pc'[s] = "wait" /\ (t = s \/ vsb'[t] = vsb[t])
        BY <1>0, <3>2, Goes DEF PushSend, do_json
      <4>. QED  BY <2>0, <4>1
    <3>3. CASE PushAnswered(s) \/ PushTimeout(s)
      BY <1>2, <2>0, <3>3, PushReturns
    <3>. QED  BY <2>6, <3>1, <3>2, <3>3 DEF Push
  <2>7. ASSUME NEW s \in Registrars, Register(s) PROVE vsb'[t] = "clear"
    BY <2>1, <2>7 DEF Register, ReadOwner, SetOwner, NotMine, Logged, RegisterSend, Registered, RegisterTimeout
  <2>. QED  BY <1>0, <2>2, <2>3, <2>4, <2>5, <2>6, <2>7 DEF Next, Serve, Timer, Ask
<1>. QED  BY <1>3, <1>4, <1>5

\* Without POST /vac_register, the registration's handles are its own thread's.
OwnersInv == posted = 0 =>
    /\ up
    /\ pc["mhd"] \notin {"check", "set", "verify", "register"}
    /\ tid["vac"] = "vac"
    /\ \A h \in VacHandles : tid_to_fd[h] \in {Null, "vac"}
    /\ pc["vac"] = "verify" => tid_to_fd[uses["vac"]] = "vac"
    /\ uses["vac"] = "vac.curl" \/ pc["vac"] = "register" => tid_to_fd["vac.logger"] = "vac"

LEMMA OwnersStep == Typed /\ VsbInv /\ OwnersInv /\ [Next]_vars => OwnersInv'
<1>. SUFFICES ASSUME Typed, VsbInv, OwnersInv, [Next]_vars, posted' = 0 PROVE OwnersInv'
  BY DEF OwnersInv
<1>0. /\ Pushers = {"mhd", "timer"} /\ Registrars = {"mhd", "vac"} /\ Threads = {"mhd", "timer", "vac"}
      /\ VacHandles = {"vac.logger", "vac.curl"} /\ Null # "vac" /\ OwnersTyped /\ ThreadsTyped
  BY DEF Pushers, Registrars, Threads, VacHandles, Null, Typed
<1>1. posted \in Nat /\ (posted' = posted \/ posted' = posted + 1)
  <2>1. posted \in Nat
    BY <1>0, PushAssumption DEF OwnersTyped
  <2>2. ASSUME NEW s \in Pushers, Push(s) PROVE posted' = posted
    BY <2>2 DEF Push, RdLock, PushNothing, PushSend, PushAnswered, PushTimeout, owners
  <2>3. CASE Curl
    BY <2>3 DEF Curl, Poll, issue_curl, Performs, curl_easy_perform, owners
  <2>4. CASE UNCHANGED owners \/ MhdStarts
    BY <2>4 DEF MhdStarts, owners
  <2>5. CASE StatsSent \/ WrLock \/ (\E u \in Urls : SetUrl(u)) \/ vstat_run \/ vstat_reply \/ vstat_push_test \/ PutUrl
             \/ Tick \/ UNCHANGED vars
    BY <2>4, <2>5 DEF StatsSent, WrLock, SetUrl, vstat_run, vstat_reply, vstat_push_test, PutUrl, Tick, vars
  <2>7. ASSUME NEW u \in VacUrls, vac_register_reply(u) PROVE posted' = posted + 1
    BY <2>7 DEF vac_register_reply
  <2>6. ASSUME NEW s \in Registrars, Register(s) PROVE posted' = posted
    BY <2>6, RegisterMoves
  <2>. QED  BY <1>0, <2>1, <2>2, <2>3, <2>4, <2>5, <2>6, <2>7 DEF Next, Serve, Timer, Ask, owners
<1>2. posted = 0
  BY <1>1
<1>. USE <1>2
\* A step of a thread that does not register.
<1>3. ASSUME up' = up, UNCHANGED <<tid_to_fd, uses>>, tid' = tid \/ tid' = [tid EXCEPT !["mhd"] = "vac"],
             pc' = pc \/ (pc'["vac"] = pc["vac"] /\ pc'["mhd"] \notin {"check", "set", "verify", "register"})
      PROVE  OwnersInv'
  BY <1>0, <1>3 DEF OwnersInv, OwnersTyped
<1>4. CASE UNCHANGED vars \/ Curl \/ Tick
  BY <1>3, <1>4 DEF vars, owners, Curl, Poll, issue_curl, Performs, curl_easy_perform, Tick
<1>5. CASE MhdStarts \/ vstat_push_test \/ PutUrl \/ WrLock
  BY <1>0, <1>3, <1>5, Goes DEF MhdStarts, vstat_push_test, PutUrl, WrLock, owners
<1>6. CASE vstat_run
  BY <1>0, <1>3, <1>6, Goes DEF vstat_run, owners, OwnersInv
<1>7. CASE StatsSent \/ \E u \in Urls : SetUrl(u)
  BY <1>0, <1>3, <1>7, IsDone DEF StatsSent, SetUrl, owners
<1>8. CASE vstat_reply
  <2>1. up' = up
    BY <1>0, <1>8 DEF vstat_reply, do_json, VsbInv
  <2>. QED  BY <1>0, <1>3, <1>8, <2>1, Goes DEF vstat_reply, owners
<1>9. ASSUME NEW u \in VacUrls, vac_register_reply(u) PROVE FALSE
  BY <1>9 DEF vac_register_reply
<1>10. ASSUME NEW s \in Pushers, Push(s) PROVE OwnersInv'
  <2>0. "mhd" # s => pc["mhd"] \notin {"check", "set", "verify", "register"}
    BY DEF OwnersInv
  <2>1. CASE RdLock(s)
    BY <1>0, <1>3, <2>0, <2>1, Goes DEF RdLock, owners
  <2>2. CASE PushSend(s)
    <3>1. up' = up /\ Go(s, "wait") /\ UNCHANGED owners
      BY <2>2 DEF PushSend, do_json, VsbInv
    <3>. QED  BY <1>0, <1>3, <2>0, <3>1, Goes DEF owners
  <2>3. ASSUME NEW failed \in BOOLEAN, Done(s, failed), up' = up, UNCHANGED owners PROVE OwnersInv'
    BY <1>0, <1>3, <2>0, <2>3, IsDone DEF owners
  <2>. QED  BY <1>10, <2>1, <2>2, <2>3, PushReturns DEF Push, PushNothing
<1>11. ASSUME NEW s \in Registrars, Register(s) PROVE OwnersInv'
  <2>0. s = "vac" /\ pc'["mhd"] = pc["mhd"]
    BY <1>0, <1>11, RegisterMoves DEF OwnersInv
  <2>1. CASE ReadOwner(s)
    BY <1>0, <2>0, <2>1, Goes DEF ReadOwner, OwnersInv, OwnersTyped
  <2>2. CASE SetOwner(s)
    BY <1>0, <2>0, <2>2, Goes DEF SetOwner, OwnersInv, OwnersTyped
  <2>3. CASE NotMine(s)
    BY <2>0, <2>3 DEF NotMine, OwnersInv
  <2>4. CASE Logged(s)
    <3>1. uses["vac"] = "vac.logger" /\ tid_to_fd["vac.logger"] = "vac" /\ UNCHANGED <<up, tid_to_fd, tid>>
      BY <1>0, <2>0, <2>4 DEF Logged, Mine, OwnersInv
    <3>2. CASE Done(s, TRUE) /\ uses' = uses
      BY <1>0, <2>0, <3>1, <3>2, IsDone DEF OwnersInv
    <3>3. CASE Go(s, "check") /\ uses' = [uses EXCEPT ![s] = "vac.curl"]
      BY <1>0, <2>0, <3>1, <3>3, Goes DEF OwnersInv, OwnersTyped
    <3>. QED  BY <2>4, <3>2, <3>3 DEF Logged
  <2>5. CASE RegisterSend(s)
    BY <1>0, <2>0, <2>5, Goes DEF RegisterSend, Mine, OwnersInv, OwnersTyped, owners
  <2>6. CASE Registered(s) \/ RegisterTimeout(s)
    BY <1>0, <2>0, <2>6, IsDone, RegisterReturns DEF RegisterDone, OwnersInv, OwnersTyped, owners
  <2>. QED  BY <1>11, <2>1, <2>2, <2>3, <2>4, <2>5, <2>6 DEF Register
<1>. QED  BY <1>0, <1>4, <1>5, <1>6, <1>7, <1>8, <1>9, <1>10, <1>11 DEF Next, Serve, Timer, Ask

AbortsInv == LockInv /\ VsbInv /\ OwnersInv

LEMMA InitAborts == Init => AbortsInv
  BY HandlesAre DEF Init, AbortsInv, LockInv, VsbInv, OwnersInv, Pushers, Registrars, VacHandles, Null

\* As long as nobody asks for POST /vac_register no assert fails: do_json finds
\* its vsb empty, and the registration's handles are its own thread's.
THEOREM OnlyVacAborts == Spec => []AbortsByVacOnly
<1>1. Typed /\ AbortsInv /\ [Next]_vars => AbortsInv'
  BY LockStep, VsbStep, OwnersStep DEF AbortsInv
<1>2. Typed /\ AbortsInv => AbortsByVacOnly
  <2>1. Typed => posted \in Nat
    BY PushAssumption DEF Typed, OwnersTyped
  <2>. QED  BY <2>1 DEF AbortsInv, OwnersInv, AbortsByVacOnly
<1>. QED  BY <1>1, <1>2, InitTyped, NextTyped, InitAborts, PTL DEF Spec

-----------------------------------------------------------------------------
(* How long HTTP waits.                                                     *)

\* A request waits for curl or for the lock; the lock is had by the timer's
\* push, or to be taken before any more time passes.
WaitInv ==
    /\ pc["timer"] = "wait" => left["timer"] <= ReadTimeout
    /\ pc["mhd"] \in {"wait", "register"} => blocked + left["mhd"] <= ReadTimeout
    /\ pc["mhd"] = "wrlock" =>
          \/ blocked = 0
          \/ pc["timer"] = "wait" /\ blocked + left["timer"] <= ReadTimeout
          \/ pc["timer"] = "sleep" /\ left["timer"] > 0 /\ blocked <= ReadTimeout
    /\ pc["mhd"] = "wrlocked" => blocked <= ReadTimeout
    /\ pc["mhd"] \notin {"wait", "register", "wrlock", "wrlocked"} => blocked = 0

LEMMA WaitStep == Typed /\ LockInv /\ WaitInv /\ [Next]_vars => WaitInv'
<1>. SUFFICES ASSUME Typed, LockInv, WaitInv, [Next]_vars PROVE WaitInv'
  OBVIOUS
<1>0. /\ Pushers = {"mhd", "timer"} /\ Registrars = {"mhd", "vac"} /\ Threads = {"mhd", "timer", "vac"} /\ Null # "mhd"
      /\ left \in [Threads -> 0 .. 11] /\ blocked \in Nat /\ readers \subseteq Pushers /\ writer \in {Null, "mhd"}
      /\ pc["timer"] \in PCs["timer"] /\ left["mhd"] \in 0 .. 11 /\ left["timer"] \in 0 .. 11
  BY DEF Typed, ThreadsTyped, StatsTyped, Pushers, Registrars, Threads, Null
<1>. USE DEF ReadTimeout
<1>1. ASSUME UNCHANGED <<left, blocked>>,
             pc'["mhd"] = pc["mhd"] \/ (blocked = 0 /\ pc'["mhd"] \notin {"wait", "register"}), pc'["timer"] = pc["timer"]
      PROVE  WaitInv'
  BY <1>0, <1>1 DEF WaitInv
<1>2. CASE UNCHANGED vars \/ Curl
  BY <1>1, <1>2 DEF vars, Curl, Poll, issue_curl, Performs, curl_easy_perform
<1>3. CASE MhdStarts \/ vstat_push_test \/ PutUrl \/ vstat_reply \/ \E u \in VacUrls : vac_register_reply(u)
  <2>1. pc["mhd"] \in {"starting", "idle"} /\ UNCHANGED <<left, blocked>> /\ pc'["timer"] = pc["timer"]
        /\ pc'["mhd"] \in {"idle", "rdlock", "wrlock", "stats", "check"}
    BY <1>0, <1>3, Goes DEF MhdStarts, vstat_push_test, PutUrl, vstat_reply, vac_register_reply
  <2>2. blocked = 0
    BY <2>1 DEF WaitInv
  <2>. QED  BY <1>1, <2>1, <2>2
<1>4. CASE vstat_run
  <2>1. /\ pc["timer"] = "sleep" /\ left["timer"] = 0 /\ pc'["timer"] = "rdlock" /\ pc'["mhd"] = pc["mhd"]
        /\ UNCHANGED <<left, blocked>>
    BY <1>0, <1>4, Goes DEF vstat_run
  <2>. QED  BY <1>0, <2>1 DEF WaitInv
<1>5. ASSUME NEW failed \in BOOLEAN, Done("mhd", failed) PROVE WaitInv'
  <2>1. pc'["mhd"] = "idle" /\ pc'["timer"] = pc["timer"] /\ left'["timer"] = left["timer"] /\ blocked' = 0
    BY <1>0, <1>5, IsDone
  <2>. QED  BY <1>0, <2>1 DEF WaitInv
<1>6. CASE StatsSent \/ \E u \in Urls : SetUrl(u)
  BY <1>5, <1>6 DEF StatsSent, SetUrl
<1>7. CASE WrLock
  <2>1. /\ pc["mhd"] = "wrlock" /\ pc'["mhd"] = "wrlocked" /\ pc'["timer"] = pc["timer"] /\ UNCHANGED <<left, blocked>>
    BY <1>0, <1>7, Goes DEF WrLock
  <2>. QED  BY <1>0, <2>1 DEF WaitInv
<1>8. CASE Push("mhd")
  <2>1. /\ pc'["timer"] = pc["timer"] /\ left'["timer"] = left["timer"]
        /\ (pc'["mhd"] \in {"locked", "wait"} /\ blocked' = blocked) \/ Done("mhd", TRUE) \/ Done("mhd", FALSE)
    BY <1>0, <1>8, PushMoves
  <2>2. CASE Done("mhd", TRUE) \/ Done("mhd", FALSE)
    BY <1>5, <2>2
  <2>3. CASE RdLock("mhd")
    <3>1. pc["mhd"] = "rdlock" /\ pc'["mhd"] = "locked" /\ UNCHANGED <<left, blocked>>
      BY <1>0, <2>3, Goes DEF RdLock
    <3>. QED  BY <1>0, <2>1, <3>1 DEF WaitInv
  <2>4. CASE PushSend("mhd")
    <3>1. pc["mhd"] = "locked" /\ Go("mhd", "wait") /\ left' = [left EXCEPT !["mhd"] = ReadTimeout] /\ blocked' = blocked
      BY <2>4 DEF PushSend
    <3>2. pc'["mhd"] = "wait" /\ left'["mhd"] = 5
      BY <1>0, <3>1, Goes
    <3>. QED  BY <1>0, <2>1, <3>1, <3>2 DEF WaitInv
  <2>. QED  BY <1>0, <1>8, <2>2, <2>3, <2>4, PushReturns DEF Push, PushNothing
<1>9. CASE Push("timer")
  <2>1. /\ pc'["mhd"] = pc["mhd"] /\ left'["mhd"] = left["mhd"]
    BY <1>0, <1>9, PushMoves
  <2>2. CASE Done("timer", TRUE) \/ Done("timer", FALSE)
    <3>1. ASSUME NEW failed \in BOOLEAN, Done("timer", failed)
          PROVE  pc'["timer"] = "sleep" /\ left'["timer"] > 0 /\ blocked' = blocked
      <4>1. /\ pc'["timer"] = CASE "timer" = "mhd" -> "idle" [] "timer" = "timer" -> "sleep" [] "timer" = "vac" -> "ended"
            /\ left'["timer"] \in {0, 1, 11} /\ left'["timer"] >= 1
            /\ blocked' = IF "timer" = "mhd" THEN 0 ELSE blocked
        BY <1>0, <3>1, IsDone
      <4>. QED  BY <4>1
    <3>2. pc'["timer"] = "sleep" /\ left'["timer"] > 0 /\ blocked' = blocked
      BY <2>2, <3>1
    <3>. QED  BY <1>0, <2>1, <3>2 DEF WaitInv
  <2>3. CASE RdLock("timer")
    <3>1. pc["timer"] = "rdlock" /\ pc'["timer"] = "locked" /\ UNCHANGED <<left, blocked>>
      BY <1>0, <2>3, Goes DEF RdLock
    <3>. QED  BY <1>0, <2>1, <3>1 DEF WaitInv
  <2>4. CASE PushSend("timer")
    <3>1. pc["timer"] = "locked" /\ Go("timer", "wait") /\ left' = [left EXCEPT !["timer"] = ReadTimeout] /\ blocked' = blocked
      BY <2>4 DEF PushSend
    <3>2. pc'["timer"] = "wait" /\ left'["timer"] = 5
      BY <1>0, <3>1, Goes
    <3>. QED  BY <1>0, <2>1, <3>1, <3>2 DEF WaitInv
  <2>. QED  BY <1>0, <1>9, <2>2, <2>3, <2>4, PushReturns DEF Push, PushNothing
<1>10. CASE Register("mhd")
  <2>1. /\ pc'["timer"] = pc["timer"] /\ left'["timer"] = left["timer"]
        /\ pc["mhd"] \in {"check", "set", "verify", "register"}
        /\ (pc'["mhd"] \in {"check", "set", "verify", "register"} /\ blocked' = blocked) \/ Done("mhd", TRUE) \/ Done("mhd", FALSE)
    BY <1>0, <1>10, RegisterMoves
  <2>2. CASE Done("mhd", TRUE) \/ Done("mhd", FALSE)
    BY <1>5, <2>2
  <2>3. CASE RegisterSend("mhd")
    <3>1. pc["mhd"] = "verify" /\ Go("mhd", "register") /\ left' = [left EXCEPT !["mhd"] = ReadTimeout] /\ blocked' = blocked
      BY <2>3 DEF RegisterSend, Mine
    <3>2. pc'["mhd"] = "register" /\ left'["mhd"] = 5
      BY <1>0, <3>1, Goes
    <3>. QED  BY <1>0, <2>1, <3>1, <3>2 DEF WaitInv
  <2>4. CASE ReadOwner("mhd")
    <3>1. pc["mhd"] = "check" /\ UNCHANGED <<left, blocked>> /\ pc'["mhd"] \in {"set", "verify"}
      BY <1>0, <2>4, Goes DEF ReadOwner
    <3>. QED  BY <1>0, <2>1, <3>1 DEF WaitInv
  <2>5. CASE SetOwner("mhd")
    <3>1. pc["mhd"] = "set" /\ UNCHANGED <<left, blocked>> /\ pc'["mhd"] = "verify"
      BY <1>0, <2>5, Goes DEF SetOwner
    <3>. QED  BY <1>0, <2>1, <3>1 DEF WaitInv
  <2>6. CASE NotMine("mhd") \/ UNCHANGED <<pc, left, blocked>>
    BY <1>1, <2>6 DEF NotMine
  <2>7. CASE Logged("mhd")
    <3>1. pc["mhd"] = "verify" /\ (Done("mhd", TRUE) \/ (Go("mhd", "check") /\ UNCHANGED <<left, blocked>>))
      BY <2>7 DEF Logged, Mine
    <3>2. CASE Go("mhd", "check") /\ UNCHANGED <<left, blocked>>
      <4>1. pc'["mhd"] = "check"
        BY <1>0, <3>2, Goes
      <4>. QED  BY <1>0, <2>1, <3>1, <3>2, <4>1 DEF WaitInv
    <3>. QED  BY <1>5, <3>1, <3>2
  <2>8. CASE Registered("mhd") \/ RegisterTimeout("mhd")
    BY <1>0, <1>5, <2>6, <2>8, RegisterReturns DEF RegisterDone
  <2>. QED  BY <1>10, <2>3, <2>4, <2>5, <2>6, <2>7, <2>8 DEF Register
<1>11. CASE Register("vac")
  <2>1. pc'["mhd"] = pc["mhd"] /\ pc'["timer"] = pc["timer"] /\ left'["mhd"] = left["mhd"] /\ left'["timer"] = left["timer"]
    BY <1>0, <1>11, RegisterMoves
  <2>2. blocked' = blocked
    BY <1>0, <1>11, RegisterMoves, IsDone
  <2>. QED  BY <1>0, <2>1, <2>2 DEF WaitInv
<1>12. CASE Tick
  <2>1. /\ pc' = pc /\ Waiting("mhd") /\ Waiting("timer")
        /\ pc["mhd"] = "wrlock" => readers # {} \/ writer # Null
        /\ \A t \in Threads : pc[t] \in {"sleep", "wait", "register"} => left[t] > 0
        /\ \A t \in Threads : left'[t] = IF left[t] > 0 THEN left[t] - 1 ELSE 0
        /\ blocked' = IF pc["mhd"] \in {"starting", "idle"} THEN 0 ELSE blocked + 1
    BY <1>0, <1>12 DEF Tick, Blocked
  <2>2. pc["mhd"] = "wrlock" => pc["timer"] = "wait" /\ left["timer"] > 0
    <3>1. /\ writer = "mhd" <=> pc["mhd"] = "wrlocked"
          /\ "mhd" \in readers <=> pc["mhd"] \in {"locked", "wait"}
          /\ "timer" \in readers <=> pc["timer"] \in {"locked", "wait"}
      BY <1>0 DEF LockInv
    <3>2. pc["mhd"] = "wrlock" => "timer" \in readers
      BY <1>0, <2>1, <3>1
    <3>. QED  BY <1>0, <2>1, <3>1, <3>2 DEF Waiting
  <2>3. pc["mhd"] \in {"starting", "idle", "wait", "register", "wrlock"}
    BY <1>0, <2>1 DEF Waiting, Typed, ThreadsTyped, PCs
  <2>. QED  BY <1>0, <2>1, <2>2, <2>3 DEF WaitInv
<1>. QED  BY <1>2, <1>3, <1>4, <1>6, <1>7, <1>8, <1>9, <1>10, <1>11, <1>12 DEF Next, Serve, Timer, Ask

\* No caller of the HTTP thread's keeps it for more than the five seconds of
\* ipc_send, not even vstat_push_url with its wait for the lock.
THEOREM HttpReturns == Spec => []MhdReturns
<1>1. Init => LockInv /\ WaitInv
  BY DEF Init, LockInv, WaitInv, Pushers, Null
<1>2. Typed /\ LockInv /\ WaitInv /\ [Next]_vars => LockInv' /\ WaitInv'
  BY LockStep, WaitStep
<1>3. Typed /\ WaitInv => MhdReturns
  <2>. SUFFICES ASSUME Typed, WaitInv PROVE blocked <= 5
    BY DEF MhdReturns, ReadTimeout
  <2>1. blocked \in Nat /\ left["mhd"] \in 0 .. 11 /\ left["timer"] \in 0 .. 11
    BY DEF Typed, ThreadsTyped, Threads
  <2>. QED  BY <2>1 DEF WaitInv, ReadTimeout
<1>. QED  BY <1>1, <1>2, <1>3, InitTyped, NextTyped, PTL DEF Spec

-----------------------------------------------------------------------------
(* The HTTP thread's pushes, without registration: answered in time.        *)

NoVac ==
    /\ \A t \in Registrars : uses[t] = "vac.logger" /\ pc[t] # "register"
    /\ cmd["vac.curl"] = <<>> /\ job.h # "vac.curl"

\* The answer has come; or libcurl is at the command, or at the timer's before
\* it, and is done with them before the push is given up.
Answered == Len(rep["http.curl"]) = 1 /\ cmd["http.curl"] = <<>> /\ job.h # "http.curl"
AtIt == job.h = "http.curl" /\ cmd["http.curl"] = <<>> /\ rep["http.curl"] = <<>> /\ left["mhd"] > job.left
InLine ==
    /\ Len(cmd["http.curl"]) = 1 /\ rep["http.curl"] = <<>> /\ job.h # "http.curl" /\ left["mhd"] > W
    /\ job.h = "timer.curl" => left["mhd"] > job.left + W
    /\ job = Idle /\ "timer.curl" \in ready /\ "http.curl" \notin ready => left["mhd"] > 2 * W

InTime ==
    /\ job.h = "timer.curl" => ready = {}
    /\ job.h = "http.curl" => ~job.old
    /\ \A i \in DOMAIN cmd["http.curl"] : ~cmd["http.curl"][i].old
    /\ \A i \in DOMAIN rep["http.curl"] : ~rep["http.curl"][i].old
    /\ IF pc["mhd"] = "wait" THEN Answered \/ AtIt \/ InLine
       ELSE cmd["http.curl"] = <<>> /\ rep["http.curl"] = <<>> /\ job.h # "http.curl"

AnsweredInv == vac_url = Null => NoVac /\ InTime

\* A URL to register with, once set, is not taken back.
LEMMA VacUrlStep ==
  ASSUME Typed, [Next]_vars, vac_url' = Null
  PROVE  vac_url = Null
<1>1. "mhd" \in Pushers /\ "timer" \in Pushers /\ "mhd" \in Registrars /\ "vac" \in Registrars
  BY DEF Pushers, Registrars
<1>2. CASE UNCHANGED owners \/ MhdStarts
  BY <1>2 DEF owners, MhdStarts
<1>3. CASE UNCHANGED vars \/ Curl \/ Tick
  BY <1>2, <1>3 DEF vars, Curl, Poll, issue_curl, Performs, curl_easy_perform, Tick
<1>4. CASE StatsSent \/ WrLock \/ (\E u \in Urls : SetUrl(u)) \/ vstat_run \/ vstat_reply \/ vstat_push_test \/ PutUrl
  BY <1>2, <1>4 DEF StatsSent, WrLock, SetUrl, vstat_run, vstat_reply, vstat_push_test, PutUrl
<1>5. ASSUME NEW u \in VacUrls, vac_register_reply(u) PROVE vac_url = Null
  BY <1>5 DEF vac_register_reply
<1>6. ASSUME NEW t \in Pushers, Push(t) PROVE vac_url = Null
  BY <1>2, <1>6 DEF Push, RdLock, PushNothing, PushSend, PushAnswered, PushTimeout
<1>7. ASSUME NEW t \in Registrars, Register(t) PROVE vac_url = Null
  BY <1>7, RegisterMoves
<1>. QED  BY <1>1, <1>2, <1>3, <1>4, <1>5, <1>6, <1>7 DEF Next, Serve, Timer, Ask

LEMMA NoVacStep ==
  ASSUME Typed, [Next]_vars, vac_url = Null, NoVac
  PROVE  NoVac'
<1>0. /\ Pushers = {"mhd", "timer"} /\ Registrars = {"mhd", "vac"} /\ Threads = {"mhd", "timer", "vac"}
      /\ Handles = {"http.curl", "timer.curl", "vac.curl"} /\ OwnHandle["mhd"] = "http.curl" /\ OwnHandle["timer"] = "timer.curl"
      /\ uses \in [Registrars -> VacHandles] /\ Null # "vac.curl"
  BY HandlesAre, OwnHandles DEF Pushers, Registrars, Threads, Typed, OwnersTyped, Null
<1>1. \A t \in Registrars : uses'[t] = "vac.logger" /\ pc'[t] # "register"
  <2>. SUFFICES ASSUME NEW t \in Registrars PROVE uses'[t] = "vac.logger" /\ pc'[t] # "register"
    OBVIOUS
  <2>0. uses[t] = "vac.logger" /\ pc[t] # "register"
    BY DEF NoVac
  <2>1. ASSUME uses' = uses, pc'[t] # "register" PROVE uses'[t] = "vac.logger" /\ pc'[t] # "register"
    BY <2>0, <2>1
  <2>2. CASE UNCHANGED vars \/ Curl \/ Tick
    BY <2>0, <2>1, <2>2 DEF vars, owners, Curl, Poll, issue_curl, Performs, curl_easy_perform, Tick
  <2>3. CASE MhdStarts \/ WrLock \/ vstat_run \/ vstat_reply \/ vstat_push_test \/ PutUrl
    BY <1>0, <2>0, <2>1, <2>3, Goes DEF MhdStarts, WrLock, vstat_run, vstat_reply, vstat_push_test, PutUrl, owners
  <2>4. CASE StatsSent \/ \E u \in Urls : SetUrl(u)
    BY <1>0, <2>0, <2>1, <2>4, IsDone DEF StatsSent, SetUrl, owners
  <2>5. ASSUME NEW u \in VacUrls, vac_register_reply(u) PROVE uses'[t] = "vac.logger" /\ pc'[t] # "register"
    <3>1. uses' = [uses EXCEPT !["mhd"] = "vac.logger"] /\ (t = "mhd" => pc'[t] = "check") /\ (t # "mhd" => pc'[t] = pc[t])
      BY <1>0, <2>5, Goes DEF vac_register_reply
    <3>. QED  BY <1>0, <2>0, <3>1
  <2>6. ASSUME NEW s \in Pushers, Push(s) PROVE uses'[t] = "vac.logger" /\ pc'[t] # "register"
    <3>1. UNCHANGED uses
      BY <2>6 DEF Push, RdLock, PushNothing, PushSend, PushAnswered, PushTimeout, owners
    <3>2. pc'[s] # "register"
      BY <1>0, <2>6, PushMoves, IsDone
    <3>. QED  BY <1>0, <2>0, <2>1, <2>6, <3>1, <3>2, PushMoves
  <2>7. ASSUME NEW s \in Registrars, Register(s) PROVE uses'[t] = "vac.logger" /\ pc'[t] # "register"
    <3>0. uses[s] = "vac.logger" /\ pc[s] # "register" /\ (s # t => pc'[t] = pc[t])
      BY <1>0, <2>7, RegisterMoves DEF NoVac
    <3>1. CASE ReadOwner(s)
      BY <1>0, <2>0, <2>1, <3>0, <3>1, Goes DEF ReadOwner
    <3>2. CASE SetOwner(s)
      BY <1>0, <2>0, <2>1, <3>0, <3>2, Goes DEF SetOwner
    <3>3. CASE NotMine(s)
      BY <2>0, <2>1, <3>3 DEF NotMine, owners
    <3>4. CASE Logged(s)
      <4>1. Done(s, TRUE) /\ uses' = uses
        BY <3>4 DEF Logged
      <4>. QED  BY <1>0, <2>0, <2>1, <3>0, <4>1, IsDone
    <3>5. ~RegisterSend(s) /\ ~Registered(s) /\ ~RegisterTimeout(s)
      BY <3>0 DEF RegisterSend, Registered, RegisterTimeout
    <3>. QED  BY <2>7, <3>1, <3>2, <3>3, <3>4, <3>5 DEF Register
  <2>. QED  BY <1>0, <2>2, <2>3, <2>4, <2>5, <2>6, <2>7 DEF Next, Serve, Timer, Ask
<1>2. cmd'["vac.curl"] = <<>> /\ job'.h # "vac.curl"
  <2>0. cmd["vac.curl"] = <<>> /\ job.h # "vac.curl" /\ job \in Job
    BY DEF NoVac, Typed, CurlTyped
  <2>1. CASE UNCHANGED curlvars \/ Poll
    BY <2>0, <2>1 DEF curlvars, Poll
  <2>2. CASE issue_curl
    BY <1>0, <2>0, <2>2, Issued
  <2>3. CASE curl_easy_perform
    BY <1>0, <2>0, <2>3, Performed DEF Idle
  <2>4. ASSUME NEW t \in Pushers, PushSend(t) PROVE cmd'["vac.curl"] = <<>> /\ job'.h # "vac.curl"
    BY <1>0, <2>0, <2>4, Writes, SentTexts DEF PushSend
  <2>5. ASSUME NEW t \in Pushers, PushAnswered(t) \/ PushTimeout(t) PROVE cmd'["vac.curl"] = <<>> /\ job'.h # "vac.curl"
    <3>1. PICK answers \in Seq(Answer) : Leave(OwnHandle[t], answers)
      BY <2>5, PushReturns
    <3>. QED  BY <1>0, <2>0, <3>1, Leaves
  <2>6. ASSUME NEW t \in Registrars PROVE ~RegisterSend(t) /\ ~Registered(t) /\ ~RegisterTimeout(t)
    BY <2>6 DEF NoVac, RegisterSend, Registered, RegisterTimeout
  <2>7. CASE Tick
    <3>1. cmd' = cmd /\ (job' = job \/ job' = [job EXCEPT !.left = job.left - 1])
      BY <2>7 DEF Tick
    <3>. QED  BY <2>0, <3>1 DEF Job
  <2>. QED  BY <2>1, <2>2, <2>3, <2>4, <2>5, <2>6, <2>7, CurlSteps DEF Curl
<1>. QED  BY <1>1, <1>2 DEF NoVac

\* The time left of a push changes as time passes.
LEMMA LeftSteps ==
  ASSUME Typed, [Next]_vars, pc["mhd"] = "wait"
  PROVE  left'["mhd"] = left["mhd"] \/ Tick \/ PushAnswered("mhd") \/ PushTimeout("mhd")
<1>0. /\ Pushers = {"mhd", "timer"} /\ Registrars = {"mhd", "vac"} /\ Threads = {"mhd", "timer", "vac"}
  BY DEF Pushers, Registrars, Threads
<1>1. CASE UNCHANGED left
  BY <1>1
<1>2. CASE UNCHANGED vars \/ Curl \/ vstat_run
  BY <1>1, <1>2 DEF vars, Curl, Poll, issue_curl, Performs, curl_easy_perform, vstat_run
<1>3. ~(MhdStarts \/ StatsSent \/ WrLock \/ \E u \in Urls : SetUrl(u))
  BY DEF MhdStarts, StatsSent, WrLock, SetUrl
<1>4. ~Ask
  BY DEF Ask, vstat_reply, vstat_push_test, PutUrl, vac_register_reply
<1>5. CASE Push("timer") \/ Register("vac")
  BY <1>0, <1>5, PushMoves, RegisterMoves
<1>6. ~Register("mhd")
  BY <1>0, RegisterMoves
<1>7. CASE Push("mhd")
  BY <1>7 DEF Push, RdLock, PushNothing, PushSend
<1>. QED  BY <1>2, <1>3, <1>4, <1>5, <1>6, <1>7 DEF Next, Serve, Timer

LEMMA InTimeStep ==
  ASSUME 2 * W < ReadTimeout, Typed, LockInv, [Next]_vars, NoVac, InTime
  PROVE  InTime'
<1>. DEFINE H == "http.curl"
<1>0. /\ Pushers = {"mhd", "timer"} /\ Registrars = {"mhd", "vac"} /\ Threads = {"mhd", "timer", "vac"}
      /\ Handles = {"http.curl", "timer.curl", "vac.curl"} /\ OwnHandle["mhd"] = "http.curl" /\ OwnHandle["timer"] = "timer.curl"
      /\ left["mhd"] \in 0 .. 11 /\ W \in Nat \ {0} /\ job.left \in 0 .. W /\ Null \notin {"http.curl", "timer.curl", "vac.curl"}
      /\ job \in Job /\ (job.h = Null <=> job = Idle) /\ Idle.h = Null /\ 2 * W < 5 /\ job.h # "vac.curl"
      /\ cmd["vac.curl"] = <<>> /\ rep[H] \in Seq(Answer) /\ cmd[H] \in Seq(Command)
      /\ ready \subseteq Handles /\ (\A h \in ready : cmd[h] # <<>>) /\ Idle' = Idle
  BY HandlesAre, OwnHandles, PushAssumption
     DEF Pushers, Registrars, Threads, Typed, ThreadsTyped, CurlTyped, Null, Idle, ReadTimeout, NoVac
<1>00. /\ cmd[H] = <<>> <=> Len(cmd[H]) = 0
       /\ rep[H] = <<>> <=> Len(rep[H]) = 0
       /\ DOMAIN cmd[H] = 1 .. Len(cmd[H]) /\ DOMAIN rep[H] = 1 .. Len(rep[H]) /\ Len(cmd[H]) \in Nat /\ Len(rep[H]) \in Nat
  BY <1>0, EmptySeq, LenProperties
<1>01. IF pc["mhd"] = "wait" THEN Answered \/ AtIt \/ InLine
       ELSE cmd[H] = <<>> /\ rep[H] = <<>> /\ job.h # H
  BY DEF InTime
<1>02. InLine => pc["mhd"] = "wait" /\ Len(cmd[H]) = 1 /\ rep[H] = <<>> /\ job.h # H /\ left["mhd"] > W
  BY <1>00, <1>01 DEF InLine
<1>1. CASE PushAnswered("mhd") \/ PushTimeout("mhd")
  <2>1. PICK answers \in Seq(Answer) :
           /\ Leave(H, answers)
           /\ (left["mhd"] = 0 /\ answers = <<>>) \/ (rep[H] # <<>> /\ Len(answers) = Len(rep[H]) - 1)
    BY <1>0, <1>1, PushReturns
  <2>2. pc["mhd"] = "wait" /\ pc'["mhd"] # "wait"
    BY <1>0, <1>1, PushReturns, IsDone
  <2>3. Answered
    BY <1>0, <2>1, <2>2 DEF InTime, AtIt, InLine
  <2>4. Len(answers) = 0
    BY <1>0, <1>00, <2>1, <2>3, EmptySeq DEF Answered
  <2>5. /\ rep'[H] \in Seq(Answer) /\ Len(rep'[H]) = 0 /\ cmd'[H] \in Seq(Command) /\ Len(cmd'[H]) = 0
        /\ job'.h = job.h /\ ready' = ready
    BY <1>0, <1>00, <2>1, <2>3, <2>4, Leaves DEF Answered
  <2>6. rep'[H] = <<>> /\ cmd'[H] = <<>>
    BY <2>5, EmptySeq
  <2>. QED  BY <2>2, <2>3, <2>5, <2>6 DEF InTime, Answered
<1>. SUFFICES ASSUME ~PushAnswered("mhd"), ~PushTimeout("mhd") PROVE InTime'
  BY <1>1
<1>2. CASE PushSend("mhd")
  <2>1. /\ pc["mhd"] = "locked" /\ Go("mhd", "wait") /\ left' = [left EXCEPT !["mhd"] = ReadTimeout]
        /\ IpcWrite(H, push_url) /\ push_url \in Texts /\ UNCHANGED <<rep, job, ready>>
    BY <1>0, <1>2, SentTexts DEF PushSend
  <2>2. pc'["mhd"] = "wait" /\ left'["mhd"] = 5
    BY <1>0, <2>1, Goes DEF Typed, ThreadsTyped, ReadTimeout
  <2>3. cmd[H] = <<>> /\ rep[H] = <<>> /\ job.h # H
    BY <2>1 DEF InTime
  <2>4. Len(cmd'[H]) = 1 /\ DOMAIN cmd'[H] = 1 .. 1 /\ cmd'[H][1].old = FALSE
    <3>1. Len(cmd[H]) = 0 /\ H \in Handles
      BY <1>0, <1>00, <2>3
    <3>2. /\ Len(cmd'[H]) = Len(cmd[H]) + 1 /\ DOMAIN cmd'[H] = 1 .. Len(cmd[H]) + 1
          /\ cmd'[H][Len(cmd[H]) + 1].old = FALSE
      BY <2>1, <3>1, Writes
    <3>. QED  BY <3>1, <3>2
  <2>5. InLine'
    BY <1>0, <2>1, <2>2, <2>3, <2>4 DEF InLine
  <2>. QED  BY <2>1, <2>2, <2>3, <2>4, <2>5 DEF InTime
<1>. SUFFICES ASSUME ~PushSend("mhd") PROVE InTime'
  BY <1>2
<1>3. pc'["mhd"] = "wait" <=> pc["mhd"] = "wait"
  BY <1>0, WaitSteps
<1>4. ASSUME left'["mhd"] = left["mhd"] \/ pc["mhd"] # "wait", cmd'[H] = cmd[H], rep'[H] = rep[H],
             job'.h = job.h, job'.left = job.left, job' = Idle <=> job = Idle, job.h = H => job'.old = job.old, ready' = ready
      PROVE  InTime'
  BY <1>3, <1>4 DEF InTime, Answered, AtIt, InLine
<1>5. ASSUME NEW h \in Handles, NEW answers \in Seq(Answer), h # H, Leave(h, answers), ~Tick PROVE InTime'
  BY <1>0, <1>4, <1>5, Leaves, LeftSteps
<1>6. CASE Tick
  <2>1. /\ cmd' = cmd /\ rep' = rep /\ ready' = ready /\ left'["mhd"] = IF left["mhd"] > 0 THEN left["mhd"] - 1 ELSE 0
        /\ job = Idle => \A h \in Handles : cmd[h] = <<>>
        /\ job # Idle => job.left > 0 /\ job' = [job EXCEPT !.left = job.left - 1]
        /\ job = Idle => job' = job
        /\ pc["mhd"] = "wait" => left["mhd"] > 0 /\ rep[H] = <<>>
    BY <1>0, <1>6 DEF Tick, CurlBusy, Blocked
  <2>2. job'.h = job.h /\ job'.old = job.old /\ (job # Idle => job'.left = job.left - 1)
    BY <1>0, <2>1 DEF Job
  <2>3. CASE pc["mhd"] # "wait"
    BY <1>3, <2>1, <2>2, <2>3 DEF InTime
  <2>4. CASE pc["mhd"] = "wait"
    <3>1. AtIt \/ InLine
      <4>1. Len(rep[H]) = 0
        BY <1>00, <2>1, <2>4
      <4>. QED  BY <1>01, <2>4, <4>1 DEF Answered
    <3>2. CASE AtIt
      BY <1>0, <1>3, <2>1, <2>2, <2>4, <3>2 DEF InTime, AtIt
    <3>3. CASE InLine
      <4>1. job # Idle /\ job.h = "timer.curl"
        BY <1>0, <1>00, <2>1, <3>3 DEF InLine, Job
      <4>2. left["mhd"] > job.left + W /\ job.left > 0 /\ left'["mhd"] = left["mhd"] - 1 /\ job' # Idle
        BY <1>0, <2>1, <2>2, <2>4, <3>3, <4>1 DEF InLine
      <4>3. cmd'[H] = cmd[H] /\ rep'[H] = rep[H] /\ job'.h = "timer.curl" /\ job'.left = job.left - 1
        BY <2>1, <2>2, <4>1
      <4>4. left'["mhd"] > W /\ left'["mhd"] > job'.left + W
        BY <1>0, <4>2, <4>3
      <4>5. InLine'
        BY <1>02, <2>1, <3>3, <4>2, <4>3, <4>4, <1>0 DEF InLine
      <4>. QED  BY <1>3, <2>1, <2>2, <2>4, <4>1, <4>5 DEF InTime
    <3>. QED  BY <3>1, <3>2, <3>3
  <2>. QED  BY <2>3, <2>4
<1>. SUFFICES ASSUME ~Tick PROVE InTime'
  BY <1>6
<1>7. left'["mhd"] = left["mhd"] \/ pc["mhd"] # "wait"
  BY LeftSteps
<1>8. CASE UNCHANGED curlvars
  BY <1>4, <1>7, <1>8 DEF curlvars
<1>9. CASE Poll
  <2>1. job = Idle /\ job' = job /\ cmd' = cmd /\ rep' = rep /\ ready' = {h \in Handles : cmd[h] # <<>>}
    BY <1>9 DEF Poll
  <2>2. InLine => InLine'
    BY <1>0, <1>00, <1>7, <2>1 DEF InLine, InTime
  <2>. QED  BY <1>0, <1>3, <1>7, <2>1, <2>2 DEF InTime, Answered, AtIt
<1>10. CASE issue_curl
  <2>1. rep' = rep
    BY <1>10 DEF issue_curl, Performs
  <2>2. PICK h \in ready :
          /\ job = Idle /\ h \in Handles /\ Len(cmd[h]) \in Nat \ {0} /\ DOMAIN cmd[h] = 1 .. Len(cmd[h])
          /\ h = "http.curl" \/ (h = "timer.curl" /\ "http.curl" \notin ready)
             \/ (h = "vac.curl" /\ "http.curl" \notin ready /\ "timer.curl" \notin ready)
          /\ job' \in Job /\ job'.h = h /\ job'.left = W /\ job'.old = cmd[h][1].old
          /\ cmd' \in [Handles -> Seq(Command)] /\ \A g \in Handles : g # h => cmd'[g] = cmd[g]
          /\ Len(cmd'[h]) = Len(cmd[h]) - 1
          /\ ready' = ready \ {h}
    BY <1>10, Issued
  <2>3. CASE h = H
    <3>1. pc["mhd"] = "wait" /\ InLine
      BY <1>0, <1>00, <2>2, <2>3 DEF InTime, Answered, AtIt
    <3>2. cmd'[H] \in Seq(Command) /\ Len(cmd'[H]) = 0
      BY <1>0, <2>2, <2>3, <3>1 DEF InLine
    <3>3. cmd'[H] = <<>>
      BY <3>2, EmptySeq
    <3>4. job'.old = FALSE
      <4>1. ~cmd[H][1].old /\ cmd[H][1] \in Command
        <5>1. 1 \in DOMAIN cmd[H] /\ DOMAIN cmd[H] = 1 .. Len(cmd[H])
          BY <1>0, <2>2, <2>3
        <5>. QED  BY <1>0, <5>1 DEF InTime
      <4>. QED  BY <2>2, <2>3, <4>1 DEF Command
    <3>. QED  BY <1>0, <1>3, <1>7, <2>1, <2>2, <2>3, <3>1, <3>3, <3>4 DEF InTime, InLine, AtIt
  <2>4. CASE h = "timer.curl"
    <3>1. ready' = {} /\ cmd'[H] = cmd[H] /\ job' # Idle
      BY <1>0, <2>2, <2>4
    <3>2. InLine => InLine'
      <4>. SUFFICES ASSUME InLine PROVE InLine'
        OBVIOUS
      <4>1. left["mhd"] > 2 * W /\ left'["mhd"] = left["mhd"]
        BY <1>0, <1>02, <1>7, <2>2, <2>4 DEF InLine
      <4>2. left'["mhd"] > W /\ left'["mhd"] > job'.left + W
        <5>1. job'.left = W /\ W \in Nat \ {0} /\ left["mhd"] \in 0 .. 11
          BY <1>0, <2>2
        <5>. QED  BY <4>1, <5>1
      <4>. QED  BY <1>0, <1>02, <2>1, <2>2, <2>4, <3>1, <4>2 DEF InLine
    <3>. QED  BY <1>0, <1>3, <1>7, <2>1, <2>2, <2>4, <3>1, <3>2 DEF InTime, Answered, AtIt
  <2>5. h # "vac.curl"
    BY <1>0, <2>2
  <2>. QED  BY <1>0, <2>2, <2>3, <2>4, <2>5
<1>11. CASE curl_easy_perform
  <2>1. /\ job.h \in Handles /\ job' = Idle /\ cmd' = cmd /\ ready' = ready
        /\ rep' \in [Handles -> Seq(Answer)] /\ \A g \in Handles : g # job.h => rep'[g] = rep[g]
        /\ DOMAIN rep'[job.h] = 1 .. Len(rep[job.h]) + 1 /\ Len(rep'[job.h]) = Len(rep[job.h]) + 1
        /\ rep'[job.h][Len(rep[job.h]) + 1].old = job.old
    BY <1>11, Performed
  <2>2. CASE job.h = H
    <3>1. pc["mhd"] = "wait" /\ AtIt
      BY <2>2 DEF InTime, Answered, InLine
    <3>2. Len(rep[H]) = 0 /\ cmd'[H] = <<>> /\ ~job.old
      BY <1>00, <2>1, <2>2, <3>1 DEF AtIt, InTime
    <3>3. DOMAIN rep'[H] = 1 .. 1 /\ ~rep'[H][1].old /\ Len(rep'[H]) = 1
      BY <2>1, <2>2, <3>2
    <3>. QED  BY <1>0, <1>3, <2>1, <3>1, <3>2, <3>3 DEF InTime, Answered
  <2>3. CASE job.h = "timer.curl"
    <3>1. rep'[H] = rep[H] /\ cmd'[H] = cmd[H] /\ ready' = {} /\ job'.h = Null
      BY <1>0, <2>1, <2>3 DEF InTime
    <3>2. InLine => InLine'
      BY <1>0, <1>02, <1>7, <3>1 DEF InLine
    <3>. QED  BY <1>0, <1>3, <1>7, <2>3, <3>1, <3>2 DEF InTime, Answered, AtIt
  <2>. QED  BY <1>0, <2>1, <2>2, <2>3
<1>12. CASE PushSend("timer")
  <2>1. IpcWrite("timer.curl", push_url) /\ push_url \in Texts /\ UNCHANGED <<rep, job, ready>>
    BY <1>0, <1>12, SentTexts DEF PushSend
  <2>2. cmd'[H] = cmd[H]
    BY <1>0, <2>1, Writes
  <2>. QED  BY <1>4, <1>7, <2>1, <2>2
<1>13. CASE PushAnswered("timer") \/ PushTimeout("timer")
  BY <1>0, <1>5, <1>13, PushReturns
<1>14. ASSUME NEW t \in Registrars PROVE ~RegisterSend(t) /\ ~Registered(t) /\ ~RegisterTimeout(t)
  BY <1>14 DEF NoVac, RegisterSend, Registered, RegisterTimeout
<1>. QED  BY <1>0, <1>8, <1>9, <1>10, <1>11, <1>12, <1>13, <1>14, CurlSteps DEF Curl

\* With -w of one or two seconds, which is less than half of what ipc_send
\* waits, the HTTP thread's push gets its own answer unless vac_register pushes
\* a URL as well.
THEOREM PushesGetAnswers == ASSUME 2 * W < ReadTimeout PROVE Spec => []PushesAnswered
<1>1. Init => AnsweredInv
  BY OwnHandles, HandlesAre DEF Init, AnsweredInv, NoVac, InTime, Registrars, Idle, Null
<1>2. Typed /\ LockInv /\ AnsweredInv /\ [Next]_vars => AnsweredInv'
  BY VacUrlStep, NoVacStep, InTimeStep DEF AnsweredInv
<1>3. AnsweredInv => PushesAnswered
  BY DEF AnsweredInv, InTime, PushesAnswered
<1>4. Init => LockInv
  BY DEF Init, LockInv, Pushers, Null
<1>. QED  BY <1>1, <1>2, <1>3, <1>4, InitTyped, NextTyped, LockStep, PTL DEF Spec
=============================================================================
