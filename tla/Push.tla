-------------------------------- MODULE Push --------------------------------
(***************************************************************************)
(* Pushing to other hosts: the statistics (vstat.c) and the registration   *)
(* (vac_register.c), both by way of the one thread of the curl plugin      *)
(* (curl.c), on handles that ipc.c gives to one thread each.  Threads:     *)
(* "mhd" serves HTTP, "timer" pushes every second, "vac" registers once    *)
(* and ends.  A tick is a second; what needs no waiting takes no time.     *)
(***************************************************************************)
EXTENDS Naturals, Sequences, FiniteSets

CONSTANTS
    Urls,           \* of PUT /push/url/stats: "", "good", "dead", "self"
    VacUrls,        \* -z: Null, "good", "dead"
    W,              \* -w, the seconds libcurl may take
    MaxPosts        \* bound on calls of POST /vac_register

ASSUME PushAssumption == W \in Nat \ {0} /\ MaxPosts \in Nat

VARIABLES
    up,             \* no assert has failed
    pc, left,       \* where a thread is, and its seconds left
    readers, writer,\* of vstat->lck
    push_url, vac_url,
    cmd, rep,       \* a handle to curl: commands sent, answers unread
    ready,          \* handles ipc_loop's poll found a command on, not yet served
    job,            \* the command libcurl performs, and its seconds left
    vsb,            \* of a vstat_thread_ctx_t: "clear" or "finished"
    tid_to_fd,      \* the thread that owns a handle
    uses, saw,      \* of vac_register: handle in use, and tid_to_fd as read
    tid,            \* pthread_self() of the two
    posted,         \* calls of POST /vac_register so far
    blocked         \* seconds "mhd" has not served anything

lock == <<readers, writer>>
curlvars == <<cmd, rep, job, ready>>
stats == <<push_url, vsb>>
owners == <<tid_to_fd, uses, saw, tid, posted, vac_url>>
vars == <<up, pc, left, lock, curlvars, stats, owners, blocked>>

Null == "null"
Threads == {"mhd", "timer", "vac"}
Pushers == {"mhd", "timer"}
Registrars == {"mhd", "vac"}
Listeners == <<"http.curl", "timer.curl", "vac.curl">>      \* in the order of ipc_register
Handles == {Listeners[i] : i \in DOMAIN Listeners}
OwnHandle == [t \in Pushers |-> IF t = "mhd" THEN "http.curl" ELSE "timer.curl"]
ReadTimeoutShort == 3
ReadTimeout == 5                \* of ipc_send
Idle == [h |-> Null, url |-> Null, old |-> FALSE, left |-> 0]

Init ==
    /\ up = TRUE
    /\ pc = [mhd |-> "starting", timer |-> "sleep", vac |-> "check"]
    /\ left = [mhd |-> 0, timer |-> 1, vac |-> 0]
    /\ readers = {} /\ writer = Null
    /\ push_url = Null
    /\ vac_url \in VacUrls
    /\ cmd = [h \in Handles |-> <<>>] /\ rep = [h \in Handles |-> <<>>] /\ job = Idle /\ ready = {}
    /\ vsb = [t \in Pushers |-> "clear"]
    /\ tid_to_fd = [h \in {"vac.logger", "vac.curl"} |-> Null]
    /\ uses = [t \in Registrars |-> "vac.logger"]
    /\ saw = [t \in Registrars |-> Null]
    /\ tid = [t \in Registrars |-> t]
    /\ posted = 0
    /\ blocked = 0

Go(t, p) == pc' = [pc EXCEPT ![t] = p]
\* The thread is done with what it was asked for: HTTP's waits for requests,
\* the timer's sleeps for another ten seconds if its push failed.
Done(t, failed) ==
    /\ Go(t, CASE t = "mhd" -> "idle" [] t = "timer" -> "sleep" [] t = "vac" -> "ended")
    /\ left' = [left EXCEPT ![t] = IF t # "timer" THEN 0 ELSE IF failed THEN 11 ELSE 1]
    /\ blocked' = IF t = "mhd" THEN 0 ELSE blocked

-----------------------------------------------------------------------------
(* curl.c: one command after the other, from whichever handle is ready.     *)

IpcWrite(h, url) == cmd' = [cmd EXCEPT ![h] = Append(@, [url |-> url, old |-> FALSE])]

\* Those found in one poll are served in turn before the next one.
Poll ==
    /\ up /\ job = Idle /\ ready = {} /\ \E h \in Handles : cmd[h] # <<>>
    /\ ready' = {h \in Handles : cmd[h] # <<>>}
    /\ UNCHANGED <<up, pc, left, lock, cmd, rep, job, stats, owners, blocked>>

\* libcurl gets the command at the first of them, for at most so many seconds.
Performs(seconds) ==
    /\ up /\ job = Idle
    /\ \E i \in DOMAIN Listeners :
           LET h == Listeners[i]
           IN  /\ h \in ready /\ \A j \in 1 .. i - 1 : Listeners[j] \notin ready
               /\ job' = [h |-> h, url |-> Head(cmd[h]).url, old |-> Head(cmd[h]).old, left |-> seconds]
               /\ cmd' = [cmd EXCEPT ![h] = Tail(@)]
               /\ ready' = ready \ {h}
    /\ UNCHANGED <<up, pc, left, lock, rep, stats, owners, blocked>>
issue_curlNext == Performs(W + 1)
issue_curl == Performs(W)

\* libcurl is done: a good host answers at any time, the agent itself when its
\* HTTP thread is free; a timeout and another host's fault are failures.
Succeeds == job.url = "good" \/ (job.url = "self" /\ pc["mhd"] = "idle")
curl_easy_perform ==
    /\ up /\ job # Idle
    /\ \E status \in (IF Succeeds THEN {200} ELSE {}) \union (IF job.left = 0 \/ job.url = "dead" THEN {500} ELSE {}) :
           rep' = [rep EXCEPT ![job.h] = Append(@, [status |-> status, old |-> job.old])]
    /\ job' = Idle
    /\ UNCHANGED <<up, pc, left, lock, cmd, ready, stats, owners, blocked>>

\* The caller on h waits no more, or took the answer to another command: what
\* is still under way on h is nobody's.
Old(s) == [i \in DOMAIN s |-> [s[i] EXCEPT !.old = TRUE]]
Leave(h, answers) ==
    /\ cmd' = [cmd EXCEPT ![h] = Old(@)]
    /\ rep' = [rep EXCEPT ![h] = Old(answers)]
    /\ job' = IF job.h = h THEN [job EXCEPT !.old = TRUE] ELSE job
    /\ ready' = ready

-----------------------------------------------------------------------------
(* vstat.c                                                                  *)

\* microhttpd's thread starts while "vac" runs, or takes the place, and maybe
\* the identity, of that thread once main has joined it.
MhdStarts ==
    /\ up /\ pc["mhd"] = "starting"
    /\ Go("mhd", "idle")
    /\ tid' \in {tid} \union (IF pc["vac"] = "ended" THEN {[tid EXCEPT !["mhd"] = "vac"]} ELSE {})
    /\ UNCHANGED <<up, left, lock, curlvars, stats, tid_to_fd, uses, saw, posted, vac_url, blocked>>

do_json(t) == IF vsb[t] = "clear" THEN vsb' = [vsb EXCEPT ![t] = "finished"] /\ up' = up
              ELSE up' = FALSE /\ vsb' = vsb
VsbKept(t) == UNCHANGED vsb
VsbClear(t) == vsb' = [vsb EXCEPT ![t] = "clear"]

\* GET /stats, when check_reopen finds a log; it needs no other thread.
vstat_reply ==
    /\ up /\ pc["mhd"] = "idle"
    /\ do_json("mhd") /\ Go("mhd", "stats")
    /\ UNCHANGED <<left, lock, curlvars, push_url, owners, blocked>>
StatsSent ==
    /\ up /\ pc["mhd"] = "stats"
    /\ VsbClear("mhd") /\ Done("mhd", FALSE)
    /\ UNCHANGED <<up, lock, curlvars, push_url, owners>>

vstat_push_test ==
    /\ up /\ pc["mhd"] = "idle"
    /\ Go("mhd", "rdlock")
    /\ UNCHANGED <<up, left, lock, curlvars, stats, owners, blocked>>

vstat_run ==
    /\ up /\ pc["timer"] = "sleep" /\ left["timer"] = 0
    /\ Go("timer", "rdlock")
    /\ UNCHANGED <<up, left, lock, curlvars, stats, owners, blocked>>

\* push_stats: readers do not wait for a writer that waits.
RdLock(t) ==
    /\ up /\ pc[t] = "rdlock" /\ writer = Null
    /\ readers' = readers \union {t}
    /\ Go(t, "locked")
    /\ UNCHANGED <<up, left, writer, curlvars, stats, owners, blocked>>

UnlockNot(t) == UNCHANGED <<readers, writer>>
Unlock(t) == readers' = readers \ {t} /\ UNCHANGED writer

\* There is no URL, or check_reopen finds no log of varnishd.
PushNothing(t) ==
    /\ up /\ pc[t] = "locked"
    /\ Unlock(t) /\ Done(t, TRUE)
    /\ UNCHANGED <<up, curlvars, stats, owners>>

PushSend(t) ==
    /\ up /\ pc[t] = "locked" /\ push_url \notin {Null, ""}
    /\ do_json(t)
    /\ IpcWrite(OwnHandle[t], push_url)
    /\ Go(t, "wait") /\ left' = [left EXCEPT ![t] = ReadTimeout]
    /\ UNCHANGED <<lock, rep, job, ready, push_url, owners, blocked>>

PushAnswered(t) ==
    LET h == OwnHandle[t]
    IN  /\ up /\ pc[t] = "wait" /\ rep[h] # <<>>
        /\ Leave(h, Tail(rep[h]))
        /\ Unlock(t) /\ VsbClear(t) /\ Done(t, Head(rep[h]).status # 200)
        /\ UNCHANGED <<up, push_url, owners>>

PushTimeout(t) ==
    /\ up /\ pc[t] = "wait" /\ left[t] = 0
    /\ Leave(OwnHandle[t], <<>>) /\ Unlock(t) /\ VsbClear(t) /\ Done(t, TRUE)
    /\ UNCHANGED <<up, push_url, owners>>

\* vstat_push_url waits until nobody reads the URL.
PutUrl ==
    /\ up /\ pc["mhd"] = "idle"
    /\ Go("mhd", "wrlock")
    /\ UNCHANGED <<up, left, lock, curlvars, stats, owners, blocked>>

WrLockAnyway ==
    /\ up /\ pc["mhd"] = "wrlock"
    /\ writer' = "mhd" /\ Go("mhd", "wrlocked")
    /\ UNCHANGED <<up, left, readers, curlvars, stats, owners, blocked>>
WrLock ==
    /\ up /\ pc["mhd"] = "wrlock" /\ readers = {} /\ writer = Null
    /\ writer' = "mhd" /\ Go("mhd", "wrlocked")
    /\ UNCHANGED <<up, left, readers, curlvars, stats, owners, blocked>>

SetUrl(u) ==
    /\ up /\ pc["mhd"] = "wrlocked"
    /\ push_url' = u /\ writer' = Null /\ Done("mhd", FALSE)
    /\ UNCHANGED <<up, readers, curlvars, vsb, owners>>

-----------------------------------------------------------------------------
(* vac_register.c: send_curl in the thread "vac" and in vac_register_reply, *)
(* on the same handles.  Each use of one is checked by ipc.c in steps.      *)

vac_register_reply(u) ==
    /\ up /\ pc["mhd"] = "idle"
    /\ vac_url' = IF u = Null THEN vac_url ELSE u
    /\ posted < MaxPosts /\ posted' = posted + 1
    /\ uses' = [uses EXCEPT !["mhd"] = "vac.logger"]
    /\ Go("mhd", "check")
    /\ UNCHANGED <<up, left, lock, curlvars, stats, tid_to_fd, saw, tid, blocked>>

\* ipc_verify_sock_thread reads tid_to_fd, sets it if it was 0, and asserts.
ReadOwnerWaits(t) ==
    /\ up /\ pc[t] = "check" /\ tid_to_fd[uses[t]] \in {Null, tid[t]}
    /\ saw' = [saw EXCEPT ![t] = tid_to_fd[uses[t]]]
    /\ Go(t, IF saw'[t] = Null THEN "set" ELSE "verify")
    /\ UNCHANGED <<up, left, lock, curlvars, stats, tid_to_fd, uses, tid, posted, vac_url, blocked>>
ReadOwner(t) ==
    /\ up /\ pc[t] = "check"
    /\ saw' = [saw EXCEPT ![t] = tid_to_fd[uses[t]]]
    /\ Go(t, IF saw'[t] = Null THEN "set" ELSE "verify")
    /\ UNCHANGED <<up, left, lock, curlvars, stats, tid_to_fd, uses, tid, posted, vac_url, blocked>>

SetOwner(t) ==
    /\ up /\ pc[t] = "set"
    /\ tid_to_fd' = [tid_to_fd EXCEPT ![uses[t]] = tid[t]]
    /\ Go(t, "verify")
    /\ UNCHANGED <<up, left, lock, curlvars, stats, uses, saw, tid, posted, vac_url, blocked>>

Mine(t) == up /\ pc[t] = "verify" /\ tid_to_fd[uses[t]] = tid[t]
NotMine(t) ==
    /\ up /\ pc[t] = "verify" /\ tid_to_fd[uses[t]] # tid[t]
    /\ up' = FALSE
    /\ UNCHANGED <<pc, left, lock, curlvars, stats, owners, blocked>>

\* The logger answers at once: registering goes on to curl, or ends without a
\* URL (500 "Couldn't register.", or a line in the log).
Logged(t) ==
    /\ Mine(t) /\ uses[t] = "vac.logger"
    /\ IF vac_url = Null THEN Done(t, TRUE) /\ uses' = uses
       ELSE Go(t, "check") /\ uses' = [uses EXCEPT ![t] = "vac.curl"] /\ UNCHANGED <<left, blocked>>
    /\ UNCHANGED <<up, lock, curlvars, stats, tid_to_fd, saw, tid, posted, vac_url>>

RegisterSend(t) ==
    /\ Mine(t) /\ uses[t] = "vac.curl"
    /\ IpcWrite("vac.curl", vac_url)
    /\ Go(t, "register") /\ left' = [left EXCEPT ![t] = ReadTimeout]
    /\ UNCHANGED <<up, lock, rep, job, ready, stats, owners, blocked>>

\* What follows is logged on a handle that was checked for this thread, or the
\* assert fails after all.
RegisterDone(t) ==
    IF tid_to_fd["vac.logger"] = tid[t] THEN Done(t, FALSE) /\ up' = up
    ELSE up' = FALSE /\ UNCHANGED <<pc, left, blocked>>
Registered(t) ==
    /\ up /\ pc[t] = "register" /\ rep["vac.curl"] # <<>>
    /\ Leave("vac.curl", Tail(rep["vac.curl"]))
    /\ RegisterDone(t)
    /\ UNCHANGED <<lock, stats, owners>>
RegisterTimeout(t) ==
    /\ up /\ pc[t] = "register" /\ left[t] = 0
    /\ Leave("vac.curl", <<>>) /\ RegisterDone(t)
    /\ UNCHANGED <<lock, stats, owners>>

-----------------------------------------------------------------------------
\* A second passes when no thread has anything to do.
Waiting(t) == pc[t] \in {"starting", "idle", "ended", "sleep", "wait", "register", "wrlock"}
Blocked == \A t \in Threads :
    /\ Waiting(t)
    /\ pc[t] = "wrlock" => readers # {} \/ writer # Null
    /\ pc[t] \in {"sleep", "wait", "register"} => left[t] > 0
    /\ pc[t] = "wait" => rep[OwnHandle[t]] = <<>>
    /\ pc[t] = "register" => rep["vac.curl"] = <<>>
CurlBusy == IF job = Idle THEN \A h \in Handles : cmd[h] = <<>> ELSE job.left > 0 /\ job.url # "dead"
Tick ==
    /\ up /\ Blocked /\ CurlBusy
    /\ left' = [t \in Threads |-> IF left[t] > 0 THEN left[t] - 1 ELSE 0]
    /\ job' = IF job = Idle THEN job ELSE [job EXCEPT !.left = @ - 1]
    /\ blocked' = IF pc["mhd"] \in {"starting", "idle"} THEN 0 ELSE blocked + 1
    /\ UNCHANGED <<up, pc, lock, cmd, rep, ready, stats, owners>>

Push(t) == RdLock(t) \/ PushNothing(t) \/ PushSend(t) \/ PushAnswered(t) \/ PushTimeout(t)
Register(t) ==
    ReadOwner(t) \/ SetOwner(t) \/ NotMine(t) \/ Logged(t) \/ RegisterSend(t) \/ Registered(t) \/ RegisterTimeout(t)
Serve == MhdStarts \/ StatsSent \/ Push("mhd") \/ WrLock \/ (\E u \in Urls : SetUrl(u)) \/ Register("mhd")
Timer == vstat_run \/ Push("timer")
Curl == Poll \/ issue_curl \/ curl_easy_perform
Ask == vstat_reply \/ vstat_push_test \/ PutUrl \/ \E u \in VacUrls : vac_register_reply(u)

Next == Serve \/ Timer \/ Register("vac") \/ Curl \/ Ask \/ Tick

\* The threads run, curl_easy_perform ends in time, and time passes.
Fairness == WF_vars(Serve) /\ WF_vars(Timer) /\ WF_vars(Register("vac")) /\ WF_vars(Curl) /\ WF_vars(Tick)
Spec == Init /\ [][Next]_vars
FairSpec == Spec /\ Fairness

-----------------------------------------------------------------------------
\* Type correctness.
TypeOK ==
    /\ up \in BOOLEAN /\ posted \in 0 .. MaxPosts
    /\ pc["timer"] \in {"sleep", "rdlock", "locked", "wait"}
    /\ pc["vac"] \in {"check", "set", "verify", "register", "ended"}
    /\ pc["mhd"] \in {"starting", "idle", "stats", "rdlock", "locked", "wait", "wrlock", "wrlocked", "check", "set", "verify", "register"}
    /\ left \in [Threads -> 0 .. 11]
    /\ readers \subseteq Pushers /\ writer \in {Null, "mhd"}
    /\ push_url \in Urls \union {Null} /\ vac_url \in VacUrls
    /\ vsb \in [Pushers -> {"clear", "finished"}]
    /\ tid_to_fd \in [{"vac.logger", "vac.curl"} -> Registrars \union {Null}]
    /\ job.left \in 0 .. W

\* The URL libcurl gets on a push's behalf is the one that is set, for as long
\* as the push waits: vstat_push_url stays out (vstat->lck).
UrlHeld == \A t \in Pushers : pc[t] = "wait" =>
    LET q == cmd[OwnHandle[t]]
    IN  /\ \A i \in DOMAIN q : ~q[i].old => q[i].url = push_url
        /\ (job.h = OwnHandle[t] /\ ~job.old) => job.url = push_url

\* The HTTP thread's push gets its own answer, not one to a push given up: with
\* -w 2 it waits for the push curl is at and its own, four seconds, less than
\* ipc_send's five, also with the agent's own address for a URL.  It takes a
\* third caller, vac_register with a URL, to make it longer.  (The timer's push
\* comes after the HTTP thread's in a poll and may wait six.)
PushesAnswered == vac_url = Null =>
    /\ ~(job.h = "http.curl" /\ job.old)
    /\ \A s \in {cmd["http.curl"], rep["http.curl"]} : \A i \in DOMAIN s : ~s[i].old

\* HTTP is served again after five seconds: a request waits for curl as long as
\* ipc_send does, or for the lock as long as the timer's push holds it.
MhdReturns == blocked <= ReadTimeout

\* The check of handles' owners (ipc.c) and the asserts on vsbs never fail but
\* because of POST /vac_register.
AbortsByVacOnly == ~up => posted > 0

\* Every request to these listeners is answered in the end, or the agent is gone.
RequestsReturn == pc["mhd"] # "idle" ~> (pc["mhd"] = "idle" \/ ~up)

\* tests/vac_register.sh expects an "OK" of POST /vac_register.
RegisterKeepsAgentUp == up
=============================================================================
