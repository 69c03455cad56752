-------------------------------- MODULE Http --------------------------------
(***************************************************************************)
(* The HTTP side of the agent: microhttpd calls answer_to_connection       *)
(* (http.c) several times for one request, from one thread; the last call  *)
(* looks up the listener of a URL, which asks varnishd by way of vadmin    *)
(* and answers.  A URL is the sequence of its segments, as microhttpd      *)
(* decodes them; a body a sequence of chunks of which "LF" is a line feed  *)
(* and "%" a conversion of printf; a command the sequence of its words.    *)
(* varnishd takes each line of it for a command; its answers are free.     *)
(***************************************************************************)
EXTENDS Listings, FiniteSets

CONSTANTS
    Conns,          \* keep-alive connections
    Requests,       \* requests [method, url, auth, chunks] clients send
    CLI,            \* status codes of varnishd's CLI
    VclLists,       \* listings varnishd may answer with, see Listings
    BackendLists, ParamLists, Logs,
    Decoded,        \* of each segment with a line feed, the first words of the lines it begins
    MaxLag          \* bound: answers vadmin has not read

\* Words of the commands the agent makes itself.
Changing == {"vcl.inline", "vcl.discard", "vcl.use", "ban", "param.set", "backend.set_health", "stop", "start", "panic.clear"}
Reading == {"vcl.list", "vcl.show", "ban.list", "param.show", "backend.list", "status", "ping", "panic.show"}
OwnWords == Changing \union Reading \union {"(null)", "vclNNN", "here-document", "req.url ~ ", "", "-l", "LF", "text"}

\* A body and a URL are sequences; where they have line feeds is marked.
ASSUME HttpAssumption ==
    /\ \A q \in Requests : q.chunks \in Seq(Range(q.chunks)) /\ q.url \in Seq(Range(q.url))
    /\ \A q \in Requests : "LF" \notin Range(q.url) /\ Range(q.chunks) \cap DOMAIN Decoded = {}
    /\ \A s \in DOMAIN Decoded : Decoded[s] \in Seq(STRING)
    /\ OwnWords \cap DOMAIN Decoded = {}
    /\ MaxLag \in Nat

\* A parameter varnishd has; "par" parts two paragraphs of its description.
Param == {e \in [name : STRING, value : STRING \ {Null}, unit : STRING, def : STRING \ {Null}, min : STRING, max : STRING, desc : Seq(STRING)] :
    \A i \in DOMAIN e.desc : e.desc[i] = "par" => i < Len(e.desc) /\ e.desc[i + 1] # "par"}
VclLine == [status : STRING, mode : STRING, temp : STRING, busy : STRING, name : STRING \ {""}]

\* What varnishd prints.
ASSUME ListingsAssumption ==
    /\ \A l \in VclLists : l \in Seq(VclLine)
    /\ \A raw \in BackendLists : raw.heading \in Nat /\ raw.lines \in Seq(Nat \ {0}) /\ (raw.heading = 0 => raw.lines = <<>>)
    /\ \A l \in ParamLists : l \in Seq(Param)
    /\ \A l \in Logs : l \in Seq(Range(l))

VARIABLES
    r_arg,          \* -r, read-only mode
    stage,          \* of a connection: "idle", "headers", "body" or "done"
    req,            \* its request
    at,             \* chunks of it delivered
    con,            \* what *con_cls points to
    resp,           \* the response queued, and what led to it
    lag             \* answers on vadmin's connection that nobody has read

vars == <<r_arg, stage, req, at, con, resp, lag>>

-----------------------------------------------------------------------------
(* helpers.c, and what the listeners are built from.  A listener's outcome  *)
(* is a record: the command sent, how many answers lay before its own,      *)
(* varnishd's status and listing, the HTTP status and, of the content, what *)
(* the properties are about.                                                *)

NoReply == [by |-> Null, body |-> <<>>, cmd |-> <<>>, lag |-> 0, cli |-> 0, said |-> <<>>,
            status |-> 0, out |-> <<>>]
http_reply(status) == [NoReply EXCEPT !.status = status]
Aborted == http_reply(0)

\* The ways varnishd answers a command, told apart by its status.
Ask(cmd, Status(_)) == {[http_reply(Status(v)) EXCEPT !.cmd = cmd, !.cli = v] : v \in CLI}
Between(min, max, v) == IF v \in min .. max THEN 200 ELSE 500
run_and_respond_eok(min, max, cmd) == Ask(cmd, LAMBDA v : Between(min, max, v))
run_and_respond(cmd) == Ask(cmd, LAMBDA v : Between(200, 200, v))
help_reply(r) == {http_reply(200)}

FirstLineWhole(body) == body
\* What strchr and a NUL leave of a body.
FirstLine(body) ==
    LET lf == SelectInSeq(body, LAMBDA w : w = "LF") IN IF lf = 0 THEN body ELSE SubSeq(body, 1, lf - 1)
printf(arg) == IF arg = <<>> THEN <<"(null)">> ELSE arg          \* %s of a char*

\* A listing asked for with cmd, once varnishd took it: what is made of it.
Listing(cmd, lists, Out(_)) ==
    {[http_reply(200) EXCEPT !.cmd = cmd, !.cli = 200, !.said = <<l>>, !.out = Out(l)] : l \in lists}
Refused(cmd, codes, status) == {q \in Ask(cmd, LAMBDA v : status) : q.cli \in codes}

\* The lines of a command after its first: where each starts, and its first
\* word.  vadmin_run writes the command as it is, and reads one answer.
MoreLines(cmd) ==
    {<<i, 0, cmd[i + 1]>> : i \in {k \in DOMAIN cmd : cmd[k] = "LF" /\ k < Len(cmd) /\ cmd[k + 1] # "LF"}}
      \union UNION {{<<i, j, Decoded[cmd[i]][j]>> : j \in DOMAIN Decoded[cmd[i]]} : i \in {k \in DOMAIN cmd : cmd[k] \in DOMAIN Decoded}}
\* 400 is vadmin's own: the command was not sent.
Surplus(o) == IF o.cli = 400 THEN 0 ELSE Cardinality(MoreLines(o.cmd))

\* What comes of a listing when the answer read is that of some other line.
Astray(cb, o) ==
    {[http_reply(s) EXCEPT !.cmd = o.cmd, !.cli = o.cli, !.out = Garbled] :
        s \in IF cb = "vcl_active" THEN {200, 500} ELSE {0, 200}}
Answered(cb, outs) ==
    IF lag = 0 THEN outs ELSE outs \union UNION {Astray(cb, o) : o \in {x \in outs : x.said # <<>> /\ x.cmd # <<>>}}

-----------------------------------------------------------------------------
(* vcl.c                                                                    *)

vcl_json(r) ==
    IF r.arg # <<>> THEN {http_reply(404)}
    ELSE Listing(<<"vcl.list">>, VclLists, vcl_list_json)
             \union Refused(<<"vcl.list">>, {400}, 500) \union Refused(<<"vcl.list">>, CLI \ {200, 400}, 200)

\* Its name, or 500 "No active VCL".
vcl_active_reply(r) ==
    {[q EXCEPT !.status = IF q.out = <<>> THEN 500 ELSE 200] : q \in Listing(<<"vcl.list">>, VclLists, vcl_active)}
        \union Refused(<<"vcl.list">>, CLI \ {200}, 500) \union Refused(<<"vcl.list">>, CLI \ {200, 400}, 200)

vcl_listshow(r) ==
    Ask(IF r.arg = <<>> THEN <<"vcl.list">> ELSE <<"vcl.show">> \o r.arg,
        LAMBDA v : IF v = 200 THEN 200 ELSE 400)

\* vcl_store refuses an empty body and what is not an identifier; the body is a
\* here-document to varnishd, one word of the command.  That the VCL may not be
\* saved, VclStore is about.
valid_c_ident(id) == id # <<"(null)">> /\ Len(id) = 1 /\ id[1] \notin DOMAIN Decoded
vcl_push(r) ==
    LET id == IF r.method = "POST" THEN <<"vclNNN">> ELSE printf(r.arg)
    IN  IF r.body = <<>> \/ ~valid_c_ident(id) THEN {http_reply(500)}
        ELSE Ask(<<"vcl.inline">> \o id \o <<"here-document">>, LAMBDA v : IF v = 200 THEN 201 ELSE 500)
                 \union {q \in Ask(<<"vcl.inline">> \o id \o <<"here-document">>, LAMBDA v : 500) : q.cli = 200}

vcl_delete(r) ==
    Ask(<<"vcl.discard">> \o printf(r.arg), LAMBDA v : IF v \in {400, 106} THEN 500 ELSE 200)

vcl_deploy(r) ==
    LET cmd == <<"vcl.use">> \o printf(r.arg)
    IN  run_and_respond(cmd) \union {q \in Ask(cmd, LAMBDA v : 500) : q.cli = 200}

-----------------------------------------------------------------------------
(* vban.c, vdirect.c, vstatus.c, echo.c                                     *)

\* The shorthand puts "/" before what follows "/ban" in the URL, which starts
\* with a slash: "" stands before an extra one.
vban_reply(r) ==
    IF r.method = "GET" THEN run_and_respond(<<"ban.list">>)
    ELSE IF r.arg = <<>> THEN run_and_respond(<<"ban">> \o FirstLine(r.body))
    ELSE IF r.body # <<>> THEN {http_reply(500)}
    ELSE run_and_respond(<<"ban", "req.url ~ ", "">> \o Tail(r.url))

\* The line is the format of vasprintf, which has no arguments for it: what a
\* conversion prints, or whether it is an error, nothing tells.
vdirect_reply(r) ==
    LET line == FirstLine(r.body)
        Formatted(x) == [i \in DOMAIN line |-> IF line[i] = "%" THEN x ELSE line[i]]
    IN  IF "%" \notin Range(line) THEN run_and_respond(line)
        ELSE {Aborted} \union UNION {run_and_respond(Formatted(x)) : x \in {"text"} \union DOMAIN Decoded}

vstatus(cmd) == run_and_respond(<<cmd>>)
vstatus_panic(r) == run_and_respond_eok(200, 301, <<IF r.method = "GET" THEN "panic.show" ELSE "panic.clear">>)

echo_reply(r) == {[http_reply(200) EXCEPT !.out = r.body]}

-----------------------------------------------------------------------------
(* vparams.c, vbackends.c                                                   *)

\* varnishd's param.show -l of a sequence of parameters.
Line(k, v) == [k |-> k, v |-> v, unit |-> "", default |-> FALSE]
Given(k, v) == IF v = "" THEN <<>> ELSE <<Line(k, v)>>
ParamText(e) ==
    <<Line("name", e.name), [k |-> "value", v |-> e.value, unit |-> e.unit, default |-> e.def = e.value]>>
      \o (IF e.def = e.value THEN <<>> ELSE <<Line("def", e.def)>>) \o Given("min", e.min) \o Given("max", e.max)
      \o <<Line("blank", "")>> \o [i \in DOMAIN e.desc |-> IF e.desc[i] = "par" THEN Line("blank", "") ELSE Line("text", e.desc[i])]
      \o <<Line("blank", "")>>
ParamShow(es) ==
    LET upto[n \in 0 .. Len(es)] == IF n = 0 THEN <<>> ELSE upto[n - 1] \o ParamText(es[n]) IN upto[Len(es)]

\* Asked for anything but -l, varnishd may answer with a line for each parameter.
ParamShort(es) == [i \in DOMAIN es |-> Line("name", es[i].name)]
ParamsPrinted(q, text) ==
    LET json == vparams_show_json(text)
    IN  IF json.aborts THEN {[q EXCEPT !.status = 0]}
        ELSE {[q EXCEPT !.out = Printed(json.out, junk)] : junk \in [DOMAIN json.out -> Junk]}
ParamsAnswer(q) ==
    LET short == IF q.cmd = <<"param.show", "-l">> THEN {} ELSE {ParamShort(q.said[1])}
    IN  UNION {ParamsPrinted(q, text) : text \in {ParamShow(q.said[1])} \union short}
vparams_json_reply(r) ==
    LET cmd == <<"param.show">> \o (IF r.arg = <<>> THEN <<"-l">> ELSE r.arg)
    IN  (UNION {ParamsAnswer(q) : q \in Listing(cmd, ParamLists, LAMBDA l : <<>>)})
        \union Refused(cmd, CLI \ {200}, 500)

vparams_reply(r) ==
    IF r.method = "GET" THEN run_and_respond(<<"param.show">> \o printf(r.arg))
    ELSE IF r.url = <<"param", "">> THEN run_and_respond(<<"param.set">> \o FirstLine(r.body))
    ELSE run_and_respond(<<"param.set">> \o printf(r.arg) \o FirstLine(r.body))

vbackends_json_reply(r) ==
    {q \in Listing(<<"backend.list">>, BackendLists, vbackends_show_json) : ~NoLine(q.said[1])}
        \union {[q EXCEPT !.status = 0] : q \in {x \in Listing(<<"backend.list">>, BackendLists, LAMBDA l : <<>>) :
                                                      NoLine(x.said[1]) \/ Overlong(x.said[1])}}
        \union {q \in Listing(<<"backend.list">>, BackendLists, LAMBDA l : Garbled) : Overlong(q.said[1])}
        \union Refused(<<"backend.list">>, CLI \ {200}, 500)

vbackends_reply(r) ==
    IF r.arg = <<>> THEN {http_reply(500)}
    ELSE run_and_respond(<<"backend.set_health">> \o r.arg \o FirstLine(r.body))

-----------------------------------------------------------------------------
(* html.c and vlog.c.  A URL that climbs out of the directory is refused;   *)
(* then stat, open, the kind of the file and an asserted read follow.       *)

Climbs(arg) == \E i \in DOMAIN arg : arg[i] = ".." /\ i < Len(arg)
html_reply(r) ==
    IF r.url = <<"html">> THEN {http_reply(301)}
    ELSE IF Climbs(r.arg) THEN {http_reply(500)}
    ELSE {http_reply(200), http_reply(500), Aborted}    \* Aborted: the file is not of the size stat gave

\* /log/limit/tag/regexp: ten records, of all tags, are the default.
Numbers == <<"0", "1", "2">>
IsNumber(w) == w \in Range(Numbers)
Number == [w \in Range(Numbers) |-> CHOOSE n \in 0 .. 2 : Numbers[n + 1] = w]
vlog_reply(r) ==
    LET limit == IF r.arg = <<>> THEN 10 ELSE Number[r.arg[1]]
        tags  == IF Len(r.arg) > 1 /\ r.arg[2] # "" THEN <<r.arg[2]>> ELSE <<>>
    IN  IF r.arg # <<>> /\ ~IsNumber(r.arg[1]) THEN {http_reply(500)}
        ELSE {http_reply(500)} \union Listing(<<>>, Logs, LAMBDA l : vlog_cb_func(limit, tags, l))

-----------------------------------------------------------------------------
(* The listeners.  No path leads to another one, so that the order of       *)
(* http->listener only decides between methods of one path.                 *)

Path(path, methods, cb) == [path |-> path, methods |-> methods, cb |-> cb]
Help(name) == Path(<<"help", name>>, {"GET"}, "help_reply")

VclPaths ==
    {Path(<<"vcljson">>, {"GET"}, "vcl_json"), Path(<<"vcl">>, {"GET"}, "vcl_listshow"),
     Path(<<"vcl">>, {"PUT", "POST"}, "vcl_push"), Path(<<"vcl">>, {"DELETE"}, "vcl_delete"),
     Path(<<"vclactive">>, {"GET"}, "vcl_active"), Path(<<"vcldeploy">>, {"PUT"}, "vcl_deploy"), Help("vcl")}
BanPaths == {Path(<<"ban">>, {"GET", "POST"}, "vban_reply"), Help("ban")}
DirectPaths == {Path(<<"direct">>, {"POST"}, "vdirect_reply"), Help("direct")}
ParamPaths ==
    {Path(<<"param">>, {"PUT", "GET"}, "vparams_reply"), Path(<<"paramjson">>, {"GET"}, "vparams_json_reply"), Help("param")}
BackendPaths ==
    {Path(<<"backend">>, {"PUT"}, "vbackends_reply"), Path(<<"backendjson">>, {"GET"}, "vbackends_json_reply"), Help("backend")}
StatusPaths ==
    {Path(<<"status">>, {"GET"}, "status"), Path(<<"ping">>, {"GET"}, "ping"),
     Path(<<"stop">>, {"PUT", "POST"}, "stop"), Path(<<"start">>, {"PUT", "POST"}, "start"),
     Path(<<"panic">>, {"GET", "DELETE"}, "vstatus_panic"), Help("panic"),
     Path(<<"version">>, {"GET"}, "help_reply"), Path(<<"package_string">>, {"GET"}, "help_reply")}
HtmlPaths == {Path(<<"html">>, {"GET"}, "html_reply")}
LogPaths == {Path(<<"log">>, {"GET"}, "vlog_reply")}
EchoPaths == {Path(<<"echo">>, {"POST", "PUT", "GET"}, "echo_reply")}

Listeners == VclPaths \union BanPaths \union DirectPaths \union ParamPaths \union BackendPaths
    \union StatusPaths \union HtmlPaths \union LogPaths \union EchoPaths

Callback(cb, r) ==
    CASE cb = "vcl_json" -> vcl_json(r)           [] cb = "vcl_listshow" -> vcl_listshow(r)
      [] cb = "vcl_push" -> vcl_push(r)           [] cb = "vcl_delete" -> vcl_delete(r)
      [] cb = "vcl_active" -> vcl_active_reply(r) [] cb = "vcl_deploy" -> vcl_deploy(r)
      [] cb = "vban_reply" -> vban_reply(r)       [] cb = "vdirect_reply" -> vdirect_reply(r)
      [] cb = "vparams_reply" -> vparams_reply(r) [] cb = "vparams_json_reply" -> vparams_json_reply(r)
      [] cb = "vbackends_reply" -> vbackends_reply(r)
      [] cb = "vbackends_json_reply" -> vbackends_json_reply(r)
      [] cb = "html_reply" -> html_reply(r)       [] cb = "vlog_reply" -> vlog_reply(r)
      [] cb = "echo_reply" -> echo_reply(r)       [] cb = "vstatus_panic" -> vstatus_panic(r)
      [] cb = "help_reply" -> help_reply(r)
      [] cb \in {"status", "ping", "stop", "start"} -> vstatus(cb)

\* What follows the path, without the slashes it starts with.
Argument(l, url) ==
    LET rest == SubSeq(url, Len(l.path) + 1, Len(url))
        word == SelectInSeq(rest, LAMBDA w : w # "")
    IN  IF word = 0 THEN <<>> ELSE SubSeq(rest, word, Len(rest))

Modify == {"PUT", "POST", "DELETE"}
parse_method(m) == IF m = "HEAD" THEN "GET" ELSE IF m \in Modify \union {"GET", "OPTIONS"} THEN m ELSE "UNKNOWN"

\* A request without a body buffer has NULL for a body: those that look at it
\* then crash.
NeedsBody(cb, m) ==
    cb \in {"vcl_push", "vban_reply", "vdirect_reply", "vparams_reply", "vbackends_reply", "echo_reply"} /\ m # "GET"

\* The answer vadmin reads to a command is the one that has waited longest.
Served(cb, body, o) ==
    [by |-> cb, body |-> body, cmd |-> o.cmd, lag |-> IF o.cmd = <<>> THEN 0 ELSE lag,
     cli |-> o.cli, said |-> o.said, status |-> o.status, out |-> o.out]

AnyMethod(q, info) ==
    LET hits == {l \in Listeners : IsPrefix(l.path, q.url)}
        l    == CHOOSE x \in hits : TRUE
        r    == [method |-> parse_method(q.method), url |-> q.url, arg |-> Argument(l, q.url), body |-> info.body]
    IN  IF hits # {} THEN {Served(l.cb, info.body, o) : o \in Callback(l.cb, r)}
        ELSE {http_reply(500)}
find_listener(q, info) ==
    LET m    == parse_method(q.method)
        hits == {l \in Listeners : IsPrefix(l.path, q.url) /\ m \in l.methods}
        l    == CHOOSE x \in hits : TRUE
        r    == [method |-> m, url |-> q.url, arg |-> Argument(l, q.url), body |-> info.body]
        out  == IF info.kept \/ ~NeedsBody(l.cb, m) THEN Answered(l.cb, Callback(l.cb, r)) ELSE {Aborted}
    IN  IF hits # {} THEN {Served(l.cb, info.body, o) : o \in out}
        ELSE {http_reply(IF m = "GET" /\ q.url = <<"">> THEN 200 ELSE 500)}    \* make_help

-----------------------------------------------------------------------------
(* http.c: what microhttpd calls, one call a step.                          *)

NoRequest == [method |-> "", url |-> <<>>, auth |-> "none", chunks |-> <<>>]
NoCon == [set |-> FALSE, authed |-> FALSE, kept |-> FALSE, body |-> <<>>]

\* A header that is not there, of another scheme, or of another password.
check_auth(q, info) == info.authed \/ q.auth = "right"

Init ==
    /\ r_arg \in BOOLEAN
    /\ stage = [c \in Conns |-> "idle"]
    /\ req = [c \in Conns |-> NoRequest]
    /\ at = [c \in Conns |-> 0]
    /\ con = [c \in Conns |-> NoCon]
    /\ resp = [c \in Conns |-> NoReply]
    /\ lag = 0

Arrive(c, q) ==
    /\ stage[c] = "idle"
    /\ stage' = [stage EXCEPT ![c] = "headers"]
    /\ req' = [req EXCEPT ![c] = q]
    /\ UNCHANGED <<r_arg, at, con, resp, lag>>

FirstIfUpload(c) ==
    /\ stage[c] = "headers" /\ ~con[c].set
    /\ LET ok == check_auth(req[c], NoCon)
       IN  con' = [con EXCEPT ![c] = [set |-> TRUE, authed |-> ok, kept |-> ok /\ req[c].chunks # <<>>, body |-> <<>>]]
    /\ stage' = [stage EXCEPT ![c] = "body"]
    /\ UNCHANGED <<r_arg, req, at, resp, lag>>
\* The first call: the body is kept if it comes with the password.
First(c) ==
    /\ stage[c] = "headers" /\ ~con[c].set
    /\ LET ok == check_auth(req[c], NoCon)
       IN  con' = [con EXCEPT ![c] = [set |-> TRUE, authed |-> ok, kept |-> ok, body |-> <<>>]]
    /\ stage' = [stage EXCEPT ![c] = "body"]
    /\ UNCHANGED <<r_arg, req, at, resp, lag>>

ReadOnly(q) == r_arg /\ parse_method(q.method) \notin {"GET", "OPTIONS"}

\* A call with upload_data.
Upload(c) ==
    /\ stage[c] = "body" /\ at[c] < Len(req[c].chunks) /\ ~ReadOnly(req[c])
    /\ at' = [at EXCEPT ![c] = @ + 1]
    /\ con' = [con EXCEPT ![c].body = IF con[c].kept THEN Append(@, req[c].chunks[at'[c]]) ELSE @]
    /\ UNCHANGED <<r_arg, stage, req, resp, lag>>

Queue(c, o) ==
    /\ resp' = [resp EXCEPT ![c] = o]
    /\ lag' = lag + Surplus(o) /\ lag' \in 0 .. MaxLag
    /\ stage' = [stage EXCEPT ![c] = "done"]

\* The last call; also the first one of a request that finds *con_cls set.
Final(c) ==
    /\ con[c].set /\ (stage[c] = "headers" \/ (stage[c] = "body" /\ at[c] = Len(req[c].chunks)))
    /\ LET q == req[c]
       IN  \E o \in IF ReadOnly(q) THEN {http_reply(405)}
                    ELSE IF q.method = "OPTIONS" THEN {http_reply(200)}
                    ELSE IF ~check_auth(q, con[c]) THEN {http_reply(401)}
                    ELSE find_listener(q, con[c]) :
               Queue(c, o)
    /\ con' = [con EXCEPT ![c].authed = check_auth(req[c], con[c])]
    /\ UNCHANGED <<r_arg, req, at>>

request_completedUnlessAuthed(c) == con' = IF con[c].authed THEN con ELSE [con EXCEPT ![c] = NoCon]
request_completed(c) == con' = [con EXCEPT ![c] = NoCon]
ForgetNotAt(c) ==
    /\ stage' = [stage EXCEPT ![c] = "idle"]
    /\ req' = [req EXCEPT ![c] = NoRequest]
    /\ resp' = [resp EXCEPT ![c] = NoReply]
    /\ UNCHANGED <<r_arg, at, lag>>
Forget(c) ==
    /\ stage' = [stage EXCEPT ![c] = "idle"]
    /\ req' = [req EXCEPT ![c] = NoRequest]
    /\ at' = [at EXCEPT ![c] = 0]
    /\ resp' = [resp EXCEPT ![c] = NoReply]
    /\ UNCHANGED <<r_arg, lag>>

\* The 405 cannot be queued while a body is on its way: microhttpd closes.
RefusedUpload(c) ==
    /\ stage[c] = "body" /\ at[c] < Len(req[c].chunks) /\ ReadOnly(req[c])
    /\ request_completed(c) /\ Forget(c)

\* The response is out, or the client is gone before it is.
Completed(c) == stage[c] = "done" /\ request_completed(c) /\ Forget(c)
Gone(c) == stage[c] \in {"headers", "body"} /\ request_completed(c) /\ Forget(c)

\* vadmin lost its connection and has made a new one.
Reconnect == lag > 0 /\ lag' = 0 /\ UNCHANGED <<r_arg, stage, req, at, con, resp>>

Next ==
    \/ \E c \in Conns :
          \/ \E q \in Requests : Arrive(c, q)
          \/ First(c) \/ Upload(c) \/ Final(c)
          \/ RefusedUpload(c) \/ Completed(c) \/ Gone(c)
    \/ Reconnect

Spec == Init /\ [][Next]_vars

-----------------------------------------------------------------------------
\* Type correctness; no more is read of a body than the client sent.
TypeOK ==
    /\ r_arg \in BOOLEAN /\ lag \in 0 .. MaxLag
    /\ stage \in [Conns -> {"idle", "headers", "body", "done"}]
    /\ DOMAIN req = Conns /\ DOMAIN con = Conns /\ DOMAIN resp = Conns /\ at \in [Conns -> Nat]
    /\ \A c \in Conns : req[c] \in Requests \union {NoRequest} /\ at[c] \in 0 .. Len(req[c].chunks)

\* Over any sequence of requests on a connection that is kept alive, a listener
\* is called only for a request that has the password itself, with that whole
\* request's body and no other's, and in read-only mode for none but GET and
\* HEAD (answer_to_connection, whose con_info outlives the call).
ServedAsSent == \A c \in Conns : resp[c].by # Null =>
    req[c].auth = "right" /\ resp[c].body = req[c].chunks /\ ~ReadOnly(req[c])

\* "GET requests never modify state" (HELP_TEXT of http.c), and with -r nothing
\* does: no line of a command sent for one asks varnishd for a change.
Modifies(o) ==
    \/ o.by = "vdirect_reply"
    \/ o.cmd # <<>> /\ (o.cmd[1] \in Changing \/ \E l \in MoreLines(o.cmd) : l[3] \in Changing)
MayModify(c) == req[c].method \in Modify /\ ~r_arg
GetsNeverModify == \A c \in Conns : Modifies(resp[c]) => MayModify(c)

\* What is true of it: the first line changes something for PUT, POST and
\* DELETE only, and not with -r; a further line does for no other request than
\* one whose URL has a line feed in it, which the listeners put into their
\* commands as it is.
HasLineFeed(url) == Range(url) \cap DOMAIN Decoded # {}
GetsModifyByLineFeedOnly == \A c \in Conns : LET o == resp[c] IN
    Modifies(o) => MayModify(c) \/ (HasLineFeed(req[c].url) /\ o.by # "vdirect_reply" /\ o.cmd[1] \notin Changing)

\* A command gets the answer to itself (run_and_respond of helpers.c: "Run a
\* varnishadm-command and send the result of that command back") while vadmin
\* has not fallen behind; and it does only by a command for a URL with a line
\* feed, or for a line to /direct that has a conversion: the line feeds of
\* bodies do not do it, and nothing that goes wrong in a request does.
Converts(o) == o.by = "vdirect_reply" /\ "%" \in Range(FirstLine(o.body))
AnswersInStep == [][lag' > lag => \E c \in Conns : resp'[c] # resp[c] /\ (HasLineFeed(req[c].url) \/ Converts(resp'[c]))]_vars

\* No listener gets a body that is NULL, and the agent is not ended by any of
\* them but as listed here: a file that changes while html.c reads it; a line to
\* /direct with a conversion; a parameter whose value is empty or a word that
\* ends in a parenthesis or bracket, or whose description is longer than the
\* buffer of fill_entry (vparams.c); /paramjson with an argument; an answer to
\* backend.list that is empty or has a line too long (vbackends.c); a listing
\* that is in truth the answer to another line.
Indigestible(e) ==
    \/ e.value = "" \/ Len(e.desc) > DescSize
    \/ e.unit = "" /\ (e.value \in Brackets \/ (e.value \in Parens /\ e.def # e.value))
AbortKnown(o) ==
    (o.by # Null /\ o.status = 0)
        => \/ o.by = "html_reply" \/ Converts(o)
           \/ o.by \in {"vcl_json", "vparams_json_reply", "vbackends_json_reply"} /\ o.lag > 0
           \/ o.by = "vparams_json_reply" /\ o.cmd # <<"param.show", "-l">>
           \/ o.by = "vparams_json_reply" /\ \E i \in DOMAIN o.said[1] : Indigestible(o.said[1][i])
           \/ o.by = "vbackends_json_reply" /\ (NoLine(o.said[1]) \/ Overlong(o.said[1]))
AbortsAreKnown == \A c \in Conns : AbortKnown(resp[c])

\* The JSON says what varnishd's listing said: all parameters, last one first,
\* with every field, if each has a description and no quote is in any of it; the
\* names of the VCLs, if there is one, no quote is in them and their
\* temperatures have four letters at most; a comma after each backend but the
\* last, if backend.list has fewer lines than its heading has letters and none
\* is shorter than that or too long; of the log the first records of the tag.
ParamsTrue(es, out) ==
    (\A i \in DOMAIN es : es[i].desc # <<>> /\ ~Quoted(es[i])) => out = Reverse(es)
VclsTrue(ls, out) ==
    (ls # <<>> /\ \A i \in DOMAIN ls : ls[i].temp \notin DOMAIN LongTemps /\ ls[i].name \notin Quotes)
        => out = [i \in DOMAIN ls |-> LET l == ls[i]
                     IN [name |-> l.name, status |-> l.status, temp |-> l.temp, mode |-> l.mode]]
BackendsTrue(raw, out) ==
    (Len(raw.lines) < raw.heading /\ (\A i \in DOMAIN raw.lines : raw.lines[i] >= raw.heading) /\ ~Overlong(raw))
        => \A i \in DOMAIN raw.lines : out[i].comma <=> i # Len(raw.lines)
LogTrue(arg, l, out) ==
    /\ Len(arg) > 0 /\ IsNumber(arg[1]) => Len(out) <= Number[arg[1]]
    /\ \A i \in DOMAIN out : \E j \in DOMAIN l :
           j >= i /\ out[i].rec = l[j] /\ (Len(arg) > 1 /\ "" \notin {arg[1], arg[2]} => l[j].tag = arg[2])
ListingTrue(url, o) == o.said # <<>> =>
    /\ o.by = "vparams_json_reply" /\ o.status = 200 /\ o.cmd = <<"param.show", "-l">> => ParamsTrue(o.said[1], o.out)
    /\ o.by = "vcl_json" => VclsTrue(o.said[1], o.out)
    /\ o.by = "vbackends_json_reply" /\ o.status = 200 => BackendsTrue(o.said[1], o.out)
    /\ o.by = "vlog_reply" => LogTrue(Tail(url), o.said[1], o.out)
ListingsTrue == \A c \in Conns : ListingTrue(req[c].url, resp[c])
=============================================================================
