# varnish-agent in TLA+

A verification development for varnish-agent (vagent2): a small daemon that
gives a running varnishd an HTTP interface. The modules are translated from the
C sources under `src/`, TLC checks them on small instances, and TLAPS proves
what safety they establish for every instance.

## The system

The agent is one process with one thread per plugin that has work of its own.
Threads do not share data: each owns handles (one end of a socket pair) to
plugins it needs, writes a command and waits up to five seconds for a reply.

| part | code | state | operations |
|---|---|---|---|
| IPC | `src/ipc.c` | socket pairs, `listeners` of each plugin, `tid_to_fd` | `ipc_register`, `ipc_run`/`ipc_send`; `ipc_loop`, `ipc_cmd`, callback |
| start | `src/main.c`, `plugins.c` | options, plugin list, `threads_started` | init all plugins, pid file, leave root, fork, start threads, join |
| vadmin | `modules/vadmin.c`, `foreign/vss.c` | connection to varnishd, `state`, secret file | connect, authenticate, run one command |
| vping | `modules/vping.c` | none | `ping` and `status` every 30 seconds |
| vcl | `modules/vcl.c` | files in the persistence directory | list, show, upload, discard, deploy |
| http | `modules/http.c` | listeners, one record per connection | authentication, read-only mode, dispatch |
| vstat | `modules/vstat.c` | `push_url` under a rwlock, two log contexts | stats, push on a timer, push test, set URL |
| curl, vac_register | `modules/curl.c`, `vac_register.c` | transfer position, VAC URL | push a body; register once and on request |
| logger | `modules/logger.c` | log level | one line to syslog |
| vparams, vban, vbackends, vstatus, vdirect, echo, html, vlog | `modules/` | none that outlives a request | a command or a file per request, parsers |
| pid file, buffers, base64 | `foreign/` | locked file; growing buffer | open, write, remove; append; encode |

Interactions: HTTP handlers (all on the one thread of microhttpd), vping, vstat's
timer and vac_register call vadmin, curl and the logger over IPC; the callbacks
of vadmin and curl call the logger in turn; only vadmin talks to varnishd, one
command and one answer after the other on one connection. The
only lock is vstat's. What is hard: replies that come after the caller gave up,
sockets that fill up, a varnishd that dies between any two system calls,
descriptor numbers that are closed and used again, crashes between the file
operations of an upload, threads that wait for threads, clients' words that are
put into commands and formats as they are.

## Modules

| module | models | code it stands for |
|---|---|---|
| `Ipc` | IPC between threads, per handle, piece by piece | `ipc.c` 100-279 |
| `IpcChannel` | abstract: a remote call over ordered channels | what `ipc.h` promises |
| `MCIpc`, `MCIpcTurns` | instances: vping and vcl -> vadmin -> logger; two callers of one plugin, and how often one overtakes | |
| `Vadmin` | one vadmin thread against varnishd and the kernel | `vadmin.c` 59-321, `vss.c` 206-255, `vping.c` 48-74 |
| `VclStore` | uploads, discards, deploys, and the files | `vcl.c` 85-242, 366-414, 467-513 |
| `VclFiles` | abstract: stored VCLs and boot.vcl, replaced at one stroke | |
| `Http` | requests on keep-alive connections, and every listener | `http.c`, `helpers.c`, the listeners in `modules/` |
| `Listings` | the parsers of varnishd's listings, as operators | `vcl.c` 248-298 and 434-465, `vbackends.c`, `vparams.c`, `vlog.c` 93-123 |
| `MCHttp` | instances: requests of each kind, listings of each shape | |
| `Push` | HTTP thread, timer, registration and curl, in seconds | `vstat.c`, `curl.c`, `vac_register.c`, `ipc.c` 79-90 |
| `Startup` | agents that start on one pid file and one port | `main.c` 138-406, `pidfile.c`, `http.c` 459-530 |
| `PidLock` | abstract: a lock with one holder | |
| `Vsb` | a growing string buffer when memory is short | `vsb.c` |
| `MCVsb` | instance: lengths around the sizes where it grows | |
| `IpcProofs`, `VadminProofs`, `VclStoreProofs`, `ListingsProofs`, `HttpProofs`, `PushProofs`, `StartupProofs`, `VsbProofs` | inductive invariants and refinements, proved | |

Some modules have faulty variants, definitions that differ from an
original by one plausible slip. No specification uses them; they show, put in
the original's place, that a property tells the two apart.

### Ipc

A handle is a consumer's thread writing commands and one socket pair to a
provider. `pc[h]` is where the consumer is in `ipc_send` (writing the header,
writing the data, reading the result), `put` how much of the data is written,
`req` the bytes in the socket as units, each labelled with the call it
belongs to; `phase` and `got` are where `ipc_cmd` is in a command, `rep` the
replies in the other direction. A provider is in one callback at a time, goes
round its listeners in the order of `poll` (`Poll`, `NextListener`), and its callback
may call handles of its own. A unit stands for any number of bytes, so that a
command takes several writes and reads and may exceed the socket
(`ReqCap`). `Timeout` gives up on a reply; only handles in `Slow` may, the
others are answered in time. That one thread uses a handle, which
`ipc_verify_sock_thread` asserts, is assumed.

The inductive invariant `StreamsInOrder` says, for each handle, where every
written unit is (socket, partly read command, executed) and that replies and
give-ups account for every call; framing, the lag of answers and the bound on
replies in the socket follow from it.

### Vadmin

One action per system call of `cli_sock` and `vadmin_run`. `owner[f]` is what
descriptor number `f` refers to: the kernel knows, vadmin only has the numbers
`sock` and `sfd`. `peer` is the far end of the connection: live, closed (`fin`; the
first write still succeeds and provokes a reset) or reset (`rst`; a write
fails, `cli_write` closes the descriptor). varnishd may stop, restart with a
new port and a new or replaced secret, and hang; another thread opens and
closes a descriptor, always the lowest free number, as the kernel does. `HasS`
and `HasT` are the command line options, `Unprivileged` says whether the agent left root.
`fails` and `refused` count for the properties only.

### VclStore and VclFiles

The HTTP thread sends a command and, when it is answered 200, does the system
calls of `vcl_persist` or `vcl_persist_active`, one per action. A path names an
inode, so hard links are what they are: `boot.vcl` and `<name>.auto.vcl` are one
file until either is replaced. Written data is unsynced until `fsync`; a power loss
takes unsynced data and restarts varnishd from boot.vcl. The handle to vadmin is
the queue of commands and the queue of answers that `IpcChannel` describes,
including calls that were given up. VCL programs are values; varnishd may refuse
to compile any. Clients' names are valid identifiers. An upload under another name, or with
an empty body, is answered before anything happens (`valid_c_ident`); `vcl_deploy` and `vcl_delete`
do not look and send whatever the URL has, which is left out here (a line feed in it
makes two commands; `Http` has that). So is a VCL that holds the line that ends its own
here-document. Directory operations are taken to be durable in order.
`VclStore` implements `VclFiles`: seen through the directory, each
stored VCL and boot.vcl change in one step.

### Http and Listings

microhttpd calls `answer_to_connection` once with the headers, once for each
piece of the body and once at the end; each call is an action (`First`, `Upload`, `Final`), and
what the calls share is in `con[c]`, the structure behind `*con_cls`. Clients
may go away between any two (`Gone`). `Final` finds the listener and runs it: a
listener is an operator from the request (method, URL as a sequence of segments,
argument, body) to the set of its outcomes, one for each way varnishd may
answer, with the command it sent and what is made of the answer. An assert
that fails in a listener, or a crash, has status 0 (`Aborted`).

Commands are sequences of words; a body is a sequence of chunks, "LF" being a line feed and "%"
a conversion of printf. A segment of a URL is a word too, as microhttpd decodes it: those
in the domain of `Decoded` have line feeds in them, and `Decoded` gives the first word of
each line they begin. Listeners that cut a body at its line feed do so in the model
(`FirstLine`); none does it with an argument. varnishd takes each line for a
command and answers each (`MoreLines`), `vadmin_run` reads one answer, and `lag` counts the
others: every command after that is given an older answer (`Answered`), whose text the
parsers take for the listing they asked for (`Astray`), until vadmin connects again (`Reconnect`). The
line posted to /direct is the format of a `vasprintf` without arguments
(`vdirect_reply`): with a conversion in it, it prints some word, which may have a line feed,
or the agent ends. An argument of /paramjson takes the place of `-l`, and the parser may get
the short form of the answer (`ParamsAnswer`).

`Listings` has the parsers. A line of varnishd's answer is a record of its
columns; what matters of a text is kept: which words a `sscanf` splits, how long a
line is, whether it ends in a line feed. `vparams_show_json` goes through the lines with
the asserts it has on the way (`param_assert`, `Stop`); `DescSize` stands for the
2048 bytes a description is collected in, counted in lines. If there is no line, what is printed
is what the buffer held (`Copied`, out of `Junk`). Nothing is escaped: words in `Quotes`, which have a
quote or a backslash in them, make the JSON `Garbled` (`Printed`). `NoEnd` says where `parse_value`
does not find the end of a value, with words that end in a parenthesis or a bracket (`Parens`, `Brackets`). Of `vbackends_show_json`, `NoLine` is
the NULL that `strlen` gets for an empty answer, `Overlong` a line that is too long for `tmp` (1000 bytes in the code, `LineSize`). `ListingsAssumption` says what
varnishd prints: descriptions with no two blank lines in a row and none at the end, columns that are not empty where the
parsers need them. Sequences are gone through by recursive functions over
positions (`Keep`, `Total`, `ParamLines`), which the proofs can reason about.

### Push

Threads: microhttpd's (`"mhd"`), vstat's timer, the registration (`"vac"`, which registers and ends) and the
curl plugin, which performs one command after the other. `Tick` is a second and only
passes when nobody can do anything; `ipc_send` waits five, libcurl `W` (`-w`). A
push URL is a good host, one that does not answer, or the agent itself, which
answers when its HTTP thread is free. `readers` and `writer` are `vstat->lck`;
`poll` finds several handles readable at once: they are in `ready` and curl serves them in turn
before it polls again. `ReadOwner`, `SetOwner`, `Mine` and `NotMine` are the steps of
`ipc_verify_sock_thread` on the two handles that two threads use.

### Startup

Every system call on the pid file is an action of an agent, and each agent may be
killed before any (`Killed`) and started again. `path` is the inode at the
pid file's path, `lock` and `content` belong to an inode. `pidfile_read` tries
four times to find a pid; with none, `main` only warns and goes on without
the file, and the port decides. Options and the secret are right or wrong.

### Vsb

`size`, `len`, `error` and `finished` are the fields of the structure; of the text
only its length is kept. An append is a sequence of steps (`VSB_put_byte` as
far as there is room, then one with more room or without memory), `VSB_quote` makes a piece of each
character. `text` is what callers appended, for the property.

## Runs

| run | what it shows |
|---|---|
| `ipc_topology` | two threads that keep calling vadmin, which calls the logger, everyone answered in time: each call returns, nobody is overtaken more than twice |
| `ipc_slow` | answers may be late, commands exceed the socket: order survives, an answer lags by the number of calls given up, a thread blocks on a reply only when the replies given up fill the socket; `IpcChannel` is implemented |
| `vadmin` | asserts hold, commands go to vadmin's own connection, only interrupted authentications misuse or leak descriptors |
| `vadmin_reconnect` | vadmin gets back to varnishd, after at most three failing commands |
| `vadmin_sigpipe` | violated: see below |
| `vcl_store` | crashes, failing system calls and late answers: files are whole and synced, boot.vcl never goes missing, leftovers are harmless, `VclFiles` is implemented; 201 means loaded and stored until an answer is late or something crashes, 200 to a deploy that boot.vcl is the active VCL until anything fails |
| `http` | listeners run for authorised requests with their whole body; a GET, or anything with `-r`, changes something only by a line feed in its URL; answers fall behind only by that or by a conversion in /direct; no abort but those listed in `AbortKnown`; and JSON that says what varnishd said under the conditions of `ParamsTrue`, `VclsTrue` and `BackendsTrue` |
| `http_linefeed` | violated: see below |
| `push` | the URL a push uses stays until it is done, the HTTP thread's pushes get their own answers, it is back within five seconds, requests return, aborts come from POST /vac_register only |
| `vac_owner` | violated: see below |
| `startup` | one holder of the pid file whenever agents are killed, its pid stays in it, each start ends in serving or exit; `PidLock` is implemented |
| `vsb` | length and final zero stay inside the buffer, and nothing is missing without an error but what a printf without memory cut |

### Where code and documents disagree

Each shown by a run that is violated:

- `vadmin_sigpipe`: with `-S`, `vadmin_init` returns before it ignores SIGPIPE; the comment on `cli_write` counts on a return value.
- `vac_owner`: POST /vac_register uses the handles of the registration thread from the HTTP thread, and the assert of
  `ipc_verify_sock_thread` ends the agent; `tests/vac_register.sh` expects OK, which it gets only
  when microhttpd's thread has the identity of the thread `main` joined.
- `http_linefeed`: the help page says that GET requests never modify state; the arguments of GET /vcl, /param and
  /paramjson go into the command with the line feeds they have, and the second line is a command of its own, with `-r` too. `GetsModifyByLineFeedOnly` is what is true.

In the models, without a run of their own (a constant to change is named where
one makes the violation visible):

- IPC: `ipc_send` keeps the handle after it gave up, so that the next call gets the
  last call's answer, where `ipc.h` promises the reply of the command (`AnswerLag` says by how much).
- vadmin: after one failed or interrupted authentication the secret file is
  closed, and an agent that left root may not open it again (`Unprivileged` = TRUE in `Vadmin_reconnect.cfg`; NEWS
  says root at the start is enough). When varnishd dies during the
  authentication, writes go on to a closed or reused descriptor (`MisuseOnlyInAuth`; `tests/authfail.sh` looks for
  EBADF). Up to three commands fail after a restart where `tests/badvarnishd.sh` says
  the first will (`RecoversInThree`). A blank command leaves the status
  uninitialised (`RunBlank`; `tests/vdirect.sh` expects OK).
- vcl: after an upload that varnishd took and the disk did not, a deploy answered 200 leaves an
  older VCL in boot.vcl (so that `DeployedIsBoot` asks for faults = 0; the help text promises the most recent one); a
  late answer lets a deploy replace boot.vcl on the strength of an earlier command's 200 (so that it asks for late = 0);
  a short write is stored and answered 201 (`ShortWrites` = TRUE); two POSTs in one second get one name
  (`Post`; `http.h` promises a copy each), and the second is refused.
- commands and answers: `run_and_respond` is to send back the result of its command, but after a command of two lines
  each caller is given the result of an earlier one (`Served`; `AnswersInStep` says what causes it, and that nothing else does). /direct
  is to take verbatim commands, but the line is used as a format: a percent sign changes the command or ends the agent (`vdirect_reply`, `Converts`).
- listeners: POST /ban/foo bans `//foo` where the help text says `/foo` (`vban_reply`); without a busy
  count, as varnishd prints it while its child is stopped, /vclactive finds no
  active VCL, where the comment of `vcl_active` has the column empty (`Tokens`); temperatures of more than
  four letters spoil /vcljson and many backends the commas of /backendjson (the
  conditions in `VclsTrue` and `BackendsTrue` say when). Asserts fail for an empty parameter value, for a word as a value
  that ends in a parenthesis or bracket, for a description longer than its buffer, and for the short answer /paramjson gets with an
  argument; /backendjson crashes if varnishd's answer is empty or has a line of a thousand letters (`AbortsAreKnown`). A quote in the name, a value or the
  description of a parameter spoils /paramjson, as the FIXME in `vparams.c` says, one in a VCL's name /vcljson, and a parameter
  without a description prints what was on the stack (`ParamsTrue`). /log quotes values with `VSB_quote`, whose octal escapes are
  no JSON; `vlog_cb_func` has records and commas only.
- start: an agent that reads an empty pid file four times goes on without the
  file and its lock, and only fails to bind the port (`pidfile_read`, `BindFails`); an agent that cannot bind leaves the pid file behind.
- buffers: a printf that finds no memory cuts its output and, as the buffer may grow, sets no error (`VSB_vprintf`).

One thing the documents say nothing about, seen by replacing the constants of
`ipc_topology` with slow handles: two plugins whose callbacks call each other's
provider with commands larger than the socket, after give-ups, can block each
other for ever. No property claims the contrary.

## Bounds

- `Ipc`: one handle with six calls, or three with four (`MaxCalls`), commands of 0 to 4 units
  and a header, sockets of 2 or 3 units and 1 or 2 replies. A command longer than its
  socket, an empty one, two give-ups in a row and a full reply socket all
  occur; the proofs do away with the bounds for the safety properties.
- `Vadmin`: two starts of varnishd (a restart between any two steps), four
  descriptors (connection, secret, another thread's, a leaked one), two
  refusals; with eight and six for `vadmin_reconnect`, so that leaks never exhaust
  them (`Recoverable` asks for two more descriptors than refusals at least). `MaxFails` caps a counter that the property keeps below it.
- `Http`: two connections, so that their calls mix; every listener with and without an argument and
  a body, of up to three chunks, every way to fail authentication; one segment with a line feed, at each place where it gets into a command;
  a body with a line feed and one with a conversion; one unread answer (`MaxLag`; two in `http_linefeed`, which has one connection and fewer requests). Listings of no to three lines
  with each irregularity the parsers look at, descriptions of up to four lines where three fit, backends' lines of up to five letters where four
  fit. Connections share nothing but `r_arg` and vadmin's `lag`, two are enough, and they are alike: the run takes them as symmetric (two million states). The proofs do away with the bounds.
- `Push`: `W` = 2, its default, and `ReadTimeout` 5, the code's; one POST /vac_register; push URLs that are the agent
  itself and a host that does not answer, which take longest, and no VAC or a good one; time is not bounded. The proof does away with the number of POSTs, the
  URLs and, but for `PushesGetAnswers`, with `W`.
- `Startup`: two agents, three starts each, so that one's file is removed, made again and locked
  while the other is between `open` and `stat`; the proof does away with the bounds.
- `Vsb`: lengths around 16, 32 and a page, texts up to 4200; the proof covers all up to two pages short of the largest int.
- `VclStore`: the name varnishd boots with and one uploaded name, that of the second a POST arrives in, which clients
  may choose for a PUT as well; two programs, one crash, one failing call, one late answer, all in one behaviour. Six
  inodes are as many as there are paths.

## Fairness

- `Ipc`: weak fairness of each thread's next step: threads run. Consumers need not call
  again; `ServedInTurn` asks about those who do.
- `Vadmin`: weak fairness of the vadmin thread, strong fairness of a command
  that is not blank arriving when vadmin is idle: vping sends one every 30
  seconds and `ipc_topology` shows that it is served. None for varnishd: that it
  stays up is the premise of `Reconnects`.
- `Push`: weak fairness of each thread and of time: threads run, libcurl ends by its timeout, clocks go on.
- `Startup`: weak fairness of each process's next step: what was started runs until it serves or is gone.
- `VclStore`, `Http` and `Vsb` have no liveness property and no fairness.

## Proofs

`IpcProofs` proves, for all handles, sizes and capacities that satisfy the named assumptions of
`Ipc`:

- `StreamsStayInOrder`: the inductive invariant, action by action. It is
  needed because framing alone is not inductive: that the reader finds a header
  where it expects one depends on where every unit still in the socket is.
- `TypeCorrect`, `FramingPreserved` (the asserts of `ipc_cmd`), `AnswersLag`, `RepliesDoNotBlock`: from it.
- `IpcImplementsChannel`: initial states and steps of `Ipc` map to those of `IpcChannel`.
- `TurnsAreKept`: the bound of `ServedInTurn`, by an invariant (`Turn`) that says how often
  each handle may have been overtaken where it is in its provider's round: a command that came
  too late for the poll sees the rest of that round, once, and one round more.

The assumptions on `Ipc`: handles' indices order them as `listeners` does, sizes and capacities are natural
numbers, capacities positive, slow handles are handles.

`VadminProofs` proves, for any finite set of descriptor numbers, any options, a
varnishd that hangs or not, any number of restarts and refusals:

- `VadminInvariant`: at each place of `cli_sock` and `vadmin_run`, whether `sock` is the
  connection, a stale number, or unknown (in the authentication, after a
  write that failed), and that the secret file's number is always its own.
  `ConnectedMeansOwned` alone is not inductive: what matters is what the number
  refers to while vadmin is not connected.
- `ConnectedStaysOwned`, `AssertsHold`, `MisuseStaysInAuth`, `TypeCorrect`: from it;
  `LeaksStayRefusals`: by counting, one more connection for one more refusal.
- `VarnishdRecovers`: at most three commands fail once varnishd is back
  (`RecoversInThree`). `RecoveryInv` adds to the commands that failed those that may
  still fail (`FailsLeft`, from where vadmin is and what its connection and its secret
  file are) and keeps the sum at three: every failure makes what is left smaller. It
  assumes `Recoverable`: varnishd does not hang, the secret is right and may be
  read, and the refusals counted leave two descriptors. Without the last a
  leak can leave vadmin with none to connect with.

`VclStoreProofs` proves, for any names, programs, inodes, and any number of crashes,
failing calls and late answers:

- `StoreInvariant`: `KeptWhole` (what has a final name is on the disk), `TempsAlone`
  (a temporary file has no other name, so that writing to it changes no kept one) and
  what each place in the code relies on. Files become visible by a change of
  name, long after they were written, so the invariant must follow the temporary one.
- `BootNeverGone`, `LeftoversStayHarmless`, `DeployLeftoversStayHarmless`, `TypeCorrect`: from it;
  `FilesStayWhole` and `StoreImplementsFiles` also assume that no write is short, without which
  they are false.
- `CreatedStaysStored` and `DeployedStaysBoot` also assume that no write is short. `InStep` (one command or one answer in the handle)
  holds until an answer is late or something crashes, and `LoadedStored` (what is loaded and stored under one name is one program)
  until a system call fails as well (`Timely`, `Faultless`); with a failing call `DeployedIsBoot` is false.

`ListingsProofs` proves what the parsers make of a listing of any length, by induction over its lines (`Induction`: a set with
zero and the successor of each of its numbers has them all, from the well-foundedness of the naturals):

- `ParamsListed`: `vparams_show_json` fails an assert if and only if a parameter is `Indigestible`: an empty
  value, one whose end is mistaken, or too long a description. Otherwise, and if each has a description and no quote in any of
  its words, it prints all of them, with all their fields, the last one first, whatever is on the stack. The induction (`Reached`) needs the parser's state after each parameter: it is in the
  gap after the description and holds the parameter itself, not yet closed. `EntryParsed` is one parameter, from `NamesParsed`, `FieldsParsed` and `DescParsed`; `ParamsParsed` is about the records before they are printed.
- `VclsListed`, `BackendsListed`, `LogListed`: the conditions of `VclsTrue`, `BackendsTrue` and `LogTrue`
  suffice, from `Kept` (what a filter leaves, and in which order) and `Totals`.

`HttpProofs` proves, for any connections, requests (chunks and URLs are sequences), listings and status codes that satisfy the named assumptions of `Http`:

- `HttpInvariant`: what `con[c]` holds at each stage (nothing before the first call and after the last; in between
  whether the password came with this request, and the chunks so far), and
  `Harmless`, which follows from the listeners one by one: a listener that is registered for GET asks for a
  command whose first word reads (`GetsRead`), whatever the URL, the argument and varnishd's answer.
- `TypeCorrect`, `ServedAsItWasSent`: from it. `ServedAsSent` alone is not inductive: what the last call serves was decided in the first.
- `LineFeedsOnly` and `OnlyLineFeedsLag`: `GetsModifyByLineFeedOnly` and `AnswersInStep`. Every word of a command is one of the agent's own, of the
  URL, or of the first line of the body (`Commands`, `Worded`), and the assumptions say which of these may hold a line feed: the URL's alone, so that
  a command has one line if the URL has none (`OneLine`). The conversions of /direct are the exception, which needs POST.
- `NoOtherAborts` and `ListingsAreTrue`: `AbortsAreKnown` and `ListingsTrue`, from `ListenerTrue`, which goes through all listeners, the
  lemmas of `ListingsProofs`, and the part of `HttpInvariant` that has a body kept whenever a listener is called. An answer that is
  not the command's own (`lag`) may be taken for anything; the properties say nothing of what is made of it but that `AbortKnown` lists it.

`PushProofs` proves, for any URLs, any number of POST /vac_register and any `-w`:

- `UrlStaysHeld`, from `LockInv` (readers and writer of `vstat->lck` exclude each other, each where it is in
  the code) and `UrlInv` (what curl was given for a waiting push is `push_url`).
- `OnlyVacAborts`, from `VsbInv` (who clears the two buffers and when) and
  `OwnersInv` (whose identity `tid_to_fd` has while nobody posted).
- `HttpReturns`, from `WaitInv`: the HTTP thread waits for one answer of curl, five seconds, or for a
  lock that is held no longer than that.
- `PushesGetAnswers`, from `AnsweredInv`, which bounds what the HTTP thread's push still has to wait for by the
  seconds it has left. It assumes 2 `W` < `ReadTimeout`, that is `-w` 1 or 2 (2 is the default); with three the
  push of another thread and its own take longer than `ipc_send` waits.
- `TypeCorrect`.

`StartupProofs` proves, for any finite set of agents and any number of starts:

- `StartupInvariant`: `HasFd`, `HasLock` and `AtPath`, which descriptor an agent has where, that it has its lock, and that
  from `stat` on the file at the path is the locked one. The last is what makes
  unlink safe: only a holder unlinks, and what it unlinks is its own.
- `PidAlwaysStays`, `TypeCorrect` and `StartupImplementsLock`: from it.

`VsbProofs` proves, for any lengths and strings as long as a buffer gets no more than `MaxText`, two
pages short of the largest int:

- `VsbInvariant`: text, piece at hand and characters left to quote are bounded
  together; without it a quote could run over the range between its steps. `ExtendSize` is the arithmetic of `VSB_extendsize`.
- `Integrity` and `NothingIsLost`: from it.

Only model-checked: liveness (`EveryCallReturns`, `CallReturnsUnlessBacklogged`, `Reconnects`,
`RequestsReturn`, `StartEnds`), which is beyond the prover. `VclStore`'s `TypeOK` is proved only. Every safety property of a run that passes is
proved.

## Not modelled

- In `Vadmin` a command has one answer; that one with a line feed has several is in `Http`, where connections to varnishd do not fail but by `Reconnect`.
  The 2000 seconds after which `VCLI_ReadResult` gives up are left out: an answer that comes even later lags like one nobody read.
- Address parsing and name resolution (`vss.c` but for connect), and the shared memory log's
  formats (`vlog.c`'s records, the counters of `vstat.c`), which belong to varnish's library.
- `base64.c` (a table applied to one string at start-up), `plugins.c` and the order of plugins' start (lists filled
  before any thread runs), and the meaning of each command line option but `-S`, `-T`, `-r`, `-w`, `-z`, `-P`, `-d`. A secret
  without a line feed is read past its end (`main.c` 95-101): one read at start-up, with nothing to interleave.
- `VSB_setpos`, `VSB_trim`, `VSB_unquote` and buffers of fixed size: nothing in the agent uses them.
- Two pushes of the timer and the registration with `-w` 2 take curl six seconds with the HTTP
  thread's, so that the timer's may read a stale answer: `PushesAnswered` is about the HTTP thread with no registration under way.
- `vac_url` is freed and set by the HTTP thread without a lock while the registration thread may read it: `Push` has the old or the new value.
- Wording of answers and log lines, formatting of statistics, HTTP headers; the front end in `html/`; packaging.
- One composition of everything: `Ipc`'s topology with `Vadmin`, `VclStore` and `Http` has more states than can be searched. The pieces meet
  at `IpcChannel`: `Ipc` implements it, `VclStore` has its handle to vadmin behave as it says, `Http` lets every call be answered.
