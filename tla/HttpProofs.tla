----------------------------- MODULE HttpProofs -----------------------------
(***************************************************************************)
(* For any requests, connections and listings: what a listener is called   *)
(* for is an authorised request, and the whole of it; what it sends is one *)
(* line, if no line feed is in the URL; and what it answers is what        *)
(* varnishd's listing says, where that can be printed.                     *)
(***************************************************************************)
EXTENDS ListingsProofs, FiniteSetTheorems

-----------------------------------------------------------------------------
(* What the listeners ask varnishd for.                                     *)

\* Commands that change nothing, and the listeners that ask for them.
Reads(cmd) == cmd = <<>> \/ cmd[1] \in Reading
Readers == {"vcl_json", "vcl_listshow", "vcl_active", "vban_reply", "vparams_reply", "vparams_json_reply",
            "vbackends_json_reply", "status", "ping", "vstatus_panic", "help_reply", "html_reply", "vlog_reply", "echo_reply"}

LEMMA GetListeners ==
  ASSUME NEW l \in Listeners
  PROVE  l.methods \subseteq {"GET", "PUT", "POST", "DELETE"} /\ ("GET" \in l.methods => l.cb \in Readers)
  BY DEF Listeners, VclPaths, BanPaths, DirectPaths, ParamPaths, BackendPaths, StatusPaths, HtmlPaths, LogPaths,
         EchoPaths, Path, Help, Readers

LEMMA Paths ==
  ASSUME NEW l \in Listeners
  PROVE  Len(l.path) \in {1, 2}
  BY DEF Listeners, VclPaths, BanPaths, DirectPaths, ParamPaths, BackendPaths, StatusPaths, HtmlPaths, LogPaths,
         EchoPaths, Path, Help

LEMMA FirstWord ==
  ASSUME NEW S, NEW s \in Seq(S), NEW w
  PROVE  (<<w>> \o s)[1] = w
  OBVIOUS

\* A set of positions has a first one.
LEMMA LeastPosition ==
  ASSUME NEW n \in Nat, NEW I \in SUBSET (1 .. n), I # {}
  PROVE  \E m \in I : \A i \in I : m <= i
  <1>. DEFINE R == OpToRel(<, Nat)
  <1>1. I \subseteq Nat
    OBVIOUS
  <1>2. IsWellFoundedOn(R, Nat)
    BY NatLessThanWellFounded, Zenon
  <1>3. \A x, y \in Nat : ~(<<y, x>> \in R) => x <= y
    BY DEF OpToRel
  <1>. HIDE DEF R
  <1>4. PICK x \in I : \A y \in I : ~(<<y, x>> \in R)
    BY <1>1, <1>2, WFMin, Zenon
  <1>. QED  BY <1>1, <1>3, <1>4

LEMMA MinOfPositions ==
  ASSUME NEW n \in Nat, NEW I \in SUBSET (1 .. n), I # {}
  PROVE  Min(I) \in 1 .. n /\ Min(I) \in I /\ \A i \in I : Min(I) <= i
  <1>1. \E m \in I : \A i \in I : m <= i
    BY LeastPosition
  <1>. QED  BY <1>1 DEF Min

LEMMA ArgumentIsSeq ==
  ASSUME NEW S, NEW url \in Seq(S), NEW l, Len(l.path) \in Nat
  PROVE  Argument(l, url) \in Seq(S)
  <1>. DEFINE rest == SubSeq(url, Len(l.path) + 1, Len(url))
              I == {i \in 1 .. Len(rest) : rest[i] # ""}
              word == SelectInSeq(rest, LAMBDA w : w # "")
  <1>1. rest \in Seq(S)
    OBVIOUS
  <1>2. word = IF I # {} THEN Min(I) ELSE 0
    BY Zenon DEF SelectInSeq
  <1>3. word \in 0 .. Len(rest)
    <2>1. Len(rest) \in Nat
      BY <1>1
    <2>2. I \in SUBSET (1 .. Len(rest))
      OBVIOUS
    <2>. HIDE DEF rest, word, I
    <2>3. I # {} => Min(I) \in 1 .. Len(rest)
      BY <2>1, <2>2, MinOfPositions
    <2>. QED  BY <1>2, <2>1, <2>3
  <1>4. Argument(l, url) = IF word = 0 THEN <<>> ELSE SubSeq(rest, word, Len(rest))
    BY Zenon DEF Argument
  <1>. HIDE DEF rest, word, I
  <1>. QED  BY <1>1, <1>3, <1>4

\* An outcome of Ask, and one of Listing.
Says(o, cmd) == \E s, v : o = [http_reply(s) EXCEPT !.cmd = cmd, !.cli = v]
Shows(o, cmd) == \E l, x : o = [http_reply(200) EXCEPT !.cmd = cmd, !.cli = 200, !.said = <<l>>, !.out = x]

LEMMA Said ==
  ASSUME NEW o, NEW cmd, Says(o, cmd) \/ Shows(o, cmd)
  PROVE  o.cmd = cmd /\ \A x : [o EXCEPT !.status = x].cmd = cmd /\ [o EXCEPT !.out = x].cmd = cmd
  BY DEF Says, Shows, http_reply, NoReply

LEMMA RefusedSays ==
  ASSUME NEW cmd, NEW codes, NEW status, NEW o \in Refused(cmd, codes, status)
  PROVE  Says(o, cmd)
  BY Zenon DEF Refused, Ask, Says

LEMMA RespondSays ==
  ASSUME NEW cmd, NEW o \in run_and_respond(cmd)
  PROVE  Says(o, cmd)
  BY Zenon DEF run_and_respond, Ask, Says

LEMMA RespondEokSays ==
  ASSUME NEW min, NEW max, NEW cmd, NEW o \in run_and_respond_eok(min, max, cmd)
  PROVE  Says(o, cmd)
  BY Zenon DEF run_and_respond_eok, Ask, Says

\* The commands of the listeners that only read, and the others'.
Gets(r) ==
    {<<>>, <<"vcl.list">>, <<"vcl.show">> \o r.arg, <<"ban.list">>, <<"param.show">> \o printf(r.arg),
     <<"param.show">> \o <<"-l">>, <<"param.show">> \o r.arg, <<"backend.list">>, <<"status">>, <<"ping">>, <<"panic.show">>}
Sets(r) ==
    {<<"vcl.inline">> \o <<"vclNNN">> \o <<"here-document">>, <<"vcl.inline">> \o printf(r.arg) \o <<"here-document">>,
     <<"vcl.discard">> \o printf(r.arg), <<"vcl.use">> \o printf(r.arg), <<"ban">> \o FirstLine(r.body),
     <<"ban", "req.url ~ ", "">> \o Tail(r.url), <<"param.set">> \o FirstLine(r.body),
     <<"param.set">> \o printf(r.arg) \o FirstLine(r.body), <<"backend.set_health">> \o r.arg \o FirstLine(r.body),
     <<"stop">>, <<"start">>, <<"panic.clear">>, FirstLine(r.body)}

LEMMA SaidCmd ==
  ASSUME NEW o, NEW cmd, Says(o, cmd) \/ Shows(o, cmd)
  PROVE  o.cmd = cmd
  BY Said

LEMMA RefusedCmd ==
  ASSUME NEW cmd, NEW codes, NEW status, NEW o \in Refused(cmd, codes, status)
  PROVE  o.cmd = cmd
  BY RefusedSays, Said

\* /log reads the shared memory, and asks varnishd for nothing.
LEMMA LogSends ==
  ASSUME NEW r, NEW o \in vlog_reply(r)
  PROVE  o.cmd = <<>>
  <1>. DEFINE limit == IF r.arg = <<>> THEN 10 ELSE Number[r.arg[1]]
              tags  == IF Len(r.arg) > 1 /\ r.arg[2] # "" THEN <<r.arg[2]>> ELSE <<>>
  <1>1. o = http_reply(500) \/ o \in Listing(<<>>, Logs, LAMBDA l : vlog_cb_func(limit, tags, l))
    BY DEF vlog_reply
  <1>. HIDE DEF limit, tags
  <1>2. o = http_reply(500) \/ Shows(o, <<>>)
    BY <1>1, Zenon DEF Listing, Shows
  <1>3. http_reply(500).cmd = <<>>
    BY DEF http_reply, NoReply
  <1>. QED  BY <1>2, <1>3, Said

\* The JSON and the name of /vclactive.
LEMMA ListingGets ==
  ASSUME NEW r,
         NEW o, o \in vcl_json(r) \/ o \in vcl_active_reply(r) \/ o \in vbackends_json_reply(r) \/ o \in vparams_json_reply(r)
  PROVE  o.cmd \in Gets(r)
  <1>1. CASE o \in vcl_json(r)
    <2>1. \/ o = http_reply(404)
          \/ o \in Listing(<<"vcl.list">>, VclLists, vcl_list_json)
          \/ o \in Refused(<<"vcl.list">>, {400}, 500) \/ o \in Refused(<<"vcl.list">>, CLI \ {200, 400}, 200)
      BY <1>1 DEF vcl_json
    <2>2. o \in Listing(<<"vcl.list">>, VclLists, vcl_list_json) => Shows(o, <<"vcl.list">>)
      BY Zenon DEF Listing, Shows
    <2>3. http_reply(404).cmd = <<>>
      BY DEF http_reply, NoReply
    <2>4. o = http_reply(404) \/ Shows(o, <<"vcl.list">>) \/ Says(o, <<"vcl.list">>)
      BY <2>1, <2>2, RefusedSays
    <2>5. o.cmd = <<>> \/ o.cmd = <<"vcl.list">>
      BY <2>3, <2>4, Said
    <2>. QED  BY <2>5, Zenon DEF Gets
  <1>2. CASE o \in vcl_active_reply(r)
    <2>1. \/ \E q \in Listing(<<"vcl.list">>, VclLists, vcl_active) : \E s : o = [q EXCEPT !.status = s]
          \/ o \in Refused(<<"vcl.list">>, CLI \ {200}, 500) \/ o \in Refused(<<"vcl.list">>, CLI \ {200, 400}, 200)
      BY <1>2 DEF vcl_active_reply
    <2>2. \A q \in Listing(<<"vcl.list">>, VclLists, vcl_active) : Shows(q, <<"vcl.list">>)
      BY Zenon DEF Listing, Shows
    <2>3. ASSUME o \in Refused(<<"vcl.list">>, CLI \ {200}, 500) \/ o \in Refused(<<"vcl.list">>, CLI \ {200, 400}, 200)
          PROVE  o.cmd = <<"vcl.list">>
      BY <2>3, RefusedCmd
    <2>4. ASSUME NEW q \in Listing(<<"vcl.list">>, VclLists, vcl_active), NEW s, o = [q EXCEPT !.status = s]
          PROVE  o.cmd = <<"vcl.list">>
      BY <2>2, <2>4, Said
    <2>5. o.cmd = <<"vcl.list">>
      BY <2>1, <2>3, <2>4, Zenon
    <2>. QED  BY <2>5, Zenon DEF Gets
  <1>3. CASE o \in vbackends_json_reply(r)
    <2>. DEFINE cmd == <<"backend.list">>
                shown == Listing(cmd, BackendLists, vbackends_show_json)
                none == Listing(cmd, BackendLists, LAMBDA l : <<>>)
                broken == Listing(cmd, BackendLists, LAMBDA l : Garbled)
                refused == Refused(cmd, CLI \ {200}, 500)
    <2>1. o \in shown \/ (\E q \in none : o = [q EXCEPT !.status = 0]) \/ o \in broken \/ o \in refused
      BY <1>3, Zenon DEF vbackends_json_reply
    <2>2. (\A q \in shown : Shows(q, cmd)) /\ (\A q \in none : Shows(q, cmd)) /\ \A q \in broken : Shows(q, cmd)
      BY Zenon DEF Listing, Shows
    <2>3. ASSUME o \in refused PROVE o.cmd = cmd
      BY <2>3, RefusedCmd
    <2>. HIDE DEF cmd, shown, none, broken, refused
    <2>4. o \in shown \/ o \in broken => o.cmd = cmd
      BY <2>2, SaidCmd
    <2>5. ASSUME NEW q \in none, o = [q EXCEPT !.status = 0] PROVE o.cmd = cmd
      BY <2>2, <2>5, Said
    <2>6. o.cmd = cmd
      BY <2>1, <2>3, <2>4, <2>5, Zenon
    <2>. QED  BY <2>6, Zenon DEF Gets, cmd
  <1>4. CASE o \in vparams_json_reply(r)
    <2>. DEFINE cmd == <<"param.show">> \o (IF r.arg = <<>> THEN <<"-l">> ELSE r.arg)
                lists == Listing(cmd, ParamLists, LAMBDA l : <<>>)
                refused == Refused(cmd, CLI \ {200}, 500)
    <2>1. \/ \E q \in lists : \E text : o \in ParamsPrinted(q, text)
          \/ o \in Refused(cmd, CLI \ {200}, 500)
      <3>. DEFINE answers == UNION {ParamsAnswer(q) : q \in lists}
      <3>0. vparams_json_reply(r) = answers \union refused
        BY DEF vparams_json_reply
      <3>. HIDE DEF lists, cmd, refused
      <3>1. (\E q \in lists : o \in ParamsAnswer(q)) \/ o \in refused
        BY <1>4, <3>0, Zenon
      <3>2. \A q : o \in ParamsAnswer(q) => \E text : o \in ParamsPrinted(q, text)
        BY Zenon DEF ParamsAnswer
      <3>. QED  BY <3>1, <3>2 DEF refused
    <2>2. \A q \in lists : Shows(q, cmd)
      BY Zenon DEF Listing, Shows
    <2>3. cmd \in Gets(r)
      <3>1. CASE r.arg = <<>>
        BY <3>1, Zenon DEF Gets
      <3>2. CASE r.arg # <<>>
        BY <3>2, Zenon DEF Gets
      <3>. QED  BY <3>1, <3>2
    <2>. HIDE DEF cmd, lists
    <2>4. ASSUME o \in Refused(cmd, CLI \ {200}, 500) PROVE o.cmd = cmd
      BY <2>4, RefusedCmd
    <2>5. ASSUME NEW q \in lists, NEW text, o \in ParamsPrinted(q, text)
          PROVE  o.cmd = cmd
      <3>1. Shows(q, cmd)
        BY <2>2
      <3>2. \E x : o = [q EXCEPT !.status = x] \/ o = [q EXCEPT !.out = x]
        BY <2>5, Zenon DEF ParamsPrinted
      <3>. QED  BY <3>1, <3>2, Said
    <2>. QED  BY <2>1, <2>3, <2>4, <2>5, Zenon
  <1>. QED  BY <1>1, <1>2, <1>3, <1>4

\* vcl.c but for its JSON.
LEMMA VclCommands ==
  ASSUME NEW r, NEW o, o \in vcl_push(r) \/ o \in vcl_delete(r) \/ o \in vcl_deploy(r)
  PROVE  o.cmd \in Gets(r) \union Sets(r)
  <1>1. CASE o \in vcl_push(r)
    <2>. DEFINE id == IF r.method = "POST" THEN <<"vclNNN">> ELSE printf(r.arg)
                cmd == <<"vcl.inline">> \o id \o <<"here-document">>
                code(v) == IF v = 200 THEN 201 ELSE 500
    <2>1. o = http_reply(500) \/ o \in Ask(cmd, LAMBDA v : code(v)) \/ o \in Ask(cmd, LAMBDA v : 500)
      BY <1>1, Zenon DEF vcl_push
    <2>2. cmd \in Sets(r)
      BY Zenon DEF Sets
    <2>. HIDE DEF cmd, code
    <2>3. o = http_reply(500) \/ Says(o, cmd)
      BY <2>1, Zenon DEF Ask, Says
    <2>4. http_reply(500).cmd = <<>>
      BY DEF http_reply, NoReply
    <2>5. o.cmd = <<>> \/ o.cmd = cmd
      BY <2>3, <2>4, Said
    <2>6. <<>> \in Gets(r)
      BY Zenon DEF Gets
    <2>. QED  BY <2>2, <2>5, <2>6, Zenon
  <1>2. CASE o \in vcl_delete(r)
    <2>. DEFINE cmd == <<"vcl.discard">> \o printf(r.arg)
                code(v) == IF v \in {400, 106} THEN 500 ELSE 200
    <2>1. Says(o, cmd)
      <3>1. PICK v \in CLI : o = [http_reply(code(v)) EXCEPT !.cmd = cmd, !.cli = v]
        BY <1>2, Zenon DEF vcl_delete, Ask
      <3>. HIDE DEF cmd, code
      <3>. QED  BY <3>1, Zenon DEF Says
    <2>2. cmd \in Sets(r)
      BY Zenon DEF Sets
    <2>. HIDE DEF cmd
    <2>. QED  BY <2>1, <2>2, Said
  <1>3. CASE o \in vcl_deploy(r)
    <2>. DEFINE cmd == <<"vcl.use">> \o printf(r.arg)
    <2>1. vcl_deploy(r) \subseteq run_and_respond(cmd) \union Ask(cmd, LAMBDA v : 500)
      BY DEF vcl_deploy
    <2>2. cmd \in Sets(r)
      BY Zenon DEF Sets
    <2>. HIDE DEF cmd
    <2>3. o \in Ask(cmd, LAMBDA v : 500) => Says(o, cmd)
      BY Zenon DEF Ask, Says
    <2>. QED  BY <1>3, <2>1, <2>2, <2>3, RespondSays, Said
  <1>. QED  BY <1>1, <1>2, <1>3

\* What each listener sends varnishd; to /direct, a line without conversions.
LEMMA Commands ==
  ASSUME NEW r, NEW l \in Listeners, NEW o \in Callback(l.cb, r),
         l.cb = "vdirect_reply" => "%" \notin Range(FirstLine(r.body))
  PROVE  /\ o.cmd \in Gets(r) \union Sets(r)
         /\ r.method = "GET" /\ l.cb \in Readers => o.cmd \in Gets(r)
  <1>. DEFINE cb == l.cb
  <1>1. CASE cb \in {"vcl_json", "vcl_active", "vbackends_json_reply", "vparams_json_reply"}
    <2>1. o \in vcl_json(r) \/ o \in vcl_active_reply(r) \/ o \in vbackends_json_reply(r) \/ o \in vparams_json_reply(r)
      BY <1>1 DEF Callback
    <2>. QED  BY <2>1, ListingGets
  <1>2. CASE cb = "vcl_listshow"
    <2>1. o \in vcl_listshow(r)
      BY <1>2 DEF Callback
    <2>. DEFINE cmd == IF r.arg = <<>> THEN <<"vcl.list">> ELSE <<"vcl.show">> \o r.arg
                code(v) == IF v = 200 THEN 200 ELSE 400
    <2>2. Says(o, cmd)
      <3>1. PICK v \in CLI : o = [http_reply(code(v)) EXCEPT !.cmd = cmd, !.cli = v]
        BY <2>1, Zenon DEF vcl_listshow, Ask
      <3>. HIDE DEF cmd, code
      <3>. QED  BY <3>1, Zenon DEF Says
    <2>3. cmd \in Gets(r)
      BY Zenon DEF Gets
    <2>. HIDE DEF cmd
    <2>. QED  BY <2>2, <2>3, Said
  <1>3. CASE cb \in {"vban_reply", "vparams_reply"}
    <2>0. o \in vban_reply(r) \/ o \in vparams_reply(r)
      BY <1>3 DEF Callback
    <2>. DEFINE X == {<<"ban.list">>, <<"param.show">> \o printf(r.arg)}
                Y == {<<"ban">> \o FirstLine(r.body), <<"ban", "req.url ~ ", "">> \o Tail(r.url),
                      <<"param.set">> \o FirstLine(r.body), <<"param.set">> \o printf(r.arg) \o FirstLine(r.body)}
    <2>1. CASE r.method = "GET"
      <3>1. \E cmd \in X : o \in run_and_respond(cmd)
        BY <2>0, <2>1, Zenon DEF vban_reply, vparams_reply
      <3>2. X \subseteq Gets(r)
        BY Zenon DEF Gets
      <3>. HIDE DEF X
      <3>3. o.cmd \in X
        BY <3>1, RespondSays, Said
      <3>. QED  BY <3>2, <3>3
    <2>2. CASE r.method # "GET"
      <3>1. (\E cmd \in Y : o \in run_and_respond(cmd)) \/ o = http_reply(500)
        <4>1. CASE o \in vban_reply(r)
          <5>1. \/ o \in run_and_respond(<<"ban">> \o FirstLine(r.body)) \/ o \in {http_reply(500)}
                \/ o \in run_and_respond(<<"ban", "req.url ~ ", "">> \o Tail(r.url))
            BY <2>2, <4>1, Zenon DEF vban_reply
          <5>. QED  BY <5>1, Zenon
        <4>2. CASE o \in vparams_reply(r)
          <5>1. \/ o \in run_and_respond(<<"param.set">> \o FirstLine(r.body))
                \/ o \in run_and_respond(<<"param.set">> \o printf(r.arg) \o FirstLine(r.body))
            BY <2>2, <4>2, Zenon DEF vparams_reply
          <5>. QED  BY <5>1, Zenon
        <4>. QED  BY <2>0, <4>1, <4>2
      <3>2. Y \subseteq Sets(r)
        BY Zenon DEF Sets
      <3>. HIDE DEF Y
      <3>3. http_reply(500).cmd = <<>>
        BY DEF http_reply, NoReply
      <3>4. o.cmd \in Y \/ o.cmd = <<>>
        BY <3>1, <3>3, RespondSays, Said
      <3>5. <<>> \in Gets(r)
        BY Zenon DEF Gets
      <3>. QED  BY <2>2, <3>2, <3>4, <3>5, Zenon
    <2>. QED  BY <2>1, <2>2
  <1>4. CASE cb \in {"status", "ping", "stop", "start"}
    <2>1. o \in run_and_respond(<<cb>>)
      BY <1>4 DEF Callback, vstatus
    <2>2. o.cmd = <<cb>>
      BY <2>1, RespondSays, Said
    <2>3. CASE cb \in {"status", "ping"}
      <3>1. <<cb>> \in Gets(r)
        BY <2>3, Zenon DEF Gets
      <3>. QED  BY <2>2, <3>1
    <2>4. CASE cb \in {"stop", "start"}
      <3>1. <<cb>> \in Sets(r)
        BY <2>4, Zenon DEF Sets
      <3>2. cb \notin Readers
        BY <2>4 DEF Readers
      <3>. QED  BY <2>2, <3>1, <3>2
    <2>. QED  BY <1>4, <2>3, <2>4
  <1>5. CASE cb = "vstatus_panic"
    <2>. DEFINE w == IF r.method = "GET" THEN "panic.show" ELSE "panic.clear"
    <2>1. o \in run_and_respond_eok(200, 301, <<w>>)
      BY <1>5 DEF Callback, vstatus_panic
    <2>. HIDE DEF w
    <2>2. o.cmd = <<w>>
      BY <2>1, RespondEokSays, Said
    <2>3. CASE r.method = "GET"
      <3>1. <<w>> \in Gets(r)
        BY <2>3, Zenon DEF Gets, w
      <3>. QED  BY <2>2, <3>1
    <2>4. CASE r.method # "GET"
      <3>1. <<w>> \in Sets(r)
        BY <2>4, Zenon DEF Sets, w
      <3>. QED  BY <2>2, <2>4, <3>1, Zenon
    <2>. QED  BY <2>3, <2>4
  <1>6. CASE cb \in {"help_reply", "html_reply", "echo_reply"}
    <2>1. o \in help_reply(r) \/ o \in html_reply(r) \/ o \in echo_reply(r)
      BY <1>6 DEF Callback
    <2>2. \E n, x : o = http_reply(n) \/ o = [http_reply(n) EXCEPT !.out = x]
      <3>1. o \in help_reply(r) \/ o \in html_reply(r) => \E n : o = http_reply(n)
        BY DEF help_reply, html_reply, Aborted
      <3>2. o \in echo_reply(r) => o = [http_reply(200) EXCEPT !.out = r.body]
        BY DEF echo_reply
      <3>. QED  BY <2>1, <3>1, <3>2, Zenon
    <2>3. o.cmd = <<>>
      BY <2>2 DEF http_reply, NoReply
    <2>4. o.cmd \in Gets(r)
      BY <2>3, Zenon DEF Gets
    <2>. QED  BY <2>4
  <1>7. CASE cb = "vlog_reply"
    <2>1. o \in vlog_reply(r)
      BY <1>7 DEF Callback
    <2>2. o.cmd = <<>>
      BY <2>1, LogSends
    <2>3. o.cmd \in Gets(r)
      BY <2>2, Zenon DEF Gets
    <2>. QED  BY <2>3
  <1>8. CASE cb \in {"vcl_push", "vcl_delete", "vcl_deploy"}
    <2>1. o \in vcl_push(r) \/ o \in vcl_delete(r) \/ o \in vcl_deploy(r)
      BY <1>8 DEF Callback
    <2>2. cb \notin Readers
      BY <1>8 DEF Readers
    <2>. QED  BY <2>1, <2>2, VclCommands
  <1>9. CASE cb \in {"vdirect_reply", "vbackends_reply"}
    <2>1. o \in vdirect_reply(r) \/ o \in vbackends_reply(r)
      BY <1>9 DEF Callback
    <2>. DEFINE x == FirstLine(r.body)
                y == <<"backend.set_health">> \o r.arg \o FirstLine(r.body)
    <2>2. o \in run_and_respond(x) \/ o \in run_and_respond(y) \/ o = http_reply(500)
      <3>1. CASE cb = "vdirect_reply"
        <4>1. o \in vdirect_reply(r) /\ "%" \notin Range(x)
          BY <3>1 DEF Callback
        <4>. QED  BY <4>1, Zenon DEF vdirect_reply
      <3>2. CASE cb = "vbackends_reply"
        <4>1. o \in vbackends_reply(r)
          BY <3>2 DEF Callback
        <4>. QED  BY <4>1, Zenon DEF vbackends_reply
      <3>. QED  BY <1>9, <3>1, <3>2
    <2>3. x \in Sets(r) /\ y \in Sets(r) /\ <<>> \in Gets(r)
      BY Zenon DEF Sets, Gets
    <2>. HIDE DEF x, y
    <2>4. http_reply(500).cmd = <<>>
      BY DEF http_reply, NoReply
    <2>5. o.cmd = x \/ o.cmd = y \/ o.cmd = <<>>
      BY <2>2, <2>4, RespondSays, Said
    <2>6. cb \notin Readers
      BY <1>9 DEF Readers
    <2>. QED  BY <2>3, <2>5, <2>6, Zenon
  <1>10. \/ cb \in {"vcl_json", "vcl_active", "vbackends_json_reply", "vparams_json_reply"}
         \/ cb = "vcl_listshow" \/ cb \in {"vban_reply", "vparams_reply"} \/ cb \in {"status", "ping", "stop", "start"}
         \/ cb = "vstatus_panic" \/ cb \in {"help_reply", "html_reply", "echo_reply"} \/ cb = "vlog_reply"
         \/ cb \in {"vcl_push", "vcl_delete", "vcl_deploy"} \/ cb \in {"vdirect_reply", "vbackends_reply"}
    BY DEF Listeners, VclPaths, BanPaths, DirectPaths, ParamPaths, BackendPaths, StatusPaths, HtmlPaths, LogPaths,
           EchoPaths, Path, Help
  <1>. QED  BY <1>1, <1>2, <1>3, <1>4, <1>5, <1>6, <1>7, <1>8, <1>9, <1>10

-----------------------------------------------------------------------------
(* The words of a command, and its lines.                                   *)

\* The line feed comes after what is left of a body.
LEMMA FirstLineClean ==
  ASSUME NEW S, NEW body \in Seq(S)
  PROVE  FirstLine(body) \in Seq(S \ {"LF"})
  <1>. DEFINE I == {i \in 1 .. Len(body) : body[i] = "LF"}
              lf == SelectInSeq(body, LAMBDA w : w = "LF")
              x == FirstLine(body)
  <1>1. lf = IF I # {} THEN Min(I) ELSE 0
    BY Zenon DEF SelectInSeq
  <1>2. x = IF lf = 0 THEN body ELSE SubSeq(body, 1, lf - 1)
    BY Zenon DEF FirstLine
  <1>3. Len(body) \in Nat /\ \A i \in 1 .. Len(body) : body[i] \in S
    OBVIOUS
  <1>4. I \in SUBSET (1 .. Len(body))
    OBVIOUS
  <1>. HIDE DEF lf, x
  <1>5. CASE I = {}
    <2>1. x = body /\ \A i \in 1 .. Len(body) : body[i] \in S \ {"LF"}
      BY <1>1, <1>2, <1>3, <1>5
    <2>2. body \in Seq(S \ {"LF"})
      BY <1>3, <2>1
    <2>. QED  BY <2>1, <2>2 DEF x
  <1>6. CASE I # {}
    <2>1. lf \in I /\ \A i \in I : lf <= i
      BY <1>1, <1>3, <1>4, <1>6, MinOfPositions
    <2>2. lf \in 1 .. Len(body)
      BY <2>1
    <2>3. \A i \in 1 .. lf - 1 : i \in 1 .. Len(body) /\ i \notin I
      BY <1>3, <2>1, <2>2
    <2>4. \A i \in 1 .. lf - 1 : body[i] \in S \ {"LF"}
      BY <1>3, <2>3
    <2>. HIDE DEF I
    <2>5. x = SubSeq(body, 1, lf - 1) /\ lf - 1 \in 0 .. Len(body)
      BY <1>2, <1>3, <2>2
    <2>6. x = [i \in 1 .. lf - 1 |-> body[i]]
      BY <2>5
    <2>7. x \in Seq(S \ {"LF"})
      BY <2>4, <2>5, <2>6
    <2>. QED  BY <2>7 DEF x
  <1>. QED  BY <1>5, <1>6

LEMMA Joined ==
  ASSUME NEW W, NEW w \in W, NEW s \in Seq(W), NEW t \in Seq(W)
  PROVE  /\ <<>> \in Seq(W) /\ <<w>> \in Seq(W) /\ <<w>> \o s \in Seq(W) /\ <<w>> \o s \o t \in Seq(W)
         /\ s \o t \in Seq(W)
  OBVIOUS

LEMMA FewWords ==
  ASSUME NEW W, NEW a \in W, NEW b \in W, NEW c \in W
  PROVE  <<a>> \in Seq(W) /\ <<a, b, c>> \in Seq(W)
  OBVIOUS

\* The agent's own words but for the line feed.
Own == OwnWords \ {"LF"}

LEMMA Worded ==
  ASSUME NEW W, Own \subseteq W, NEW r, r.arg \in Seq(W), Tail(r.url) \in Seq(W), FirstLine(r.body) \in Seq(W),
         NEW cmd \in Gets(r) \union Sets(r)
  PROVE  cmd \in Seq(W)
  <1>. DEFINE arg == r.arg
              body == FirstLine(r.body)
              name == printf(r.arg)
              tail == Tail(r.url)
  <1>1. Changing \union Reading \union {"(null)", "vclNNN", "here-document", "req.url ~ ", "", "-l"} \subseteq W
    BY DEF Own, OwnWords, Changing, Reading
  <1>2. /\ "vcl.inline" \in W /\ "vcl.discard" \in W /\ "vcl.use" \in W /\ "ban" \in W /\ "param.set" \in W
        /\ "backend.set_health" \in W /\ "stop" \in W /\ "start" \in W /\ "panic.clear" \in W
    BY <1>1, Zenon DEF Changing
  <1>3. /\ "vcl.list" \in W /\ "vcl.show" \in W /\ "ban.list" \in W /\ "param.show" \in W
        /\ "backend.list" \in W /\ "status" \in W /\ "ping" \in W /\ "panic.show" \in W
    BY <1>1, Zenon DEF Reading
  <1>4. "(null)" \in W /\ "vclNNN" \in W /\ "here-document" \in W /\ "req.url ~ " \in W /\ "" \in W /\ "-l" \in W
    BY <1>1, Zenon
  <1>5. arg \in Seq(W) /\ body \in Seq(W) /\ name \in Seq(W) /\ tail \in Seq(W)
    <2>1. <<"(null)">> \in Seq(W)
      BY <1>4, FewWords, Zenon
    <2>. QED  BY <2>1, Zenon DEF printf
  <1>6. <<"ban", "req.url ~ ", "">> \o tail \in Seq(W)
    <2>1. <<"ban", "req.url ~ ", "">> \in Seq(W)
      BY <1>2, <1>4, FewWords, Zenon
    <2>. HIDE DEF tail
    <2>2. \A s, t \in Seq(W) : s \o t \in Seq(W)
      OBVIOUS
    <2>. QED  BY <1>5, <2>1, <2>2, Zenon
  <1>7. /\ \A w \in W : <<w>> \in Seq(W)
        /\ \A w \in W, s \in Seq(W) : <<w>> \o s \in Seq(W)
        /\ \A s, t \in Seq(W) : s \o t \in Seq(W)
    BY Joined
  <1>8. <<>> \in Seq(W)
    OBVIOUS
  <1>9. CASE cmd \in Gets(r)
    <2>1. \/ cmd = <<>> \/ cmd = <<"vcl.list">> \/ cmd = <<"vcl.show">> \o arg \/ cmd = <<"ban.list">>
          \/ cmd = <<"param.show">> \o name \/ cmd = <<"param.show">> \o <<"-l">> \/ cmd = <<"param.show">> \o arg
          \/ cmd = <<"backend.list">> \/ cmd = <<"status">> \/ cmd = <<"ping">> \/ cmd = <<"panic.show">>
      BY <1>9, Zenon DEF Gets
    <2>. HIDE DEF arg, name
    <2>2. /\ <<"vcl.show">> \o arg \in Seq(W) /\ <<"param.show">> \o name \in Seq(W)
          /\ <<"param.show">> \o <<"-l">> \in Seq(W) /\ <<"param.show">> \o arg \in Seq(W)
      BY <1>3, <1>4, <1>5, <1>7, Zenon
    <2>3. /\ <<"vcl.list">> \in Seq(W) /\ <<"ban.list">> \in Seq(W) /\ <<"backend.list">> \in Seq(W)
          /\ <<"status">> \in Seq(W) /\ <<"ping">> \in Seq(W) /\ <<"panic.show">> \in Seq(W)
      BY <1>3, <1>7, Zenon
    <2>. QED  BY <1>8, <2>1, <2>2, <2>3, Zenon
  <1>10. CASE cmd \in Sets(r)
    <2>1. \/ cmd = <<"vcl.inline">> \o <<"vclNNN">> \o <<"here-document">> \/ cmd = <<"vcl.inline">> \o name \o <<"here-document">>
          \/ cmd = <<"vcl.discard">> \o name \/ cmd = <<"vcl.use">> \o name \/ cmd = <<"ban">> \o body
          \/ cmd = <<"ban", "req.url ~ ", "">> \o tail \/ cmd = <<"param.set">> \o body
          \/ cmd = <<"param.set">> \o name \o body \/ cmd = <<"backend.set_health">> \o arg \o body
          \/ cmd = <<"stop">> \/ cmd = <<"start">> \/ cmd = <<"panic.clear">> \/ cmd = body
      BY <1>10, Zenon DEF Sets
    <2>. HIDE DEF arg, name, body, tail
    <2>2. <<"here-document">> \in Seq(W) /\ <<"vclNNN">> \in Seq(W)
      BY <1>4, <1>7, Zenon
    <2>3. /\ <<"vcl.inline">> \o <<"vclNNN">> \in Seq(W) /\ <<"vcl.inline">> \o name \in Seq(W)
          /\ <<"vcl.discard">> \o name \in Seq(W) /\ <<"vcl.use">> \o name \in Seq(W)
          /\ <<"ban">> \o body \in Seq(W) /\ <<"param.set">> \o body \in Seq(W)
          /\ <<"param.set">> \o name \in Seq(W) /\ <<"backend.set_health">> \o arg \in Seq(W)
      BY <1>2, <1>5, <1>7, <2>2, Zenon
    <2>4. /\ <<"vcl.inline">> \o <<"vclNNN">> \o <<"here-document">> \in Seq(W)
          /\ <<"vcl.inline">> \o name \o <<"here-document">> \in Seq(W)
          /\ <<"param.set">> \o name \o body \in Seq(W) /\ <<"backend.set_health">> \o arg \o body \in Seq(W)
      BY <1>5, <1>7, <2>2, <2>3, Zenon
    <2>5. <<"stop">> \in Seq(W) /\ <<"start">> \in Seq(W) /\ <<"panic.clear">> \in Seq(W)
      BY <1>2, <1>7, Zenon
    <2>. QED  BY <1>5, <1>6, <2>1, <2>3, <2>4, <2>5, Zenon
  <1>. QED  BY <1>9, <1>10

\* A command without line feeds is one line.
LEMMA OneLine ==
  ASSUME NEW W, "LF" \notin W, W \cap DOMAIN Decoded = {}, NEW cmd \in Seq(W)
  PROVE  MoreLines(cmd) = {}
  <1>1. \A i \in DOMAIN cmd : cmd[i] \in W
    OBVIOUS
  <1>2. \A i \in DOMAIN cmd : cmd[i] # "LF" /\ cmd[i] \notin DOMAIN Decoded
    BY <1>1
  <1>. DEFINE A == {k \in DOMAIN cmd : cmd[k] = "LF" /\ k < Len(cmd) /\ cmd[k + 1] # "LF"}
              B == {k \in DOMAIN cmd : cmd[k] \in DOMAIN Decoded}
  <1>3. A = {} /\ B = {}
    BY <1>2, Zenon
  <1>4. MoreLines(cmd) = {<<i, 0, cmd[i + 1]>> : i \in A}
                           \union UNION {{<<i, j, Decoded[cmd[i]][j]>> : j \in DOMAIN Decoded[cmd[i]]} : i \in B}
    BY Zenon DEF MoreLines
  <1>. HIDE DEF A, B
  <1>. QED  BY <1>3, <1>4

\* What find_listener answers on behalf of a listener.
Strayed(s, p) == [http_reply(s) EXCEPT !.cmd = p.cmd, !.cli = p.cli, !.out = Garbled]

LEMMA AnsweredFrom ==
  ASSUME NEW cb, NEW outs, NEW o \in Answered(cb, outs)
  PROVE  \/ o \in outs
         \/ lag # 0 /\ \E p \in outs, s \in {0, 200, 500} :
               o = Strayed(s, p) /\ p.said # <<>> /\ p.cmd # <<>> /\ (cb = "vcl_active" => s # 0)
  <1>1. CASE lag = 0
    BY <1>1, Zenon DEF Answered
  <1>2. CASE lag # 0 /\ o \notin outs
    <2>1. PICK p \in outs : p.said # <<>> /\ p.cmd # <<>> /\ o \in Astray(cb, p)
      BY <1>2, Zenon DEF Answered
    <2>2. PICK s \in IF cb = "vcl_active" THEN {200, 500} ELSE {0, 200} : o = Strayed(s, p)
      BY <2>1, Zenon DEF Astray, Strayed
    <2>3. s \in {0, 200, 500} /\ (cb = "vcl_active" => s # 0)
      OBVIOUS
    <2>. QED  BY <1>2, <2>1, <2>2, <2>3
  <1>. QED  BY <1>1, <1>2

-----------------------------------------------------------------------------
(* What find_listener has a listener do.                                    *)

\* The request a listener is called with.
Asked(l, q, info) == [method |-> parse_method(q.method), url |-> q.url, arg |-> Argument(l, q.url), body |-> info.body]

Heard(q, info, o) == \E l \in Listeners : \E p :
    /\ parse_method(q.method) \in l.methods /\ Len(q.url) > 0
    /\ p \in Answered(l.cb, Callback(l.cb, Asked(l, q, info))) \/ (p = Aborted /\ ~info.kept)
    /\ o = Served(l.cb, info.body, p)

LEMMA Listens ==
  ASSUME NEW q, q.url \in Seq(Range(q.url)), NEW info, NEW o \in find_listener(q, info)
  PROVE  (\E n : o = http_reply(n)) \/ Heard(q, info, o)
  <1>. DEFINE m    == parse_method(q.method)
              hits == {l \in Listeners : IsPrefix(l.path, q.url) /\ m \in l.methods}
              l    == CHOOSE x \in hits : TRUE
              r    == Asked(l, q, info)
              out  == IF info.kept \/ ~NeedsBody(l.cb, m) THEN Answered(l.cb, Callback(l.cb, r)) ELSE {Aborted}
  <1>0. find_listener(q, info) =
          IF hits # {} THEN {Served(l.cb, info.body, x) : x \in out}
          ELSE {http_reply(IF m = "GET" /\ q.url = <<"">> THEN 200 ELSE 500)}
    BY Zenon DEF find_listener, Asked
  <1>1. CASE hits = {}
    BY <1>0, <1>1, Zenon
  <1>2. CASE hits # {}
    <2>1. l \in Listeners /\ IsPrefix(l.path, q.url) /\ m \in l.methods
      BY <1>2
    <2>2. PICK p \in out : o = Served(l.cb, info.body, p)
      BY <1>0, <1>2, Zenon
    <2>3. p \in Answered(l.cb, Callback(l.cb, r)) \/ (p = Aborted /\ ~info.kept)
      BY <2>2, Zenon
    <2>. HIDE DEF l, m, r
    <2>4. Len(q.url) > 0
      <3>. DEFINE a == Len(l.path)
                  n == Len(q.url)
      <3>1. a \in {1, 2} /\ n \in Nat
        BY <2>1, Paths
      <3>2. a <= n
        BY <2>1 DEF IsPrefix
      <3>. HIDE DEF a, n
      <3>3. n > 0
        BY <3>1, <3>2
      <3>. QED  BY <3>3 DEF n
    <2>. QED  BY <2>1, <2>2, <2>3, <2>4, Zenon DEF r, m, Heard
  <1>. QED  BY <1>1, <1>2

LEMMA Sends ==
  ASSUME NEW cb, NEW outs, NEW p, p \in Answered(cb, outs) \/ p = Aborted
  PROVE  p.cmd = <<>> \/ \E o \in outs : p.cmd = o.cmd
  <1>1. CASE p = Aborted
    BY <1>1 DEF Aborted, http_reply, NoReply
  <1>2. CASE p \in Answered(cb, outs)
    <2>1. \A x, s : Strayed(s, x).cmd = x.cmd
      BY DEF Strayed, http_reply, NoReply
    <2>2. p \in outs \/ \E x \in outs, s \in {0, 200, 500} : p = Strayed(s, x)
      BY <1>2, AnsweredFrom
    <2>. QED  BY <2>1, <2>2
  <1>. QED  BY <1>1, <1>2

\* A line feed in a command was one of the URL, or came of a conversion.
LEMMA ListenerLines ==
  ASSUME NEW q, q.url \in Seq(Range(q.url)), "LF" \notin Range(q.url), ~HasLineFeed(q.url),
         NEW B, B \cap DOMAIN Decoded = {}, NEW info, info.body \in Seq(B),
         NEW o \in find_listener(q, info), ~Converts(o)
  PROVE  MoreLines(o.cmd) = {}
  <1>. DEFINE W == Own \union Range(q.url) \union (B \ {"LF"})
  <1>1. "LF" \notin W /\ W \cap DOMAIN Decoded = {}
    BY HttpAssumption DEF Own, HasLineFeed
  <1>2. q.url \in Seq(W) /\ FirstLine(info.body) \in Seq(W)
    <2>1. FirstLine(info.body) \in Seq(B \ {"LF"})
      BY FirstLineClean
    <2>2. Range(q.url) \subseteq W /\ B \ {"LF"} \subseteq W
      OBVIOUS
    <2>. HIDE DEF W
    <2>3. \A A : A \subseteq W => Seq(A) \subseteq Seq(W)
      OBVIOUS
    <2>. QED  BY <2>1, <2>2, <2>3
  <1>3. Own \subseteq W
    OBVIOUS
  <1>. HIDE DEF W
  <1>4. <<>> \in Seq(W)
    OBVIOUS
  <1>5. CASE \E n : o = http_reply(n)
    BY <1>1, <1>4, <1>5, OneLine DEF http_reply, NoReply
  <1>6. ASSUME NEW l \in Listeners, NEW p, Len(q.url) > 0, o = Served(l.cb, info.body, p),
               p \in Answered(l.cb, Callback(l.cb, Asked(l, q, info))) \/ p = Aborted
        PROVE  MoreLines(o.cmd) = {}
    <2>1. o.cmd = p.cmd /\ o.by = l.cb /\ o.body = info.body
      BY <1>6 DEF Served
    <2>2. CASE p.cmd = <<>>
      BY <1>1, <1>4, <2>1, <2>2, OneLine
    <2>3. ASSUME NEW x \in Callback(l.cb, Asked(l, q, info)), p.cmd = x.cmd
          PROVE  MoreLines(o.cmd) = {}
      <3>. DEFINE r == Asked(l, q, info)
      <3>1. r.url = q.url /\ r.arg = Argument(l, q.url) /\ r.body = info.body
        BY DEF Asked
      <3>. HIDE DEF r
      <3>2. l.cb = "vdirect_reply" => "%" \notin Range(FirstLine(r.body))
        BY <2>1, <3>1 DEF Converts
      <3>3. x.cmd \in Gets(r) \union Sets(r)
        BY <2>3, <3>2, Commands DEF r
      <3>4. Argument(l, q.url) \in Seq(W)
        <4>1. Len(l.path) \in Nat
          BY Paths
        <4>. QED  BY <1>2, <4>1, ArgumentIsSeq
      <3>5. Tail(q.url) \in Seq(W)
        BY <1>2, <1>6, TailOf
      <3>6. x.cmd \in Seq(W)
        BY <1>2, <1>3, <3>1, <3>3, <3>4, <3>5, Worded
      <3>. QED  BY <1>1, <2>1, <2>3, <3>6, OneLine
    <2>4. p.cmd = <<>> \/ \E x \in Callback(l.cb, Asked(l, q, info)) : p.cmd = x.cmd
      BY <1>6, Sends
    <2>. QED  BY <2>2, <2>3, <2>4
  <1>7. CASE Heard(q, info, o)
    BY <1>6, <1>7, Zenon DEF Heard
  <1>. QED  BY <1>5, <1>7, Listens

\* The first line of the listeners that only read.
LEMMA GetsRead ==
  ASSUME NEW S, NEW r, r.arg \in Seq(S), NEW cmd \in Gets(r)
  PROVE  Reads(cmd)
  <1>. USE DEF Reads, Reading
  <1>1. (<<"vcl.show">> \o r.arg)[1] = "vcl.show" /\ (<<"param.show">> \o r.arg)[1] = "param.show"
    BY FirstWord
  <1>2. (<<"param.show">> \o printf(r.arg))[1] = "param.show"
    <2>1. CASE r.arg = <<>>
      BY <2>1 DEF printf
    <2>2. CASE r.arg # <<>>
      BY <1>1, <2>2 DEF printf
    <2>. QED  BY <2>1, <2>2
  <1>3. (<<"param.show">> \o <<"-l">>)[1] = "param.show"
    OBVIOUS
  <1>4. \/ cmd = <<>> \/ cmd = <<"vcl.list">> \/ cmd = <<"vcl.show">> \o r.arg \/ cmd = <<"ban.list">>
        \/ cmd = <<"param.show">> \o printf(r.arg) \/ cmd = <<"param.show">> \o <<"-l">> \/ cmd = <<"param.show">> \o r.arg
        \/ cmd = <<"backend.list">> \/ cmd = <<"status">> \/ cmd = <<"ping">> \/ cmd = <<"panic.show">>
    BY Zenon DEF Gets
  <1>5. CASE cmd \in {<<"vcl.show">> \o r.arg, <<"param.show">> \o printf(r.arg), <<"param.show">> \o <<"-l">>, <<"param.show">> \o r.arg}
    <2>1. cmd[1] \in {"vcl.show", "param.show"}
      BY <1>1, <1>2, <1>3, <1>5, Zenon
    <2>. QED  BY <2>1
  <1>6. CASE cmd \in {<<>>, <<"vcl.list">>, <<"ban.list">>, <<"backend.list">>, <<"status">>, <<"ping">>, <<"panic.show">>}
    BY <1>6
  <1>. QED  BY <1>4, <1>5, <1>6, Zenon

\* What find_listener asks for on behalf of a request that is not to modify.
Harmless(q, o) ==
    Modifies(o) => q.method \in Modify \/ (HasLineFeed(q.url) /\ o.by # "vdirect_reply" /\ o.cmd[1] \notin Changing)

LEMMA ListenerHarmless ==
  ASSUME NEW q, q.url \in Seq(Range(q.url)), "LF" \notin Range(q.url),
         NEW B, B \cap DOMAIN Decoded = {}, NEW info, info.body \in Seq(B), NEW o \in find_listener(q, info)
  PROVE  Harmless(q, o)
  <1>1. CASE \E n : o = http_reply(n)
    BY <1>1 DEF Harmless, Modifies, http_reply, NoReply, Null
  <1>2. ASSUME NEW l \in Listeners, NEW p, parse_method(q.method) \in l.methods, o = Served(l.cb, info.body, p),
               p \in Answered(l.cb, Callback(l.cb, Asked(l, q, info))) \/ p = Aborted
        PROVE  Harmless(q, o)
    <2>1. o.cmd = p.cmd /\ o.by = l.cb
      BY <1>2 DEF Served
    <2>2. CASE parse_method(q.method) # "GET"
      <3>1. q.method \in Modify
        BY <1>2, <2>2, GetListeners DEF parse_method, Modify
      <3>. QED  BY <3>1 DEF Harmless
    <2>3. CASE parse_method(q.method) = "GET"
      <3>. DEFINE r == Asked(l, q, info)
      <3>0. r.method = "GET" /\ r.arg = Argument(l, q.url)
        BY <2>3 DEF Asked
      <3>1. l.cb \in Readers /\ l.cb # "vdirect_reply"
        <4>1. l.cb \in Readers
          BY <1>2, <2>3, GetListeners
        <4>. QED  BY <4>1 DEF Readers
      <3>2. Reads(p.cmd)
        <4>. HIDE DEF r
        <4>1. CASE p.cmd = <<>>
          BY <4>1 DEF Reads
        <4>2. ASSUME NEW x \in Callback(l.cb, r), p.cmd = x.cmd PROVE Reads(p.cmd)
          <5>1. Len(l.path) \in Nat
            BY Paths
          <5>2. r.arg \in Seq(Range(q.url))
            BY <3>0, <5>1, ArgumentIsSeq
          <5>3. x.cmd \in Gets(r)
            BY <3>0, <3>1, <4>2, Commands
          <5>. QED  BY <4>2, <5>2, <5>3, GetsRead
        <4>3. p.cmd = <<>> \/ \E x \in Callback(l.cb, r) : p.cmd = x.cmd
          BY <1>2, Sends DEF r
        <4>. QED  BY <4>1, <4>2, <4>3
      <3>3. o.cmd # <<>> => o.cmd[1] \notin Changing
        BY <2>1, <3>2 DEF Reads, Reading, Changing
      <3>4. MoreLines(o.cmd) # {} => HasLineFeed(q.url)
        <4>1. ~Converts(o)
          BY <2>1, <3>1 DEF Converts
        <4>. QED  BY <4>1, ListenerLines
      <3>. QED  BY <2>1, <3>1, <3>3, <3>4 DEF Harmless, Modifies
    <2>. QED  BY <2>2, <2>3
  <1>3. CASE Heard(q, info, o)
    BY <1>2, <1>3, Zenon DEF Heard
  <1>. QED  BY <1>1, <1>3, Listens

-----------------------------------------------------------------------------
(* What the listeners answer: a status and nothing that varnishd listed, or *)
(* what they made of a listing.                                             *)

Codes == {200, 201, 400, 404, 500}
Plain(o) == o.status \in Codes /\ o.said = <<>>
Answers(o) == \E s \in Codes : \E cmd, v : o = [http_reply(s) EXCEPT !.cmd = cmd, !.cli = v]
Lists(o, l, x) == o.status = 200 /\ o.said = <<l>> /\ o.said[1] = l /\ o.out = x

LEMMA AnswerPlain ==
  ASSUME NEW o, Answers(o)
  PROVE  Plain(o)
  BY DEF Answers, Plain, http_reply, NoReply

LEMMA ReplyPlain ==
  ASSUME NEW s \in Codes, NEW x
  PROVE  Plain(http_reply(s)) /\ Plain([http_reply(s) EXCEPT !.out = x])
  BY DEF Plain, http_reply, NoReply

LEMMA RefusedPlain ==
  ASSUME NEW cmd, NEW codes, NEW status \in Codes, NEW o \in Refused(cmd, codes, status)
  PROVE  Plain(o)
  <1>1. Answers(o)
    BY Zenon DEF Refused, Ask, Answers
  <1>. QED BY <1>1, AnswerPlain

LEMMA RespondPlain ==
  ASSUME NEW min, NEW max, NEW cmd, NEW o, o \in run_and_respond(cmd) \/ o \in run_and_respond_eok(min, max, cmd)
  PROVE  Plain(o)
  <1>1. \A a, b, v : Between(a, b, v) \in Codes
    BY DEF Between, Codes
  <1>2. Answers(o)
    BY <1>1, Zenon DEF run_and_respond, run_and_respond_eok, Ask, Answers
  <1>. QED BY <1>2, AnswerPlain

LEMMA ListingLists ==
  ASSUME NEW cmd, NEW l, NEW x, NEW o, o = [http_reply(200) EXCEPT !.cmd = cmd, !.cli = 200, !.said = <<l>>, !.out = x]
  PROVE  Lists(o, l, x)
  BY DEF Lists, http_reply, NoReply

LEMMA CodePlain ==
  ASSUME NEW o, NEW s \in Codes, NEW cmd, NEW v, o = [http_reply(s) EXCEPT !.cmd = cmd, !.cli = v]
  PROVE  Plain(o)
  <1>1. Answers(o)
    BY Zenon DEF Answers
  <1>. QED BY <1>1, AnswerPlain

\* The listeners of vcl.c that ask for no listing.
LEMMA VclPlain ==
  ASSUME NEW r, NEW o, o \in vcl_listshow(r) \/ o \in vcl_push(r) \/ o \in vcl_delete(r) \/ o \in vcl_deploy(r)
  PROVE  Plain(o)
  <1>0. {200, 201, 400, 500} \subseteq Codes
    BY DEF Codes
  <1>1. CASE o \in vcl_listshow(r)
    <2>. DEFINE cmd == IF r.arg = <<>> THEN <<"vcl.list">> ELSE <<"vcl.show">> \o r.arg
                code(v) == IF v = 200 THEN 200 ELSE 400
    <2>1. PICK v \in CLI : o = [http_reply(code(v)) EXCEPT !.cmd = cmd, !.cli = v]
      BY <1>1, Zenon DEF vcl_listshow, Ask
    <2>2. code(v) \in Codes
      BY DEF Codes
    <2>. HIDE DEF cmd, code
    <2>. QED BY <2>1, <2>2, CodePlain
  <1>2. CASE o \in vcl_push(r)
    <2>. DEFINE id == IF r.method = "POST" THEN <<"vclNNN">> ELSE printf(r.arg)
                cmd == <<"vcl.inline">> \o id \o <<"here-document">>
                code(v) == IF v = 200 THEN 201 ELSE 500
    <2>1. o = http_reply(500) \/ o \in Ask(cmd, LAMBDA v : code(v)) \/ o \in Ask(cmd, LAMBDA v : 500)
      BY <1>2, Zenon DEF vcl_push
    <2>. HIDE DEF cmd
    <2>2. CASE o \in Ask(cmd, LAMBDA v : code(v))
      <3>1. PICK v \in CLI : o = [http_reply(code(v)) EXCEPT !.cmd = cmd, !.cli = v]
        BY <2>2, Zenon DEF Ask
      <3>2. code(v) \in Codes
        BY DEF Codes
      <3>. HIDE DEF code
      <3>. QED BY <3>1, <3>2, CodePlain
    <2>3. CASE o \in Ask(cmd, LAMBDA v : 500)
      <3>1. PICK v \in CLI : o = [http_reply(500) EXCEPT !.cmd = cmd, !.cli = v]
        BY <2>3, Zenon DEF Ask
      <3>2. 500 \in Codes
        BY <1>0
      <3>. QED BY <3>1, <3>2, CodePlain, Zenon
    <2>4. CASE o = http_reply(500)
      BY <1>0, <2>4, ReplyPlain
    <2>. QED BY <2>1, <2>2, <2>3, <2>4
  <1>3. CASE o \in vcl_delete(r)
    <2>. DEFINE cmd == <<"vcl.discard">> \o printf(r.arg)
                code(v) == IF v \in {400, 106} THEN 500 ELSE 200
    <2>1. PICK v \in CLI : o = [http_reply(code(v)) EXCEPT !.cmd = cmd, !.cli = v]
      BY <1>3, Zenon DEF vcl_delete, Ask
    <2>2. code(v) \in Codes
      BY DEF Codes
    <2>. HIDE DEF cmd, code
    <2>. QED BY <2>1, <2>2, CodePlain
  <1>4. CASE o \in vcl_deploy(r)
    <2>. DEFINE cmd == <<"vcl.use">> \o printf(r.arg)
    <2>1. vcl_deploy(r) \subseteq run_and_respond(cmd) \union Ask(cmd, LAMBDA v : 500)
      BY DEF vcl_deploy
    <2>. HIDE DEF cmd
    <2>2. CASE o \in Ask(cmd, LAMBDA v : 500)
      <3>1. PICK v \in CLI : o = [http_reply(500) EXCEPT !.cmd = cmd, !.cli = v]
        BY <2>2, Zenon DEF Ask
      <3>2. 500 \in Codes
        BY <1>0
      <3>. QED BY <3>1, <3>2, CodePlain, Zenon
    <2>. QED BY <1>4, <2>1, <2>2, RespondPlain
  <1>. QED BY <1>1, <1>2, <1>3, <1>4

LEMMA VclActivePlain ==
  ASSUME NEW r, NEW o \in vcl_active_reply(r)
  PROVE  o.status # 0
  <1>0. 500 \in Codes
    BY DEF Codes
  <1>1. ASSUME o \in Refused(<<"vcl.list">>, CLI \ {200}, 500) \/ o \in Refused(<<"vcl.list">>, CLI \ {200, 400}, 200)
        PROVE  o.status # 0
    <2>1. 200 \in Codes
      BY DEF Codes
    <2>2. Plain(o)
      BY <1>0, <1>1, <2>1, RefusedPlain
    <2>. QED BY <2>2 DEF Plain, Codes
  <1>2. ASSUME NEW q \in Listing(<<"vcl.list">>, VclLists, vcl_active), o = [q EXCEPT !.status = IF q.out = <<>> THEN 500 ELSE 200]
        PROVE  o.status # 0
    <2>1. PICK l \in VclLists : q = [http_reply(200) EXCEPT !.cmd = <<"vcl.list">>, !.cli = 200, !.said = <<l>>, !.out = vcl_active(l)]
      BY Zenon DEF Listing
    <2>. DEFINE x == vcl_active(l)
    <2>2. q = [http_reply(200) EXCEPT !.cmd = <<"vcl.list">>, !.cli = 200, !.said = <<l>>, !.out = x]
      BY <2>1
    <2>. HIDE DEF x
    <2>. QED BY <1>2, <2>2 DEF http_reply, NoReply
  <1>. QED BY <1>1, <1>2, Zenon DEF vcl_active_reply

LEMMA VclJsonLists ==
  ASSUME NEW r, NEW o \in vcl_json(r)
  PROVE  Plain(o) \/ \E l \in VclLists : Lists(o, l, vcl_list_json(l))
  <1>0. {200, 404, 500} \subseteq Codes
    BY DEF Codes
  <1>1. \/ o = http_reply(404)
        \/ o \in Listing(<<"vcl.list">>, VclLists, vcl_list_json)
        \/ o \in Refused(<<"vcl.list">>, {400}, 500) \/ o \in Refused(<<"vcl.list">>, CLI \ {200, 400}, 200)
    BY DEF vcl_json
  <1>2. CASE o \in Listing(<<"vcl.list">>, VclLists, vcl_list_json)
    <2>1. PICK l \in VclLists : o = [http_reply(200) EXCEPT !.cmd = <<"vcl.list">>, !.cli = 200, !.said = <<l>>, !.out = vcl_list_json(l)]
      BY <1>2, Zenon DEF Listing
    <2>. QED BY <2>1, ListingLists, Zenon
  <1>3. CASE o = http_reply(404)
    BY <1>0, <1>3, ReplyPlain
  <1>4. CASE o \in Refused(<<"vcl.list">>, {400}, 500) \/ o \in Refused(<<"vcl.list">>, CLI \ {200, 400}, 200)
    BY <1>0, <1>4, RefusedPlain
  <1>. QED BY <1>1, <1>2, <1>3, <1>4, Zenon

\* A listing that varnishd gave, or what was made of it and then changed.
Told(o, l) == o.said = <<l>> /\ o.said[1] = l
Listed(cmd, l, x) == [http_reply(200) EXCEPT !.cmd = cmd, !.cli = 200, !.said = <<l>>, !.out = x]
Crashed(o) == [o EXCEPT !.status = 0]
WithOut(o, y) == [o EXCEPT !.out = y]

LEMMA ListingTells ==
  ASSUME NEW cmd, NEW l, NEW x, NEW o, o = Listed(cmd, l, x)
  PROVE  /\ Told(o, l) /\ o.cmd = cmd /\ o.status = 200 /\ o.out = x
         /\ Told(Crashed(o), l) /\ Crashed(o).status = 0 /\ Crashed(o).cmd = cmd
         /\ \A y : Told(WithOut(o, y), l) /\ WithOut(o, y).status = 200 /\ WithOut(o, y).cmd = cmd /\ WithOut(o, y).out = y
  BY DEF Told, Listed, Crashed, WithOut, http_reply, NoReply

LEMMA BackendsJsonLists ==
  ASSUME NEW r, NEW o \in vbackends_json_reply(r)
  PROVE  \/ Plain(o)
         \/ \E raw \in BackendLists :
               /\ Told(o, raw)
               /\ \/ o.status = 200 /\ (o.out = vbackends_show_json(raw) \/ Overlong(raw))
                  \/ o.status = 0 /\ (NoLine(raw) \/ Overlong(raw))
  <1>. DEFINE cmd == <<"backend.list">>
              shown == Listing(cmd, BackendLists, vbackends_show_json)
              none == Listing(cmd, BackendLists, LAMBDA l : <<>>)
              broken == Listing(cmd, BackendLists, LAMBDA l : Garbled)
              refused == Refused(cmd, CLI \ {200}, 500)
  <1>1. \/ o \in shown \/ o \in refused
        \/ \E q \in none : (NoLine(q.said[1]) \/ Overlong(q.said[1])) /\ o = Crashed(q)
        \/ (o \in broken /\ Overlong(o.said[1]))
    BY Zenon DEF vbackends_json_reply, Crashed
  <1>2. ASSUME o \in shown
        PROVE  \E raw \in BackendLists : Told(o, raw) /\ o.status = 200 /\ o.out = vbackends_show_json(raw)
    <2>1. PICK l \in BackendLists :
            o = Listed(cmd, l, vbackends_show_json(l))
      BY <1>2, Zenon DEF Listing, Listed
    <2>. QED BY <2>1, ListingTells
  <1>3. \A q \in none : \E raw \in BackendLists : Told(q, raw) /\ Told(Crashed(q), raw) /\ Crashed(q).status = 0
    <2>1. ASSUME NEW q, q \in none
          PROVE  \E raw \in BackendLists : Told(q, raw) /\ Told(Crashed(q), raw) /\ Crashed(q).status = 0
      <3>. DEFINE nothing == <<>>
      <3>1. PICK raw \in BackendLists : q = Listed(cmd, raw, nothing)
        BY <2>1, Zenon DEF Listing, Listed
      <3>. HIDE DEF nothing
      <3>2. Told(q, raw) /\ Told(Crashed(q), raw) /\ Crashed(q).status = 0
        BY <3>1, ListingTells
      <3>. QED BY <3>2
    <2>. QED BY <2>1
  <1>4. ASSUME o \in broken
        PROVE  \E raw \in BackendLists : Told(o, raw) /\ o.status = 200
    <2>1. PICK l \in BackendLists : o = Listed(cmd, l, Garbled)
      BY <1>4, Zenon DEF Listing, Listed
    <2>. QED BY <2>1, ListingTells
  <1>5. ASSUME o \in refused PROVE Plain(o)
    <2>1. 500 \in Codes
      BY DEF Codes
    <2>. QED BY <1>5, <2>1, RefusedPlain
  <1>. HIDE DEF cmd, shown, none, broken, refused
  <1>6. ASSUME NEW q \in none, NoLine(q.said[1]) \/ Overlong(q.said[1]), o = Crashed(q)
        PROVE  \E raw \in BackendLists : Told(o, raw) /\ o.status = 0 /\ (NoLine(raw) \/ Overlong(raw))
    <2>1. PICK raw \in BackendLists : Told(q, raw) /\ Told(o, raw) /\ o.status = 0
      BY <1>3, <1>6
    <2>2. q.said[1] = raw
      BY <2>1 DEF Told
    <2>. QED BY <1>6, <2>1, <2>2
  <1>7. ASSUME o \in broken, Overlong(o.said[1])
        PROVE  \E raw \in BackendLists : Told(o, raw) /\ o.status = 200 /\ Overlong(raw)
    <2>1. PICK raw \in BackendLists : Told(o, raw) /\ o.status = 200
      BY <1>4, <1>7
    <2>2. o.said[1] = raw
      BY <2>1 DEF Told
    <2>. QED BY <1>7, <2>1, <2>2
  <1>. QED BY <1>1, <1>2, <1>5, <1>6, <1>7

\* The asserts of the parser fail for what it cannot take.
LEMMA ParamsJsonLists ==
  ASSUME NEW r, NEW o \in vparams_json_reply(r)
  PROVE  \/ Plain(o)
         \/ \E es \in ParamLists : /\ Told(o, es)
                                   /\ \/ o.status = 200 /\ (o.cmd = <<"param.show", "-l">> => ParamsTrue(es, o.out))
                                      \/ o.status = 0 /\ (o.cmd = <<"param.show", "-l">> => \E i \in DOMAIN es : Indigestible(es[i]))
  <1>. DEFINE long == <<"param.show", "-l">>
              cmd == <<"param.show">> \o (IF r.arg = <<>> THEN <<"-l">> ELSE r.arg)
              lists == Listing(cmd, ParamLists, LAMBDA l : <<>>)
              refused == Refused(cmd, CLI \ {200}, 500)
              answers == UNION {ParamsAnswer(q) : q \in lists}
  <1>1. o \in answers \union refused
    <2>1. vparams_json_reply(r) = answers \union refused
      BY DEF vparams_json_reply
    <2>. QED BY <2>1
  <1>2. ASSUME o \in refused PROVE Plain(o)
    <2>1. 500 \in Codes
      BY DEF Codes
    <2>. HIDE DEF cmd
    <2>. QED BY <1>2, <2>1, RefusedPlain
  <1>3. ASSUME NEW q \in lists
        PROVE  \E es \in ParamLists : q = Listed(cmd, es, <<>>)
    BY Zenon DEF Listing, Listed
  <1>. HIDE DEF cmd, lists, refused, long
  <1>4. ASSUME NEW q \in lists, o \in ParamsAnswer(q)
        PROVE  \E es \in ParamLists : /\ Told(o, es)
                                     /\ \/ o.status = 200 /\ (o.cmd = long => ParamsTrue(es, o.out))
                                        \/ o.status = 0 /\ (o.cmd = long => \E i \in DOMAIN es : Indigestible(es[i]))
    <2>1. PICK es \in ParamLists : q = Listed(cmd, es, <<>>)
      BY <1>3
    <2>2. /\ Told(q, es) /\ q.cmd = cmd
          /\ Told(Crashed(q), es) /\ Crashed(q).status = 0 /\ Crashed(q).cmd = cmd
          /\ \A y : Told(WithOut(q, y), es) /\ WithOut(q, y).status = 200 /\ WithOut(q, y).cmd = cmd /\ WithOut(q, y).out = y
      BY <2>1, ListingTells
    <2>3. PICK text : o \in ParamsPrinted(q, text) /\ (cmd = long => text = ParamShow(es))
      <3>1. q.said[1] = es
        BY <2>2 DEF Told
      <3>2. PICK text \in {ParamShow(q.said[1])} \union (IF q.cmd = long THEN {} ELSE {ParamShort(q.said[1])}) : o \in ParamsPrinted(q, text)
        BY <1>4, Zenon DEF ParamsAnswer, long
      <3>. QED BY <2>2, <3>1, <3>2
    <2>. DEFINE json == vparams_show_json(text)
    <2>4. cmd = long => /\ json.aborts <=> \E i \in DOMAIN es : Indigestible(es[i])
                        /\ ~json.aborts => \A junk \in [DOMAIN json.out -> Junk] : ParamsTrue(es, Printed(json.out, junk))
      <3>1. es \in Seq(Param)
        BY Zenon, ListingsAssumption
      <3>. QED BY <2>3, <3>1, ParamsListed, Zenon
    <2>5. IF json.aborts THEN o = Crashed(q)
          ELSE \E junk \in [DOMAIN json.out -> Junk] : o = WithOut(q, Printed(json.out, junk))
      <3>1. o \in ParamsPrinted(q, text)
        BY <2>3
      <3>. QED BY <3>1, Zenon DEF ParamsPrinted, Crashed, WithOut
    <2>. HIDE DEF json
    <2>6. CASE json.aborts
      <3>1. o = Crashed(q)
        BY <2>5, <2>6
      <3>2. Told(o, es) /\ o.status = 0 /\ o.cmd = cmd
        BY <2>2, <3>1, Zenon
      <3>. QED BY <2>4, <2>6, <3>2, Zenon
    <2>7. CASE ~json.aborts
      <3>1. PICK junk \in [DOMAIN json.out -> Junk] : o = WithOut(q, Printed(json.out, junk))
        BY <2>5, <2>7
      <3>2. Told(o, es) /\ o.status = 200 /\ o.cmd = cmd /\ o.out = Printed(json.out, junk)
        BY <2>2, <3>1, Zenon
      <3>. QED BY <2>4, <2>7, <3>2, Zenon
    <2>. QED BY <2>6, <2>7
  <1>5. \/ o \in refused
        \/ \E q \in lists : o \in ParamsAnswer(q)
    BY <1>1, Zenon
  <1>. QED BY <1>2, <1>4, <1>5, Zenon DEF long

LEMMA LogLists ==
  ASSUME NEW S, NEW url \in Seq(S), NEW l, Len(l.path) = 1, Len(url) > 0,
         NEW r, r.arg = Argument(l, url), NEW o \in vlog_reply(r)
  PROVE  Plain(o) \/ \E log \in Logs : \E x : Lists(o, log, x) /\ LogTrue(Tail(url), log, x)
  <1>0. 500 \in Codes
    BY DEF Codes
  <1>. DEFINE limit == IF r.arg = <<>> THEN 10 ELSE Number[r.arg[1]]
              tags  == IF Len(r.arg) > 1 /\ r.arg[2] # "" THEN <<r.arg[2]>> ELSE <<>>
              read(log) == vlog_cb_func(limit, tags, log)
              known == r.arg # <<>> => IsNumber(r.arg[1])
  <1>1. o = http_reply(500) \/ (known /\ o \in Listing(<<>>, Logs, LAMBDA x : read(x)))
    BY Zenon DEF vlog_reply
  <1>2. ASSUME known, NEW log \in Logs PROVE LogTrue(Tail(url), log, read(log))
    <2>1. log \in Seq(Range(log))
      BY Zenon, ListingsAssumption
    <2>. QED BY <1>2, <2>1, LogListed
  <1>. HIDE DEF read
  <1>3. CASE o = http_reply(500)
    BY <1>0, <1>3, ReplyPlain
  <1>4. CASE known /\ o \in Listing(<<>>, Logs, LAMBDA x : read(x))
    <2>1. PICK log \in Logs : o = [http_reply(200) EXCEPT !.cmd = <<>>, !.cli = 200, !.said = <<log>>, !.out = read(log)]
      BY <1>4, Zenon DEF Listing
    <2>2. Lists(o, log, read(log))
      BY <2>1, ListingLists, Zenon
    <2>3. LogTrue(Tail(url), log, read(log))
      BY <1>2, <1>4, Zenon
    <2>. QED BY <2>2, <2>3, Zenon
  <1>. QED BY <1>1, <1>3, <1>4

\* The listeners that neither look at a listing nor read a file.
Simple == {"vcl_listshow", "vcl_push", "vcl_delete", "vcl_deploy", "vban_reply", "vparams_reply", "vbackends_reply",
           "echo_reply", "vstatus_panic", "help_reply", "status", "ping", "stop", "start"}
ListingReaders == {"vparams_json_reply", "vcl_json", "vbackends_json_reply", "vlog_reply"}

LEMMA SimplePlain ==
  ASSUME NEW cb \in Simple, NEW r, NEW o \in Callback(cb, r)
  PROVE  Plain(o)
  <1>0. {200, 500} \subseteq Codes
    BY DEF Codes
  <1>1. CASE cb \in {"vcl_listshow", "vcl_push", "vcl_delete", "vcl_deploy"}
    <2>1. o \in vcl_listshow(r) \/ o \in vcl_push(r) \/ o \in vcl_delete(r) \/ o \in vcl_deploy(r)
      BY <1>1 DEF Callback
    <2>. QED BY <2>1, VclPlain
  <1>2. CASE cb \in {"vban_reply", "vparams_reply", "vbackends_reply"}
    <2>1. o \in vban_reply(r) \/ o \in vparams_reply(r) \/ o \in vbackends_reply(r)
      BY <1>2 DEF Callback
    <2>2. (\E cmd : o \in run_and_respond(cmd)) \/ o = http_reply(500)
      <3>1. o \in vban_reply(r) => (\E cmd : o \in run_and_respond(cmd)) \/ o = http_reply(500)
        BY DEF vban_reply
      <3>2. o \in vparams_reply(r) => \E cmd : o \in run_and_respond(cmd)
        BY DEF vparams_reply
      <3>3. o \in vbackends_reply(r) => (\E cmd : o \in run_and_respond(cmd)) \/ o = http_reply(500)
        BY DEF vbackends_reply
      <3>. QED BY <2>1, <3>1, <3>2, <3>3
    <2>. QED BY <1>0, <2>2, RespondPlain, ReplyPlain
  <1>3. CASE cb \in {"status", "ping", "stop", "start"}
    <2>1. \E cmd : o \in run_and_respond(cmd)
      BY <1>3 DEF Callback, vstatus
    <2>. QED BY <2>1, RespondPlain
  <1>4. CASE cb = "vstatus_panic"
    <2>1. \E min, max, cmd : o \in run_and_respond_eok(min, max, cmd)
      BY <1>4 DEF Callback, vstatus_panic
    <2>. QED BY <2>1, RespondPlain
  <1>5. CASE cb \in {"help_reply", "echo_reply"}
    <2>1. o \in help_reply(r) \/ o \in echo_reply(r)
      BY <1>5 DEF Callback
    <2>2. o = http_reply(200) \/ o = [http_reply(200) EXCEPT !.out = r.body]
      BY <2>1 DEF help_reply, echo_reply
    <2>3. 200 \in Codes
      BY <1>0
    <2>. QED BY <2>2, <2>3, ReplyPlain, Zenon
  <1>. QED BY <1>1, <1>2, <1>3, <1>4, <1>5 DEF Simple

\* The format with no arguments for it.
LEMMA DirectPlain ==
  ASSUME NEW r, NEW o \in vdirect_reply(r)
  PROVE  Plain(o) \/ (o = Aborted /\ "%" \in Range(FirstLine(r.body)))
  <1>. DEFINE line == FirstLine(r.body)
              formatted(x) == [i \in DOMAIN line |-> IF line[i] = "%" THEN x ELSE line[i]]
              printed == UNION {run_and_respond(formatted(x)) : x \in {"text"} \union DOMAIN Decoded}
  <1>1. o \in IF "%" \notin Range(line) THEN run_and_respond(line) ELSE {Aborted} \union printed
    BY Zenon DEF vdirect_reply
  <1>2. ASSUME o \in printed PROVE \E cmd : o \in run_and_respond(cmd)
    <2>. HIDE DEF formatted
    <2>. QED BY <1>2, Zenon
  <1>. HIDE DEF printed, line
  <1>. QED BY <1>1, <1>2, RespondPlain DEF line

LEMMA Callbacks ==
  ASSUME NEW l \in Listeners
  PROVE  /\ l.cb \in Simple \union ListingReaders \union {"vcl_active", "html_reply", "vdirect_reply"}
         /\ l.cb = "vlog_reply" => Len(l.path) = 1
         /\ l.cb # Null
  BY DEF Listeners, VclPaths, BanPaths, DirectPaths, ParamPaths, BackendPaths, StatusPaths, HtmlPaths, LogPaths,
         EchoPaths, Path, Help, Simple, ListingReaders, Null

\* What is to be said of a response to a request for url.
Truthful(url, o) == AbortKnown(o) /\ ListingTrue(url, o)

\* A status, and nothing that was listed.
LEMMA NothingTold ==
  ASSUME NEW o, NEW url, o.said = <<>>, o.status # 0
  PROVE  Truthful(url, o)
  BY Zenon DEF Truthful, AbortKnown, ListingTrue

LEMMA PlainTrue ==
  ASSUME NEW cb, NEW body, NEW o, NEW url, Plain(o)
  PROVE  Truthful(url, Served(cb, body, o))
  <1>1. Served(cb, body, o).status # 0 /\ Served(cb, body, o).said = <<>>
    BY DEF Plain, Codes, Served
  <1>. QED BY <1>1, NothingTold

LEMMA AsServed ==
  ASSUME NEW cb, NEW body, NEW o
  PROVE  LET s == Served(cb, body, o)
         IN  /\ s.by = cb /\ s.body = body /\ s.cmd = o.cmd /\ s.status = o.status /\ s.said = o.said /\ s.out = o.out
             /\ o.cmd # <<>> => s.lag = lag
  BY DEF Served

LEMMA ListenerTrue ==
  ASSUME NEW S, NEW url \in Seq(S), Len(url) > 0, NEW l \in Listeners,
         NEW body, NEW r, r.arg = Argument(l, url), r.body = body, NEW o \in Callback(l.cb, r)
  PROVE  Truthful(url, Served(l.cb, body, o))
  <1>. DEFINE cb == l.cb
              s == Served(cb, body, o)
  <1>0. s.by = cb /\ s.body = body /\ s.cmd = o.cmd /\ s.status = o.status /\ s.said = o.said /\ s.out = o.out
    BY AsServed
  <1>1. CASE cb \in Simple
    BY <1>1, SimplePlain, PlainTrue
  <1>2. CASE cb = "vcl_active"
    <2>1. o \in vcl_active_reply(r)
      BY <1>2 DEF Callback
    <2>2. s.status # 0 /\ s.by = "vcl_active"
      BY <1>0, <1>2, <2>1, VclActivePlain
    <2>. HIDE DEF s
    <2>3. ListingTrue(url, s)
      BY <2>2 DEF ListingTrue
    <2>4. AbortKnown(s)
      BY <2>2, Zenon DEF AbortKnown
    <2>. QED BY <2>3, <2>4, Zenon DEF Truthful, s
  <1>3. CASE cb = "html_reply"
    <2>1. o \in html_reply(r)
      BY <1>3 DEF Callback
    <2>2. o.said = <<>>
      BY <2>1 DEF html_reply, Aborted, http_reply, NoReply
    <2>3. s.said = <<>> /\ s.by = "html_reply"
      BY <1>0, <1>3, <2>2
    <2>. HIDE DEF s
    <2>4. ListingTrue(url, s)
      BY <2>3, Zenon DEF ListingTrue
    <2>5. AbortKnown(s)
      BY <2>3, Zenon DEF AbortKnown
    <2>. QED BY <2>4, <2>5, Zenon DEF Truthful, s
  <1>4. CASE cb = "vcl_json"
    <2>1. o \in vcl_json(r)
      BY <1>4 DEF Callback
    <2>2. CASE Plain(o)
      BY <2>2, PlainTrue
    <2>3. ASSUME NEW ls \in VclLists, Lists(o, ls, vcl_list_json(ls)) PROVE Truthful(url, s)
      <3>1. s.by = "vcl_json" /\ s.status = 200 /\ s.said[1] = ls /\ s.out = vcl_list_json(ls)
        BY <1>0, <1>4, <2>3 DEF Lists
      <3>2. VclsTrue(ls, vcl_list_json(ls))
        <4>1. ls \in Seq(VclLine)
          BY Zenon, ListingsAssumption
        <4>. QED BY <4>1, VclsListed, Zenon DEF VclsTrue
      <3>. HIDE DEF s
      <3>. QED BY <3>1, <3>2 DEF Truthful, AbortKnown, ListingTrue
    <2>. QED BY <2>1, <2>2, <2>3, VclJsonLists
  <1>5. CASE cb = "vbackends_json_reply"
    <2>1. o \in vbackends_json_reply(r)
      BY <1>5 DEF Callback
    <2>2. CASE Plain(o)
      BY <2>2, PlainTrue
    <2>3. ASSUME NEW raw \in BackendLists, Told(o, raw),
                 \/ o.status = 200 /\ (o.out = vbackends_show_json(raw) \/ Overlong(raw))
                 \/ o.status = 0 /\ (NoLine(raw) \/ Overlong(raw))
          PROVE  Truthful(url, s)
      <3>1. s.by = "vbackends_json_reply" /\ s.said[1] = raw /\ s.status = o.status /\ s.out = o.out
        BY <1>0, <1>5, <2>3 DEF Told
      <3>2. BackendsTrue(raw, vbackends_show_json(raw))
        BY BackendsListed, ListingsAssumption
      <3>3. Overlong(raw) => BackendsTrue(raw, o.out)
        BY Zenon DEF BackendsTrue
      <3>. HIDE DEF s
      <3>4. ListingTrue(url, s)
        BY <2>3, <3>1, <3>2, <3>3 DEF ListingTrue
      <3>5. AbortKnown(s)
        BY <2>3, <3>1 DEF AbortKnown
      <3>. QED BY <3>4, <3>5, Zenon DEF Truthful
    <2>. QED BY <2>1, <2>2, <2>3, BackendsJsonLists
  <1>6. CASE cb = "vparams_json_reply"
    <2>1. o \in vparams_json_reply(r)
      BY <1>6 DEF Callback
    <2>2. CASE Plain(o)
      BY <2>2, PlainTrue
    <2>3. ASSUME NEW es \in ParamLists, Told(o, es),
                 \/ o.status = 200 /\ (o.cmd = <<"param.show", "-l">> => ParamsTrue(es, o.out))
                 \/ o.status = 0 /\ (o.cmd = <<"param.show", "-l">> => \E i \in DOMAIN es : Indigestible(es[i]))
          PROVE  Truthful(url, s)
      <3>1. s.by = "vparams_json_reply" /\ s.said[1] = es /\ s.status = o.status /\ s.out = o.out /\ s.cmd = o.cmd
        BY <1>0, <1>6, <2>3 DEF Told
      <3>. HIDE DEF s
      <3>2. ListingTrue(url, s)
        BY <2>3, <3>1 DEF ListingTrue
      <3>3. AbortKnown(s)
        <4>1. s.status # 0 \/ s.cmd # <<"param.show", "-l">> \/ \E i \in DOMAIN s.said[1] : Indigestible(s.said[1][i])
          BY <2>3, <3>1
        <4>. QED BY <3>1, <4>1, Zenon DEF AbortKnown
      <3>. QED BY <3>2, <3>3, Zenon DEF Truthful
    <2>. QED BY <2>1, <2>2, <2>3, ParamsJsonLists
  <1>7. CASE cb = "vlog_reply"
    <2>1. o \in vlog_reply(r)
      BY <1>7 DEF Callback
    <2>2. CASE Plain(o)
      BY <2>2, PlainTrue
    <2>3. ASSUME NEW log \in Logs, NEW x, Lists(o, log, x), LogTrue(Tail(url), log, x) PROVE Truthful(url, s)
      <3>1. s.by = "vlog_reply" /\ s.status = 200 /\ s.said[1] = log /\ s.out = x
        BY <1>0, <1>7, <2>3 DEF Lists
      <3>. HIDE DEF s
      <3>. QED BY <2>3, <3>1 DEF Truthful, AbortKnown, ListingTrue
    <2>4. Len(l.path) = 1
      BY <1>7, Callbacks
    <2>. QED BY <2>1, <2>2, <2>3, <2>4, LogLists
  <1>8. CASE cb = "vdirect_reply"
    <2>1. o \in vdirect_reply(r)
      BY <1>8 DEF Callback
    <2>2. CASE Plain(o)
      BY <2>2, PlainTrue
    <2>3. CASE o = Aborted /\ "%" \in Range(FirstLine(r.body))
      <3>1. s.by = "vdirect_reply" /\ s.said = <<>> /\ s.body = r.body
        BY <1>0, <1>8, <2>3 DEF Aborted, http_reply, NoReply
      <3>. HIDE DEF s
      <3>2. ListingTrue(url, s)
        BY <3>1, Zenon DEF ListingTrue
      <3>3. AbortKnown(s)
        BY <2>3, <3>1, Zenon DEF AbortKnown, Converts
      <3>. QED BY <3>2, <3>3, Zenon DEF Truthful, s
    <2>. QED BY <2>1, <2>2, <2>3, DirectPlain
  <1>. QED BY <1>1, <1>2, <1>3, <1>4, <1>5, <1>6, <1>7, <1>8, Callbacks DEF ListingReaders

LEMMA Unserved ==
  ASSUME NEW n, NEW url
  PROVE  Truthful(url, http_reply(n)) /\ http_reply(n).by = Null
  BY DEF Truthful, AbortKnown, ListingTrue, http_reply, NoReply

\* The listeners that read a listing over vadmin's connection.
LEMMA WhoReads ==
  ASSUME NEW l \in Listeners, NEW r, NEW o \in Callback(l.cb, r), o.said # <<>>, o.cmd # <<>>
  PROVE  l.cb \in {"vcl_json", "vcl_active", "vparams_json_reply", "vbackends_json_reply"}
  <1>1. Aborted.said = <<>>
    BY DEF Aborted, http_reply, NoReply
  <1>2. l.cb \notin Simple
    BY SimplePlain DEF Plain
  <1>3. l.cb # "html_reply"
    <2>1. o \in html_reply(r) => o.said = <<>>
      BY DEF html_reply, Aborted, http_reply, NoReply
    <2>. QED BY <2>1 DEF Callback
  <1>4. l.cb # "vdirect_reply"
    <2>1. o \in vdirect_reply(r) => o.said = <<>>
      BY <1>1, DirectPlain DEF Plain
    <2>. QED BY <2>1 DEF Callback
  <1>5. l.cb # "vlog_reply"
    <2>1. o \notin vlog_reply(r)
      BY LogSends
    <2>. QED BY <2>1 DEF Callback
  <1>. QED BY <1>2, <1>3, <1>4, <1>5, Callbacks DEF ListingReaders

\* A body that is kept is not NULL, and find_listener crashes for no other.
LEMMA AnswersTrue ==
  ASSUME NEW q, q.url \in Seq(Range(q.url)), NEW info, info.kept, lag \in Nat, NEW o \in find_listener(q, info)
  PROVE  Truthful(q.url, o)
  <1>1. CASE \E n : o = http_reply(n)
    BY <1>1, Unserved
  <1>2. ASSUME NEW l \in Listeners, NEW p, Len(q.url) > 0, o = Served(l.cb, info.body, p),
               p \in Answered(l.cb, Callback(l.cb, Asked(l, q, info)))
        PROVE  Truthful(q.url, o)
    <2>. DEFINE r == Asked(l, q, info)
                outs == Callback(l.cb, r)
    <2>1. r.arg = Argument(l, q.url) /\ r.body = info.body
      BY DEF Asked
    <2>. HIDE DEF r
    <2>2. p \in Answered(l.cb, outs)
      BY <1>2 DEF r
    <2>3. CASE p \in outs
      BY <1>2, <2>1, <2>3, ListenerTrue
    <2>4. ASSUME lag # 0, NEW x \in outs, NEW s, p = Strayed(s, x), x.said # <<>>, x.cmd # <<>>,
                 l.cb = "vcl_active" => s # 0
          PROVE  Truthful(q.url, o)
      <3>1. p.said = <<>> /\ p.status = s /\ p.cmd = x.cmd
        BY <2>4 DEF Strayed, http_reply, NoReply
      <3>2. o.said = <<>> /\ o.status = s /\ o.by = l.cb /\ o.lag = lag
        BY <1>2, <2>4, <3>1, AsServed
      <3>3. lag > 0
        BY <2>4
      <3>4. l.cb \in {"vcl_json", "vcl_active", "vparams_json_reply", "vbackends_json_reply"}
        BY <2>4, WhoReads
      <3>5. ListingTrue(q.url, o)
        BY <3>2, Zenon DEF ListingTrue
      <3>6. AbortKnown(o)
        BY <2>4, <3>2, <3>3, <3>4 DEF AbortKnown
      <3>. QED BY <3>5, <3>6, Zenon DEF Truthful
    <2>5. CASE lag # 0 /\ \E x \in outs, s \in {0, 200, 500} :
                 p = Strayed(s, x) /\ x.said # <<>> /\ x.cmd # <<>> /\ (l.cb = "vcl_active" => s # 0)
      <3>1. PICK x \in outs, s \in {0, 200, 500} :
               p = Strayed(s, x) /\ x.said # <<>> /\ x.cmd # <<>> /\ (l.cb = "vcl_active" => s # 0)
        BY <2>5
      <3>. QED BY <2>4, <2>5, <3>1
    <2>. HIDE DEF outs
    <2>. QED BY <2>2, <2>3, <2>5, AnsweredFrom
  <1>3. CASE Heard(q, info, o)
    BY <1>2, <1>3, Zenon DEF Heard
  <1>. QED BY <1>1, <1>3, Listens

-----------------------------------------------------------------------------
(* The calls for one request.                                               *)

\* What *con_cls points to while the body of c's request comes in.
Info(c) ==
    /\ DOMAIN con[c] = {"set", "authed", "kept", "body"}
    /\ con[c].set
    /\ con[c].authed <=> req[c].auth = "right"
    /\ con[c].kept <=> req[c].auth = "right"
    /\ con[c].body = IF req[c].auth = "right" THEN SubSeq(req[c].chunks, 1, at[c]) ELSE <<>>

\* A connection at each of its stages: nothing outlives its request.
ConnInv(c) ==
    /\ stage[c] \in {"idle", "headers"} => con[c] = NoCon /\ at[c] = 0 /\ resp[c] = NoReply
    /\ stage[c] = "body" => Info(c) /\ resp[c] = NoReply
    /\ resp[c].by # Null => req[c].auth = "right" /\ resp[c].body = req[c].chunks /\ ~ReadOnly(req[c])
    /\ Harmless(req[c], resp[c]) /\ (resp[c].cmd # <<>> => ~ReadOnly(req[c]))
    /\ Truthful(req[c].url, resp[c])
Inv == TypeOK /\ \A c \in Conns : ConnInv(c)

LEMMA Chunks ==
  ASSUME NEW q \in Requests \union {NoRequest}
  PROVE  /\ q.chunks \in Seq(Range(q.chunks)) /\ Len(q.chunks) \in Nat
         /\ q.url \in Seq(Range(q.url)) /\ "LF" \notin Range(q.url) /\ Range(q.chunks) \cap DOMAIN Decoded = {}
  <1>1. CASE q = NoRequest
    <2>1. q.chunks = <<>> /\ q.url = <<>>
      BY <1>1 DEF NoRequest
    <2>2. Range(q.url) = {} /\ Range(q.chunks) = {}
      BY <2>1 DEF Range
    <2>3. <<>> \in Seq({}) /\ Len(<<>>) \in Nat
      OBVIOUS
    <2>. QED  BY <2>1, <2>2, <2>3
  <1>2. CASE q \in Requests
    <2>1. /\ q.chunks \in Seq(Range(q.chunks)) /\ q.url \in Seq(Range(q.url))
          /\ "LF" \notin Range(q.url) /\ Range(q.chunks) \cap DOMAIN Decoded = {}
      BY <1>2, HttpAssumption, Zenon
    <2>2. Len(q.chunks) \in Nat
      BY <2>1
    <2>. QED  BY <2>1, <2>2
  <1>. QED  BY <1>1, <1>2

\* A body grows by the chunk that comes next.
LEMMA NextChunk ==
  ASSUME NEW S, NEW s \in Seq(S), NEW k \in Nat, k < Len(s)
  PROVE  Append(SubSeq(s, 1, k), s[k + 1]) = SubSeq(s, 1, k + 1)
  OBVIOUS

LEMMA NothingSaid == NoReply.by = Null /\ \A q : Harmless(q, NoReply) /\ Truthful(q.url, NoReply) /\ NoReply.cmd = <<>>
  <1>1. NoReply.by = Null /\ NoReply.said = <<>>
    BY DEF NoReply
  <1>2. \A q : Truthful(q.url, NoReply)
    BY <1>1, Zenon DEF Truthful, AbortKnown, ListingTrue
  <1>3. \A q : Harmless(q, NoReply) /\ NoReply.cmd = <<>>
    BY DEF NoReply, Harmless, Modifies, Null
  <1>. QED  BY <1>1, <1>2, <1>3

LEMMA InitInv == Init => Inv
  <1>. SUFFICES ASSUME Init PROVE Inv
    OBVIOUS
  <1>1. TypeOK
    <2>1. Len(NoRequest.chunks) = 0
      BY DEF NoRequest
    <2>. QED  BY <2>1, HttpAssumption DEF Init, TypeOK
  <1>2. ASSUME NEW c \in Conns PROVE ConnInv(c)
    BY NothingSaid DEF Init, ConnInv
  <1>. QED  BY <1>1, <1>2 DEF Inv

\* What a listener answers, it answers to what the connection's record says.
LEMMA Listened ==
  ASSUME NEW q, NEW info, NEW o \in find_listener(q, info), o.by # Null
  PROVE  o.body = info.body
  <1>1. (\E cb, p : o = Served(cb, info.body, p)) \/ (\E n : o = http_reply(n))
    BY Zenon DEF find_listener
  <1>. QED  BY <1>1 DEF Served, http_reply, NoReply

\* The other connections are as they were.
LEMMA OthersStay ==
  ASSUME Inv, NEW c \in Conns, NEW d \in Conns, d # c, UNCHANGED r_arg,
         req'[d] = req[d], at'[d] = at[d], con'[d] = con[d], resp'[d] = resp[d], stage'[d] = stage[d]
  PROVE  ConnInv(d)'
  BY DEF Inv, ConnInv, Info, ReadOnly

\* What the last call comes to.
LEMMA FinalAnswer ==
  ASSUME Inv, NEW c \in Conns, Final(c)
  PROVE  /\ stage[c] = "body" /\ Info(c) /\ resp[c] = NoReply
         /\ con[c].body \in Seq(Range(req[c].chunks))
         /\ req[c].auth = "right" => con[c].body = req[c].chunks
         /\ \E o : /\ \/ ~ReadOnly(req[c]) /\ check_auth(req[c], con[c]) /\ o \in find_listener(req[c], con[c])
                      \/ \E n : o = http_reply(n)
                   /\ Queue(c, o) /\ resp'[c] = o
  <1>. USE DEF Inv
  <1>1. stage[c] = "body" /\ at[c] = Len(req[c].chunks) /\ Info(c) /\ resp[c] = NoReply
    BY DEF Final, TypeOK, ConnInv, NoCon
  <1>2. SubSeq(req[c].chunks, 1, at[c]) = req[c].chunks /\ req[c].chunks \in Seq(Range(req[c].chunks))
    BY <1>1, Chunks, SubSeqFull DEF TypeOK
  <1>3. con[c].body \in Seq(Range(req[c].chunks)) /\ (req[c].auth = "right" => con[c].body = req[c].chunks)
    <2>1. <<>> \in Seq(Range(req[c].chunks))
      OBVIOUS
    <2>. QED  BY <1>1, <1>2, <2>1, Zenon DEF Info
  <1>4. PICK o : /\ \/ ~ReadOnly(req[c]) /\ check_auth(req[c], con[c]) /\ o \in find_listener(req[c], con[c])
                    \/ \E n : o = http_reply(n)
                 /\ Queue(c, o)
    BY DEF Final
  <1>5. resp'[c] = o
    BY <1>4 DEF Queue, TypeOK
  <1>. QED  BY <1>1, <1>3, <1>4, <1>5

LEMMA StepInv == Inv /\ [Next]_vars => Inv'
  <1>. SUFFICES ASSUME Inv, [Next]_vars PROVE Inv'
    OBVIOUS
  <1>. USE DEF Inv
  <1>1. ASSUME NEW c \in Conns, NEW q \in Requests, Arrive(c, q) PROVE Inv'
    <2>1. TypeOK'
      BY <1>1, Chunks DEF Arrive, TypeOK, ConnInv
    <2>2. ConnInv(c)'
      BY <1>1, NothingSaid DEF Arrive, TypeOK, ConnInv
    <2>. QED  BY <1>1, <2>1, <2>2, OthersStay DEF Arrive, TypeOK
  <1>2. ASSUME NEW c \in Conns, First(c) PROVE Inv'
    <2>1. TypeOK'
      BY <1>2 DEF First, TypeOK
    <2>2. ConnInv(c)'
      <3>1. SubSeq(req[c].chunks, 1, 0) = <<>>
        BY SubSeqEmpty
      <3>2. Info(c)'
        BY <1>2, <3>1 DEF First, TypeOK, ConnInv, Info, check_auth, NoCon
      <3>. QED  BY <1>2, <3>2, NothingSaid DEF First, TypeOK, ConnInv
    <2>. QED  BY <1>2, <2>1, <2>2, OthersStay DEF First, TypeOK
  <1>3. ASSUME NEW c \in Conns, Upload(c) PROVE Inv'
    <2>1. TypeOK'
      BY <1>3, Chunks DEF Upload, TypeOK
    <2>2. Info(c)'
      <3>1. Info(c) /\ at'[c] = at[c] + 1 /\ req'[c] = req[c]
        BY <1>3 DEF Upload, TypeOK, ConnInv
      <3>2. Append(SubSeq(req[c].chunks, 1, at[c]), req[c].chunks[at[c] + 1]) = SubSeq(req[c].chunks, 1, at[c] + 1)
        BY <1>3, Chunks, NextChunk DEF Upload, TypeOK
      <3>3. con'[c] = [con[c] EXCEPT !.body = IF con[c].kept THEN Append(@, req[c].chunks[at[c] + 1]) ELSE @]
        BY <1>3, <3>1 DEF Upload, TypeOK
      <3>. QED  BY <3>1, <3>2, <3>3 DEF Info
    <2>3. ConnInv(c)'
      BY <1>3, <2>2, NothingSaid DEF Upload, TypeOK, ConnInv
    <2>. QED  BY <1>3, <2>1, <2>3, OthersStay DEF Upload, TypeOK
  <1>4. ASSUME NEW c \in Conns, Final(c) PROVE Inv'
    <2>1. TypeOK'
      BY <1>4 DEF Final, Queue, TypeOK
    <2>2. /\ stage[c] = "body" /\ Info(c) /\ con[c].body \in Seq(Range(req[c].chunks))
          /\ req[c].auth = "right" => con[c].body = req[c].chunks
      BY <1>4, FinalAnswer
    <2>3. PICK o : /\ \/ ~ReadOnly(req[c]) /\ check_auth(req[c], con[c]) /\ o \in find_listener(req[c], con[c])
                      \/ \E n : o = http_reply(n)
                   /\ Queue(c, o) /\ resp'[c] = o
      BY <1>4, FinalAnswer
    <2>4. /\ req[c].url \in Seq(Range(req[c].url)) /\ "LF" \notin Range(req[c].url)
          /\ Range(req[c].chunks) \cap DOMAIN Decoded = {}
      BY Chunks DEF TypeOK
    <2>5. lag \in Nat
      BY HttpAssumption DEF TypeOK
    <2>6. o.by # Null => req[c].auth = "right" /\ o.body = req[c].chunks /\ ~ReadOnly(req[c])
      <3>1. SUFFICES ASSUME o.by # Null
                     PROVE  req[c].auth = "right" /\ o.body = req[c].chunks /\ ~ReadOnly(req[c])
        OBVIOUS
      <3>2. ~ReadOnly(req[c]) /\ check_auth(req[c], con[c]) /\ o \in find_listener(req[c], con[c])
        BY <2>3, <3>1 DEF http_reply, NoReply
      <3>3. req[c].auth = "right"
        BY <2>2, <3>2 DEF check_auth, Info
      <3>4. o.body = con[c].body
        BY <3>1, <3>2, Listened
      <3>. QED  BY <2>2, <3>2, <3>3, <3>4
    <2>7. Harmless(req[c], o) /\ (o.cmd # <<>> => ~ReadOnly(req[c]))
      <3>1. CASE \E n : o = http_reply(n)
        BY <3>1 DEF http_reply, NoReply, Harmless, Modifies, Null
      <3>2. CASE ~ReadOnly(req[c]) /\ o \in find_listener(req[c], con[c])
        BY <2>2, <2>4, <3>2, ListenerHarmless
      <3>. QED  BY <2>3, <3>1, <3>2
    <2>8. Truthful(req[c].url, o)
      <3>1. CASE \E n : o = http_reply(n)
        BY <3>1, Unserved
      <3>2. CASE check_auth(req[c], con[c]) /\ o \in find_listener(req[c], con[c])
        <4>1. con[c].kept
          BY <2>2, <3>2 DEF check_auth, Info
        <4>. QED  BY <2>4, <2>5, <3>2, <4>1, AnswersTrue
      <3>. QED  BY <2>3, <3>1, <3>2
    <2>9. ConnInv(c)'
      BY <1>4, <2>3, <2>6, <2>7, <2>8 DEF Final, Queue, TypeOK, ConnInv, ReadOnly
    <2>. QED  BY <1>4, <2>1, <2>9, OthersStay DEF Final, Queue, TypeOK
  <1>5. ASSUME NEW c \in Conns, RefusedUpload(c) \/ Completed(c) \/ Gone(c) PROVE Inv'
    <2>1. request_completed(c) /\ Forget(c)
      BY <1>5 DEF RefusedUpload, Completed, Gone
    <2>2. TypeOK'
      <3>1. Len(NoRequest.chunks) = 0
        BY DEF NoRequest
      <3>. QED  BY <2>1, <3>1 DEF request_completed, Forget, TypeOK
    <2>3. ConnInv(c)'
      BY <2>1, NothingSaid DEF request_completed, Forget, TypeOK, ConnInv
    <2>. QED  BY <2>1, <2>2, <2>3, OthersStay DEF request_completed, Forget, TypeOK
  <1>6. CASE UNCHANGED vars
    BY <1>6 DEF vars, TypeOK, ConnInv, Info, ReadOnly
  <1>7. CASE Reconnect
    <2>1. TypeOK'
      BY <1>7, HttpAssumption DEF Reconnect, TypeOK
    <2>. QED  BY <1>7, <2>1 DEF Reconnect, ConnInv, Info, ReadOnly
  <1>. QED  BY <1>1, <1>2, <1>3, <1>4, <1>5, <1>6, <1>7 DEF Next

\* The inductive invariant holds.
THEOREM HttpInvariant == Spec => []Inv
  BY InitInv, StepInv, PTL DEF Spec

\* Http is type correct (answer_to_connection reads no more than was sent).
THEOREM TypeCorrect == Spec => []TypeOK
  <1>1. Inv => TypeOK
    BY DEF Inv
  <1>. QED  BY <1>1, HttpInvariant, PTL

\* A listener is called for authorised requests only, with the whole body and no
\* other, and in read-only mode for none that modifies (answer_to_connection).
THEOREM ServedAsItWasSent == Spec => []ServedAsSent
  <1>1. Inv => ServedAsSent
    BY DEF Inv, ConnInv, ServedAsSent
  <1>. QED  BY <1>1, HttpInvariant, PTL

\* The first line of a command changes something for PUT, POST and DELETE only,
\* and not with -r; and no other line does but one that a line feed in the URL
\* began (what is true of "GET requests never modify state", HELP_TEXT of http.c).
THEOREM LineFeedsOnly == Spec => []GetsModifyByLineFeedOnly
  <1>1. Inv => GetsModifyByLineFeedOnly
    <2>1. ASSUME Inv, NEW c \in Conns, Modifies(resp[c])
          PROVE  MayModify(c) \/ (HasLineFeed(req[c].url) /\ resp[c].by # "vdirect_reply" /\ resp[c].cmd[1] \notin Changing)
      <3>1. /\ resp[c].by # Null => ~ReadOnly(req[c])
            /\ resp[c].cmd # <<>> => ~ReadOnly(req[c])
            /\ Harmless(req[c], resp[c])
        BY <2>1 DEF Inv, ConnInv
      <3>2. ~ReadOnly(req[c])
        BY <2>1, <3>1 DEF Modifies, Null
      <3>3. req[c].method \in Modify => MayModify(c)
        BY <3>2 DEF MayModify, ReadOnly, parse_method, Modify
      <3>. QED  BY <2>1, <3>1, <3>3 DEF Harmless
    <2>. QED  BY <2>1, Zenon DEF GetsModifyByLineFeedOnly
  <1>. QED  BY <1>1, HttpInvariant, PTL

\* vadmin falls behind by no other request than one whose URL has a line feed in
\* it, or a line to /direct with a conversion (vadmin_run reads one answer).
THEOREM OnlyLineFeedsLag == Spec => AnswersInStep
  <1>. DEFINE Step == lag' > lag => \E c \in Conns : resp'[c] # resp[c] /\ (HasLineFeed(req[c].url) \/ Converts(resp'[c]))
  <1>1. ASSUME Inv, [Next]_vars, lag' > lag
        PROVE  \E c \in Conns : resp'[c] # resp[c] /\ (HasLineFeed(req[c].url) \/ Converts(resp'[c]))
    <2>1. lag \in Nat
      BY <1>1, HttpAssumption DEF Inv, TypeOK
    <2>2. PICK c \in Conns : Final(c)
      <3>1. ASSUME NEW c \in Conns PROVE Final(c) \/ lag' = lag \/ ~(\/ \E q \in Requests : Arrive(c, q)
                                                                  \/ First(c) \/ Upload(c) \/ Final(c)
                                                                  \/ RefusedUpload(c) \/ Completed(c) \/ Gone(c))
        BY DEF Arrive, First, Upload, RefusedUpload, Completed, Gone, Forget
      <3>2. ~Reconnect
        BY <1>1, <2>1 DEF Reconnect
      <3>3. lag' # lag
        BY <1>1, <2>1
      <3>4. ~UNCHANGED vars
        BY <3>3 DEF vars
      <3>. QED  BY <1>1, <3>1, <3>2, <3>3, <3>4 DEF Next
    <2>3. PICK o : /\ \/ ~ReadOnly(req[c]) /\ check_auth(req[c], con[c]) /\ o \in find_listener(req[c], con[c])
                      \/ \E n : o = http_reply(n)
                   /\ Queue(c, o) /\ resp'[c] = o
      BY <1>1, <2>2, FinalAnswer
    <2>4. resp[c] = NoReply /\ con[c].body \in Seq(Range(req[c].chunks))
      BY <1>1, <2>2, FinalAnswer
    <2>5. MoreLines(o.cmd) # {}
      <3>1. lag' = lag + Surplus(o)
        BY <2>3 DEF Queue
      <3>2. Surplus(o) # 0
        BY <1>1, <2>1, <3>1
      <3>3. MoreLines(o.cmd) = {} => Surplus(o) = 0
        BY FS_EmptySet DEF Surplus
      <3>. QED  BY <3>2, <3>3
    <2>6. MoreLines(<<>>) = {}
      <3>1. <<>> \in Seq({})
        OBVIOUS
      <3>. QED  BY <3>1, OneLine
    <2>7. o # NoReply /\ \A n : o # http_reply(n)
      BY <2>5, <2>6 DEF NoReply, http_reply
    <2>8. HasLineFeed(req[c].url) \/ Converts(o)
      <3>1. /\ req[c].url \in Seq(Range(req[c].url)) /\ "LF" \notin Range(req[c].url)
            /\ Range(req[c].chunks) \cap DOMAIN Decoded = {}
        BY <1>1, Chunks DEF Inv, TypeOK
      <3>. QED  BY <2>3, <2>4, <2>5, <2>7, <3>1, ListenerLines
    <2>. QED  BY <2>3, <2>4, <2>7, <2>8
  <1>2. Inv /\ [Next]_vars => [Step]_vars
    BY <1>1
  <1>. QED  BY <1>2, HttpInvariant, PTL DEF Spec, AnswersInStep

\* The asserts of the listeners hold, and none of them reads what is not there,
\* but in the cases of AbortKnown.
THEOREM NoOtherAborts == Spec => []AbortsAreKnown
  <1>1. Inv => AbortsAreKnown
    BY DEF Inv, ConnInv, Truthful, AbortsAreKnown
  <1>. QED  BY <1>1, HttpInvariant, PTL

\* The JSON is true to a listing of any length, of parameters that are described
\* and of words without quotes, and whatever the stack holds (vparams_show_json,
\* vcl_list_json, vbackends_show_json and vlog_cb_func).
THEOREM ListingsAreTrue == Spec => []ListingsTrue
  <1>1. Inv => ListingsTrue
    BY DEF Inv, ConnInv, Truthful, ListingsTrue
  <1>. QED  BY <1>1, HttpInvariant, PTL
=============================================================================
