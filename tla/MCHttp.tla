------------------------------- MODULE MCHttp -------------------------------
(***************************************************************************)
(* Http for TLC: every listener with and without an argument and a body,   *)
(* each way authentication can fail, and listings of each shape.           *)
(***************************************************************************)
EXTENDS Http

R(m, url, auth, chunks) == [method |-> m, url |-> url, auth |-> auth, chunks |-> chunks]

Bodies(m) == IF m \in Modify THEN {<<>>, <<"a">>} ELSE {<<>>}
WithPassword == UNION {UNION {{R(m, l.path \o arg, "right", b) : arg \in {<<>>, <<"foo">>}, b \in Bodies(m)}
                          : m \in l.methods} : l \in Listeners}
Unauthorised == {R(x[1], x[2], auth, x[3]) : auth \in {"none", "scheme", "wrong"},
    x \in {<<"POST", <<"ban">>, <<"a">>>>, <<"GET", <<"status">>, <<>>>>, <<"OPTIONS", <<"stop">>, <<>>>>}}
Odd == {R("HEAD", <<"status">>, "right", <<>>), R("PATCH", <<"stop">>, "right", <<"a">>), R("GET", <<"">>, "right", <<>>),
        R("GET", <<"bananas">>, "right", <<>>), R("POST", <<"ban", "", "foo">>, "right", <<>>),
        R("PUT", <<"param", "">>, "right", <<"a", "b">>), R("GET", <<"log", "1">>, "right", <<>>),
        R("GET", <<"log", "2", "t">>, "right", <<>>), R("GET", <<"html", "..", "x">>, "right", <<>>),
        R("GET", <<"html", "">>, "right", <<>>)}
\* Segments with a line feed, /direct with a conversion, and line feeds in a body.
MCDecoded == [s \in {"x%0Avcl.use y"} |-> <<"vcl.use">>]
LineFed == {R(x[1], <<x[2], "x%0Avcl.use y">>, "right", x[3]) : x \in {<<"GET", "vcl", <<>>>>, <<"GET", "param", <<>>>>,
    <<"GET", "paramjson", <<>>>>, <<"DELETE", "vcl", <<>>>>, <<"PUT", "vcl", <<"a">>>>, <<"POST", "ban", <<>>>>}}
Bodied == {R("POST", <<"direct">>, "right", <<"a", "%">>), R("PUT", <<"param", "foo">>, "right", <<"a", "LF", "b">>)}
Symmetry == Permutations(Conns)
MCRequests == WithPassword \union Unauthorised \union Odd \union LineFed \union Bodied
SomeRequests == LineFed \union Bodied
    \union {R("GET", <<url>>, "right", <<>>) : url \in {"vcljson", "backendjson", "paramjson", "vclactive", "status"}}

V(status, temp, busy, name) == [status |-> status, mode |-> "auto", temp |-> temp, busy |-> busy, name |-> name]
MCVclLists == {<<V("active", t, b, "boot")>> : t \in {"warm", "cooling"}, b \in {"", "0"}}
    \union {<<V("available", "cold", b, "old"), V("active", "warm", b, "boot")>> : b \in {"", "0"}}
    \union {<<>>, <<V("active", "warm", "0", "q\"")>>}

MCBackendLists == {[heading |-> 2, lines |-> ls, feed |-> f] :
    ls \in {<<2>>, <<4, 2>>, <<2, 2, 2>>, <<5>>}, f \in BOOLEAN}
    \union {[heading |-> 0, lines |-> <<>>, feed |-> FALSE], [heading |-> 4, lines |-> <<4, 4, 4>>, feed |-> TRUE]}

P(value, unit, def, min, max, desc) ==
    [name |-> "p", value |-> value, unit |-> unit, def |-> def, min |-> min, max |-> max, desc |-> desc]
Entries == {P("1", "s", "1", "0", "9", <<"t">>), P("1", "", "2", "", "9", <<"t", "par", "u">>), P("1", "", "1", "", "", <<"t">>)}
Odds == {P("", "", "2", "", "", <<"t">>), P("1", "", "1", "", "", <<"t", "par", "u", "v">>), P("1", "", "1", "", "", <<>>),
         P("q\"", "", "1", "", "", <<"t">>), P("1", "", "1", "", "", <<"t", "q\"">>), P("1)", "", "1", "", "", <<"t">>),
         P("1)", "", "1)", "", "", <<"t">>), P("1)", "s", "1", "", "", <<"t">>), P("1]", "", "1]", "", "", <<"t">>)}
MCParamLists == {<<e>> : e \in Entries \union Odds} \union {<<e, f>> : e, f \in Entries}

Rec(t, v) == [tag |-> t, value |-> v]
MCQuotes == {"q\""}
MCParens == {"1)"}
MCBrackets == {"1]"}
MCJunk == {<<>>, <<"junk">>}
MCLogs == {<<>>, <<Rec("t", "1"), Rec("u", "2"), Rec("t", "3")>>, <<Rec("u", "1"), Rec("t", "2"), Rec("t", "3"), Rec("t", "4")>>}
=============================================================================
