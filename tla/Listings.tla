------------------------------ MODULE Listings ------------------------------
(***************************************************************************)
(* What the agent makes of varnishd's listings: the JSON of /vcljson,      *)
(* /backendsjson and /paramjson, the name in /vclactive and the records    *)
(* of /log.  An answer of varnishd is a sequence of lines; a line is a     *)
(* record of its columns, or of what the parsers look at in it.            *)
(***************************************************************************)
EXTENDS Naturals, Sequences, SequencesExt

CONSTANTS
    DescSize,       \* lines of a description that desc[2048] of fill_entry has room for
    LineSize,       \* size of the buffer tmp of vbackends_show_json
    Quotes,         \* words with a quote or a backslash in them
    Parens,         \* words that end in ")" and hold no blank, as varnishd prints them
    Brackets,       \* such words that end in "]"
    Junk,           \* what desc[2048] of fill_entry may hold before it is written
    Garbled         \* content that is no JSON, or not of what varnishd listed

ASSUME ListingAssumption ==
    /\ DescSize \in Nat /\ LineSize \in Nat
    /\ Junk # {} /\ \A j \in Junk : j \in Seq(STRING)

Null == "null"             \* a char* that is NULL
Abort == "abort"           \* an assert of the parser failed

-----------------------------------------------------------------------------
(* vcl.c: a line of vcl.list is [status, mode, temp, busy, name]; busy is   *)
(* "" when the column is blank, as varnishd prints it without its child.    *)

\* %4s of the temperature, and what it leaves for the next conversion.  The
\* column is eight wide, the words of more than four letters are here.
LongTemps == [cooling |-> <<"cool", "ing">>]
Short(t) == IF t \in DOMAIN LongTemps THEN LongTemps[t] ELSE <<t, "">>

\* The elements of s that are in W, in their order.
Keep(s, W) ==
    LET kept[k \in 0 .. Len(s)] ==
            IF k = 0 THEN <<>> ELSE IF s[k] \in W THEN Append(kept[k - 1], s[k]) ELSE kept[k - 1]
    IN  kept[Len(s)]
Words(s) == Keep(s, Range(s) \ {""})

\* One sscanf of vcl_list_json.  Column 30 tells whether there is a count,
\* that is whether a word is skipped before the name.
VclEntry(l) ==
    LET rest == Words(<<Short(l.temp)[2], l.busy, l.name>>)
    IN  [name |-> rest[IF l.busy # "" THEN 2 ELSE 1], status |-> l.status,
         temp |-> Short(l.temp)[1], mode |-> l.mode]

\* An answer that has no line is "Confused!", and nothing is sent; names are
\* printed as they are.
vcl_list_json(lines) ==
    IF lines = <<>> \/ \E i \in DOMAIN lines : VclEntry(lines[i]).name \in Quotes THEN Garbled
    ELSE [i \in DOMAIN lines |-> VclEntry(lines[i])]

\* The words of a line, split at blanks: mode and temperature are one word.
Tokens(l) == Words(<<l.status, l.mode, l.busy, l.name>>)

vcl_active(lines) ==
    LET act == Keep(lines, {l \in Range(lines) : l.status = "active"})
        tok == IF act = <<>> THEN <<>> ELSE Tokens(act[1])
    IN  IF Len(tok) < 4 THEN <<>> ELSE <<tok[4]>>

-----------------------------------------------------------------------------
(* vbackends.c: backend.list is a heading and a line for each backend; only *)
(* the lengths of the lines matter, and whether the last one has its line   *)
(* feed.                                                                    *)

Total(lens) ==
    LET sum[k \in 0 .. Len(lens)] == IF k = 0 THEN 0 ELSE sum[k - 1] + lens[k] IN sum[Len(lens)]

CommaOnce(raw, k) ==
    raw.heading + Total(SubSeq(raw.lines, 1, k)) < raw.heading + Total(raw.lines) + Len(raw.lines)
\* Whether a comma follows backend k.  The heading is counted twice, the line
\* feeds are counted in the whole answer only.
Comma(raw, k) ==
    LET feeds   == Len(raw.lines) + (IF raw.feed THEN 1 ELSE 0)
        raw_len == raw.heading + Total(raw.lines) + feeds
    IN  raw.heading + raw.heading + Total(SubSeq(raw.lines, 1, k)) < raw_len

\* strtok finds no line in an empty answer, and strlen gets its NULL.  strcpy
\* puts each line, the heading too, into a buffer that may be too small.
NoLine(raw) == raw.heading = 0 /\ raw.lines = <<>>
Overlong(raw) == raw.heading >= LineSize \/ \E i \in DOMAIN raw.lines : raw.lines[i] >= LineSize
vbackends_show_json(raw) == [k \in DOMAIN raw.lines |-> [line |-> k, comma |-> Comma(raw, k)]]

-----------------------------------------------------------------------------
(* vparams.c: a line of param.show -l is [k, v, unit, default], k being     *)
(* "name", one of Fields, "blank" or "text", with v what it says.           *)

Fields == <<"value", "def", "min", "max">>     \* the order fill_entry wants
FieldNumber(k) == SelectInSeq(Fields, LAMBDA f : f = k)
Unfilled(n) == [name |-> n, value |-> Null, unit |-> "", def |-> Null,
                min |-> "", max |-> "", desc |-> <<>>]

parse_value(e, l) ==
    [e EXCEPT !.value = l.v, !.unit = l.unit, !.def = IF l.default THEN l.v ELSE Null]

\* The state of the parser: entries done, newest first, the one being filled,
\* the number of fields passed, and the kind of text it is in.
Parser == [out |-> <<>>, cur |-> Unfilled(Null), passed |-> 0, at |-> "name"]

Stop(s) == [s EXCEPT !.at = Abort]
param_assert(e) == e.value # Null /\ e.def # Null

CloseEntry(s) ==
    IF param_assert(s.cur) THEN [s EXCEPT !.out = <<s.cur>> \o @, !.at = "name"] ELSE Stop(s)
parse_name(s, l) ==
    IF s.at # Abort /\ l.k = "name" THEN [s EXCEPT !.cur = Unfilled(l.v), !.passed = 0, !.at = "fields"] ELSE Stop(s)

\* A field out of order or twice fails an assert, as does a description that no
\* blank line precedes.  So does a value of which parse_value finds no end: one
\* between quotes that is empty, and a word whose last letter it takes for that
\* of a unit or of "(default)".
NoEnd(l) == l.v = "" \/ (l.unit = "" /\ (l.v \in Brackets \/ (l.v \in Parens /\ ~l.default)))
fill_entry(s, l) ==
    LET n == FieldNumber(l.k)
    IN  IF l.k = "blank" THEN [s EXCEPT !.at = "desc"]
        ELSE IF n <= s.passed \/ (n = 1 /\ NoEnd(l)) \/ (l.k = "def" /\ s.cur.def # Null) THEN Stop(s)
        ELSE IF n = 1 THEN [s EXCEPT !.cur = parse_value(@, l), !.passed = 1]
        ELSE [s EXCEPT !.cur[l.k] = l.v, !.passed = n]

\* A blank line ends the description, unless indented text follows it.  What
\* the buffer has no room for fails an assert.
extract_description(s, l) ==
    LET desc == (IF s.at = "gap" THEN Append(s.cur.desc, "par") ELSE s.cur.desc) \o <<l.v>>
    IN
    CASE l.k = "text" /\ Len(desc) <= DescSize -> [s EXCEPT !.cur.desc = desc, !.at = "desc"]
      [] l.k = "blank" /\ s.at = "desc" -> [s EXCEPT !.at = "gap"]
      [] l.k = "name" /\ s.at = "gap"   -> parse_name(CloseEntry(s), l)
      [] OTHER                          -> Stop(s)

ParamLine(s, l) ==
    CASE s.at = "name"            -> parse_name(s, l)
      [] s.at = "fields"          -> fill_entry(s, l)
      [] s.at \in {"desc", "gap"} -> extract_description(s, l)
      [] OTHER                    -> s

\* The lines one after the other.
ParamLines(s, lines) ==
    LET after[k \in 0 .. Len(lines)] == IF k = 0 THEN s ELSE ParamLine(after[k - 1], lines[k])
    IN  after[Len(lines)]

vparams_show_json(lines) ==
    LET s   == ParamLines(Parser, lines)
        end == IF s.at = "gap" THEN CloseEntry(s) ELSE s
    IN  [aborts |-> end.at # "name", out |-> end.out]

\* The text made of the entries.  What is copied of a description that has no
\* line is the buffer as it was; nothing is escaped.
Copied(e, junk) == IF e.desc = <<>> THEN [e EXCEPT !.desc = junk] ELSE e
Quoted(e) == ({e.name, e.value, e.unit, e.def, e.min, e.max} \union Range(e.desc)) \cap Quotes # {}
Printed(out, junk) ==
    LET es == [i \in DOMAIN out |-> Copied(out[i], junk[i])]
    IN  IF \E i \in DOMAIN es : Quoted(es[i]) THEN Garbled ELSE es

-----------------------------------------------------------------------------
(* vlog.c: the first records that match, each but the first with a comma   *)
(* before it; a record is [tag, value].  tags is <<>> when any will do, and *)
(* what a regular expression rejects is not among the records.              *)

vlog_cb_func(limit, tags, records) ==
    LET hits == Keep(records, {r \in Range(records) : tags \in {<<>>, <<r.tag>>}})
    IN  [i \in 1 .. (IF Len(hits) < limit THEN Len(hits) ELSE limit) |-> [rec |-> hits[i], comma |-> i # 1]]
=============================================================================
