--------------------------- MODULE ListingsProofs ---------------------------
(***************************************************************************)
(* For listings of any length: what the parsers of Listings make of what   *)
(* varnishd prints.                                                        *)
(***************************************************************************)
EXTENDS Http, SequenceTheorems, WellFoundedInduction, TLAPS

-----------------------------------------------------------------------------
(* Induction over the lines of a listing.  Numbers are well-founded, so     *)
(* that a property no number is the first to lack holds of all.             *)
LEMMA Induction ==
  ASSUME NEW T, 0 \in T, \A n \in Nat : n \in T => n + 1 \in T
  PROVE Nat \subseteq T
  <1>. DEFINE R == OpToRel(<, Nat)
              C == Nat \ T
  <1>1. SUFFICES ASSUME C # {} PROVE FALSE
    OBVIOUS
  <1>2. IsWellFoundedOn(R, Nat)
    BY NatLessThanWellFounded, Zenon
  <1>3. \A x, y \in Nat : <<y, x>> \in R <=> y < x
    BY DEF OpToRel
  <1>. HIDE DEF R
  <1>4. PICK x \in C : \A y \in C : ~(<<y, x>> \in R)
    BY <1>1, <1>2, WFMin, Zenon
  <1>5. x # 0
    OBVIOUS
  <1>6. x - 1 \in Nat /\ x - 1 < x /\ (x - 1) + 1 = x
    BY <1>5
  <1>7. x - 1 \in T
    BY <1>3, <1>4, <1>6
  <1>. QED BY <1>6, <1>7

LEMMA Prefix ==
  ASSUME NEW S, NEW b \in Seq(S)
  PROVE  /\ Len(b) \in Nat /\ SubSeq(b, 1, 0) = <<>> /\ SubSeq(b, 1, Len(b)) = b
         /\ \A k \in Nat : k + 1 <= Len(b) =>
              /\ SubSeq(b, 1, k + 1) = Append(SubSeq(b, 1, k), b[k + 1]) /\ k <= Len(b)
              /\ SubSeq(b, 1, k) \in Seq(S) /\ b[k + 1] \in S
  OBVIOUS

\* The states of the parser while it takes lines, from s.
IsRun(g, s, lines, n) == g = [k \in 0 .. n |-> IF k = 0 THEN s ELSE ParamLine(g[k - 1], lines[k])]

\* There is such a run.
LEMMA RunExists ==
  ASSUME NEW s, NEW lines, NEW n \in Nat
  PROVE  \E g : IsRun(g, s, lines, n)
  <1>. DEFINE T == {m \in Nat : \E g : IsRun(g, s, lines, m)}
  <1>1. 0 \in T
    <2>. DEFINE g == [k \in 0 .. 0 |-> s]
    <2>1. IsRun(g, s, lines, 0)
      BY DEF IsRun
    <2>. QED BY <2>1
  <1>2. ASSUME NEW m \in Nat, m \in T PROVE m + 1 \in T
    <2>1. PICK g : IsRun(g, s, lines, m)
      BY <1>2
    <2>. DEFINE h == [k \in 0 .. m + 1 |-> IF k = m + 1 THEN ParamLine(g[m], lines[m + 1]) ELSE g[k]]
    <2>2. ASSUME NEW k \in 0 .. m + 1 PROVE h[k] = IF k = 0 THEN s ELSE ParamLine(h[k - 1], lines[k])
      <3>1. CASE k = 0
        <4>1. h[k] = g[k]
          BY <3>1
        <4>. QED BY <2>1, <3>1, <4>1 DEF IsRun
      <3>2. CASE k \in 1 .. m
        <4>1. h[k] = g[k] /\ h[k - 1] = g[k - 1] /\ k \in 0 .. m /\ k # 0
          BY <3>2
        <4>. HIDE DEF h
        <4>2. g[k] = ParamLine(g[k - 1], lines[k])
          BY <2>1, <4>1, Zenon DEF IsRun
        <4>. QED BY <4>1, <4>2
      <3>3. CASE k = m + 1
        <4>1. h[k] = ParamLine(g[m], lines[m + 1]) /\ h[k - 1] = g[m] /\ k # 0
          BY <3>3
        <4>. QED BY <3>3, <4>1
      <3>. QED BY <3>1, <3>2, <3>3
    <2>3. IsRun(h, s, lines, m + 1)
      <3>1. \A k \in 0 .. m + 1 : h[k] = IF k = 0 THEN s ELSE ParamLine(h[k - 1], lines[k])
        BY <2>2
      <3>2. h = [k \in 0 .. m + 1 |-> h[k]]
        OBVIOUS
      <3>. HIDE DEF h
      <3>3. [k \in 0 .. m + 1 |-> h[k]] = [k \in 0 .. m + 1 |-> IF k = 0 THEN s ELSE ParamLine(h[k - 1], lines[k])]
        BY <3>1, Zenon
      <3>. QED BY <3>2, <3>3, Zenon DEF IsRun
    <2>. QED BY <2>3
  <1>. HIDE DEF T
  <1>3. n \in T
    BY <1>1, <1>2, Induction
  <1>. QED BY <1>3 DEF T

\* Runs over the same lines are the same.
LEMMA RunUnique ==
  ASSUME NEW s, NEW a, NEW b, NEW n \in Nat, NEW m \in Nat, n <= m,
         \A k \in 1 .. n : a[k] = b[k],
         NEW g, IsRun(g, s, a, n), NEW h, IsRun(h, s, b, m)
  PROVE  g[n] = h[n]
  <1>. DEFINE T == {k \in Nat : k <= n => g[k] = h[k]}
  <1>1. \A k \in 0 .. n : k \in 0 .. m /\ g[k] = IF k = 0 THEN s ELSE ParamLine(g[k - 1], a[k])
    BY DEF IsRun
  <1>2. \A k \in 0 .. m : h[k] = IF k = 0 THEN s ELSE ParamLine(h[k - 1], b[k])
    BY DEF IsRun
  <1>3. 0 \in T
    BY <1>1, <1>2
  <1>4. ASSUME NEW k \in Nat, k \in T PROVE k + 1 \in T
    <2>1. SUFFICES ASSUME k + 1 <= n PROVE g[k + 1] = h[k + 1]
      OBVIOUS
    <2>2. k + 1 \in 0 .. n /\ k + 1 \in 0 .. m /\ k + 1 # 0 /\ (k + 1) - 1 = k /\ k + 1 \in 1 .. n
      BY <2>1
    <2>3. g[k] = h[k]
      BY <1>4, <2>1
    <2>4. g[k + 1] = ParamLine(g[k], a[k + 1]) /\ h[k + 1] = ParamLine(h[k], b[k + 1])
      BY <1>1, <1>2, <2>2
    <2>. QED BY <2>2, <2>3, <2>4
  <1>. HIDE DEF T
  <1>5. n \in T
    BY <1>3, <1>4, Induction
  <1>. QED BY <1>5 DEF T

LEMMA LinesRun ==
  ASSUME NEW s, NEW lines, Len(lines) \in Nat
  PROVE  \E g : IsRun(g, s, lines, Len(lines)) /\ ParamLines(s, lines) = g[Len(lines)]
  <1>. DEFINE after == CHOOSE h : h = [k \in 0 .. Len(lines) |-> IF k = 0 THEN s ELSE ParamLine(h[k - 1], lines[k])]
  <1>1. ParamLines(s, lines) = after[Len(lines)]
    BY Zenon DEF ParamLines
  <1>. DEFINE n == Len(lines)
  <1>2. IsRun(after, s, lines, n)
    <2>. HIDE DEF n
    <2>1. PICK g : IsRun(g, s, lines, n)
      BY RunExists DEF n
    <2>. QED BY <2>1, Zenon DEF IsRun, n
  <1>. QED BY <1>1, <1>2, Zenon

\* No lines leave the parser as it is; a last line is taken last.
LEMMA LinesNone ==
  ASSUME NEW s
  PROVE  ParamLines(s, <<>>) = s
  <1>1. Len(<<>>) = 0
    OBVIOUS
  <1>2. PICK g : IsRun(g, s, <<>>, 0) /\ ParamLines(s, <<>>) = g[0]
    BY <1>1, LinesRun
  <1>. QED BY <1>2 DEF IsRun

LEMMA LinesAppend ==
  ASSUME NEW S, NEW s, NEW a \in Seq(S), NEW x \in S
  PROVE  ParamLines(s, Append(a, x)) = ParamLine(ParamLines(s, a), x)
  <1>. DEFINE n == Len(a)
              b == Append(a, x)
  <1>1. n \in Nat /\ Len(b) = n + 1 /\ b[n + 1] = x /\ \A k \in 1 .. n : a[k] = b[k]
    OBVIOUS
  <1>. HIDE DEF n, b
  <1>2. PICK g : IsRun(g, s, a, n) /\ ParamLines(s, a) = g[n]
    BY <1>1, LinesRun DEF n
  <1>3. PICK h : IsRun(h, s, b, n + 1) /\ ParamLines(s, b) = h[n + 1]
    BY <1>1, LinesRun
  <1>4. g[n] = h[n]
    BY <1>1, <1>2, <1>3, RunUnique
  <1>5. h[n + 1] = ParamLine(h[n], b[n + 1])
    <2>1. n + 1 \in 0 .. n + 1 /\ n + 1 # 0 /\ (n + 1) - 1 = n
      BY <1>1
    <2>. QED BY <1>3, <2>1 DEF IsRun
  <1>. QED BY <1>1, <1>2, <1>3, <1>4, <1>5 DEF b

LEMMA LinesOne ==
  ASSUME NEW s, NEW x
  PROVE  ParamLines(s, <<x>>) = ParamLine(s, x)
  <1>1. <<>> \in Seq({x}) /\ Append(<<>>, x) = <<x>>
    OBVIOUS
  <1>. DEFINE e == <<>>
  <1>2. e \in Seq({x}) /\ x \in {x}
    BY <1>1
  <1>. HIDE DEF e
  <1>3. ParamLines(s, Append(e, x)) = ParamLine(ParamLines(s, e), x)
    BY <1>2, LinesAppend
  <1>. QED BY <1>1, <1>3, LinesNone DEF e

LEMMA LinesConcat ==
  ASSUME NEW S, NEW s, NEW a \in Seq(S), NEW b \in Seq(S)
  PROVE  ParamLines(s, a \o b) = ParamLines(ParamLines(s, a), b)
  <1>. DEFINE pre(k) == SubSeq(b, 1, k)
              T == {k \in Nat : k <= Len(b) => ParamLines(s, a \o pre(k)) = ParamLines(ParamLines(s, a), pre(k))}
  <1>0. /\ Len(b) \in Nat /\ pre(0) = <<>> /\ pre(Len(b)) = b
        /\ \A k \in Nat : k + 1 <= Len(b) => pre(k + 1) = Append(pre(k), b[k + 1]) /\ k <= Len(b) /\ pre(k) \in Seq(S) /\ b[k + 1] \in S
    BY Prefix
  <1>. HIDE DEF pre
  <1>1. 0 \in T
    <2>1. a \o <<>> = a
      OBVIOUS
    <2>. QED BY <1>0, <2>1, LinesNone
  <1>2. ASSUME NEW k \in Nat, k \in T PROVE k + 1 \in T
    <2>1. SUFFICES ASSUME k + 1 <= Len(b)
                   PROVE  ParamLines(s, a \o pre(k + 1)) = ParamLines(ParamLines(s, a), pre(k + 1))
      OBVIOUS
    <2>2. pre(k + 1) = Append(pre(k), b[k + 1]) /\ k <= Len(b) /\ pre(k) \in Seq(S) /\ b[k + 1] \in S
      BY <1>0, <2>1
    <2>. DEFINE c == pre(k)
                x == b[k + 1]
    <2>3. a \o Append(c, x) = Append(a \o c, x) /\ a \o c \in Seq(S) /\ c \in Seq(S) /\ x \in S
      BY <2>2
    <2>4. ParamLines(s, a \o c) = ParamLines(ParamLines(s, a), c)
      BY <1>2, <2>2
    <2>. DEFINE d == a \o c
    <2>0. d \in Seq(S) /\ x \in S
      BY <2>2
    <2>. HIDE DEF c, x, d
    <2>5. ParamLines(s, Append(d, x)) = ParamLine(ParamLines(s, d), x)
      BY <2>0, LinesAppend
    <2>6. ParamLines(ParamLines(s, a), Append(c, x)) = ParamLine(ParamLines(ParamLines(s, a), c), x)
      BY <2>3, LinesAppend
    <2>. QED BY <2>2, <2>3, <2>4, <2>5, <2>6 DEF c, x, d
  <1>. HIDE DEF T
  <1>3. Len(b) \in T
    BY <1>0, <1>1, <1>2, Induction
  <1>. QED BY <1>0, <1>3 DEF T

\* An assert that failed has ended the agent.
LEMMA LinesAborted ==
  ASSUME NEW S, NEW s, s.at = Abort, NEW a \in Seq(S)
  PROVE  ParamLines(s, a).at = Abort
  <1>. DEFINE pre(k) == SubSeq(a, 1, k)
              T == {k \in Nat : k <= Len(a) => ParamLines(s, pre(k)).at = Abort}
  <1>0. /\ Len(a) \in Nat /\ pre(0) = <<>> /\ pre(Len(a)) = a
        /\ \A k \in Nat : k + 1 <= Len(a) => pre(k + 1) = Append(pre(k), a[k + 1]) /\ k <= Len(a) /\ pre(k) \in Seq(S) /\ a[k + 1] \in S
    BY Prefix
  <1>. HIDE DEF pre
  <1>1. 0 \in T
    BY <1>0, LinesNone
  <1>2. ASSUME NEW k \in Nat, k \in T PROVE k + 1 \in T
    <2>1. SUFFICES ASSUME k + 1 <= Len(a) PROVE ParamLines(s, pre(k + 1)).at = Abort
      OBVIOUS
    <2>. DEFINE c == pre(k)
                x == a[k + 1]
    <2>2. pre(k + 1) = Append(c, x) /\ c \in Seq(S) /\ x \in S
      BY <1>0, <2>1
    <2>3. ParamLines(s, c).at = Abort
      BY <1>0, <1>2, <2>1
    <2>. HIDE DEF c, x
    <2>4. ParamLines(s, Append(c, x)) = ParamLine(ParamLines(s, c), x)
      BY <2>2, LinesAppend
    <2>. QED BY <2>2, <2>3, <2>4 DEF ParamLine, Abort
  <1>. HIDE DEF T
  <1>3. Len(a) \in T
    BY <1>0, <1>1, <1>2, Induction
  <1>. QED BY <1>0, <1>3 DEF T

-----------------------------------------------------------------------------
(* The parser over a line of each kind.                                     *)
At(out, cur, passed, where) == [out |-> out, cur |-> cur, passed |-> passed, at |-> where]
Entry(n, v, u, d, mn, mx, ds) == [name |-> n, value |-> v, unit |-> u, def |-> d, min |-> mn, max |-> mx, desc |-> ds]

\* Such a record is what its fields are.
LEMMA AtEqual ==
  ASSUME NEW r, r = [i \in {"out", "cur", "passed", "at"} |-> r[i]]
  PROVE  r = At(r.out, r.cur, r.passed, r.at)
  BY DEF At
LEMMA EntryEqual ==
  ASSUME NEW r, r = [i \in {"name", "value", "unit", "def", "min", "max", "desc"} |-> r[i]]
  PROVE  r = Entry(r.name, r.value, r.unit, r.def, r.min, r.max, r.desc)
  BY DEF Entry

LEMMA FieldNumbers ==
  FieldNumber("value") = 1 /\ FieldNumber("def") = 2 /\ FieldNumber("min") = 3 /\ FieldNumber("max") = 4
  <1>1. ASSUME NEW n \in Nat PROVE Min({n}) = n
    BY <1>1 DEF Min
  <1>2. ASSUME NEW k PROVE LET I == {i \in 1 .. Len(Fields) : Fields[i] = k} IN FieldNumber(k) = IF I # {} THEN Min(I) ELSE 0
    BY Zenon DEF FieldNumber, SelectInSeq
  <1>3. {i \in 1 .. Len(Fields) : Fields[i] = "value"} = {1}
    BY DEF Fields
  <1>4. {i \in 1 .. Len(Fields) : Fields[i] = "def"} = {2}
    BY DEF Fields
  <1>5. {i \in 1 .. Len(Fields) : Fields[i] = "min"} = {3}
    BY DEF Fields
  <1>6. {i \in 1 .. Len(Fields) : Fields[i] = "max"} = {4}
    BY DEF Fields
  <1>. QED BY <1>1, <1>2, <1>3, <1>4, <1>5, <1>6

\* A name begins an entry; after a blank line it ends the one before.
LEMMA NameLine ==
  ASSUME NEW out, NEW cur, NEW p, NEW where, NEW n, where = "name" \/ (where = "gap" /\ param_assert(cur))
  PROVE  ParamLine(At(out, cur, p, where), Line("name", n))
           = At(IF where = "gap" THEN <<cur>> \o out ELSE out, Unfilled(n), 0, "fields")
  <1>. DEFINE o == IF where = "gap" THEN <<cur>> \o out ELSE out
              l == Line("name", n)
              s == At(out, cur, p, where)
              t == At(o, cur, p, "name")
              r == [t EXCEPT !.cur = Unfilled(l.v), !.passed = 0, !.at = "fields"]
  <1>1. l.k = "name" /\ l.v = n /\ s.at = where /\ s.cur = cur /\ t.at = "name"
    BY DEF Line, At
  <1>2. where = "gap" => CloseEntry(s) = t
    <2>1. ASSUME where = "gap" PROVE [s EXCEPT !.out = <<s.cur>> \o @, !.at = "name"] = t
      <3>. DEFINE q == [s EXCEPT !.out = <<s.cur>> \o @, !.at = "name"]
      <3>1. q = [i \in {"out", "cur", "passed", "at"} |-> q[i]] /\ q.out = <<cur>> \o out /\ q.cur = cur /\ q.passed = p /\ q.at = "name"
        BY DEF At
      <3>. HIDE DEF q
      <3>2. q = At(<<cur>> \o out, cur, p, "name")
        BY <3>1, AtEqual
      <3>. QED BY <2>1, <3>2 DEF q
    <2>. HIDE DEF s, t
    <2>. QED BY <1>1, <2>1 DEF CloseEntry
  <1>3. where = "name" => s = t
    OBVIOUS
  <1>4. r = At(o, Unfilled(n), 0, "fields")
    <2>1. r = [i \in {"out", "cur", "passed", "at"} |-> r[i]] /\ r.out = o /\ r.cur = Unfilled(n) /\ r.passed = 0 /\ r.at = "fields"
      BY DEF At, Line
    <2>. HIDE DEF r
    <2>. QED BY <2>1, AtEqual
  <1>5. parse_name(t, l) = r
    <2>. HIDE DEF t, l
    <2>. QED BY <1>1 DEF parse_name, Abort
  <1>6. ParamLine(s, l) = parse_name(t, l)
    <2>. HIDE DEF s, t, l
    <2>. QED BY <1>1, <1>2, <1>3 DEF ParamLine, extract_description
  <1>. HIDE DEF r
  <1>. QED BY <1>4, <1>5, <1>6

\* What fill_entry does, once its conditions are known.
LEMMA Fills ==
  ASSUME NEW s, NEW l
  PROVE  LET n == FieldNumber(l.k)
             A == [s EXCEPT !.cur = parse_value(s.cur, l), !.passed = 1]
             B == [s EXCEPT !.cur[l.k] = l.v, !.passed = n]
         IN  (l.k # "blank" /\ ~(n <= s.passed) /\ ~(l.k = "def" /\ s.cur.def # Null)) =>
                 /\ n = 1 /\ NoEnd(l) => fill_entry(s, l) = Stop(s)
                 /\ n = 1 /\ ~NoEnd(l) => fill_entry(s, l) = A
                 /\ n # 1 => fill_entry(s, l) = B
  <1>. DEFINE n == FieldNumber(l.k)
              A == [s EXCEPT !.cur = parse_value(s.cur, l), !.passed = 1]
              B == [s EXCEPT !.cur[l.k] = l.v, !.passed = n]
              C == [s EXCEPT !.at = "desc"]
  <1>1. fill_entry(s, l) =
          IF l.k = "blank" THEN C
          ELSE IF n <= s.passed \/ (n = 1 /\ NoEnd(l)) \/ (l.k = "def" /\ s.cur.def # Null) THEN Stop(s)
          ELSE IF n = 1 THEN A ELSE B
    BY Zenon DEF fill_entry
  <1>. HIDE DEF A, B, C, n
  <1>2. (l.k # "blank" /\ ~(n <= s.passed) /\ ~(l.k = "def" /\ s.cur.def # Null)) =>
            /\ n = 1 /\ NoEnd(l) => fill_entry(s, l) = Stop(s)
            /\ n = 1 /\ ~NoEnd(l) => fill_entry(s, l) = A
            /\ n # 1 => fill_entry(s, l) = B
    BY <1>1
  <1>. QED BY <1>2, Zenon DEF A, B, n

LEMMA ValueLine ==
  ASSUME NEW out, NEW cur, NEW l, l.k = "value"
  PROVE  /\ NoEnd(l) => ParamLine(At(out, cur, 0, "fields"), l).at = Abort
         /\ ~NoEnd(l) => ParamLine(At(out, cur, 0, "fields"), l) = At(out, parse_value(cur, l), 1, "fields")
  <1>. DEFINE s == At(out, cur, 0, "fields")
              c == parse_value(cur, l)
              r == [s EXCEPT !.cur = parse_value(s.cur, l), !.passed = 1]
  <1>1. s.at = "fields" /\ s.passed = 0 /\ s.cur = cur /\ Stop(s).at = Abort
    BY DEF At, Stop, Abort
  <1>2. r = [i \in {"out", "cur", "passed", "at"} |-> r[i]] /\ r.out = out /\ r.cur = parse_value(cur, l) /\ r.passed = 1 /\ r.at = "fields"
    BY DEF At
  <1>. HIDE DEF s
  <1>3. ParamLine(s, l) = fill_entry(s, l)
    BY <1>1 DEF ParamLine
  <1>4. FieldNumber(l.k) = 1 /\ l.k # "blank" /\ l.k # "def"
    BY FieldNumbers
  <1>5. ~(FieldNumber(l.k) <= s.passed)
    BY <1>1, <1>4
  <1>6. /\ NoEnd(l) => fill_entry(s, l) = Stop(s)
        /\ ~NoEnd(l) => fill_entry(s, l) = r
    BY <1>4, <1>5, Fills, Zenon
  <1>. HIDE DEF r
  <1>. QED BY <1>1, <1>2, <1>3, <1>6, AtEqual DEF s

With(e, k, v) == [e EXCEPT ![k] = v]

LEMMA FieldLine ==
  ASSUME NEW out, NEW cur, NEW p \in 0 .. 4, NEW k, NEW n \in 0 .. 4, NEW v,
         FieldNumber(k) = n, p < n, n # 1, k # "blank", k = "def" => cur.def = Null
  PROVE  ParamLine(At(out, cur, p, "fields"), Line(k, v)) = At(out, With(cur, k, v), n, "fields")
  <1>. DEFINE s == At(out, cur, p, "fields")
              l == Line(k, v)
              c == With(cur, k, v)
              r == [s EXCEPT !.cur[l.k] = l.v, !.passed = FieldNumber(l.k)]
  <1>1. s.at = "fields" /\ s.passed = p /\ s.cur = cur /\ l.k = k /\ l.v = v
    BY DEF At, Line
  <1>2. r = [i \in {"out", "cur", "passed", "at"} |-> r[i]] /\ r.out = out /\ r.cur = c /\ r.passed = n /\ r.at = "fields"
    BY DEF At, Line, With
  <1>. HIDE DEF s, l
  <1>4. ParamLine(s, l) = fill_entry(s, l)
    BY <1>1 DEF ParamLine
  <1>5. l.k # "blank" /\ ~(FieldNumber(l.k) <= s.passed) /\ ~(l.k = "def" /\ s.cur.def # Null) /\ FieldNumber(l.k) # 1
    BY <1>1
  <1>6. fill_entry(s, l) = r
    BY <1>5, Fills, Zenon
  <1>. HIDE DEF r
  <1>. QED BY <1>2, <1>4, <1>6, AtEqual DEF s, l

LEMMA BlankLine ==
  ASSUME NEW out, NEW cur, NEW p, NEW v
  PROVE  /\ ParamLine(At(out, cur, p, "fields"), Line("blank", v)) = At(out, cur, p, "desc")
         /\ ParamLine(At(out, cur, p, "desc"), Line("blank", v)) = At(out, cur, p, "gap")
  BY DEF ParamLine, At, Line, fill_entry, extract_description

\* Text goes to the description, as a new paragraph after a blank line.
Described(e, x) == [e EXCEPT !.desc = x]
LongerBy(where, ds, v) == (IF where = "gap" THEN Append(ds, "par") ELSE ds) \o <<v>>

LEMMA TextLine ==
  ASSUME NEW out, NEW cur, NEW p, NEW v, NEW where, where = "desc" \/ where = "gap",
         Len(LongerBy(where, cur.desc, v)) <= DescSize
  PROVE  ParamLine(At(out, cur, p, where), Line("text", v)) = At(out, Described(cur, LongerBy(where, cur.desc, v)), p, "desc")
  <1>. DEFINE s == At(out, cur, p, where)
              l == Line("text", v)
              c == Described(cur, LongerBy(where, cur.desc, v))
              d == LongerBy(where, cur.desc, v)
              r == [s EXCEPT !.cur.desc = d, !.at = "desc"]
  <1>1. s.at = where /\ s.cur = cur /\ l.k = "text" /\ l.v = v
    BY DEF At, Line
  <1>2. r = [i \in {"out", "cur", "passed", "at"} |-> r[i]] /\ r.out = out /\ r.cur = c /\ r.passed = p /\ r.at = "desc"
    BY DEF At, Described, Line
  <1>3. ParamLine(s, l) = extract_description(s, l)
    <2>. HIDE DEF s, l
    <2>. QED BY <1>1 DEF ParamLine
  <1>4. extract_description(s, l) = r
    <2>1. d = (IF s.at = "gap" THEN Append(s.cur.desc, "par") ELSE s.cur.desc) \o <<l.v>>
      <3>. HIDE DEF s, l
      <3>. QED BY <1>1, Zenon DEF LongerBy
    <2>2. Len(d) <= DescSize
      OBVIOUS
    <2>. HIDE DEF s, l, d
    <2>3. extract_description(s, l) =
            CASE l.k = "text" /\ Len(d) <= DescSize -> [s EXCEPT !.cur.desc = d, !.at = "desc"]
              [] l.k = "blank" /\ s.at = "desc" -> [s EXCEPT !.at = "gap"]
              [] l.k = "name" /\ s.at = "gap"   -> parse_name(CloseEntry(s), l)
              [] OTHER                          -> Stop(s)
      BY <2>1 DEF extract_description
    <2>. QED BY <1>1, <2>2, <2>3
  <1>. HIDE DEF r
  <1>. QED BY <1>2, <1>3, <1>4, AtEqual

LEMMA TextTooLong ==
  ASSUME NEW out, NEW cur, NEW p, NEW v, NEW where, where = "desc" \/ where = "gap",
         ~(Len(LongerBy(where, cur.desc, v)) <= DescSize)
  PROVE  ParamLine(At(out, cur, p, where), Line("text", v)).at = Abort
  <1>. DEFINE s == At(out, cur, p, where)
              l == Line("text", v)
              d == LongerBy(where, cur.desc, v)
  <1>1. s.at = where /\ s.cur = cur /\ l.k = "text" /\ l.v = v /\ s = [i \in {"out", "cur", "passed", "at"} |-> s[i]]
    BY DEF At, Line
  <1>2. d = (IF s.at = "gap" THEN Append(s.cur.desc, "par") ELSE s.cur.desc) \o <<l.v>>
    <2>. HIDE DEF s, l
    <2>. QED BY <1>1, Zenon DEF LongerBy
  <1>3. ~(Len(d) <= DescSize)
    OBVIOUS
  <1>. HIDE DEF s, l, d
  <1>4. ParamLine(s, l) = extract_description(s, l)
    BY <1>1 DEF ParamLine
  <1>5. extract_description(s, l) =
          CASE l.k = "text" /\ Len(d) <= DescSize -> [s EXCEPT !.cur.desc = d, !.at = "desc"]
            [] l.k = "blank" /\ s.at = "desc" -> [s EXCEPT !.at = "gap"]
            [] l.k = "name" /\ s.at = "gap"   -> parse_name(CloseEntry(s), l)
            [] OTHER                          -> Stop(s)
    BY <1>2 DEF extract_description
  <1>6. extract_description(s, l) = Stop(s)
    BY <1>1, <1>3, <1>5
  <1>7. Stop(s).at = Abort
    BY <1>1 DEF Stop
  <1>. QED BY <1>4, <1>6, <1>7 DEF s, l

\* A field that may be missing: the lines it has, and the entry c it makes.
Gives(cur, k, v, l, c) ==
    (l = <<>> /\ c = cur) \/ (l = <<Line(k, v)>> /\ c = With(cur, k, v) /\ (k = "def" => cur.def = Null))
FieldAfter(k, p, n) == FieldNumber(k) = n /\ p < n /\ n # 1 /\ k # "blank"

LEMMA OptionalField ==
  ASSUME NEW out, NEW cur, NEW p \in 0 .. 4, NEW k, NEW n \in 0 .. 4, NEW v, NEW c, NEW l,
         FieldAfter(k, p, n), Gives(cur, k, v, l, c)
  PROVE  \E q \in {p, n} : ParamLines(At(out, cur, p, "fields"), l) = At(out, c, q, "fields")
  <1>1. CASE l = <<>> /\ c = cur
    BY <1>1, LinesNone
  <1>2. CASE l = <<Line(k, v)>> /\ c = With(cur, k, v) /\ (k = "def" => cur.def = Null)
    <2>0. FieldNumber(k) = n /\ p < n /\ n # 1 /\ k # "blank"
      BY DEF FieldAfter
    <2>1. ParamLine(At(out, cur, p, "fields"), Line(k, v)) = At(out, c, n, "fields")
      BY <1>2, <2>0, FieldLine
    <2>2. ParamLines(At(out, cur, p, "fields"), <<Line(k, v)>>) = At(out, c, n, "fields")
      BY <2>1, LinesOne, Zenon
    <2>. QED BY <1>2, <2>2, Zenon
  <1>. QED BY <1>1, <1>2, Zenon DEF Gives

-----------------------------------------------------------------------------
(* The text of one parameter, line after line.                              *)
LEMMA WithDef ==
  ASSUME NEW n, NEW v, NEW u, NEW d, NEW mn, NEW mx, NEW ds, NEW x
  PROVE  Entry(n, v, u, d, mn, mx, ds).def = d /\ With(Entry(n, v, u, d, mn, mx, ds), "def", x) = Entry(n, v, u, x, mn, mx, ds)
  BY DEF Entry, With
LEMMA WithMin ==
  ASSUME NEW n, NEW v, NEW u, NEW d, NEW mn, NEW mx, NEW ds, NEW x
  PROVE  With(Entry(n, v, u, d, mn, mx, ds), "min", x) = Entry(n, v, u, d, x, mx, ds)
  BY DEF Entry, With
LEMMA WithMax ==
  ASSUME NEW n, NEW v, NEW u, NEW d, NEW mn, NEW mx, NEW ds, NEW x
  PROVE  With(Entry(n, v, u, d, mn, mx, ds), "max", x) = Entry(n, v, u, d, mn, x, ds)
  BY DEF Entry, With
LEMMA WithDesc ==
  ASSUME NEW n, NEW v, NEW u, NEW d, NEW mn, NEW mx, NEW ds, NEW x
  PROVE  Entry(n, v, u, d, mn, mx, ds).desc = ds /\ Described(Entry(n, v, u, d, mn, mx, ds), x) = Entry(n, v, u, d, mn, mx, x)
  BY DEF Entry, Described

Value(e) == [k |-> "value", v |-> e.value, unit |-> e.unit, default |-> e.def = e.value]
DescLine(w) == IF w = "par" THEN Line("blank", "") ELSE Line("text", w)
LinesOf(e) == {Line("name", e.name), Value(e), Line("def", e.def), Line("min", e.min), Line("max", e.max), Line("blank", "")}
    \union {DescLine(e.desc[i]) : i \in DOMAIN e.desc}
Lines == UNION {LinesOf(e) : e \in Param}

Names(e) == <<Line("name", e.name), Value(e)>>
DefLine(e) == IF e.def = e.value THEN <<>> ELSE <<Line("def", e.def)>>
BlankOne == <<Line("blank", "")>>
Desc(e) == [i \in DOMAIN e.desc |-> DescLine(e.desc[i])]

LEMMA ShortSeqs ==
  ASSUME NEW S, NEW x \in S, NEW y \in S
  PROVE  <<>> \in Seq(S) /\ <<x>> \in Seq(S) /\ <<x, y>> \in Seq(S)
  OBVIOUS

LEMMA ParamTextParts ==
  ASSUME NEW e \in Param
  PROVE  /\ ParamText(e) = Names(e) \o DefLine(e) \o Given("min", e.min) \o Given("max", e.max) \o BlankOne \o Desc(e) \o BlankOne
         /\ Names(e) \in Seq(Lines) /\ DefLine(e) \in Seq(Lines) /\ Given("min", e.min) \in Seq(Lines) /\ Given("max", e.max) \in Seq(Lines)
         /\ BlankOne \in Seq(Lines) /\ Desc(e) \in Seq(Lines)
  <1>0. e.desc \in Seq(STRING)
    BY DEF Param
  <1>1. ParamText(e) = Names(e) \o DefLine(e) \o Given("min", e.min) \o Given("max", e.max) \o BlankOne \o Desc(e) \o BlankOne
    BY Zenon DEF ParamText, Names, DefLine, BlankOne, Desc, DescLine, Value
  <1>2. /\ Line("name", e.name) \in Lines /\ Line("def", e.def) \in Lines /\ Line("min", e.min) \in Lines
        /\ Line("max", e.max) \in Lines /\ Line("blank", "") \in Lines /\ Value(e) \in Lines
    <2>1. \A x \in LinesOf(e) : x \in Lines
      BY Zenon DEF Lines
    <2>2. {Line("name", e.name), Value(e), Line("def", e.def), Line("min", e.min), Line("max", e.max), Line("blank", "")} \subseteq LinesOf(e)
      BY Zenon DEF LinesOf
    <2>. QED BY <2>1, <2>2, Zenon
  <1>3. ASSUME NEW i \in DOMAIN e.desc PROVE DescLine(e.desc[i]) \in Lines
    <2>1. \A x \in LinesOf(e) : x \in Lines
      BY Zenon DEF Lines
    <2>2. DescLine(e.desc[i]) \in LinesOf(e)
      BY Zenon DEF LinesOf
    <2>. QED BY <2>1, <2>2, Zenon
  <1>4. Names(e) \in Seq(Lines)
    BY <1>2, ShortSeqs, Zenon DEF Names
  <1>5. DefLine(e) \in Seq(Lines)
    BY <1>2, ShortSeqs, Zenon DEF DefLine
  <1>6. Given("min", e.min) \in Seq(Lines) /\ Given("max", e.max) \in Seq(Lines)
    BY <1>2, ShortSeqs, Zenon DEF Given
  <1>7. BlankOne \in Seq(Lines)
    BY <1>2, ShortSeqs, Zenon DEF BlankOne
  <1>8. Desc(e) \in Seq(Lines)
    <2>1. Len(e.desc) \in Nat /\ DOMAIN e.desc = 1 .. Len(e.desc)
      BY <1>0
    <2>2. \A i \in 1 .. Len(e.desc) : DescLine(e.desc[i]) \in Lines
      BY <1>3, <2>1
    <2>. QED BY <2>1, <2>2, IsASeq DEF Desc
  <1>. QED BY <1>1, <1>4, <1>5, <1>6, <1>7, <1>8

\* The first two lines of an entry, where one may begin.
Begins(cur, where) == where = "name" \/ (where = "gap" /\ param_assert(cur))
Closed(out, cur, where) == IF where = "gap" THEN <<cur>> \o out ELSE out
Bare(e) == Entry(e.name, e.value, e.unit, e.def, e.min, e.max, <<>>)

LEMMA ParamFields ==
  ASSUME NEW e \in Param
  PROVE  /\ e = Entry(e.name, e.value, e.unit, e.def, e.min, e.max, e.desc)
         /\ e.value # Null /\ e.def # Null /\ e.desc \in Seq(STRING)
         /\ \A i \in DOMAIN e.desc : e.desc[i] = "par" => i < Len(e.desc) /\ e.desc[i + 1] # "par"
  <1>1. e = [i \in {"name", "value", "unit", "def", "min", "max", "desc"} |-> e[i]]
    BY DEF Param
  <1>2. e = Entry(e.name, e.value, e.unit, e.def, e.min, e.max, e.desc)
    BY <1>1, EntryEqual
  <1>3. e.value # Null /\ e.def # Null /\ e.desc \in Seq(STRING)
    BY DEF Param
  <1>4. \A i \in DOMAIN e.desc : e.desc[i] = "par" => i < Len(e.desc) /\ e.desc[i + 1] # "par"
    BY DEF Param
  <1>. QED BY <1>2, <1>3, <1>4

Failed(s) == s.at = Abort
\* Of which parse_value finds no end.
NoValue(e) == e.value = "" \/ (e.unit = "" /\ (e.value \in Brackets \/ (e.value \in Parens /\ e.def # e.value)))

LEMMA NamesParsed ==
  ASSUME NEW e \in Param, NEW out, NEW cur, NEW p, NEW where, Begins(cur, where)
  PROVE  /\ NoValue(e) => Failed(ParamLines(At(out, cur, p, where), Names(e)))
         /\ ~NoValue(e) => ParamLines(At(out, cur, p, where), Names(e))
                              = At(Closed(out, cur, where),
                                   Entry(e.name, e.value, e.unit, IF e.def = e.value THEN e.value ELSE Null, "", "", <<>>), 1, "fields")
  <1>. DEFINE s == At(out, cur, p, where)
              a == Line("name", e.name)
              b == Value(e)
              o == Closed(out, cur, where)
              t == At(o, Unfilled(e.name), 0, "fields")
              d == parse_value(Unfilled(e.name), b)
  <1>1. ParamLine(s, a) = t
    BY NameLine DEF Begins, Closed
  <1>2. b.k = "value" /\ b.v = e.value
    BY DEF Value
  <1>8. NoEnd(b) <=> NoValue(e)
    <2>1. b.unit = e.unit
      BY DEF Value
    <2>2. b.default <=> e.def = e.value
      BY Zenon DEF Value
    <2>. HIDE DEF b
    <2>. QED BY <1>2, <2>1, <2>2, Zenon DEF NoEnd, NoValue
  <1>3. /\ NoEnd(b) => ParamLine(t, b).at = Abort
        /\ ~NoEnd(b) => ParamLine(t, b) = At(o, d, 1, "fields")
    <2>. HIDE DEF b, o
    <2>. QED BY <1>2, ValueLine, Zenon
  <1>4. d = Entry(e.name, e.value, e.unit, IF e.def = e.value THEN e.value ELSE Null, "", "", <<>>)
    <2>. DEFINE x == IF e.def = e.value THEN e.value ELSE Null
    <2>1. (IF b.default THEN b.v ELSE Null) = x /\ b.unit = e.unit
      <3>1. b.default <=> e.def = e.value
        BY Zenon DEF Value
      <3>2. b.unit = e.unit
        BY DEF Value
      <3>. HIDE DEF b
      <3>. QED BY <1>2, <3>1, <3>2, Zenon
    <2>. DEFINE dd == IF b.default THEN b.v ELSE Null
    <2>2. d = [Unfilled(e.name) EXCEPT !.value = b.v, !.unit = b.unit, !.def = dd]
      BY Zenon DEF parse_value
    <2>. HIDE DEF b, x, dd
    <2>3. d = [i \in {"name", "value", "unit", "def", "min", "max", "desc"} |-> d[i]]
      BY <2>2 DEF Unfilled
    <2>4. d.name = e.name /\ d.value = b.v /\ d.unit = b.unit /\ d.def = dd /\ d.min = "" /\ d.max = "" /\ d.desc = <<>>
      BY <2>2 DEF Unfilled
    <2>. HIDE DEF d
    <2>5. d = Entry(e.name, b.v, b.unit, dd, "", "", <<>>)
      BY <2>3, <2>4, EntryEqual
    <2>6. dd = x
      BY <2>1 DEF dd
    <2>. QED BY <1>2, <2>1, <2>5, <2>6 DEF x
  <1>5. ParamLines(s, Names(e)) = ParamLine(ParamLine(s, a), b)
    <2>. HIDE DEF s, a, b
    <2>. DEFINE aa == <<a>>
                bb == <<b>>
    <2>1. Names(e) = aa \o bb
      BY DEF Names, a, b
    <2>2. \E S : aa \in Seq(S) /\ bb \in Seq(S)
      <3>1. aa \in Seq({a, b}) /\ bb \in Seq({a, b})
        OBVIOUS
      <3>. QED BY <3>1, Zenon
    <2>3. ParamLines(s, aa) = ParamLine(s, a) /\ ParamLines(ParamLines(s, aa), bb) = ParamLine(ParamLines(s, aa), b)
      BY LinesOne
    <2>. HIDE DEF aa, bb
    <2>4. ParamLines(s, aa \o bb) = ParamLines(ParamLines(s, aa), bb)
      BY <2>2, LinesConcat
    <2>. QED BY <2>1, <2>3, <2>4
  <1>. HIDE DEF s, t, a, b, d, o
  <1>6. /\ NoValue(e) => ParamLines(s, Names(e)).at = Abort
        /\ ~NoValue(e) => ParamLines(s, Names(e)) = At(o, d, 1, "fields")
    BY <1>1, <1>3, <1>5, <1>8
  <1>7. NoValue(e) => Failed(ParamLines(s, Names(e)))
    BY <1>6 DEF Failed
  <1>. QED BY <1>4, <1>6, <1>7, Zenon DEF s, o

\* The fields that follow, and the line that ends them.
LEMMA FieldsParsed ==
  ASSUME NEW e \in Param, NEW out
  PROVE  LET s == At(out, Entry(e.name, e.value, e.unit, IF e.def = e.value THEN e.value ELSE Null, "", "", <<>>), 1, "fields")
             t == ParamLines(ParamLines(ParamLines(s, DefLine(e)), Given("min", e.min)), Given("max", e.max))
         IN  \E q : ParamLines(t, BlankOne) = At(out, Bare(e), q, "desc")
  <1>. DEFINE n == e.name
              v == e.value
              u == e.unit
              d == e.def
              mn == e.min
              mx == e.max
              no == ""
              ds == <<>>
              c0 == Entry(n, v, u, IF d = v THEN v ELSE Null, no, no, ds)
              c1 == Entry(n, v, u, d, no, no, ds)
              c2 == Entry(n, v, u, d, mn, no, ds)
              c3 == Entry(n, v, u, d, mn, mx, ds)
              kmin == "min"
              kmax == "max"
              s0 == At(out, c0, 1, "fields")
              s1 == ParamLines(s0, DefLine(e))
              s2 == ParamLines(s1, Given(kmin, mn))
              s3 == ParamLines(s2, Given(kmax, mx))
  <1>0. kmin # "blank" /\ kmin # "def" /\ kmax # "blank" /\ kmax # "def"
    OBVIOUS
  <1>. HIDE DEF n, v, u, d, mn, mx, no, ds
  <1>1. Gives(c0, "def", d, DefLine(e), c1)
    <2>1. CASE d = v
      <3>1. DefLine(e) = <<>>
        BY <2>1, Zenon DEF DefLine, d, v
      <3>2. c1 = c0
        BY <2>1, Zenon
      <3>. QED BY <3>1, <3>2, Zenon DEF Gives
    <2>2. CASE d # v
      <3>1. DefLine(e) = <<Line("def", d)>>
        BY <2>2, Zenon DEF DefLine, d, v
      <3>2. c0 = Entry(n, v, u, Null, no, no, ds)
        BY <2>2, Zenon
      <3>3. c1 = With(c0, "def", d) /\ c0.def = Null
        BY <3>2, WithDef
      <3>. QED BY <3>1, <3>3, Zenon DEF Gives
    <2>. QED BY <2>1, <2>2
  <1>2. Gives(c1, kmin, mn, Given(kmin, mn), c2)
    <2>1. c2 = With(c1, kmin, mn)
      BY WithMin
    <2>2. mn = no => c2 = c1
      OBVIOUS
    <2>. HIDE DEF c1, c2, kmin
    <2>. QED BY <1>0, <2>1, <2>2, Zenon DEF Gives, Given, no
  <1>3. Gives(c2, kmax, mx, Given(kmax, mx), c3)
    <2>1. c3 = With(c2, kmax, mx)
      BY WithMax
    <2>2. mx = no => c3 = c2
      OBVIOUS
    <2>. HIDE DEF c2, c3, kmax
    <2>. QED BY <1>0, <2>1, <2>2, Zenon DEF Gives, Given, no
  <1>4. FieldNumber("def") = 2 /\ FieldNumber(kmin) = 3 /\ FieldNumber(kmax) = 4
    BY FieldNumbers
  <1>. HIDE DEF c0, c1, c2, c3, kmin, kmax
  <1>5. PICK q1 \in {1, 2} : s1 = At(out, c1, q1, "fields")
    <2>1. FieldAfter("def", 1, 2) /\ 1 \in 0 .. 4 /\ 2 \in 0 .. 4
      BY <1>4 DEF FieldAfter
    <2>. QED BY <1>1, <2>1, OptionalField
  <1>. HIDE DEF s1
  <1>6. PICK q2 \in {q1, 3} : s2 = At(out, c2, q2, "fields")
    <2>1. FieldAfter(kmin, q1, 3) /\ q1 \in 0 .. 4 /\ 3 \in 0 .. 4
      BY <1>0, <1>4, <1>5 DEF FieldAfter
    <2>. DEFINE l == Given(kmin, mn)
    <2>2. Gives(c1, kmin, mn, l, c2)
      BY <1>2
    <2>. HIDE DEF l
    <2>3. \E q \in {q1, 3} : ParamLines(At(out, c1, q1, "fields"), l) = At(out, c2, q, "fields")
      BY <2>1, <2>2, OptionalField
    <2>. QED BY <1>5, <2>3 DEF l
  <1>. HIDE DEF s2
  <1>7. PICK q3 \in {q2, 4} : s3 = At(out, c3, q3, "fields")
    <2>1. FieldAfter(kmax, q2, 4) /\ q2 \in 0 .. 4 /\ 4 \in 0 .. 4
      BY <1>0, <1>4, <1>5, <1>6 DEF FieldAfter
    <2>. DEFINE l == Given(kmax, mx)
    <2>2. Gives(c2, kmax, mx, l, c3)
      BY <1>3
    <2>. HIDE DEF l
    <2>3. \E q \in {q2, 4} : ParamLines(At(out, c2, q2, "fields"), l) = At(out, c3, q, "fields")
      BY <2>1, <2>2, OptionalField
    <2>. QED BY <1>6, <2>3 DEF l
  <1>. HIDE DEF s3
  <1>8. ParamLines(s3, BlankOne) = At(out, c3, q3, "desc")
    <2>1. ParamLines(s3, BlankOne) = ParamLine(s3, Line("blank", ""))
      BY LinesOne, Zenon DEF BlankOne
    <2>. QED BY <1>7, <2>1, BlankLine
  <1>9. \E q : ParamLines(s3, BlankOne) = At(out, c3, q, "desc")
    BY <1>8, Zenon
  <1>. QED BY <1>9, Zenon DEF s3, s2, s1, c3, c0, n, v, u, d, mn, mx, no, ds, kmin, kmax, Bare

\* The words of a description, and where two paragraphs part.
LEMMA Paragraphs ==
  ASSUME NEW S, NEW ds \in Seq(S), NEW k \in Nat, k + 1 <= Len(ds)
  PROVE  /\ SubSeq(ds, 1, k) \o <<ds[k + 1]>> = SubSeq(ds, 1, k + 1)
         /\ k > 0 => Append(SubSeq(ds, 1, k - 1), ds[k]) \o <<ds[k + 1]>> = SubSeq(ds, 1, k + 1)
  OBVIOUS

\* Its lines are taken one after the other, until the buffer is full.
LEMMA DescParsed ==
  ASSUME NEW e \in Param, NEW out, NEW q
  PROVE  LET s == ParamLines(At(out, Bare(e), q, "desc"), Desc(e))
         IN  IF Len(e.desc) <= DescSize THEN s = At(out, e, q, "desc") ELSE Failed(s)
  <1>. DEFINE ds == e.desc
              D == Desc(e)
              s == At(out, Bare(e), q, "desc")
              upto(k) == SubSeq(ds, 1, k)
              pre(k) == SubSeq(D, 1, k)
              E(x) == Entry(e.name, e.value, e.unit, e.def, e.min, e.max, x)
              part(k) == k > 0 /\ ds[k] = "par"
              reached(k, t) == IF part(k) THEN IF k - 1 <= DescSize THEN t = At(out, E(upto(k - 1)), q, "gap") ELSE Failed(t)
                               ELSE IF k <= DescSize THEN t = At(out, E(upto(k)), q, "desc") ELSE Failed(t)
              T == {k \in Nat : k <= Len(ds) => reached(k, ParamLines(s, pre(k)))}
  <1>0. /\ ds \in Seq(STRING) /\ Len(ds) \in Nat /\ D \in Seq(Lines) /\ Len(D) = Len(ds)
        /\ \A i \in 1 .. Len(ds) : /\ D[i] = DescLine(ds[i])
                                   /\ ds[i] = "par" => i < Len(ds) /\ ds[i + 1] # "par"
    <2>1. ds \in Seq(STRING) /\ \A i \in DOMAIN ds : ds[i] = "par" => i < Len(ds) /\ ds[i + 1] # "par"
      BY ParamFields
    <2>2. Len(ds) \in Nat /\ DOMAIN ds = 1 .. Len(ds)
      BY <2>1
    <2>3. D \in Seq(Lines)
      BY ParamTextParts
    <2>4. DOMAIN D = DOMAIN ds /\ \A i \in DOMAIN ds : D[i] = DescLine(ds[i])
      BY Zenon DEF Desc
    <2>5. Len(D) = Len(ds)
      <3>1. Len(D) \in Nat /\ DOMAIN D = 1 .. Len(D)
        BY <2>3
      <3>. QED BY <2>2, <2>4, <3>1
    <2>. QED BY <2>1, <2>2, <2>3, <2>4, <2>5
  <1>1. \A k \in Nat : k + 1 <= Len(ds) =>
          pre(k + 1) = Append(pre(k), D[k + 1]) /\ pre(k) \in Seq(Lines) /\ D[k + 1] \in Lines
    BY <1>0, Prefix
  <1>2. pre(0) = <<>> /\ pre(Len(ds)) = D /\ upto(0) = <<>> /\ upto(Len(ds)) = ds
    BY <1>0, Prefix
  <1>3. reached(0, s)
    <2>1. ~part(0) /\ 0 <= DescSize
      BY ListingAssumption
    <2>2. s = At(out, E(upto(0)), q, "desc")
      BY <1>2, Zenon DEF Bare
    <2>. QED BY <2>1, <2>2, Zenon
  <1>4. \A x, y : E(x).desc = x /\ Described(E(x), y) = E(y)
    BY WithDesc
  <1>. HIDE DEF D, s, pre, E
  <1>a. \A k \in Nat : k <= Len(ds) => Len(upto(k)) = k
    <2>. HIDE DEF ds
    <2>. QED BY <1>0
  <1>. HIDE DEF ds, upto
  <1>5. 0 \in T
    BY <1>2, <1>3, LinesNone
  <1>6. ASSUME NEW k \in Nat, k \in T PROVE k + 1 \in T
    <2>1. SUFFICES ASSUME k + 1 <= Len(ds) PROVE reached(k + 1, ParamLines(s, pre(k + 1)))
      OBVIOUS
    <2>. DEFINE c == pre(k)
                w == ds[k + 1]
                l == DescLine(w)
    <2>2. reached(k, ParamLines(s, c)) /\ k + 1 \in 1 .. Len(ds) /\ (k > 0 => k \in 1 .. Len(ds)) /\ (k + 1) - 1 = k
      BY <1>0, <1>6, <2>1
    <2>3. pre(k + 1) = Append(c, l) /\ c \in Seq(Lines) /\ l \in Lines
      BY <1>0, <1>1, <2>1, <2>2
    <2>. HIDE DEF c, l
    <2>. DEFINE t == ParamLines(s, c)
                u == ParamLine(t, l)
    <2>4. ParamLines(s, pre(k + 1)) = u
      <3>1. ParamLines(s, Append(c, l)) = ParamLine(ParamLines(s, c), l)
        BY <2>3, LinesAppend
      <3>. QED BY <2>3, <3>1, Zenon
    <2>5. Failed(t) => Failed(u)
      BY DEF Failed, ParamLine, Abort
    <2>6. DescSize \in Nat
      BY ListingAssumption
    <2>. HIDE DEF t
    <2>7. SUFFICES reached(k + 1, u)
      BY <2>4, Zenon
    <2>8. CASE part(k)
      <3>1. w # "par"
        BY <1>0, <2>2, <2>8
      <3>2. l = Line("text", w)
        BY <3>1 DEF l, DescLine
      <3>. DEFINE x == upto(k - 1)
                  y == upto(k + 1)
      <3>3. Append(x, "par") \o <<w>> = y /\ Len(y) = k + 1
        BY <1>0, <1>a, <2>1, <2>8, Paragraphs DEF upto
      <3>4. IF k - 1 <= DescSize THEN t = At(out, E(x), q, "gap") ELSE Failed(t)
        BY <2>2, <2>8, Zenon DEF t
      <3>5. reached(k + 1, u) <=> IF k + 1 <= DescSize THEN u = At(out, E(y), q, "desc") ELSE Failed(u)
        BY <3>1
      <3>. HIDE DEF x, y, w, u, part
      <3>6. LongerBy("gap", E(x).desc, w) = y
        BY <1>4, <3>3 DEF LongerBy
      <3>7. CASE k + 1 <= DescSize
        <4>1. t = At(out, E(x), q, "gap")
          BY <2>6, <3>4, <3>7
        <4>2. Len(LongerBy("gap", E(x).desc, w)) <= DescSize
          BY <3>3, <3>6, <3>7
        <4>3. ParamLine(At(out, E(x), q, "gap"), Line("text", w)) = At(out, Described(E(x), LongerBy("gap", E(x).desc, w)), q, "desc")
          BY <4>2, TextLine
        <4>4. Described(E(x), LongerBy("gap", E(x).desc, w)) = E(y)
          BY <1>4, <3>6
        <4>5. u = At(out, E(y), q, "desc")
          BY <3>2, <4>1, <4>3, <4>4, Zenon DEF u
        <4>. QED BY <3>5, <3>7, <4>5
      <3>8. CASE ~(k + 1 <= DescSize)
        <4>1. Failed(u)
          <5>1. CASE t = At(out, E(x), q, "gap")
            <6>1. ~(Len(LongerBy("gap", E(x).desc, w)) <= DescSize)
              BY <3>3, <3>6, <3>8
            <6>2. ParamLine(At(out, E(x), q, "gap"), Line("text", w)).at = Abort
              BY <6>1, TextTooLong
            <6>. QED BY <3>2, <5>1, <6>2, Zenon DEF u, Failed
          <5>. QED BY <2>5, <3>4, <5>1
        <4>. QED BY <3>5, <3>8, <4>1
      <3>. QED BY <3>7, <3>8
    <2>9. CASE ~part(k)
      <3>. DEFINE x == upto(k)
                  y == upto(k + 1)
      <3>1. IF k <= DescSize THEN t = At(out, E(x), q, "desc") ELSE Failed(t)
        BY <2>2, <2>9, Zenon DEF t
      <3>2. x \o <<w>> = y /\ Len(y) = k + 1
        BY <1>0, <1>a, <2>1, Paragraphs DEF upto
      <3>3. CASE w = "par"
        <4>1. l = Line("blank", "")
          BY <3>3 DEF l, DescLine
        <4>2. reached(k + 1, u) <=> IF k <= DescSize THEN u = At(out, E(x), q, "gap") ELSE Failed(u)
          BY <2>2, <3>3
        <4>. HIDE DEF x, reached, u
        <4>3. ParamLine(At(out, E(x), q, "desc"), Line("blank", "")) = At(out, E(x), q, "gap")
          BY BlankLine
        <4>4. t = At(out, E(x), q, "desc") => u = At(out, E(x), q, "gap")
          BY <4>1, <4>3, Zenon DEF u
        <4>. QED BY <2>5, <3>1, <4>2, <4>4
      <3>4. CASE w # "par"
        <4>1. l = Line("text", w)
          BY <3>4 DEF l, DescLine
        <4>2. reached(k + 1, u) <=> IF k + 1 <= DescSize THEN u = At(out, E(y), q, "desc") ELSE Failed(u)
          BY <3>4
        <4>. HIDE DEF x, y, w, reached, u
        <4>3. LongerBy("desc", E(x).desc, w) = y
          BY <1>4, <3>2 DEF LongerBy
        <4>4. CASE k + 1 <= DescSize
          <5>1. t = At(out, E(x), q, "desc")
            BY <2>6, <3>1, <4>4
          <5>2. ParamLine(At(out, E(x), q, "desc"), Line("text", w)) = At(out, Described(E(x), LongerBy("desc", E(x).desc, w)), q, "desc")
            BY <3>2, <4>3, <4>4, TextLine
          <5>3. Described(E(x), LongerBy("desc", E(x).desc, w)) = E(y)
            BY <1>4, <4>3
          <5>. QED BY <4>1, <4>2, <4>4, <5>1, <5>2, <5>3 DEF u
        <4>5. CASE ~(k + 1 <= DescSize)
          <5>1. CASE t = At(out, E(x), q, "desc")
            <6>1. ParamLine(At(out, E(x), q, "desc"), Line("text", w)).at = Abort
              BY <3>2, <4>3, <4>5, TextTooLong
            <6>2. Failed(u)
              BY <4>1, <5>1, <6>1, Zenon DEF u, Failed
            <6>. QED BY <4>2, <4>5, <6>2
          <5>. QED BY <2>5, <3>1, <4>2, <4>5, <5>1
        <4>. QED BY <4>4, <4>5
      <3>. QED BY <3>3, <3>4
    <2>. QED BY <2>8, <2>9
  <1>. HIDE DEF T
  <1>7. Len(ds) \in T
    BY <1>0, <1>5, <1>6, Induction
  <1>8. ~part(Len(ds))
    BY <1>0
  <1>9. E(ds) = e
    BY ParamFields, Zenon DEF E, ds
  <1>10. reached(Len(ds), ParamLines(s, D))
    BY <1>0, <1>2, <1>7 DEF T
  <1>11. IF Len(ds) <= DescSize THEN ParamLines(s, D) = At(out, e, q, "desc") ELSE Failed(ParamLines(s, D))
    BY <1>2, <1>8, <1>9, <1>10, Zenon
  <1>. QED BY <1>11, Zenon DEF D, s, ds

\* The whole of it.
EndsAt(s, out, e) == \E q : s = At(out, e, q, "gap")
LEMMA EntryParsed ==
  ASSUME NEW e \in Param, NEW out, NEW cur, NEW p, NEW where, Begins(cur, where)
  PROVE  /\ Indigestible(e) => Failed(ParamLines(At(out, cur, p, where), ParamText(e)))
         /\ ~Indigestible(e) => EndsAt(ParamLines(At(out, cur, p, where), ParamText(e)), Closed(out, cur, where), e)
  <1>. DEFINE s == At(out, cur, p, where)
              o == Closed(out, cur, where)
              a == Names(e)
              b == DefLine(e)
              c == Given("min", e.min)
              d == Given("max", e.max)
              f == BlankOne
              g == Desc(e)
  <1>1. ParamText(e) = a \o b \o c \o d \o f \o g \o f
    BY ParamTextParts
  <1>2. a \in Seq(Lines) /\ b \in Seq(Lines) /\ c \in Seq(Lines) /\ d \in Seq(Lines) /\ f \in Seq(Lines) /\ g \in Seq(Lines)
    BY ParamTextParts
  <1>. HIDE DEF s, o, a, b, c, d, f, g
  <1>3. ParamLines(s, ParamText(e))
          = ParamLines(ParamLines(ParamLines(ParamLines(ParamLines(ParamLines(ParamLines(s, a), b), c), d), f), g), f)
    <2>. DEFINE A == a \o b
                B == A \o c
                C == B \o d
                F == C \o f
                G == F \o g
    <2>1. A \in Seq(Lines) /\ ParamLines(s, A) = ParamLines(ParamLines(s, a), b)
      BY <1>2, LinesConcat
    <2>. HIDE DEF A
    <2>2. B \in Seq(Lines) /\ ParamLines(s, B) = ParamLines(ParamLines(s, A), c)
      BY <1>2, <2>1, LinesConcat
    <2>. HIDE DEF B
    <2>3. C \in Seq(Lines) /\ ParamLines(s, C) = ParamLines(ParamLines(s, B), d)
      BY <1>2, <2>2, LinesConcat
    <2>. HIDE DEF C
    <2>4. F \in Seq(Lines) /\ ParamLines(s, F) = ParamLines(ParamLines(s, C), f)
      BY <1>2, <2>3, LinesConcat
    <2>. HIDE DEF F
    <2>5. G \in Seq(Lines) /\ ParamLines(s, G) = ParamLines(ParamLines(s, F), g)
      BY <1>2, <2>4, LinesConcat
    <2>. HIDE DEF G
    <2>6. ParamLines(s, G \o f) = ParamLines(ParamLines(s, G), f)
      BY <1>2, <2>5, LinesConcat
    <2>. QED BY <1>1, <2>1, <2>2, <2>3, <2>4, <2>5, <2>6, Zenon DEF A, B, C, F, G
  <1>4. CASE NoValue(e)
    <2>1. ParamLines(s, a).at = Abort
      <3>1. NoValue(e) => ParamLines(s, a).at = Abort
        <4>1. NoValue(e) => Failed(ParamLines(At(out, cur, p, where), Names(e)))
          BY NamesParsed, Zenon
        <4>. QED BY <4>1, Zenon DEF s, a, Failed
      <3>. QED BY <1>4, <3>1
    <2>2. ParamLines(ParamLines(s, a), b).at = Abort
      BY <1>2, <2>1, LinesAborted
    <2>3. ParamLines(ParamLines(ParamLines(s, a), b), c).at = Abort
      BY <1>2, <2>2, LinesAborted
    <2>4. ParamLines(ParamLines(ParamLines(ParamLines(s, a), b), c), d).at = Abort
      BY <1>2, <2>3, LinesAborted
    <2>5. ParamLines(ParamLines(ParamLines(ParamLines(ParamLines(s, a), b), c), d), f).at = Abort
      BY <1>2, <2>4, LinesAborted
    <2>6. ParamLines(ParamLines(ParamLines(ParamLines(ParamLines(ParamLines(s, a), b), c), d), f), g).at = Abort
      BY <1>2, <2>5, LinesAborted
    <2>. DEFINE u == ParamLines(ParamLines(ParamLines(ParamLines(ParamLines(ParamLines(s, a), b), c), d), f), g)
    <2>. HIDE DEF u
    <2>7. u.at = Abort
      BY <2>6 DEF u
    <2>8. ParamLines(u, f).at = Abort
      BY <1>2, <2>7, LinesAborted
    <2>9. ParamLines(s, ParamText(e)).at = Abort
      BY <1>3, <2>8, Zenon DEF u
    <2>10. Indigestible(e)
      BY <1>4, Zenon DEF Indigestible, NoValue
    <2>. QED BY <2>9, <2>10, Zenon DEF s, Failed
  <1>5. CASE ~NoValue(e)
    <2>. DEFINE t == ParamLines(ParamLines(ParamLines(ParamLines(s, a), b), c), d)
    <2>1. ParamLines(s, a) = At(o, Entry(e.name, e.value, e.unit, IF e.def = e.value THEN e.value ELSE Null, "", "", <<>>), 1, "fields")
      BY <1>5, NamesParsed, Zenon DEF s, a, o
    <2>2. PICK q : ParamLines(t, f) = At(o, Bare(e), q, "desc")
      BY <2>1, FieldsParsed, Zenon DEF b, c, d, f
    <2>. HIDE DEF t
    <2>. DEFINE u == ParamLines(ParamLines(t, f), g)
    <2>3. IF Len(e.desc) <= DescSize THEN u = At(o, e, q, "desc") ELSE Failed(u)
      <3>1. u = ParamLines(At(o, Bare(e), q, "desc"), Desc(e))
        BY <2>2, Zenon DEF g
      <3>2. LET v == ParamLines(At(o, Bare(e), q, "desc"), Desc(e))
            IN  IF Len(e.desc) <= DescSize THEN v = At(o, e, q, "desc") ELSE Failed(v)
        BY DescParsed
      <3>. QED BY <3>1, <3>2, Zenon
    <2>4. ParamLines(s, ParamText(e)) = ParamLines(u, f)
      BY <1>3, Zenon DEF t
    <2>. HIDE DEF u
    <2>5. CASE Len(e.desc) <= DescSize
      <3>1. u = At(o, e, q, "desc")
        BY <2>3, <2>5, Zenon
      <3>2. ParamLines(At(o, e, q, "desc"), f) = ParamLine(At(o, e, q, "desc"), Line("blank", ""))
        BY LinesOne, Zenon DEF f, BlankOne
      <3>3. ParamLines(s, ParamText(e)) = At(o, e, q, "gap")
        BY <2>4, <3>1, <3>2, BlankLine
      <3>4. ~Indigestible(e)
        <4>1. ~(Len(e.desc) > DescSize)
          <5>1. Len(e.desc) \in Nat /\ DescSize \in Nat
            BY ParamFields, ListingAssumption
          <5>. DEFINE n == Len(e.desc)
          <5>2. n \in Nat /\ n <= DescSize
            BY <2>5, <5>1, Zenon
          <5>. HIDE DEF n
          <5>3. ~(n > DescSize)
            BY <5>1, <5>2
          <5>. QED BY <5>3 DEF n
        <4>. QED BY <1>5, <4>1, Zenon DEF Indigestible, NoValue
      <3>. QED BY <3>3, <3>4, Zenon DEF s, o, EndsAt
    <2>6. CASE ~(Len(e.desc) <= DescSize)
      <3>1. u.at = Abort
        BY <2>3, <2>6, Zenon DEF Failed
      <3>2. ParamLines(u, f).at = Abort
        BY <1>2, <3>1, LinesAborted
      <3>3. Indigestible(e)
        <4>. DEFINE n == Len(e.desc)
        <4>1. n \in Nat /\ DescSize \in Nat /\ ~(n <= DescSize)
          BY <2>6, ParamFields, ListingAssumption
        <4>. HIDE DEF n
        <4>2. n > DescSize
          BY <4>1
        <4>. QED BY <4>2, Zenon DEF Indigestible, NoValue, n
      <3>. QED BY <2>4, <3>2, <3>3, Zenon DEF s, Failed
    <2>. QED BY <2>5, <2>6
  <1>. QED BY <1>4, <1>5, Zenon

-----------------------------------------------------------------------------
(* The text of a sequence of parameters.                                    *)
IsShow(g, es, n) == g = [k \in 0 .. n |-> IF k = 0 THEN <<>> ELSE g[k - 1] \o ParamText(es[k])]

LEMMA ShowExists ==
  ASSUME NEW es, NEW n \in Nat
  PROVE  \E g : IsShow(g, es, n)
  <1>. DEFINE T == {m \in Nat : \E g : IsShow(g, es, m)}
  <1>1. 0 \in T
    <2>. DEFINE g == [k \in 0 .. 0 |-> <<>>]
    <2>1. IsShow(g, es, 0)
      BY DEF IsShow
    <2>. QED BY <2>1
  <1>2. ASSUME NEW m \in Nat, m \in T PROVE m + 1 \in T
    <2>1. PICK g : IsShow(g, es, m)
      BY <1>2
    <2>. DEFINE last == g[m] \o ParamText(es[m + 1])
                h == [k \in 0 .. m + 1 |-> IF k = m + 1 THEN last ELSE g[k]]
    <2>2. ASSUME NEW k \in 0 .. m + 1 PROVE h[k] = IF k = 0 THEN <<>> ELSE h[k - 1] \o ParamText(es[k])
      <3>1. CASE k = 0
        <4>1. h[k] = g[k]
          BY <3>1
        <4>. QED BY <2>1, <3>1, <4>1 DEF IsShow
      <3>2. CASE k \in 1 .. m
        <4>1. h[k] = g[k] /\ h[k - 1] = g[k - 1] /\ k \in 0 .. m /\ k # 0
          BY <3>2
        <4>. HIDE DEF h
        <4>2. g[k] = g[k - 1] \o ParamText(es[k])
          BY <2>1, <4>1, Zenon DEF IsShow
        <4>. QED BY <4>1, <4>2
      <3>3. CASE k = m + 1
        <4>. HIDE DEF last
        <4>1. h[k] = last /\ h[k - 1] = g[m] /\ k # 0
          BY <3>3
        <4>. HIDE DEF h
        <4>. QED BY <3>3, <4>1, Zenon DEF last
      <3>. QED BY <3>1, <3>2, <3>3
    <2>3. IsShow(h, es, m + 1)
      <3>1. \A k \in 0 .. m + 1 : h[k] = IF k = 0 THEN <<>> ELSE h[k - 1] \o ParamText(es[k])
        BY <2>2
      <3>2. h = [k \in 0 .. m + 1 |-> h[k]]
        OBVIOUS
      <3>. HIDE DEF h
      <3>3. [k \in 0 .. m + 1 |-> h[k]] = [k \in 0 .. m + 1 |-> IF k = 0 THEN <<>> ELSE h[k - 1] \o ParamText(es[k])]
        BY <3>1, Zenon
      <3>. QED BY <3>2, <3>3, Zenon DEF IsShow
    <2>. QED BY <2>3
  <1>. HIDE DEF T
  <1>3. n \in T
    BY <1>1, <1>2, Induction
  <1>. QED BY <1>3 DEF T

LEMMA ShowRun ==
  ASSUME NEW es, Len(es) \in Nat
  PROVE  \E g : IsShow(g, es, Len(es)) /\ ParamShow(es) = g[Len(es)]
  <1>. DEFINE upto == CHOOSE h : h = [k \in 0 .. Len(es) |-> IF k = 0 THEN <<>> ELSE h[k - 1] \o ParamText(es[k])]
              n == Len(es)
  <1>1. ParamShow(es) = upto[Len(es)]
    BY Zenon DEF ParamShow
  <1>2. IsShow(upto, es, n)
    <2>. HIDE DEF n
    <2>1. PICK g : IsShow(g, es, n)
      BY ShowExists DEF n
    <2>. QED BY <2>1, Zenon DEF IsShow, n
  <1>. QED BY <1>1, <1>2, Zenon

LEMMA ReversedPrefix ==
  ASSUME NEW S, NEW es \in Seq(S), NEW k \in Nat, k > 0, k <= Len(es)
  PROVE  <<es[k]>> \o Reverse(SubSeq(es, 1, k - 1)) = Reverse(SubSeq(es, 1, k))
  <1>. DEFINE a == SubSeq(es, 1, k - 1)
              b == SubSeq(es, 1, k)
              ra == Reverse(a)
              rb == Reverse(b)
  <1>1. Len(a) = k - 1 /\ Len(b) = k /\ k \in 1 .. Len(es) /\ \A i \in 1 .. k : b[i] = es[i] /\ (i < k => a[i] = es[i])
    OBVIOUS
  <1>2. a \in Seq(S) /\ b \in Seq(S)
    OBVIOUS
  <1>. HIDE DEF a, b
  <1>3. ra = [i \in 1 .. k - 1 |-> es[k - i]]
    <2>1. \A i \in 1 .. k - 1 : (k - 1) - i + 1 = k - i /\ k - i \in 1 .. k /\ k - i < k
      OBVIOUS
    <2>2. ra = [i \in 1 .. Len(a) |-> a[(Len(a) - i) + 1]]
      BY Zenon DEF Reverse
    <2>. QED BY <1>1, <2>1, <2>2
  <1>4. rb = [i \in 1 .. k |-> es[k - i + 1]]
    <2>1. \A i \in 1 .. k : k - i + 1 \in 1 .. k
      OBVIOUS
    <2>2. rb = [i \in 1 .. Len(b) |-> b[(Len(b) - i) + 1]]
      BY Zenon DEF Reverse
    <2>. QED BY <1>1, <2>1, <2>2
  <1>5. \A i \in 1 .. Len(es) : es[i] \in S
    OBVIOUS
  <1>6. ra \in Seq(S) /\ Len(ra) = k - 1 /\ \A i \in 1 .. k - 1 : ra[i] = es[k - i]
    <2>. HIDE DEF ra
    <2>1. \A i \in 1 .. k - 1 : es[k - i] \in S
      BY <1>5
    <2>2. \A i \in 1 .. k - 1 : ra[i] = es[k - i]
      BY <1>3
    <2>3. k - 1 \in Nat
      OBVIOUS
    <2>4. ra \in Seq(S)
      BY <1>3, <2>1, <2>3, IsASeq
    <2>5. DOMAIN ra = 1 .. k - 1 /\ DOMAIN ra = 1 .. Len(ra) /\ Len(ra) \in Nat
      BY <1>3, <2>4
    <2>. QED BY <2>2, <2>3, <2>4, <2>5
  <1>7. rb \in Seq(S) /\ Len(rb) = k /\ \A i \in 1 .. k : rb[i] = es[k - i + 1]
    <2>. HIDE DEF rb
    <2>1. \A i \in 1 .. k : es[k - i + 1] \in S
      BY <1>5
    <2>2. \A i \in 1 .. k : rb[i] = es[k - i + 1]
      BY <1>4
    <2>3. rb \in Seq(S)
      BY <1>4, <2>1, IsASeq
    <2>4. DOMAIN rb = 1 .. k /\ DOMAIN rb = 1 .. Len(rb) /\ Len(rb) \in Nat
      BY <1>4, <2>3
    <2>. QED BY <2>2, <2>3, <2>4
  <1>. HIDE DEF ra, rb
  <1>. DEFINE x == <<es[k]>>
              c == x \o ra
  <1>8. x \in Seq(S) /\ Len(x) = 1 /\ x[1] = es[k]
    BY <1>5
  <1>. HIDE DEF x
  <1>9. c \in Seq(S) /\ Len(c) = k /\ \A i \in 1 .. k : c[i] = IF i = 1 THEN x[1] ELSE ra[i - 1]
    <2>1. c \in Seq(S) /\ Len(c) = Len(x) + Len(ra) /\ \A i \in 1 .. Len(x) + Len(ra) : c[i] = IF i <= Len(x) THEN x[i] ELSE ra[i - Len(x)]
      <3>1. x \in Seq(S) /\ ra \in Seq(S)
        BY <1>6, <1>8
      <3>. QED BY <3>1, ConcatProperties
    <2>2. Len(x) + Len(ra) = k
      BY <1>6, <1>8
    <2>. HIDE DEF c
    <2>. QED BY <1>8, <2>1, <2>2
  <1>. HIDE DEF c
  <1>10. \A i \in 1 .. k : c[i] = rb[i]
    <2>. TAKE i \in 1 .. k
    <2>1. CASE i = 1
      BY <1>7, <1>8, <1>9, <2>1
    <2>2. CASE i # 1
      <3>1. i - 1 \in 1 .. k - 1 /\ k - (i - 1) = k - i + 1
        BY <2>2
      <3>. QED BY <1>6, <1>7, <1>9, <2>2, <3>1
    <2>. QED BY <2>1, <2>2
  <1>11. c = rb
    BY <1>7, <1>9, <1>10, SeqEqual
  <1>. QED BY <1>11 DEF c, x, ra, rb, a, b

LEMMA NextPrefix ==
  ASSUME NEW es, NEW k \in Nat
  PROVE  (\E i \in 1 .. k + 1 : Indigestible(es[i])) <=> ((\E i \in 1 .. k : Indigestible(es[i])) \/ Indigestible(es[k + 1]))
  <1>1. 1 .. k + 1 = (1 .. k) \union {k + 1}
    OBVIOUS
  <1>. QED BY <1>1, Zenon

LEMMA TextIsLines ==
  ASSUME NEW e \in Param
  PROVE  ParamText(e) \in Seq(Lines)
  <1>1. ParamText(e) = Names(e) \o DefLine(e) \o Given("min", e.min) \o Given("max", e.max) \o BlankOne \o Desc(e) \o BlankOne
        /\ Names(e) \in Seq(Lines) /\ DefLine(e) \in Seq(Lines) /\ Given("min", e.min) \in Seq(Lines) /\ Given("max", e.max) \in Seq(Lines)
        /\ BlankOne \in Seq(Lines) /\ Desc(e) \in Seq(Lines)
    BY ParamTextParts, Zenon
  <1>2. ASSUME NEW a \in Seq(Lines), NEW b \in Seq(Lines) PROVE a \o b \in Seq(Lines)
    OBVIOUS
  <1>3. Names(e) \o DefLine(e) \in Seq(Lines)
    BY <1>1, <1>2, Zenon
  <1>4. Names(e) \o DefLine(e) \o Given("min", e.min) \in Seq(Lines)
    BY <1>1, <1>2, <1>3, Zenon
  <1>5. Names(e) \o DefLine(e) \o Given("min", e.min) \o Given("max", e.max) \in Seq(Lines)
    BY <1>1, <1>2, <1>4, Zenon
  <1>6. Names(e) \o DefLine(e) \o Given("min", e.min) \o Given("max", e.max) \o BlankOne \in Seq(Lines)
    BY <1>1, <1>2, <1>5, Zenon
  <1>7. Names(e) \o DefLine(e) \o Given("min", e.min) \o Given("max", e.max) \o BlankOne \o Desc(e) \in Seq(Lines)
    BY <1>1, <1>2, <1>6, Zenon
  <1>8. Names(e) \o DefLine(e) \o Given("min", e.min) \o Given("max", e.max) \o BlankOne \o Desc(e) \o BlankOne \in Seq(Lines)
    BY <1>1, <1>2, <1>7, Zenon
  <1>. QED BY <1>1, <1>8, Zenon

\* The parser after k of the parameters: it stopped at an indigestible one, or
\* has them all and is after the blank line of the last.
Reached(es, k, s) ==
    IF \E i \in 1 .. k : Indigestible(es[i]) THEN Failed(s)
    ELSE IF k = 0 THEN s = Parser
    ELSE \E q : s = At(Reverse(SubSeq(es, 1, k - 1)), es[k], q, "gap")

LEMMA OneMore ==
  ASSUME NEW es \in Seq(Param), NEW k \in Nat, k + 1 <= Len(es), NEW s, Reached(es, k, s)
  PROVE  Reached(es, k + 1, ParamLines(s, ParamText(es[k + 1])))
  <1>. DEFINE e == es[k + 1]
              t == ParamLines(s, ParamText(e))
              bad(n) == \E i \in 1 .. n : Indigestible(es[i])
  <1>0. e \in Param /\ (k > 0 => es[k] \in Param) /\ (k + 1) - 1 = k /\ k + 1 # 0 /\ k + 1 \in Nat
    OBVIOUS
  <1>1. ParamText(e) \in Seq(Lines)
    BY <1>0, TextIsLines
  <1>2. bad(k + 1) <=> (bad(k) \/ Indigestible(e))
    BY NextPrefix
  <1>. HIDE DEF e, bad
  <1>3. Reached(es, k, s) <=> IF bad(k) THEN Failed(s) ELSE IF k = 0 THEN s = Parser
                              ELSE \E q : s = At(Reverse(SubSeq(es, 1, k - 1)), es[k], q, "gap")
    BY Zenon DEF Reached, bad
  <1>4. Reached(es, k + 1, t) <=> IF bad(k + 1) THEN Failed(t) ELSE \E q : t = At(Reverse(SubSeq(es, 1, k)), e, q, "gap")
    <2>1. Reached(es, k + 1, t) <=> IF bad(k + 1) THEN Failed(t) ELSE IF k + 1 = 0 THEN t = Parser
            ELSE \E q : t = At(Reverse(SubSeq(es, 1, (k + 1) - 1)), es[k + 1], q, "gap")
      BY Zenon DEF Reached, bad
    <2>. QED BY <1>0, <2>1, Zenon DEF e
  <1>5. CASE bad(k)
    <2>1. Failed(s)
      BY <1>3, <1>5
    <2>2. Failed(t)
      BY <1>1, <2>1, LinesAborted DEF Failed
    <2>. QED BY <1>2, <1>4, <1>5, <2>2 DEF t, e
  <1>6. CASE ~bad(k)
    <2>1. \E out, cur, p, where : /\ s = At(out, cur, p, where) /\ Begins(cur, where)
                                  /\ Closed(out, cur, where) = Reverse(SubSeq(es, 1, k))
      <3>1. CASE k = 0
        <4>1. s = At(<<>>, Unfilled(Null), 0, "name")
          BY <1>3, <1>6, <3>1 DEF Parser, At
        <4>2. Reverse(SubSeq(es, 1, 0)) = <<>>
          <5>1. SubSeq(es, 1, 0) = <<>> /\ Len(<<>>) = 0
            OBVIOUS
          <5>. QED BY <5>1 DEF Reverse
        <4>3. "name" # "gap"
          OBVIOUS
        <4>4. Begins(Unfilled(Null), "name") /\ Closed(<<>>, Unfilled(Null), "name") = <<>>
          BY <4>3, Zenon DEF Begins, Closed
        <4>. QED BY <3>1, <4>1, <4>2, <4>4, Zenon
      <3>2. CASE k # 0
        <4>1. PICK q : s = At(Reverse(SubSeq(es, 1, k - 1)), es[k], q, "gap")
          BY <1>3, <1>6, <3>2
        <4>2. param_assert(es[k])
          BY <1>0, <3>2, ParamFields DEF param_assert
        <4>3. k > 0 /\ k <= Len(es)
          BY <3>2
        <4>4. <<es[k]>> \o Reverse(SubSeq(es, 1, k - 1)) = Reverse(SubSeq(es, 1, k))
          BY <4>3, ReversedPrefix
        <4>. DEFINE o == Reverse(SubSeq(es, 1, k - 1))
                    c == es[k]
        <4>5. s = At(o, c, q, "gap") /\ Begins(c, "gap") /\ Closed(o, c, "gap") = Reverse(SubSeq(es, 1, k))
          BY <4>1, <4>2, <4>4, Zenon DEF Begins, Closed
        <4>. HIDE DEF o, c
        <4>. QED BY <4>5, Zenon
      <3>. QED BY <3>1, <3>2
    <2>2. PICK out, cur, p, where : /\ s = At(out, cur, p, where) /\ Begins(cur, where)
                                    /\ Closed(out, cur, where) = Reverse(SubSeq(es, 1, k))
      BY <2>1, Zenon
    <2>3. Indigestible(e) => Failed(t)
      BY <1>0, <2>2, EntryParsed, Zenon DEF t
    <2>4. ~Indigestible(e) => \E q : t = At(Reverse(SubSeq(es, 1, k)), e, q, "gap")
      <3>1. ~Indigestible(e) => EndsAt(ParamLines(At(out, cur, p, where), ParamText(e)), Closed(out, cur, where), e)
        BY <1>0, <2>2, EntryParsed, Zenon
      <3>. QED BY <2>2, <3>1, Zenon DEF t, EndsAt
    <2>5. Reached(es, k + 1, t)
      BY <1>2, <1>4, <1>6, <2>3, <2>4, Zenon
    <2>. QED BY <2>5 DEF t, e
  <1>. QED BY <1>5, <1>6

\* vparams_show_json over any listing: an assert fails if and only if a
\* parameter is indigestible, and what it reads are the parameters, the last first.
LEMMA ParamsParsed ==
  ASSUME NEW es \in Seq(Param)
  PROVE  LET json == vparams_show_json(ParamShow(es))
         IN  /\ json.aborts <=> \E i \in DOMAIN es : Indigestible(es[i])
             /\ ~json.aborts => json.out = Reverse(es)
  <1>. DEFINE n == Len(es)
              s == ParamLines(Parser, ParamShow(es))
              json == vparams_show_json(ParamShow(es))
              end == IF s.at = "gap" THEN CloseEntry(s) ELSE s
  <1>0. n \in Nat /\ DOMAIN es = 1 .. n /\ SubSeq(es, 1, n) = es
    OBVIOUS
  <1>1. Reached(es, n, s)
    <2>1. PICK g : IsShow(g, es, n) /\ ParamShow(es) = g[n]
      BY <1>0, ShowRun
    <2>. DEFINE T == {k \in Nat : k <= n => g[k] \in Seq(Lines) /\ Reached(es, k, ParamLines(Parser, g[k]))}
    <2>2. \A k \in 0 .. n : g[k] = IF k = 0 THEN <<>> ELSE g[k - 1] \o ParamText(es[k])
      BY <2>1 DEF IsShow
    <2>3. 0 \in T
      <3>1. g[0] = <<>>
        BY <1>0, <2>2
      <3>2. Reached(es, 0, Parser)
        <4>1. ~\E i \in 1 .. 0 : Indigestible(es[i])
          OBVIOUS
        <4>. QED BY <4>1, Zenon DEF Reached
      <3>3. ParamLines(Parser, g[0]) = Parser /\ g[0] \in Seq(Lines)
        BY <3>1, LinesNone
      <3>. QED BY <3>2, <3>3
    <2>4. ASSUME NEW k \in Nat, k \in T PROVE k + 1 \in T
      <3>1. SUFFICES ASSUME k + 1 <= n PROVE g[k + 1] \in Seq(Lines) /\ Reached(es, k + 1, ParamLines(Parser, g[k + 1]))
        OBVIOUS
      <3>2. g[k] \in Seq(Lines) /\ Reached(es, k, ParamLines(Parser, g[k]))
        BY <2>4, <3>1
      <3>. DEFINE a == ParamText(es[k + 1])
      <3>3. g[k + 1] = g[k] \o a
        <4>1. k + 1 \in 0 .. n /\ k + 1 # 0 /\ (k + 1) - 1 = k
          BY <3>1
        <4>. QED BY <2>2, <4>1
      <3>4. a \in Seq(Lines)
        <4>1. es[k + 1] \in Param
          BY <3>1
        <4>. QED BY <4>1, TextIsLines
      <3>5. ParamLines(Parser, g[k] \o a) = ParamLines(ParamLines(Parser, g[k]), a)
        <4>. HIDE DEF a
        <4>. QED BY <3>2, <3>4, LinesConcat
      <3>6. Reached(es, k + 1, ParamLines(ParamLines(Parser, g[k]), a))
        BY <3>1, <3>2, OneMore
      <3>7. g[k] \o a \in Seq(Lines)
        <4>. HIDE DEF a
        <4>. QED BY <3>2, <3>4
      <3>. QED BY <3>3, <3>5, <3>6, <3>7, Zenon
    <2>. HIDE DEF T
    <2>5. n \in T
      BY <1>0, <2>3, <2>4, Induction
    <2>. QED BY <2>1, <2>5 DEF T
  <1>2. json.aborts = (end.at # "name") /\ json.out = end.out
    <2>1. json = [aborts |-> end.at # "name", out |-> end.out]
      BY Zenon DEF vparams_show_json
    <2>. HIDE DEF json, end
    <2>. QED BY <2>1
  <1>. HIDE DEF json, s
  <1>3. CASE \E i \in DOMAIN es : Indigestible(es[i])
    <2>1. Failed(s)
      BY <1>0, <1>1, <1>3, Zenon DEF Reached
    <2>2. end.at # "name"
      BY <2>1 DEF Failed, Abort
    <2>. QED BY <1>2, <1>3, <2>2 DEF json
  <1>4. CASE ~\E i \in DOMAIN es : Indigestible(es[i])
    <2>1. end.at = "name" /\ end.out = Reverse(es)
      <3>1. CASE n = 0
        <4>1. s = Parser
          BY <1>0, <1>1, <1>4, <3>1, Zenon DEF Reached
        <4>2. end.at = "name" /\ end.out = <<>>
          BY <4>1 DEF Parser
        <4>3. Reverse(es) = <<>>
          BY <3>1 DEF Reverse
        <4>. QED BY <4>2, <4>3
      <3>2. CASE n # 0
        <4>1. PICK q : s = At(Reverse(SubSeq(es, 1, n - 1)), es[n], q, "gap")
          BY <1>0, <1>1, <1>4, <3>2, Zenon DEF Reached
        <4>2. es[n] \in Param /\ n > 0 /\ n <= Len(es)
          BY <1>0, <3>2
        <4>3. param_assert(es[n])
          BY <4>2, ParamFields DEF param_assert
        <4>4. <<es[n]>> \o Reverse(SubSeq(es, 1, n - 1)) = Reverse(es)
          <5>. HIDE DEF n
          <5>. QED BY <1>0, <4>2, ReversedPrefix
        <4>. DEFINE o == Reverse(SubSeq(es, 1, n - 1))
                    c == es[n]
        <4>5. s = At(o, c, q, "gap") /\ param_assert(c) /\ <<c>> \o o = Reverse(es)
          BY <4>1, <4>3, <4>4
        <4>. HIDE DEF o, c
        <4>6. s.at = "gap" /\ s.cur = c /\ s.out = o /\ s = [i \in {"out", "cur", "passed", "at"} |-> s[i]]
          BY <4>5 DEF At
        <4>7. CloseEntry(s) = [s EXCEPT !.out = <<s.cur>> \o @, !.at = "name"]
          BY <4>5, <4>6 DEF CloseEntry
        <4>8. CloseEntry(s).at = "name" /\ CloseEntry(s).out = <<c>> \o o
          BY <4>6, <4>7
        <4>. QED BY <4>5, <4>6, <4>8
      <3>. QED BY <3>1, <3>2
    <2>. QED BY <1>2, <1>4, <2>1 DEF json
  <1>. QED BY <1>3, <1>4

\* What it prints are the parameters, the last first, whatever its buffer held,
\* if each has a description and no quote or backslash is in any of it.
LEMMA ParamsListed ==
  ASSUME NEW es \in Seq(Param)
  PROVE  LET json == vparams_show_json(ParamShow(es))
         IN  /\ json.aborts <=> \E i \in DOMAIN es : Indigestible(es[i])
             /\ ~json.aborts => \A junk \in [DOMAIN json.out -> Junk] : ParamsTrue(es, Printed(json.out, junk))
  <1>. DEFINE json == vparams_show_json(ParamShow(es))
              r == Reverse(es)
  <1>1. (json.aborts <=> \E i \in DOMAIN es : Indigestible(es[i])) /\ (~json.aborts => json.out = r)
    BY ParamsParsed
  <1>2. r = [i \in DOMAIN r |-> r[i]] /\ \A i \in DOMAIN r : \E j \in DOMAIN es : r[i] = es[j]
    <2>. DEFINE n == Len(es)
    <2>1. n \in Nat /\ DOMAIN es = 1 .. n
      OBVIOUS
    <2>2. r = [i \in 1 .. n |-> es[(n - i) + 1]]
      BY Zenon DEF Reverse
    <2>. HIDE DEF n, r
    <2>3. ASSUME NEW i \in 1 .. n PROVE r[i] = es[(n - i) + 1] /\ (n - i) + 1 \in 1 .. n
      BY <2>1, <2>2
    <2>. QED BY <2>1, <2>2, <2>3, Zenon
  <1>. HIDE DEF json, r
  <1>3. ASSUME ~json.aborts, NEW junk \in [DOMAIN json.out -> Junk], \A i \in DOMAIN es : es[i].desc # <<>> /\ ~Quoted(es[i])
        PROVE  Printed(json.out, junk) = r
    <2>. DEFINE p == [i \in DOMAIN r |-> Copied(r[i], junk[i])]
    <2>1. \A i \in DOMAIN r : Copied(r[i], junk[i]) = r[i] /\ ~Quoted(r[i])
      BY <1>2, <1>3, Zenon DEF Copied
    <2>2. p = r
      BY <1>2, <2>1, Zenon
    <2>3. Printed(r, junk) = IF \E i \in DOMAIN p : Quoted(p[i]) THEN Garbled ELSE p
      BY Zenon DEF Printed
    <2>. HIDE DEF p
    <2>4. ~\E i \in DOMAIN p : Quoted(p[i])
      BY <2>1, <2>2, Zenon
    <2>. QED BY <1>1, <1>3, <2>2, <2>3, <2>4, Zenon
  <1>. QED BY <1>1, <1>3, Zenon DEF json, r, ParamsTrue

-----------------------------------------------------------------------------
(* What Keep keeps, and what Total adds up.                                 *)
IsKept(g, s, W, n) ==
    g = [k \in 0 .. n |-> IF k = 0 THEN <<>> ELSE IF s[k] \in W THEN Append(g[k - 1], s[k]) ELSE g[k - 1]]
IsSum(g, lens, n) == g = [k \in 0 .. n |-> IF k = 0 THEN 0 ELSE g[k - 1] + lens[k]]

\* Functions defined by recursion on a number, of values in V.
Folded(g, V, base, n, F) == g = [k \in 0 .. n |-> IF k = 0 THEN base ELSE F[k][g[k - 1]]] /\ \A k \in 0 .. n : g[k] \in V

LEMMA FoldExists ==
  ASSUME NEW V, NEW base \in V, NEW n \in Nat, NEW F, \A k \in 1 .. n : F[k] \in [V -> V]
  PROVE  \E g : Folded(g, V, base, n, F)
  <1>. DEFINE Is(g, m) == g = [k \in 0 .. m |-> IF k = 0 THEN base ELSE F[k][g[k - 1]]] /\ \A k \in 0 .. m : g[k] \in V
              T == {m \in Nat : m <= n => \E g : Is(g, m)}
  <1>1. 0 \in T
    <2>. DEFINE g == [k \in 0 .. 0 |-> base]
    <2>1. Is(g, 0)
      OBVIOUS
    <2>. QED BY <2>1
  <1>2. ASSUME NEW m \in Nat, m \in T PROVE m + 1 \in T
    <2>1. SUFFICES ASSUME m + 1 <= n PROVE \E g : Is(g, m + 1)
      OBVIOUS
    <2>2. PICK g : Is(g, m)
      BY <1>2, <2>1
    <2>. DEFINE last == F[m + 1][g[m]]
                h == [k \in 0 .. m + 1 |-> IF k = m + 1 THEN last ELSE g[k]]
    <2>3. last \in V
      <3>1. m + 1 \in 1 .. n /\ m \in 0 .. m
        BY <2>1
      <3>2. g[m] \in V
        BY <2>2, <3>1
      <3>3. F[m + 1] \in [V -> V]
        BY <3>1
      <3>. QED BY <3>2, <3>3
    <2>4. ASSUME NEW k \in 0 .. m + 1 PROVE h[k] = (IF k = 0 THEN base ELSE F[k][h[k - 1]]) /\ h[k] \in V
      <3>1. CASE k = 0
        <4>1. h[k] = g[k] /\ k \in 0 .. m
          BY <3>1
        <4>. QED BY <2>2, <3>1, <4>1
      <3>2. CASE k \in 1 .. m
        <4>1. h[k] = g[k] /\ h[k - 1] = g[k - 1] /\ k \in 0 .. m /\ k # 0
          BY <3>2
        <4>. HIDE DEF h
        <4>2. g[k] = F[k][g[k - 1]] /\ g[k] \in V
          BY <2>2, <4>1
        <4>. QED BY <4>1, <4>2
      <3>3. CASE k = m + 1
        <4>. HIDE DEF last
        <4>1. h[k] = last /\ h[k - 1] = g[m] /\ k # 0
          BY <3>3
        <4>. HIDE DEF h
        <4>. QED BY <2>3, <3>3, <4>1, Zenon DEF last
      <3>. QED BY <3>1, <3>2, <3>3
    <2>5. Is(h, m + 1)
      <3>1. \A k \in 0 .. m + 1 : h[k] = IF k = 0 THEN base ELSE F[k][h[k - 1]]
        BY <2>4
      <3>2. h = [k \in 0 .. m + 1 |-> h[k]]
        OBVIOUS
      <3>. HIDE DEF h
      <3>3. [k \in 0 .. m + 1 |-> h[k]] = [k \in 0 .. m + 1 |-> IF k = 0 THEN base ELSE F[k][h[k - 1]]]
        BY <3>1, Zenon
      <3>4. h = [k \in 0 .. m + 1 |-> IF k = 0 THEN base ELSE F[k][h[k - 1]]]
        BY <3>2, <3>3, Zenon
      <3>. QED BY <2>4, <3>4, Zenon
    <2>. QED BY <2>5
  <1>. HIDE DEF T
  <1>3. n \in T
    BY <1>1, <1>2, Induction
  <1>. QED BY <1>3 DEF T, Folded

LEMMA KeepRun ==
  ASSUME NEW S, NEW s \in Seq(S), NEW W
  PROVE  \E g : IsKept(g, s, W, Len(s)) /\ Keep(s, W) = g[Len(s)]
  <1>. DEFINE kept == CHOOSE h : h = [k \in 0 .. Len(s) |-> IF k = 0 THEN <<>> ELSE IF s[k] \in W THEN Append(h[k - 1], s[k]) ELSE h[k - 1]]
              n == Len(s)
              F == [k \in 1 .. n |-> [x \in Seq(S) |-> IF s[k] \in W THEN Append(x, s[k]) ELSE x]]
  <1>1. Keep(s, W) = kept[Len(s)]
    BY Zenon DEF Keep
  <1>2. IsKept(kept, s, W, n)
    <2>1. n \in Nat /\ \A k \in 1 .. n : s[k] \in S
      OBVIOUS
    <2>. HIDE DEF n
    <2>2. ASSUME NEW k \in 1 .. n PROVE F[k] \in [Seq(S) -> Seq(S)]
      <3>1. \A x \in Seq(S) : Append(x, s[k]) \in Seq(S)
        BY <2>1
      <3>. QED BY <3>1
    <2>3. <<>> \in Seq(S)
      OBVIOUS
    <2>4. PICK g : g = [k \in 0 .. n |-> IF k = 0 THEN <<>> ELSE F[k][g[k - 1]]] /\ \A k \in 0 .. n : g[k] \in Seq(S)
      <3>. DEFINE base == <<>>
                  V == Seq(S)
      <3>. HIDE DEF F
      <3>1. base \in V /\ \A k \in 1 .. n : F[k] \in [V -> V]
        BY <2>2, <2>3
      <3>. HIDE DEF base, V
      <3>2. \E g : Folded(g, V, base, n, F)
        BY <2>1, <3>1, FoldExists
      <3>. QED BY <3>2 DEF base, V, Folded
    <2>5. IsKept(g, s, W, n)
      <3>1. ASSUME NEW k \in 0 .. n
            PROVE  (IF k = 0 THEN <<>> ELSE F[k][g[k - 1]])
                     = (IF k = 0 THEN <<>> ELSE IF s[k] \in W THEN Append(g[k - 1], s[k]) ELSE g[k - 1])
        <4>1. CASE k = 0
          BY <4>1
        <4>2. CASE k # 0
          <5>1. k - 1 \in 0 .. n /\ k \in 1 .. n
            BY <2>1, <4>2
          <5>2. g[k - 1] \in Seq(S)
            BY <2>4, <5>1
          <5>3. F[k][g[k - 1]] = IF s[k] \in W THEN Append(g[k - 1], s[k]) ELSE g[k - 1]
            BY <5>1, <5>2
          <5>. QED BY <4>2, <5>3, Zenon
        <4>. QED BY <4>1, <4>2
      <3>. HIDE DEF F
      <3>2. [k \in 0 .. n |-> IF k = 0 THEN <<>> ELSE F[k][g[k - 1]]]
              = [k \in 0 .. n |-> IF k = 0 THEN <<>> ELSE IF s[k] \in W THEN Append(g[k - 1], s[k]) ELSE g[k - 1]]
        BY <3>1, Zenon
      <3>. QED BY <2>4, <3>2, Zenon DEF IsKept
    <2>. QED BY <2>5, Zenon DEF IsKept, n
  <1>. QED BY <1>1, <1>2, Zenon

\* What is kept are elements of s that are in W, none further on than in s.
LEMMA Kept ==
  ASSUME NEW S, NEW s \in Seq(S), NEW W
  PROVE  /\ Keep(s, W) \in Seq(S)
         /\ \A i \in 1 .. Len(Keep(s, W)) : \E j \in 1 .. Len(s) : j >= i /\ Keep(s, W)[i] = s[j] /\ s[j] \in W
  <1>. DEFINE n == Len(s)
  <1>0. n \in Nat /\ \A k \in 1 .. n : s[k] \in S
    OBVIOUS
  <1>1. PICK g : IsKept(g, s, W, n) /\ Keep(s, W) = g[n]
    BY KeepRun
  <1>. DEFINE T == {k \in Nat : k <= n => /\ g[k] \in Seq(S) /\ Len(g[k]) <= k
                                          /\ \A i \in 1 .. Len(g[k]) : \E j \in 1 .. k : j >= i /\ g[k][i] = s[j] /\ s[j] \in W}
  <1>. HIDE DEF n
  <1>2. \A k \in 0 .. n : g[k] = IF k = 0 THEN <<>> ELSE IF s[k] \in W THEN Append(g[k - 1], s[k]) ELSE g[k - 1]
    BY <1>1 DEF IsKept
  <1>3. 0 \in T
    <2>1. g[0] = <<>>
      BY <1>0, <1>2
    <2>2. <<>> \in Seq(S) /\ Len(<<>>) = 0
      OBVIOUS
    <2>3. 1 .. 0 = {} /\ 0 <= 0
      OBVIOUS
    <2>. DEFINE e == g[0]
    <2>4. e \in Seq(S) /\ Len(e) = 0
      BY <2>1, <2>2
    <2>. HIDE DEF e
    <2>5. /\ e \in Seq(S) /\ Len(e) <= 0
          /\ \A i \in 1 .. Len(e) : \E j \in 1 .. 0 : j >= i /\ e[i] = s[j] /\ s[j] \in W
      BY <2>3, <2>4
    <2>. QED BY <2>5 DEF e
  <1>4. ASSUME NEW k \in Nat, k \in T PROVE k + 1 \in T
    <2>1. SUFFICES ASSUME k + 1 <= n
                   PROVE  /\ g[k + 1] \in Seq(S) /\ Len(g[k + 1]) <= k + 1
                          /\ \A i \in 1 .. Len(g[k + 1]) : \E j \in 1 .. k + 1 : j >= i /\ g[k + 1][i] = s[j] /\ s[j] \in W
      OBVIOUS
    <2>. DEFINE a == g[k]
                b == g[k + 1]
                x == s[k + 1]
    <2>2. b = (IF x \in W THEN Append(a, x) ELSE a) /\ x \in S
      <3>1. k + 1 \in 0 .. n /\ k + 1 # 0 /\ (k + 1) - 1 = k /\ k + 1 \in 1 .. n
        BY <2>1
      <3>. QED BY <1>0, <1>2, <3>1
    <2>3. a \in Seq(S) /\ Len(a) <= k /\ \A i \in 1 .. Len(a) : \E j \in 1 .. k : j >= i /\ a[i] = s[j] /\ s[j] \in W
      <3>1. k <= n
        BY <1>0, <2>1
      <3>. QED BY <1>4, <3>1
    <2>. HIDE DEF a, b
    <2>4. CASE x \notin W
      <3>1. b = a
        BY <2>2, <2>4
      <3>2. \A i \in 1 .. Len(a) : \E j \in 1 .. k + 1 : j >= i /\ a[i] = s[j] /\ s[j] \in W
        BY <2>3
      <3>3. Len(a) <= k + 1
        BY <2>3
      <3>. QED BY <2>3, <3>1, <3>2, <3>3 DEF b
    <2>5. CASE x \in W
      <3>1. b = Append(a, x)
        BY <2>2, <2>5
      <3>2. b \in Seq(S) /\ Len(b) = Len(a) + 1 /\ b[Len(a) + 1] = x /\ \A i \in 1 .. Len(a) : b[i] = a[i]
        BY <2>2, <2>3, <3>1
      <3>3. Len(a) \in Nat
        BY <2>3
      <3>4. ASSUME NEW i \in 1 .. Len(b) PROVE \E j \in 1 .. k + 1 : j >= i /\ b[i] = s[j] /\ s[j] \in W
        <4>1. CASE i \in 1 .. Len(a)
          BY <2>3, <3>2, <4>1
        <4>2. CASE i = Len(a) + 1
          <5>1. k + 1 \in 1 .. k + 1 /\ k + 1 >= i /\ b[i] = s[k + 1] /\ s[k + 1] \in W
            BY <2>3, <2>5, <3>2, <3>3, <4>2
          <5>. QED BY <5>1
        <4>. QED BY <3>2, <3>3, <4>1, <4>2
      <3>5. Len(b) <= k + 1
        BY <2>3, <3>2, <3>3
      <3>. QED BY <3>2, <3>4, <3>5 DEF b
    <2>. QED BY <2>4, <2>5
  <1>. HIDE DEF T
  <1>5. n \in T
    BY <1>0, <1>3, <1>4, Induction
  <1>. QED BY <1>0, <1>1, <1>5 DEF T, n

\* The words among three columns of which the last is not blank.
Three(a, b, c) == <<a, b, c>>

LEMMA Triple ==
  ASSUME NEW a, NEW b, NEW c
  PROVE  Three(a, b, c) \in Seq({a, b, c}) /\ Len(Three(a, b, c)) = 3
         /\ Three(a, b, c)[1] = a /\ Three(a, b, c)[2] = b /\ Three(a, b, c)[3] = c
  BY DEF Three

LEMMA InThree ==
  ASSUME NEW a, NEW b, NEW c, NEW x
  PROVE  x \in Range(Three(a, b, c)) <=> (x = a \/ x = b \/ x = c)
  <1>1. Range(Three(a, b, c)) = {a, b, c}
    BY DEF Range, Three
  <1>. QED BY <1>1

LEMMA AppendToOne ==
  ASSUME NEW S, NEW o \in Seq(S), NEW c \in S, Len(o) = 1
  PROVE  Append(o, c) \in Seq(S) /\ Len(Append(o, c)) = 2 /\ Append(o, c)[1] = o[1] /\ Append(o, c)[2] = c
  <1>1. Append(o, c) \in Seq(S) /\ Len(Append(o, c)) = Len(o) + 1
    BY AppendProperties
  <1>2. \A i \in 1 .. Len(o) : Append(o, c)[i] = o[i]
    BY AppendProperties
  <1>3. Append(o, c)[Len(o) + 1] = c
    BY AppendProperties
  <1>. QED BY <1>1, <1>2, <1>3

LEMMA AppendToShort ==
  ASSUME NEW b, NEW c
  PROVE  Append(<<>>, b) = <<b>> /\ Append(<<b>>, c) = <<b, c>> /\ Append(<<>>, c) = <<c>>
  <1>1. Append(<<>>, b) = <<b>> /\ Append(<<>>, c) = <<c>>
    OBVIOUS
  <1>. DEFINE S == {b, c}
              x == Append(<<b>>, c)
              y == <<b, c>>
  <1>2. x = y
    <2>1. x \in Seq(S) /\ Len(x) = 2 /\ x[1] = b /\ x[2] = c
      <3>1. <<b>> \in Seq(S) /\ c \in S /\ Len(<<b>>) = 1 /\ <<b>>[1] = b
        OBVIOUS
      <3>. DEFINE o == <<b>>
      <3>2. o \in Seq(S) /\ c \in S /\ Len(o) = 1 /\ o[1] = b
        BY <3>1
      <3>. HIDE DEF o, S
      <3>3. Append(o, c) \in Seq(S) /\ Len(Append(o, c)) = 2 /\ Append(o, c)[1] = o[1] /\ Append(o, c)[2] = c
        BY <3>2, AppendToOne
      <3>. QED BY <3>2, <3>3 DEF o
    <2>2. y \in Seq(S) /\ Len(y) = 2 /\ y[1] = b /\ y[2] = c
      OBVIOUS
    <2>. HIDE DEF x, y, S
    <2>3. \A i \in 1 .. 2 : x[i] = y[i]
      <3>1. \A i \in 1 .. 2 : i = 1 \/ i = 2
        OBVIOUS
      <3>. QED BY <2>1, <2>2, <3>1
    <2>. QED BY <2>1, <2>2, <2>3, SeqEqual
  <1>. QED BY <1>1, <1>2

LastTwo(b, c, W) == IF b \in W THEN <<b, c>> ELSE <<c>>

LEMMA KeptOfThree ==
  ASSUME NEW a, NEW b, NEW c, NEW W, a \notin W, c \in W
  PROVE  Keep(Three(a, b, c), W) = LastTwo(b, c, W)
  <1>. DEFINE s == Three(a, b, c)
              S == {a, b, c}
  <1>1. s \in Seq(S) /\ Len(s) = 3 /\ s[1] = a /\ s[2] = b /\ s[3] = c
    BY Triple
  <1>. HIDE DEF s, S
  <1>2. PICK g : IsKept(g, s, W, 3) /\ Keep(s, W) = g[3]
    BY <1>1, KeepRun
  <1>3. \A k \in 0 .. 3 : g[k] = IF k = 0 THEN <<>> ELSE IF s[k] \in W THEN Append(g[k - 1], s[k]) ELSE g[k - 1]
    BY <1>2, Zenon DEF IsKept
  <1>4. 0 \in 0 .. 3 /\ 1 \in 0 .. 3 /\ 2 \in 0 .. 3 /\ 3 \in 0 .. 3 /\ 1 - 1 = 0 /\ 2 - 1 = 1 /\ 3 - 1 = 2 /\ 1 # 0 /\ 2 # 0 /\ 3 # 0
    OBVIOUS
  <1>5. g[0] = <<>>
    BY <1>3, <1>4, Zenon
  <1>6. g[1] = IF s[1] \in W THEN Append(g[0], s[1]) ELSE g[0]
    BY <1>3, <1>4, Zenon
  <1>7. g[2] = IF s[2] \in W THEN Append(g[1], s[2]) ELSE g[1]
    BY <1>3, <1>4, Zenon
  <1>8. g[3] = IF s[3] \in W THEN Append(g[2], s[3]) ELSE g[2]
    BY <1>3, <1>4, Zenon
  <1>9. g[1] = <<>> /\ g[2] = (IF b \in W THEN Append(<<>>, b) ELSE <<>>) /\ g[3] = Append(g[2], c)
    BY <1>1, <1>5, <1>6, <1>7, <1>8, Zenon
  <1>10. Append(<<>>, b) = <<b>> /\ Append(<<b>>, c) = <<b, c>> /\ Append(<<>>, c) = <<c>>
    BY AppendToShort
  <1>. QED BY <1>2, <1>9, <1>10, Zenon DEF s, LastTwo

LEMMA NonEmptyOfThree ==
  ASSUME NEW e, NEW b, NEW c, c # e
  PROVE  Keep(Three(e, b, c), Range(Three(e, b, c)) \ {e}) = IF b # e THEN <<b, c>> ELSE <<c>>
  <1>. DEFINE W == Range(Three(e, b, c)) \ {e}
  <1>1. \A x : x \in Range(Three(e, b, c)) <=> (x = e \/ x = b \/ x = c)
    BY InThree
  <1>2. e \notin W /\ c \in W /\ (b \in W <=> b # e)
    BY <1>1
  <1>. HIDE DEF W
  <1>3. Keep(Three(e, b, c), W) = LastTwo(b, c, W)
    BY <1>2, KeptOfThree, Zenon
  <1>. QED BY <1>2, <1>3, Zenon DEF LastTwo, W

LEMMA ThreeWords ==
  ASSUME NEW b, NEW c, c # ""
  PROVE  Words(Three("", b, c)) = IF b # "" THEN <<b, c>> ELSE <<c>>
  <1>. DEFINE e == ""
  <1>. HIDE DEF e
  <1>1. Keep(Three(e, b, c), Range(Three(e, b, c)) \ {e}) = IF b # e THEN <<b, c>> ELSE <<c>>
    BY NonEmptyOfThree DEF e
  <1>. QED BY <1>1, Zenon DEF Words, e

LEMMA TotalRun ==
  ASSUME NEW lens \in Seq(Nat)
  PROVE  \E g : IsSum(g, lens, Len(lens)) /\ Total(lens) = g[Len(lens)]
  <1>. DEFINE sum == CHOOSE h : h = [k \in 0 .. Len(lens) |-> IF k = 0 THEN 0 ELSE h[k - 1] + lens[k]]
              n == Len(lens)
              F == [k \in 1 .. n |-> [x \in Nat |-> x + lens[k]]]
  <1>1. Total(lens) = sum[Len(lens)]
    BY Zenon DEF Total
  <1>2. IsSum(sum, lens, n)
    <2>1. n \in Nat /\ \A k \in 1 .. n : lens[k] \in Nat
      OBVIOUS
    <2>. HIDE DEF n
    <2>2. \A k \in 1 .. n : F[k] \in [Nat -> Nat]
      BY <2>1
    <2>3. PICK g : Folded(g, Nat, 0, n, F)
      <3>. HIDE DEF F
      <3>. QED BY <2>1, <2>2, FoldExists
    <2>4. IsSum(g, lens, n)
      <3>1. ASSUME NEW k \in 0 .. n
            PROVE  (IF k = 0 THEN 0 ELSE F[k][g[k - 1]]) = (IF k = 0 THEN 0 ELSE g[k - 1] + lens[k])
        <4>1. CASE k = 0
          BY <4>1
        <4>2. CASE k # 0
          <5>1. k - 1 \in 0 .. n /\ k \in 1 .. n
            BY <2>1, <4>2
          <5>2. g[k - 1] \in Nat
            BY <2>3, <5>1 DEF Folded
          <5>3. F[k][g[k - 1]] = g[k - 1] + lens[k]
            BY <5>1, <5>2
          <5>. QED BY <4>2, <5>3, Zenon
        <4>. QED BY <4>1, <4>2
      <3>. HIDE DEF F
      <3>2. [k \in 0 .. n |-> IF k = 0 THEN 0 ELSE F[k][g[k - 1]]] = [k \in 0 .. n |-> IF k = 0 THEN 0 ELSE g[k - 1] + lens[k]]
        BY <3>1, Zenon
      <3>. QED BY <2>3, <3>2, Zenon DEF IsSum, Folded
    <2>. QED BY <2>4, Zenon DEF IsSum, n
  <1>. QED BY <1>1, <1>2, Zenon

\* The first k lines, and the ones after them.
LEMMA Totals ==
  ASSUME NEW lens \in Seq(Nat), NEW k \in Nat, k <= Len(lens), NEW least \in Nat, \A i \in 1 .. Len(lens) : lens[i] >= least
  PROVE  /\ Total(SubSeq(lens, 1, k)) \in Nat /\ Total(lens) \in Nat
         /\ k = Len(lens) => Total(SubSeq(lens, 1, k)) = Total(lens)
         /\ k < Len(lens) => Total(SubSeq(lens, 1, k)) + least <= Total(lens)
  <1>. DEFINE n == Len(lens)
              a == SubSeq(lens, 1, k)
  <1>0. /\ n \in Nat /\ k <= n /\ a \in Seq(Nat) /\ Len(a) = k
        /\ (\A i \in 1 .. k : a[i] = lens[i]) /\ \A i \in 1 .. n : lens[i] \in Nat /\ lens[i] >= least
    OBVIOUS
  <1>1. PICK g : IsSum(g, lens, n) /\ Total(lens) = g[n]
    BY TotalRun
  <1>. HIDE DEF n, a
  <1>2. PICK h : IsSum(h, a, k) /\ Total(a) = h[k]
    BY <1>0, TotalRun
  <1>3. \A i \in 0 .. n : g[i] = IF i = 0 THEN 0 ELSE g[i - 1] + lens[i]
    BY <1>1 DEF IsSum
  <1>4. \A i \in 0 .. k : h[i] = IF i = 0 THEN 0 ELSE h[i - 1] + a[i]
    BY <1>2 DEF IsSum
  <1>. DEFINE T == {i \in Nat : i <= n => /\ g[i] \in Nat
                                          /\ i <= k => h[i] = g[i]
                                          /\ k < i => g[k] + least <= g[i] /\ g[k] \in Nat}
  <1>5. 0 \in T
    BY <1>0, <1>3, <1>4
  <1>6. ASSUME NEW i \in Nat, i \in T PROVE i + 1 \in T
    <2>1. SUFFICES ASSUME i + 1 <= n
                   PROVE  /\ g[i + 1] \in Nat
                          /\ i + 1 <= k => h[i + 1] = g[i + 1]
                          /\ k < i + 1 => g[k] + least <= g[i + 1] /\ g[k] \in Nat
      OBVIOUS
    <2>2. i + 1 \in 0 .. n /\ i + 1 # 0 /\ (i + 1) - 1 = i /\ i + 1 \in 1 .. n
      BY <1>0, <2>1
    <2>3. g[i + 1] = g[i] + lens[i + 1] /\ lens[i + 1] \in Nat /\ lens[i + 1] >= least
      BY <1>0, <1>3, <2>2
    <2>4. g[i] \in Nat /\ (i <= k => h[i] = g[i]) /\ (k < i => g[k] + least <= g[i] /\ g[k] \in Nat)
      BY <1>0, <1>6, <2>1
    <2>5. i + 1 <= k => h[i + 1] = g[i + 1]
      <3>1. SUFFICES ASSUME i + 1 <= k PROVE h[i + 1] = g[i + 1]
        OBVIOUS
      <3>2. i + 1 \in 0 .. k /\ i + 1 \in 1 .. k
        BY <3>1
      <3>. QED BY <1>0, <1>4, <2>2, <2>3, <2>4, <3>1, <3>2
    <2>6. k < i + 1 => g[k] + least <= g[i + 1] /\ g[k] \in Nat
      <3>1. CASE k = i
        BY <2>3, <2>4, <3>1
      <3>2. CASE k < i
        BY <2>3, <2>4, <3>2
      <3>. QED BY <3>1, <3>2
    <2>. QED BY <2>3, <2>4, <2>5, <2>6
  <1>. HIDE DEF T
  <1>7. n \in T /\ k \in T
    BY <1>0, <1>5, <1>6, Induction
  <1>8. g[n] \in Nat /\ h[k] = g[k] /\ g[k] \in Nat /\ (k < n => g[k] + least <= g[n])
    BY <1>0, <1>7 DEF T
  <1>. QED BY <1>1, <1>2, <1>8 DEF n, a

-----------------------------------------------------------------------------
(* What the other parsers make of a listing.                                *)

\* A word that is not there.
Blank == ""

LEMMA PairOf ==
  ASSUME NEW a, NEW b
  PROVE  <<a, b>>[1] = a /\ <<a, b>>[2] = b
  OBVIOUS

LEMMA TailOf ==
  ASSUME NEW S, NEW s \in Seq(S), Len(s) > 0
  PROVE  /\ Tail(s) \in Seq(S) /\ Len(Tail(s)) = Len(s) - 1 /\ Len(Tail(s)) \in Nat /\ SubSeq(s, 2, Len(s)) = Tail(s)
         /\ Len(s) > 1 => Tail(s)[1] = s[2] /\ Tail(s) # <<>>
         /\ SubSeq(Tail(s), 1, Len(Tail(s))) = Tail(s)
  <1>1. Tail(s) \in Seq(S) /\ Len(Tail(s)) = Len(s) - 1 /\ SubSeq(s, 2, Len(s)) = Tail(s) /\ Len(Tail(s)) \in Nat
    OBVIOUS
  <1>2. ASSUME Len(s) > 1
        PROVE  Tail(s)[1] = s[2] /\ Tail(s) # <<>>
    <2>1. Tail(s)[1] = s[2]
      BY <1>2
    <2>2. Tail(s) # <<>>
      <3>1. Len(Tail(s)) # 0
        BY <1>1, <1>2
      <3>2. Len(<<>>) = 0
        OBVIOUS
      <3>. QED BY <3>1, <3>2, Zenon
    <2>. QED BY <2>1, <2>2
  <1>3. SubSeq(Tail(s), 1, Len(Tail(s))) = Tail(s)
    OBVIOUS
  <1>. QED BY <1>1, <1>2, <1>3

\* A temperature of four letters at most leaves nothing for the next column.
LEMMA EntryTrue ==
  ASSUME NEW l \in VclLine, l.temp \notin DOMAIN LongTemps
  PROVE  VclEntry(l) = [name |-> l.name, status |-> l.status, temp |-> l.temp, mode |-> l.mode]
  <1>. DEFINE t == l.temp
              b == l.busy
              c == l.name
              sh == Short(t)
              rest == Words(<<sh[2], b, c>>)
              k == IF b # "" THEN 2 ELSE 1
  <1>1. c # ""
    BY DEF VclLine
  <1>2. sh = <<t, "">>
    BY Zenon DEF Short
  <1>3. sh[1] = t /\ sh[2] = ""
    <2>1. <<t, "">>[1] = t /\ <<t, "">>[2] = ""
      BY PairOf, Zenon
    <2>. QED BY <1>2, <2>1, Zenon
  <1>4. VclEntry(l) = [name |-> rest[k], status |-> l.status, temp |-> sh[1], mode |-> l.mode]
    BY Zenon DEF VclEntry
  <1>. HIDE DEF t, b, c, sh
  <1>5. rest = IF b # "" THEN <<b, c>> ELSE <<c>>
    <2>1. Words(Three("", b, c)) = IF b # "" THEN <<b, c>> ELSE <<c>>
      BY <1>1, ThreeWords
    <2>2. <<sh[2], b, c>> = Three("", b, c)
      BY <1>3, Zenon DEF Three
    <2>. QED BY <2>1, <2>2, Zenon
  <1>. HIDE DEF rest
  <1>6. rest[k] = c
    <2>1. CASE b # ""
      BY <1>5, <2>1
    <2>2. CASE b = ""
      BY <1>5, <2>2
    <2>. QED BY <2>1, <2>2
  <1>. HIDE DEF k
  <1>. QED BY <1>3, <1>4, <1>6 DEF t, c

LEMMA VclsListed ==
  ASSUME NEW l \in Seq(VclLine), l # <<>>, \A i \in DOMAIN l : l[i].temp \notin DOMAIN LongTemps /\ l[i].name \notin Quotes
  PROVE  vcl_list_json(l) = [i \in DOMAIN l |-> LET x == l[i]
                               IN [name |-> x.name, status |-> x.status, temp |-> x.temp, mode |-> x.mode]]
  <1>1. \A i \in DOMAIN l : l[i] \in VclLine
    OBVIOUS
  <1>2. ASSUME NEW i \in DOMAIN l
        PROVE  VclEntry(l[i]) = [name |-> l[i].name, status |-> l[i].status, temp |-> l[i].temp, mode |-> l[i].mode]
    BY <1>1, EntryTrue, Zenon
  <1>3. ASSUME NEW i \in DOMAIN l PROVE VclEntry(l[i]).name \notin Quotes
    <2>1. VclEntry(l[i]).name = l[i].name
      BY <1>2
    <2>. QED BY <2>1, Zenon
  <1>4. vcl_list_json(l) = [i \in DOMAIN l |-> VclEntry(l[i])]
    BY <1>3, Zenon DEF vcl_list_json
  <1>. QED BY <1>2, <1>4, Zenon

LEMMA SeqOfNats ==
  ASSUME NEW s \in Seq(Nat \ {0})
  PROVE  s \in Seq(Nat)
  OBVIOUS

\* The heading that is counted twice is made up for by a line it is not longer
\* than, and by its being longer than there are line feeds.
LEMMA BackendsListed ==
  ASSUME NEW raw, raw.heading \in Nat, raw.lines \in Seq(Nat \ {0})
  PROVE  BackendsTrue(raw, vbackends_show_json(raw))
  <1>. DEFINE h == raw.heading
              ls == raw.lines
              n == Len(ls)
              feeds == n + (IF raw.feed THEN 1 ELSE 0)
  <1>1. SUFFICES ASSUME n < h, \A i \in DOMAIN ls : ls[i] >= h, NEW k \in DOMAIN ls
                 PROVE  vbackends_show_json(raw)[k].comma <=> k # n
    BY Zenon DEF BackendsTrue
  <1>2. n \in Nat /\ DOMAIN ls = 1 .. n /\ feeds \in {n, n + 1}
    <2>1. ls \in Seq(Nat)
      BY SeqOfNats
    <2>. HIDE DEF ls
    <2>2. n \in Nat /\ DOMAIN ls = 1 .. n
      BY <2>1
    <2>. HIDE DEF n
    <2>. QED BY <2>2
  <1>3. vbackends_show_json(raw)[k].comma = Comma(raw, k)
    BY DEF vbackends_show_json
  <1>4. Comma(raw, k) <=> h + h + Total(SubSeq(ls, 1, k)) < h + Total(ls) + feeds
    BY Zenon DEF Comma
  <1>. HIDE DEF h, ls, n, feeds
  <1>. DEFINE a == Total(SubSeq(ls, 1, k))
              b == Total(ls)
  <1>5. a \in Nat /\ b \in Nat /\ (k = n => a = b) /\ (k < n => a + h <= b)
    <2>1. k \in Nat /\ k <= n /\ h \in Nat /\ ls \in Seq(Nat)
      BY <1>2 DEF h, ls
    <2>2. \A i \in 1 .. Len(ls) : ls[i] >= h
      BY <1>1, <1>2 DEF n
    <2>. QED BY <2>1, <2>2, Totals DEF n
  <1>. HIDE DEF a, b
  <1>6. h \in Nat /\ k \in 1 .. n
    BY <1>2 DEF h
  <1>7. (h + h + a < h + b + feeds) <=> k # n
    <2>1. CASE feeds = n
      BY <1>1, <1>2, <1>5, <1>6, <2>1
    <2>2. CASE feeds = n + 1
      BY <1>1, <1>2, <1>5, <1>6, <2>2
    <2>. QED BY <1>2, <2>1, <2>2
  <1>. QED BY <1>3, <1>4, <1>7 DEF a, b

\* The argument of /log when there is no slash too many.
LEMMA ArgumentIsTail ==
  ASSUME NEW S, NEW url \in Seq(S), NEW l, Len(l.path) = 1, Len(url) > 1, url[2] # Blank
  PROVE  Argument(l, url) = Tail(url)
  <1>. DEFINE rest == SubSeq(url, Len(l.path) + 1, Len(url))
              I == {i \in 1 .. Len(rest) : rest[i] # Blank}
              word == SelectInSeq(rest, LAMBDA w : w # Blank)
              tail == Tail(url)
  <1>1. rest = tail /\ tail \in Seq(S) /\ Len(tail) \in Nat \ {0} /\ tail[1] = url[2] /\ SubSeq(tail, 1, Len(tail)) = tail
    <2>1. rest = SubSeq(url, 2, Len(url))
      <3>1. Len(l.path) + 1 = 2
        OBVIOUS
      <3>. QED BY <3>1, Zenon
    <2>. DEFINE n == Len(url)
    <2>2. n > 1 /\ n \in Nat
      OBVIOUS
    <2>3. /\ tail \in Seq(S) /\ Len(tail) = n - 1 /\ SubSeq(url, 2, n) = tail
          /\ tail[1] = url[2] /\ SubSeq(tail, 1, Len(tail)) = tail
      <3>1. Len(url) > 0
        OBVIOUS
      <3>. QED BY <2>2, <3>1, TailOf, Zenon
    <2>. HIDE DEF tail, n, rest
    <2>4. Len(tail) \in Nat \ {0}
      BY <2>2, <2>3
    <2>. QED BY <2>1, <2>3, <2>4, Zenon DEF n
  <1>2. word = IF I # {} THEN Min(I) ELSE 0
    BY Zenon DEF SelectInSeq
  <1>3. Argument(l, url) = IF word = 0 THEN <<>> ELSE SubSeq(rest, word, Len(rest))
    BY Zenon DEF Argument, Blank
  <1>. HIDE DEF rest, word, tail
  <1>4. 1 \in I /\ \A i \in I : i \in Nat /\ 1 <= i
    <2>1. 1 \in 1 .. Len(rest) /\ \A i \in 1 .. Len(rest) : i \in Nat /\ 1 <= i
      BY <1>1
    <2>2. rest[1] # Blank
      BY <1>1, Zenon
    <2>. QED BY <2>1, <2>2, Zenon
  <1>. HIDE DEF I
  <1>5. Min(I) = 1
    BY <1>4 DEF Min
  <1>6. word = 1
    BY <1>2, <1>4, <1>5
  <1>7. 1 # 0
    OBVIOUS
  <1>. QED BY <1>1, <1>3, <1>6, <1>7, Zenon DEF tail

LEMMA NumberIsNat ==
  ASSUME NEW w, IsNumber(w)
  PROVE  Number[w] \in 0 .. 2
  <1>1. Range(Numbers) = {"0", "1", "2"}
    BY DEF Range, Numbers
  <1>2. \E n \in 0 .. 2 : Numbers[n + 1] = w
    <2>1. Numbers[0 + 1] = "0" /\ Numbers[1 + 1] = "1" /\ Numbers[2 + 1] = "2"
      BY DEF Numbers
    <2>2. w = "0" \/ w = "1" \/ w = "2"
      BY <1>1 DEF IsNumber
    <2>. QED BY <2>1, <2>2
  <1>3. Number[w] = CHOOSE n \in 0 .. 2 : Numbers[n + 1] = w
    BY Zenon DEF Number, IsNumber
  <1>. QED BY <1>2, <1>3

LEMMA LogListed ==
  ASSUME NEW S, NEW url \in Seq(S), NEW l, Len(l.path) = 1, Len(url) > 0, NEW log, log \in Seq(Range(log))
  PROVE  LET arg   == Argument(l, url)
             limit == IF arg = <<>> THEN 10 ELSE Number[arg[1]]
             tags  == IF Len(arg) > 1 /\ arg[2] # "" THEN <<arg[2]>> ELSE <<>>
         IN  (arg # <<>> => IsNumber(arg[1])) => LogTrue(Tail(url), log, vlog_cb_func(limit, tags, log))
  <1>. DEFINE arg == Argument(l, url)
              limit == IF arg = <<>> THEN 10 ELSE Number[arg[1]]
              tags == IF Len(arg) > 1 /\ arg[2] # "" THEN <<arg[2]>> ELSE <<>>
              W == {r \in Range(log) : tags \in {<<>>, <<r.tag>>}}
              hits == Keep(log, W)
              m == IF Len(hits) < limit THEN Len(hits) ELSE limit
              out == vlog_cb_func(limit, tags, log)
              tail == Tail(url)
  <1>1. SUFFICES ASSUME arg # <<>> => IsNumber(arg[1]) PROVE LogTrue(tail, log, out)
    BY Zenon
  <1>2. /\ tail \in Seq(S) /\ Len(tail) = Len(url) - 1 /\ Len(tail) \in Nat /\ Len(url) \in Nat
        /\ Len(url) > 1 => tail[1] = url[2] /\ tail # <<>>
    BY TailOf
  <1>3. Len(tail) > 0 /\ tail[1] # Blank => arg = tail /\ Len(tail) # 0 /\ tail # <<>>
    <2>1. SUFFICES ASSUME Len(tail) > 0, tail[1] # Blank PROVE arg = tail /\ Len(tail) # 0 /\ tail # <<>>
      OBVIOUS
    <2>. HIDE DEF tail
    <2>2. Len(url) > 1 /\ Len(tail) # 0
      BY <1>2, <2>1
    <2>3. url[2] # Blank /\ tail # <<>>
      BY <1>2, <2>1, <2>2, Zenon
    <2>4. arg = tail
      BY <2>2, <2>3, ArgumentIsTail DEF tail
    <2>. QED BY <2>2, <2>3, <2>4
  <1>4. limit \in Nat
    BY <1>1, NumberIsNat
  <1>5. out = [i \in 1 .. m |-> [rec |-> hits[i], comma |-> i # 1]]
    BY Zenon DEF vlog_cb_func
  <1>6. hits \in Seq(Range(log)) /\ \A i \in 1 .. Len(hits) : \E j \in 1 .. Len(log) : j >= i /\ hits[i] = log[j] /\ log[j] \in W
    <2>. HIDE DEF W
    <2>. QED BY Kept
  <1>7. \A x \in W : tags = <<>> \/ tags = <<x.tag>>
    BY Zenon
  <1>8. Len(tail) > 1 /\ "" \notin {tail[1], tail[2]} => tags = <<tail[2]>> /\ tags # <<>>
    <2>1. SUFFICES ASSUME Len(tail) > 1, tail[1] # "", tail[2] # "" PROVE tags = <<tail[2]>> /\ tags # <<>>
      BY Zenon
    <2>. HIDE DEF tail, arg
    <2>2. arg = tail
      <3>1. Len(tail) > 0
        <4>. DEFINE n == Len(tail)
        <4>1. n > 1 /\ n \in Nat
          BY <1>2, <2>1, Zenon
        <4>. HIDE DEF n
        <4>2. n > 0
          BY <4>1
        <4>. QED BY <4>2 DEF n
      <3>. QED BY <1>3, <2>1, <3>1, Zenon DEF Blank
    <2>3. tags = <<tail[2]>>
      BY <2>1, <2>2, Zenon
    <2>4. <<tail[2]>> # <<>>
      OBVIOUS
    <2>. QED BY <2>3, <2>4, Zenon
  <1>9. IsNumber(tail[1]) => tail[1] # Blank
    <2>1. Range(Numbers) = {"0", "1", "2"}
      BY DEF Range, Numbers
    <2>. QED BY <2>1 DEF IsNumber, Blank
  <1>10. Len(tail) > 0 /\ IsNumber(tail[1]) => limit = Number[tail[1]]
    <2>1. SUFFICES ASSUME Len(tail) > 0, IsNumber(tail[1]) PROVE limit = Number[tail[1]]
      OBVIOUS
    <2>2. arg = tail /\ tail # <<>>
      BY <1>3, <1>9, <2>1
    <2>. HIDE DEF arg, tail
    <2>. QED BY <2>2, Zenon
  <1>. HIDE DEF arg, limit, tags, W, hits, out, tail
  <1>11. m \in Nat /\ m <= limit /\ m <= Len(hits) /\ Len(hits) \in Nat
    <2>1. Len(hits) \in Nat
      BY <1>6
    <2>. QED BY <1>4, <2>1
  <1>. HIDE DEF m
  <1>12. Len(out) = m /\ DOMAIN out = 1 .. m /\ \A i \in 1 .. m : out[i].rec = hits[i]
    BY <1>5, <1>11
  <1>13. Len(tail) > 0 /\ IsNumber(tail[1]) => Len(out) <= Number[tail[1]]
    BY <1>10, <1>11, <1>12
  <1>14. ASSUME NEW i \in DOMAIN out
         PROVE  \E j \in DOMAIN log : j >= i /\ out[i].rec = log[j] /\ (Len(tail) > 1 /\ "" \notin {tail[1], tail[2]} => log[j].tag = tail[2])
    <2>1. i \in 1 .. Len(hits) /\ out[i].rec = hits[i]
      BY <1>11, <1>12
    <2>2. PICK j \in 1 .. Len(log) : j >= i /\ hits[i] = log[j] /\ log[j] \in W
      BY <1>6, <2>1
    <2>3. j \in DOMAIN log
      <3>. DEFINE R == Range(log)
      <3>1. log \in Seq(R)
        OBVIOUS
      <3>. HIDE DEF R
      <3>. QED BY <3>1
    <2>4. Len(tail) > 1 /\ "" \notin {tail[1], tail[2]} => log[j].tag = tail[2]
      <3>1. SUFFICES ASSUME Len(tail) > 1 /\ "" \notin {tail[1], tail[2]} PROVE log[j].tag = tail[2]
        OBVIOUS
      <3>2. tags = <<tail[2]>> /\ tags # <<>>
        BY <1>8, <3>1, Zenon
      <3>3. tags = <<log[j].tag>>
        BY <1>7, <2>2, <3>2
      <3>. DEFINE x == tail[2]
                  y == log[j].tag
      <3>4. <<x>> = <<y>>
        BY <3>2, <3>3
      <3>. HIDE DEF x, y
      <3>5. x = y
        BY <3>4
      <3>. QED BY <3>5 DEF x, y
    <2>. QED BY <2>1, <2>2, <2>3, <2>4
  <1>. QED BY <1>13, <1>14, Zenon DEF LogTrue
=============================================================================
