----------------------------- MODULE IpcProofs -----------------------------
(***************************************************************************)
(* Proofs about Ipc, for any set of handles, any assignment of consumers   *)
(* and providers to them, any command sizes and any socket capacities; the *)
(* bound of ServedInTurn at the end.                                       *)
(***************************************************************************)
EXTENDS MCIpcTurns, SequenceTheorems, TLAPS

USE DEF TimedOut

-----------------------------------------------------------------------------
(* Types.                                                                  *)

LEMMA InitTypeOK == Init => TypeOK
  BY DEF Init, TypeOK, Position, Unit

LEMMA CallTypeOK ==
  ASSUME TypeOK, NEW h \in Handles, Call(h)
  PROVE  TypeOK'
<1>1. PICK k \in Sizes : put' = [put EXCEPT ![h] = [n |-> @.n + 1, left |-> k]]
  BY DEF Call
<1>2. k \in Nat
  BY SizesAssumption
<1>3. put' \in [Handles -> Position]
  BY <1>1, <1>2 DEF TypeOK, Position
<1> QED
  BY <1>3 DEF TypeOK, Call

LEMMA WriteHeaderTypeOK ==
  ASSUME TypeOK, NEW h \in Handles, WriteHeader(h)
  PROVE  TypeOK'
<1> DEFINE u == [hdr |-> TRUE, n |-> put[h].n, left |-> put[h].left]
<1>1. u \in Unit
  BY DEF TypeOK, Position, Unit
<1>2. Append(req[h], u) \in Seq(Unit)
  BY <1>1, AppendProperties DEF TypeOK
<1>3. req' \in [Handles -> Seq(Unit)]
  BY <1>2 DEF TypeOK, WriteHeader
<1>4. pc' \in [Handles -> {"idle", "header", "data", "wait"}]
  BY DEF TypeOK, WriteHeader
<1> QED
  BY <1>3, <1>4 DEF TypeOK, WriteHeader

LEMMA WriteDataTypeOK ==
  ASSUME TypeOK, NEW h \in Handles, WriteData(h), put[h].left > 0
  PROVE  TypeOK'
<1> DEFINE u == [hdr |-> FALSE, n |-> put[h].n, left |-> put[h].left - 1]
<1>0. put[h].left - 1 \in Nat /\ put[h].n \in Nat /\ put[h] \in Position
  BY DEF TypeOK, Position
<1>1. u \in Unit
  BY <1>0 DEF Unit
<1>2. Append(req[h], u) \in Seq(Unit)
  BY <1>1, AppendProperties DEF TypeOK
<1>3. req' \in [Handles -> Seq(Unit)]
  BY <1>2 DEF TypeOK, WriteData
<1>4. pc' \in [Handles -> {"idle", "header", "data", "wait"}]
  BY DEF TypeOK, WriteData
<1>5. put' \in [Handles -> Position]
  BY <1>0 DEF TypeOK, WriteData, Position
<1> QED
  BY <1>3, <1>4, <1>5 DEF TypeOK, WriteData

LEMMA ReadResultTypeOK ==
  ASSUME TypeOK, NEW h \in Handles, ReadResult(h)
  PROVE  TypeOK'
<1>1. Tail(rep[h]) \in Seq(Nat) /\ Head(rep[h]) \in Nat
  BY HeadTailProperties DEF TypeOK, ReadResult
<1>2. rep' \in [Handles -> Seq(Nat)]
  BY <1>1 DEF TypeOK, ReadResult
<1>3. last' \in [Handles -> [call : Nat, answer : Nat]]
  BY <1>1 DEF TypeOK, ReadResult, Position
<1>4. read' \in [Handles -> Nat] /\ pc' \in [Handles -> {"idle", "header", "data", "wait"}]
  BY DEF TypeOK, ReadResult
<1> QED
  BY <1>2, <1>3, <1>4 DEF TypeOK, ReadResult

LEMMA TimeoutTypeOK ==
  ASSUME TypeOK, NEW h \in Handles, Timeout(h)
  PROVE  TypeOK'
<1>1. last' \in [Handles -> [call : Nat, answer : Nat]]
  BY DEF TypeOK, Timeout, Position
<1> QED
  BY <1>1 DEF TypeOK, Timeout

LEMMA PollTypeOK ==
  ASSUME TypeOK, NEW p \in Plugins, Poll(p)
  PROVE  TypeOK'
  BY DEF TypeOK, Poll

LEMMA ReadHeaderTypeOK ==
  ASSUME TypeOK, NEW h \in Handles, ReadHeader(h)
  PROVE  TypeOK'
<1>1. Head(req[h]) \in Unit /\ Tail(req[h]) \in Seq(Unit)
  BY HeadTailProperties DEF TypeOK, ReadHeader
<1>2. got' \in [Handles -> Position]
  BY <1>1 DEF TypeOK, ReadHeader, Position, Unit
<1>3. req' \in [Handles -> Seq(Unit)]
  BY <1>1 DEF TypeOK, ReadHeader
<1>4. phase' \in [Handles -> {"none", "ready", "data", "cb", "reply"}]
  BY DEF TypeOK, ReadHeader
<1> QED
  BY <1>2, <1>3, <1>4 DEF TypeOK, ReadHeader

LEMMA ReadDataTypeOK ==
  ASSUME TypeOK, NEW h \in Handles, ReadData(h), got[h].left > 0
  PROVE  TypeOK'
<1>1. Head(req[h]) \in Unit /\ Tail(req[h]) \in Seq(Unit)
  BY HeadTailProperties DEF TypeOK, ReadData
<1>2. got[h].left - 1 \in Nat
  BY DEF TypeOK, Position
<1>3. got' \in [Handles -> Position]
  BY <1>1, <1>2 DEF TypeOK, ReadData, Position, Unit
<1>4. req' \in [Handles -> Seq(Unit)]
  BY <1>1 DEF TypeOK, ReadData
<1>5. phase' \in [Handles -> {"none", "ready", "data", "cb", "reply"}]
  BY DEF TypeOK, ReadData
<1> QED
  BY <1>3, <1>4, <1>5 DEF TypeOK, ReadData

LEMMA CallbackTypeOK ==
  ASSUME TypeOK, NEW h \in Handles, Callback(h)
  PROVE  TypeOK'
  BY DEF TypeOK, Callback

LEMMA WriteResultTypeOK ==
  ASSUME TypeOK, NEW h \in Handles, WriteResult(h)
  PROVE  TypeOK'
<1>1. Append(rep[h], got[h].n) \in Seq(Nat)
  BY AppendProperties DEF TypeOK, Position
<1>2. rep' \in [Handles -> Seq(Nat)]
  BY <1>1 DEF TypeOK, WriteResult
<1> QED
  BY <1>2 DEF TypeOK, WriteResult

-----------------------------------------------------------------------------
(* The inductive invariant, one handle at a time.                          *)

\* Nothing about g changed in this step.
Same(g) ==
    /\ pc'[g] = pc[g]             /\ put'[g] = put[g]     /\ req'[g] = req[g]
    /\ phase'[g] = phase[g]       /\ got'[g] = got[g]     /\ rep'[g] = rep[g]
    /\ read'[g] = read[g]         /\ last'[g] = last[g]
    /\ timeouts'[g] = timeouts[g]

LEMMA SameKeepsInv ==
  ASSUME NEW g \in Handles, HandleInv(g), Same(g)
  PROVE  HandleInv(g)'
<1>1. Written(g)' = Written(g)
  BY DEF Same, Written
<1>2. StreamInv(g)'
  BY <1>1 DEF HandleInv, StreamInv, Same
<1>3. ReaderInv(g)' /\ WriterInv(g)' /\ ReplyInv(g)' /\ LagInv(g)'
  BY <1>1 DEF HandleInv, ReaderInv, WriterInv, ReplyInv, LagInv, Same, Serving
<1> QED
  BY <1>2, <1>3 DEF HandleInv

\* Every action but Poll is about one handle.
LEMMA OthersSame ==
  ASSUME TypeOK, NEW h \in Handles, Consumer(h) \/ ProviderOf(h),
         NEW g \in Handles, g # h
  PROVE  Same(g)
<1>1. CASE Call(h)
  BY <1>1 DEF TypeOK, Call, Same
<1>2. CASE WriteHeader(h)
  BY <1>2 DEF TypeOK, WriteHeader, Same
<1>3. CASE WriteData(h)
  BY <1>3 DEF TypeOK, WriteData, Same
<1>4. CASE ReadResult(h)
  BY <1>4 DEF TypeOK, ReadResult, Same
<1>5. CASE Timeout(h)
  BY <1>5 DEF TypeOK, Timeout, Same
<1>6. CASE ReadHeader(h)
  BY <1>6 DEF TypeOK, ReadHeader, Same
<1>7. CASE ReadData(h)
  BY <1>7 DEF TypeOK, ReadData, Same
<1>8. CASE Callback(h)
  BY <1>8 DEF TypeOK, Callback, Same
<1>9. CASE WriteResult(h)
  BY <1>9 DEF TypeOK, WriteResult, Same
<1> QED
  BY <1>1, <1>2, <1>3, <1>4, <1>5, <1>6, <1>7, <1>8, <1>9 DEF Consumer, ProviderOf

\* The types of what belongs to one handle, and of what Head, Tail and
\* Append make of it.
LEMMA HandleTypes ==
  ASSUME TypeOK, NEW h \in Handles
  PROVE  /\ put[h] \in Position /\ put[h].n \in Nat /\ put[h].left \in Nat
         /\ got[h] \in Position /\ got[h].n \in Nat /\ got[h].left \in Nat
         /\ req[h] \in Seq(Unit) /\ Len(req[h]) \in Nat
         /\ \A i \in 1 .. Len(req[h]) : req[h][i] \in Unit
         /\ rep[h] \in Seq(Nat) /\ Len(rep[h]) \in Nat
         /\ read[h] \in Nat /\ timeouts[h] \in Nat
         /\ last[h].call \in Nat /\ last[h].answer \in Nat
  BY DEF TypeOK, Position

LEMMA CallInv ==
  ASSUME TypeOK, NEW h \in Handles, HandleInv(h), Call(h)
  PROVE  HandleInv(h)'
<1>1. PICK k \in Sizes : put' = [put EXCEPT ![h] = [n |-> @.n + 1, left |-> k]]
  BY DEF Call
<1>2. k \in Nat
  BY SizesAssumption
<1>3. /\ put'[h].n = put[h].n + 1 /\ put'[h].left = k
      /\ pc[h] = "idle" /\ pc'[h] = "header"
      /\ req'[h] = req[h] /\ got'[h] = got[h] /\ phase'[h] = phase[h]
      /\ rep'[h] = rep[h] /\ read'[h] = read[h] /\ last'[h] = last[h]
      /\ timeouts'[h] = timeouts[h]
  BY <1>1 DEF Call, MayCall, Calling, TypeOK
<1>4. put[h] = [n |-> put[h].n, left |-> 0]
  BY <1>3 DEF HandleInv, WriterInv, TypeOK, Position
<1>5. Written(h)' = Written(h)
  BY <1>3, <1>4, HandleTypes DEF Written
<1>6. StreamInv(h)' /\ ReaderInv(h)'
  BY <1>3, <1>5 DEF HandleInv, StreamInv, ReaderInv
<1>7. WriterInv(h)' /\ ReplyInv(h)' /\ LagInv(h)'
  BY <1>2, <1>3, HandleTypes DEF HandleInv, WriterInv, ReplyInv, LagInv, Serving
<1> QED
  BY <1>6, <1>7 DEF HandleInv

\* Writing a unit that continues the stream keeps the stream in order.
LEMMA StreamAppend ==
  ASSUME NEW s \in Seq(Unit), NEW from \in Position, NEW to \in Position,
         NEW u \in Unit, InOrder(s, from, to), Follows(to, u)
  PROVE  InOrder(Append(s, u), from, [n |-> u.n, left |-> u.left])
<1> DEFINE t == Append(s, u)
<1>1. /\ t # <<>> /\ Len(t) = Len(s) + 1 /\ t[Len(s) + 1] = u
      /\ \A i \in 1 .. Len(s) : t[i] = s[i]
  BY AppendProperties
<1>2. Len(s) \in Nat /\ (s = <<>> <=> Len(s) = 0)
  BY EmptySeq
<1>3. u.n \in Nat /\ to.n \in Nat /\ to.n <= u.n
  BY DEF Follows, Unit, Position
<1>4. \A i \in 1 .. Len(s) : s[i].n \in Nat
  <2>1. \A i \in 1 .. Len(s) : s[i] \in Unit
    BY ElementOfSeq
  <2> QED
    BY <2>1 DEF Unit
<1> HIDE DEF t
<1>5. Follows(from, t[1])
  <2>1. CASE s = <<>>
    BY <1>1, <1>2, <2>1 DEF InOrder
  <2>2. CASE s # <<>>
    BY <1>1, <1>2, <2>2 DEF InOrder
  <2> QED
    BY <2>1, <2>2
<1>6. ASSUME NEW i \in 1 .. Len(t) - 1
      PROVE  Follows(t[i], t[i + 1])
  <2>1. CASE i < Len(s)
    BY <1>1, <1>2, <2>1 DEF InOrder
  <2>2. CASE i = Len(s)
    <3>1. s # <<>> /\ t[i] = s[Len(s)] /\ t[i + 1] = u
      BY <1>1, <1>2, <2>2
    <3> QED
      BY <3>1 DEF Follows, InOrder
  <2> QED
    BY <1>1, <1>2, <2>1, <2>2
<1>7. ASSUME NEW i \in 1 .. Len(t)
      PROVE  t[i].n <= u.n
  <2>1. CASE i <= Len(s)
    BY <1>1, <1>2, <1>3, <1>4, <2>1 DEF InOrder
  <2>2. CASE i = Len(s) + 1
    BY <1>1, <1>3, <2>2
  <2> QED
    BY <1>1, <1>2, <2>1, <2>2
<1> QED
  BY <1>1, <1>5, <1>6, <1>7 DEF t, InOrder

\* Reading the first unit keeps the rest in order, from that unit on.
LEMMA StreamTail ==
  ASSUME NEW s \in Seq(Unit), s # <<>>, NEW from \in Position, NEW to \in Position,
         InOrder(s, from, to)
  PROVE  /\ Follows(from, s[1]) /\ s[1].n <= to.n
         /\ InOrder(Tail(s), [n |-> s[1].n, left |-> s[1].left], to)
<1> DEFINE t == Tail(s)
<1>1. t \in Seq(Unit) /\ Len(t) = Len(s) - 1 /\ \A i \in 1 .. Len(t) : t[i] = s[i + 1]
  BY HeadTailProperties
<1>2. Len(s) \in Nat /\ Len(s) > 0
  BY EmptySeq
<1> HIDE DEF t
<1>3. t = <<>> <=> Len(s) = 1
  BY <1>1, <1>2, EmptySeq
<1>4. t # <<>> => t[1] = s[2] /\ t[Len(t)] = s[Len(s)] /\ Follows(s[1], s[2])
  BY <1>1, <1>2, <1>3 DEF InOrder
<1>5. \A i \in 1 .. Len(t) : t[i].n <= to.n
  BY <1>1, <1>2 DEF InOrder
<1>6. \A i \in 1 .. Len(t) - 1 : Follows(t[i], t[i + 1])
  BY <1>1, <1>2 DEF InOrder
<1>7. Follows(from, s[1]) /\ s[1].n <= to.n
  BY <1>2 DEF InOrder
<1>8. InOrder(t, [n |-> s[1].n, left |-> s[1].left], to)
  <2>1. t = <<>> => to = [n |-> s[1].n, left |-> s[1].left]
    BY <1>3 DEF InOrder
  <2>2. t # <<>> => /\ Follows([n |-> s[1].n, left |-> s[1].left], t[1])
                    /\ to = [n |-> t[Len(t)].n, left |-> t[Len(t)].left]
    BY <1>4 DEF InOrder, Follows
  <2> QED
    BY <1>5, <1>6, <2>1, <2>2 DEF InOrder
<1> QED
  BY <1>7, <1>8 DEF t

\* The writer's position.
LEMMA WrittenType ==
  ASSUME TypeOK, NEW h \in Handles, HandleInv(h)
  PROVE  Written(h) \in Position
<1>1. pc[h] = "header" => put[h].n - 1 \in Nat
  BY HandleTypes DEF HandleInv, WriterInv
<1> QED
  BY <1>1, HandleTypes DEF Written, Position

LEMMA WriteHeaderInv ==
  ASSUME TypeOK, NEW h \in Handles, HandleInv(h), WriteHeader(h)
  PROVE  HandleInv(h)'
<1> DEFINE u == [hdr |-> TRUE, n |-> put[h].n, left |-> put[h].left]
<1>1. /\ put'[h] = put[h] /\ pc[h] = "header"
      /\ pc'[h] = IF put[h].left = 0 THEN "wait" ELSE "data"
      /\ req'[h] = Append(req[h], u) /\ got'[h] = got[h] /\ phase'[h] = phase[h]
      /\ rep'[h] = rep[h] /\ read'[h] = read[h] /\ last'[h] = last[h]
      /\ timeouts'[h] = timeouts[h]
  BY DEF WriteHeader, TypeOK
<1>2. u \in Unit
  BY HandleTypes DEF Unit
<1>3. Follows(Written(h), u) /\ Written(h).n <= put[h].n
  BY <1>1, HandleTypes DEF Follows, Written
<1>4. Written(h)' = [n |-> u.n, left |-> u.left]
  BY <1>1, HandleTypes DEF Written, Position
<1> HIDE DEF u
<1>5. StreamInv(h)'
  <2>1. InOrder(req[h], got[h], Written(h))
    BY DEF HandleInv, StreamInv
  <2>2. InOrder(Append(req[h], u), got[h], [n |-> u.n, left |-> u.left])
    BY <1>2, <1>3, <2>1, HandleTypes, WrittenType, StreamAppend
  <2> QED
    BY <1>1, <1>4, <2>2 DEF StreamInv
<1>6. ReaderInv(h)'
  BY <1>1, <1>3, <1>4, HandleTypes, WrittenType DEF HandleInv, ReaderInv, u, Position
<1>7. WriterInv(h)' /\ ReplyInv(h)' /\ LagInv(h)'
  BY <1>1, HandleTypes DEF HandleInv, WriterInv, ReplyInv, LagInv, Serving
<1> QED
  BY <1>5, <1>6, <1>7 DEF HandleInv

LEMMA WriteDataInv ==
  ASSUME TypeOK, NEW h \in Handles, HandleInv(h), WriteData(h)
  PROVE  HandleInv(h)'
<1> DEFINE u == [hdr |-> FALSE, n |-> put[h].n, left |-> put[h].left - 1]
<1>1. put[h].left > 0 /\ put[h].left - 1 \in Nat
  BY HandleTypes DEF HandleInv, WriterInv, WriteData
<1>2. /\ put'[h] = [n |-> u.n, left |-> u.left] /\ pc[h] = "data"
      /\ pc'[h] = IF put[h].left = 1 THEN "wait" ELSE "data"
      /\ req'[h] = Append(req[h], u) /\ got'[h] = got[h] /\ phase'[h] = phase[h]
      /\ rep'[h] = rep[h] /\ read'[h] = read[h] /\ last'[h] = last[h]
      /\ timeouts'[h] = timeouts[h]
  BY DEF WriteData, TypeOK, Position
<1>3. u \in Unit
  BY <1>1, HandleTypes DEF Unit
<1>4. Written(h) = put[h] /\ Written(h)' = [n |-> u.n, left |-> u.left]
  BY <1>2 DEF Written
<1>5. Follows(Written(h), u)
  BY <1>1, <1>4 DEF Follows
<1>6. u.n = put[h].n /\ u.left = put[h].left - 1
  OBVIOUS
<1> HIDE DEF u
<1>7. StreamInv(h)'
  <2>1. InOrder(req[h], got[h], Written(h))
    BY DEF HandleInv, StreamInv
  <2>2. InOrder(Append(req[h], u), got[h], [n |-> u.n, left |-> u.left])
    BY <1>3, <1>5, <2>1, HandleTypes, WrittenType, StreamAppend
  <2> QED
    BY <1>2, <1>4, <2>2 DEF StreamInv
<1>8. ReaderInv(h)'
  BY <1>2, <1>4, <1>6 DEF HandleInv, ReaderInv
<1>9. WriterInv(h)' /\ ReplyInv(h)' /\ LagInv(h)'
  BY <1>1, <1>2, <1>6, HandleTypes DEF HandleInv, WriterInv, ReplyInv, LagInv, Serving
<1> QED
  BY <1>7, <1>8, <1>9 DEF HandleInv

LEMMA ReadHeaderInv ==
  ASSUME TypeOK, NEW h \in Handles, HandleInv(h), ReadHeader(h)
  PROVE  HandleInv(h)'
<1> DEFINE u == req[h][1]
<1>1. Head(req[h]) = u /\ u \in Unit /\ u.n \in Nat /\ u.left \in Nat
  <2>1. req[h] # <<>> /\ req[h] \in Seq(Unit)
    BY HandleTypes DEF ReadHeader
  <2>2. Head(req[h]) = u /\ u \in Unit
    BY <2>1, HeadTailProperties
  <2> QED
    BY <2>2 DEF Unit
<1>2. /\ got'[h] = [n |-> u.n, left |-> u.left] /\ phase[h] = "ready"
      /\ phase'[h] = IF u.left = 0 THEN "cb" ELSE "data"
      /\ req[h] # <<>> /\ req'[h] = Tail(req[h]) /\ pc'[h] = pc[h] /\ put'[h] = put[h]
      /\ rep'[h] = rep[h] /\ read'[h] = read[h] /\ last'[h] = last[h]
      /\ timeouts'[h] = timeouts[h]
  BY <1>1 DEF ReadHeader, TypeOK
<1>3. Written(h)' = Written(h)
  BY <1>2 DEF Written
<1>4. /\ Follows(got[h], u) /\ u.n <= Written(h).n
      /\ InOrder(Tail(req[h]), [n |-> u.n, left |-> u.left], Written(h))
  <2>1. InOrder(req[h], got[h], Written(h))
    BY DEF HandleInv, StreamInv
  <2> QED
    BY <1>2, <2>1, HandleTypes, WrittenType, StreamTail
<1>5. got[h].left = 0
  BY <1>2, HandleTypes DEF HandleInv, ReaderInv
<1>6. u.n = got[h].n + 1
  BY <1>4, <1>5 DEF Follows
<1> HIDE DEF u
<1>7. StreamInv(h)'
  BY <1>2, <1>3, <1>4 DEF StreamInv
<1>8. ReaderInv(h)'
  BY <1>1, <1>2, <1>3, <1>4 DEF ReaderInv
<1>9. WriterInv(h)' /\ LagInv(h)'
  BY <1>2 DEF HandleInv, WriterInv, LagInv
<1>10. ReplyInv(h)'
  BY <1>2, <1>6, HandleTypes DEF HandleInv, ReplyInv, Serving
<1> QED
  BY <1>7, <1>8, <1>9, <1>10 DEF HandleInv

LEMMA ReadDataInv ==
  ASSUME TypeOK, NEW h \in Handles, HandleInv(h), ReadData(h)
  PROVE  HandleInv(h)'
<1> DEFINE u == req[h][1]
<1>1. Head(req[h]) = u /\ u \in Unit /\ u.n \in Nat /\ u.left \in Nat
  <2>1. req[h] # <<>> /\ req[h] \in Seq(Unit)
    BY HandleTypes DEF ReadData
  <2>2. Head(req[h]) = u /\ u \in Unit
    BY <2>1, HeadTailProperties
  <2> QED
    BY <2>2 DEF Unit
<1>2. /\ got'[h] = [n |-> u.n, left |-> got[h].left - 1] /\ phase[h] = "data"
      /\ phase'[h] = IF got[h].left = 1 THEN "cb" ELSE "data"
      /\ req[h] # <<>> /\ req'[h] = Tail(req[h]) /\ pc'[h] = pc[h] /\ put'[h] = put[h]
      /\ rep'[h] = rep[h] /\ read'[h] = read[h] /\ last'[h] = last[h]
      /\ timeouts'[h] = timeouts[h]
  BY <1>1 DEF ReadData, TypeOK
<1>3. Written(h)' = Written(h)
  BY <1>2 DEF Written
<1>4. /\ Follows(got[h], u) /\ u.n <= Written(h).n
      /\ InOrder(Tail(req[h]), [n |-> u.n, left |-> u.left], Written(h))
  <2>1. InOrder(req[h], got[h], Written(h))
    BY DEF HandleInv, StreamInv
  <2> QED
    BY <1>2, <2>1, HandleTypes, WrittenType, StreamTail
<1>5. got[h].left > 0
  BY <1>2 DEF HandleInv, ReaderInv
<1>6. u.n = got[h].n /\ u.left = got[h].left - 1
  BY <1>4, <1>5 DEF Follows
<1> HIDE DEF u
<1>7. StreamInv(h)'
  BY <1>2, <1>3, <1>4, <1>6 DEF StreamInv
<1>8. ReaderInv(h)'
  BY <1>2, <1>3, <1>4, <1>5, HandleTypes DEF ReaderInv
<1>9. WriterInv(h)' /\ LagInv(h)'
  BY <1>2 DEF HandleInv, WriterInv, LagInv
<1>10. ReplyInv(h)'
  BY <1>2, <1>6, HandleTypes DEF HandleInv, ReplyInv, Serving
<1> QED
  BY <1>7, <1>8, <1>9, <1>10 DEF HandleInv

LEMMA ReadResultInv ==
  ASSUME TypeOK, NEW h \in Handles, HandleInv(h), ReadResult(h)
  PROVE  HandleInv(h)'
<1>1. /\ pc[h] = "wait" /\ pc'[h] = "idle" /\ rep[h] # <<>> /\ rep'[h] = Tail(rep[h])
      /\ read'[h] = read[h] + 1
      /\ last'[h] = [call |-> put[h].n, answer |-> Head(rep[h])]
      /\ put'[h] = put[h] /\ req'[h] = req[h] /\ phase'[h] = phase[h]
      /\ got'[h] = got[h] /\ timeouts'[h] = timeouts[h]
  BY DEF ReadResult, TypeOK
<1>2. rep[h] \in Seq(Nat) /\ read[h] \in Nat /\ Len(rep[h]) \in Nat
  BY HandleTypes
<1>3. /\ Len(rep'[h]) = Len(rep[h]) - 1 /\ Head(rep[h]) = rep[h][1]
      /\ \A i \in 1 .. Len(rep'[h]) : rep'[h][i] = rep[h][i + 1]
  BY <1>1, <1>2, HeadTailProperties
<1>4. Len(rep[h]) > 0
  BY <1>1, <1>2, EmptySeq
<1>5. Head(rep[h]) = read[h] + 1
  BY <1>2, <1>3, <1>4 DEF HandleInv, ReplyInv
<1>6. Written(h)' = Written(h)
  BY <1>1 DEF Written
<1>7. StreamInv(h)' /\ ReaderInv(h)' /\ WriterInv(h)'
  BY <1>1, <1>6 DEF HandleInv, StreamInv, ReaderInv, WriterInv
<1>8. ReplyInv(h)'
  <2>1. ASSUME NEW i \in 1 .. Len(rep'[h])
        PROVE  rep'[h][i] = read'[h] + i
    <3>1. i + 1 \in 1 .. Len(rep[h]) /\ rep'[h][i] = rep[h][i + 1]
      BY <1>2, <1>3
    <3>2. \A j \in 1 .. Len(rep[h]) : rep[h][j] = read[h] + j
      BY DEF HandleInv, ReplyInv
    <3>3. rep[h][i + 1] = read[h] + (i + 1)
      BY <3>1, <3>2
    <3>4. read'[h] = read[h] + 1 /\ i \in Int /\ read[h] \in Int
      BY <1>1, <1>2
    <3>5. \A a, b \in Int : a + (b + 1) = (a + 1) + b
      OBVIOUS
    <3>6. read[h] + (i + 1) = (read[h] + 1) + i
      BY <3>4, <3>5
    <3> QED
      BY <3>1, <3>3, <3>4, <3>6
  <2> QED
    BY <1>1, <1>2, <1>3, <2>1, HandleTypes DEF HandleInv, ReplyInv, Serving
<1>9. LagInv(h)'
  BY <1>1, <1>2, <1>5, HandleTypes DEF HandleInv, LagInv
<1> QED
  BY <1>7, <1>8, <1>9 DEF HandleInv

LEMMA TimeoutInv ==
  ASSUME TypeOK, NEW h \in Handles, HandleInv(h), Timeout(h)
  PROVE  HandleInv(h)'
<1>1. /\ pc[h] = "wait" /\ pc'[h] = "idle" /\ timeouts'[h] = timeouts[h] + 1
      /\ last'[h] = [call |-> put[h].n, answer |-> TimedOut]
      /\ put'[h] = put[h] /\ req'[h] = req[h] /\ phase'[h] = phase[h]
      /\ got'[h] = got[h] /\ rep'[h] = rep[h] /\ read'[h] = read[h]
  BY DEF Timeout, TypeOK
<1>2. Written(h)' = Written(h)
  BY <1>1 DEF Written
<1>3. StreamInv(h)' /\ ReaderInv(h)' /\ WriterInv(h)' /\ ReplyInv(h)'
  BY <1>1, <1>2 DEF HandleInv, StreamInv, ReaderInv, WriterInv, ReplyInv, Serving
<1>4. LagInv(h)'
  BY <1>1, HandleTypes DEF HandleInv, LagInv
<1> QED
  BY <1>3, <1>4 DEF HandleInv

\* Poll changes no handle but for marking idle listeners ready.
LEMMA PollInv ==
  ASSUME TypeOK, NEW p, Poll(p), NEW g \in Handles, HandleInv(g)
  PROVE  HandleInv(g)'
<1>1. /\ pc' = pc /\ put' = put /\ req' = req /\ got' = got /\ rep' = rep
      /\ read' = read /\ timeouts' = timeouts /\ last' = last
  BY DEF Poll
<1>2. phase'[g] = phase[g] \/ (phase[g] = "none" /\ phase'[g] = "ready")
  BY DEF Poll, TypeOK
<1>3. Serving(g)' <=> Serving(g)
  BY <1>2 DEF Serving
<1>4. Written(g)' = Written(g)
  BY <1>1 DEF Written
<1>5. StreamInv(g)' /\ WriterInv(g)' /\ LagInv(g)'
  BY <1>1, <1>4 DEF HandleInv, StreamInv, WriterInv, LagInv
<1>6. ReaderInv(g)' /\ ReplyInv(g)'
  BY <1>1, <1>2, <1>3, <1>4 DEF HandleInv, ReaderInv, ReplyInv
<1> QED
  BY <1>5, <1>6 DEF HandleInv

LEMMA CallbackInv ==
  ASSUME TypeOK, NEW h \in Handles, HandleInv(h), Callback(h)
  PROVE  HandleInv(h)'
<1>1. /\ pc' = pc /\ put' = put /\ req' = req /\ got' = got /\ rep' = rep
      /\ read' = read /\ timeouts' = timeouts /\ last' = last
      /\ phase[h] = "cb" /\ phase'[h] = "reply"
  BY DEF Callback, TypeOK
<1>2. Written(h)' = Written(h)
  BY <1>1 DEF Written
<1> QED
  BY <1>1, <1>2
     DEF HandleInv, StreamInv, ReaderInv, WriterInv, ReplyInv, LagInv, Serving

LEMMA WriteResultInv ==
  ASSUME TypeOK, NEW h \in Handles, HandleInv(h), WriteResult(h)
  PROVE  HandleInv(h)'
<1>1. /\ phase[h] = "reply" /\ phase'[h] = "none" /\ rep'[h] = Append(rep[h], got[h].n)
      /\ pc' = pc /\ put' = put /\ req' = req /\ got' = got
      /\ read' = read /\ timeouts' = timeouts /\ last' = last
  BY DEF WriteResult, TypeOK
<1>2. Written(h)' = Written(h)
  BY <1>1 DEF Written
<1>3. StreamInv(h)' /\ ReaderInv(h)' /\ WriterInv(h)' /\ LagInv(h)'
  BY <1>1, <1>2 DEF HandleInv, StreamInv, ReaderInv, WriterInv, LagInv
<1>4. ReplyInv(h)'
  <2>1. rep[h] \in Seq(Nat) /\ Len(rep[h]) \in Nat /\ got[h].n \in Nat /\ read[h] \in Nat
    BY HandleTypes
  <2>2. /\ Len(rep'[h]) = Len(rep[h]) + 1 /\ rep'[h][Len(rep[h]) + 1] = got[h].n
        /\ \A i \in 1 .. Len(rep[h]) : rep'[h][i] = rep[h][i]
    BY <1>1, <2>1, AppendProperties
  <2>3. got[h].n = read[h] + Len(rep[h]) + 1
    BY <1>1, <2>1 DEF HandleInv, ReplyInv, Serving
  <2>4. ASSUME NEW i \in 1 .. Len(rep'[h])
        PROVE  rep'[h][i] = read[h] + i
    <3>1. CASE i <= Len(rep[h])
      BY <2>1, <2>2, <3>1 DEF HandleInv, ReplyInv
    <3>2. CASE i = Len(rep[h]) + 1
      BY <2>1, <2>2, <2>3, <3>2
    <3> QED
      BY <2>1, <2>2, <3>1, <3>2
  <2>5. ~Serving(h)'
    BY <1>1 DEF Serving
  <2>6. read'[h] + Len(rep'[h]) = got[h].n /\ got'[h].n = got[h].n
    <3>1. \A a, b \in Int : a + (b + 1) = a + b + 1
      OBVIOUS
    <3>2. read[h] + (Len(rep[h]) + 1) = got[h].n
      BY <2>1, <2>3, <3>1
    <3>3. read'[h] = read[h] /\ got'[h] = got[h]
      BY <1>1
    <3> QED
      BY <2>2, <3>2, <3>3
  <2>7. \A i \in 1 .. Len(rep'[h]) : rep'[h][i] = read'[h] + i
    BY <1>1, <2>4
  <2>8. got'[h].n \in Nat
    BY <2>1, <2>6
  <2> QED
    BY <2>5, <2>6, <2>7, <2>8 DEF ReplyInv
<1> QED
  BY <1>3, <1>4 DEF HandleInv

-----------------------------------------------------------------------------
(* The theorems.                                                           *)

LEMMA InitStreamsInOrder == Init => StreamsInOrder
<1> SUFFICES ASSUME Init
             PROVE  StreamsInOrder
  OBVIOUS
<1>1. TypeOK
  BY InitTypeOK
<1>2. ASSUME NEW h \in Handles
      PROVE  HandleInv(h)
  <2>1. /\ pc[h] = "idle" /\ put[h] = [n |-> 0, left |-> 0] /\ req[h] = <<>>
        /\ phase[h] = "none" /\ got[h] = [n |-> 0, left |-> 0] /\ rep[h] = <<>>
        /\ read[h] = 0 /\ timeouts[h] = 0 /\ last[h].answer = 0
    BY DEF Init
  <2>2. Len(req[h]) = 0 /\ Len(rep[h]) = 0
    BY <2>1
  <2>3. Written(h) = [n |-> 0, left |-> 0]
    BY <2>1 DEF Written
  <2>4. StreamInv(h) /\ ReaderInv(h) /\ WriterInv(h)
    BY <2>1, <2>2, <2>3 DEF StreamInv, InOrder, ReaderInv, WriterInv
  <2>5. ReplyInv(h) /\ LagInv(h)
    BY <2>1, <2>2 DEF ReplyInv, LagInv, Serving
  <2> QED
    BY <2>4, <2>5 DEF HandleInv
<1> QED
  BY <1>1, <1>2 DEF StreamsInOrder

LEMMA NextStreamsInOrder == StreamsInOrder /\ [Next]_vars => StreamsInOrder'
<1> SUFFICES ASSUME StreamsInOrder, [Next]_vars
             PROVE  StreamsInOrder'
  OBVIOUS
<1> USE DEF StreamsInOrder
<1>1. CASE vars' = vars
  <2>1. TypeOK'
    BY <1>1 DEF vars, TypeOK
  <2>2. \A g \in Handles : Same(g)
    BY <1>1 DEF vars, Same
  <2> QED
    BY <2>1, <2>2, SameKeepsInv
<1>2. ASSUME NEW h \in Handles, Consumer(h) \/ ProviderOf(h)
      PROVE  StreamsInOrder'
  <2>1. CASE Call(h)
    BY <2>1, CallTypeOK, CallInv, OthersSame, SameKeepsInv DEF Consumer
  <2>2. CASE WriteHeader(h)
    BY <2>2, WriteHeaderTypeOK, WriteHeaderInv, OthersSame, SameKeepsInv DEF Consumer
  <2>3. CASE WriteData(h)
    <3>1. put[h].left > 0
      BY <2>3 DEF WriteData, HandleInv, WriterInv
    <3> QED
      BY <2>3, <3>1, WriteDataTypeOK, WriteDataInv, OthersSame, SameKeepsInv DEF Consumer
  <2>4. CASE ReadResult(h)
    BY <2>4, ReadResultTypeOK, ReadResultInv, OthersSame, SameKeepsInv DEF Consumer
  <2>5. CASE Timeout(h)
    BY <2>5, TimeoutTypeOK, TimeoutInv, OthersSame, SameKeepsInv DEF Consumer
  <2>6. CASE ReadHeader(h)
    BY <2>6, ReadHeaderTypeOK, ReadHeaderInv, OthersSame, SameKeepsInv DEF ProviderOf
  <2>7. CASE ReadData(h)
    <3>1. got[h].left > 0
      BY <2>7 DEF ReadData, HandleInv, ReaderInv
    <3> QED
      BY <2>7, <3>1, ReadDataTypeOK, ReadDataInv, OthersSame, SameKeepsInv DEF ProviderOf
  <2>8. CASE Callback(h)
    BY <2>8, CallbackTypeOK, CallbackInv, OthersSame, SameKeepsInv DEF ProviderOf
  <2>9. CASE WriteResult(h)
    BY <2>9, WriteResultTypeOK, WriteResultInv, OthersSame, SameKeepsInv DEF ProviderOf
  <2> QED
    BY <1>2, <2>1, <2>2, <2>3, <2>4, <2>5, <2>6, <2>7, <2>8, <2>9 DEF Consumer, ProviderOf
<1>3. ASSUME NEW p \in Plugins, Poll(p)
      PROVE  StreamsInOrder'
  BY <1>3, PollTypeOK, PollInv
<1> QED
  BY <1>1, <1>2, <1>3 DEF Next

\* The units of every command stay in order from ipc_send's two writes
\* through the socket to ipc_cmd's reads, and the replies behind them.
THEOREM StreamsStayInOrder == Spec => []StreamsInOrder
  BY InitStreamsInOrder, NextStreamsInOrder, PTL DEF Spec

\* The variables keep their types.
THEOREM TypeCorrect == Spec => []TypeOK
  BY StreamsStayInOrder, PTL DEF StreamsInOrder

\* ipc_cmd's asserts hold: a header is read as a header, data as data of the
\* same command, whatever the sizes and however many calls were given up.
THEOREM FramingPreserved == Spec => []FramesIntact
<1>1. StreamsInOrder => FramesIntact
  <2> SUFFICES ASSUME StreamsInOrder, NEW h \in Handles, req[h] # <<>>
               PROVE  /\ phase[h] = "ready" => Head(req[h]).hdr
                      /\ phase[h] = "data" => ~Head(req[h]).hdr /\ Head(req[h]).n = got[h].n
    BY DEF FramesIntact
  <2>1. Head(req[h]) = req[h][1] /\ Follows(got[h], req[h][1])
    BY DEF StreamsInOrder, HandleInv, StreamInv, InOrder
  <2>2. phase[h] = "data" <=> got[h].left > 0
    BY DEF StreamsInOrder, HandleInv, ReaderInv
  <2> QED
    BY <2>1, <2>2 DEF Follows
<1> QED
  BY <1>1, StreamsStayInOrder, PTL

\* An answer is late by exactly the number of calls given up before it.
THEOREM AnswersLag == Spec => []AnswerLag
<1>1. StreamsInOrder => AnswerLag
  BY DEF StreamsInOrder, HandleInv, LagInv, AnswerLag
<1> QED
  BY <1>1, StreamsStayInOrder, PTL

\* A reply blocks its provider only after RepCap calls were given up.
THEOREM RepliesDoNotBlock == Spec => []ReplyNeverBlocks
<1>1. StreamsInOrder => ReplyNeverBlocks
  <2> SUFFICES ASSUME StreamsInOrder, NEW h \in Handles, timeouts[h] < RepCap,
                      phase[h] = "reply"
               PROVE  ~(Len(rep[h]) >= RepCap)
    BY DEF ReplyNeverBlocks
  <2>1. got[h].n <= Written(h).n /\ Written(h).n <= put[h].n
    BY HandleTypes DEF StreamsInOrder, HandleInv, ReaderInv, WriterInv, Written
  <2>2. got[h].n = read[h] + Len(rep[h]) + 1
    BY HandleTypes DEF StreamsInOrder, HandleInv, ReplyInv, Serving
  <2>3. put[h].n <= read[h] + timeouts[h] + 1
    BY HandleTypes DEF StreamsInOrder, HandleInv, LagInv
  <2>4. Written(h).n \in Nat
    BY WrittenType DEF StreamsInOrder, Position
  <2> QED
    BY <2>1, <2>2, <2>3, <2>4, HandleTypes, CapAssumption DEF StreamsInOrder
<1> QED
  BY <1>1, StreamsStayInOrder, PTL

-----------------------------------------------------------------------------
(* Refinement.                                                             *)

LEMMA RefineInit == Init => Channel!CInit
<1> SUFFICES ASSUME Init
             PROVE  Channel!CInit
  OBVIOUS
<1>1. [h \in Handles |-> put[h].n] = [h \in Handles |-> 0]
  BY DEF Init
<1>2. [h \in Handles |-> Executed(h)] = [h \in Handles |-> 0]
  BY DEF Init, Executed
<1>3. [h \in Handles |-> pc[h] # "idle"] = [h \in Handles |-> FALSE]
  BY DEF Init
<1> QED
  BY <1>1, <1>2, <1>3 DEF Init, Channel!CInit

LEMMA RefineNext ==
  ASSUME StreamsInOrder, [Next]_vars
  PROVE  [Channel!CNext]_(Channel!cvars)
<1> USE DEF StreamsInOrder
<1>1. CASE vars' = vars
  BY <1>1 DEF vars, Channel!cvars, Executed
<1>2. ASSUME NEW h \in Handles, Call(h)
      PROVE  Channel!CCall(h)
  <2>1. pc[h] = "idle" /\ pc' = [pc EXCEPT ![h] = "header"]
    BY <1>2 DEF Call, MayCall, Calling
  <2>2. [g \in Handles |-> pc'[g] # "idle"] = [[g \in Handles |-> pc[g] # "idle"] EXCEPT ![h] = TRUE]
    BY <2>1 DEF TypeOK
  <2>3. [g \in Handles |-> put'[g].n] = [[g \in Handles |-> put[g].n] EXCEPT ![h] = @ + 1]
    <3>1. PICK k \in Sizes : put' = [put EXCEPT ![h] = [n |-> @.n + 1, left |-> k]]
      BY <1>2 DEF Call
    <3>2. \A g \in Handles : put'[g].n = IF g = h THEN put[h].n + 1 ELSE put[g].n
      BY <3>1 DEF TypeOK
    <3> QED
      BY <3>2
  <2>4. [g \in Handles |-> Executed(g)]' = [g \in Handles |-> Executed(g)]
    BY <1>2 DEF Call, Executed
  <2> QED
    BY <1>2, <2>1, <2>2, <2>3, <2>4 DEF Call, Channel!CCall
<1>3. ASSUME NEW h \in Handles, WriteHeader(h) \/ WriteData(h)
      PROVE  UNCHANGED Channel!cvars
  <2>1. /\ pc[h] \in {"header", "data"} /\ pc'[h] \in {"wait", "data"}
        /\ \A g \in Handles : g # h => pc'[g] = pc[g]
    BY <1>3 DEF WriteHeader, WriteData, TypeOK
  <2>2. [g \in Handles |-> pc'[g] # "idle"] = [g \in Handles |-> pc[g] # "idle"]
    BY <2>1
  <2>3. \A g \in Handles : put'[g].n = put[g].n
    <3>1. CASE WriteHeader(h)
      BY <3>1 DEF WriteHeader
    <3>2. CASE WriteData(h)
      <4>1. put' = [put EXCEPT ![h] = [put[h] EXCEPT !.left = put[h].left - 1]]
        BY <3>2 DEF WriteData
      <4>2. put[h] \in Position /\ put \in [Handles -> Position]
        BY DEF TypeOK
      <4> QED
        BY <4>1, <4>2 DEF Position
    <3> QED
      BY <1>3, <3>1, <3>2
  <2>4. [g \in Handles |-> Executed(g)]' = [g \in Handles |-> Executed(g)]
    BY <1>3 DEF WriteHeader, WriteData, Executed
  <2> QED
    BY <1>3, <2>2, <2>3, <2>4 DEF WriteHeader, WriteData, Channel!cvars
<1>4. ASSUME NEW h \in Handles, ReadResult(h)
      PROVE  Channel!CReturn(h)
  <2>1. rep[h] \in Seq(Nat) /\ rep[h] # <<>> /\ Head(rep[h]) = rep[h][1] /\ Len(rep[h]) > 0
    BY <1>4, HandleTypes, EmptySeq DEF ReadResult
  <2>2. Head(rep[h]) = read[h] + 1
    BY <2>1, HandleTypes DEF HandleInv, ReplyInv
  <2>3. Executed(h) >= read[h] + Len(rep[h])
    BY HandleTypes DEF Executed, HandleInv, ReplyInv, Serving
  <2>4. read[h] < Executed(h)
    <3>1. Executed(h) \in Int
      BY HandleTypes DEF Executed
    <3> QED
      BY <2>1, <2>3, <3>1, HandleTypes
  <2>5. [g \in Handles |-> pc'[g] # "idle"] = [[g \in Handles |-> pc[g] # "idle"] EXCEPT ![h] = FALSE]
    BY <1>4 DEF ReadResult, TypeOK
  <2>6. [g \in Handles |-> Executed(g)]' = [g \in Handles |-> Executed(g)]
    BY <1>4 DEF ReadResult, Executed
  <2> QED
    BY <1>4, <2>2, <2>4, <2>5, <2>6 DEF ReadResult, Channel!CReturn
<1>5. ASSUME NEW h \in Handles, Timeout(h)
      PROVE  Channel!CGiveUp(h)
  <2>1. [g \in Handles |-> pc'[g] # "idle"] = [[g \in Handles |-> pc[g] # "idle"] EXCEPT ![h] = FALSE]
    BY <1>5 DEF Timeout, TypeOK
  <2>2. [g \in Handles |-> Executed(g)]' = [g \in Handles |-> Executed(g)]
    BY <1>5 DEF Timeout, Executed
  <2> QED
    BY <1>5, <2>1, <2>2 DEF Timeout, Channel!CGiveUp
<1>6. ASSUME NEW p \in Plugins, Poll(p)
      PROVE  UNCHANGED Channel!cvars
  <2>1. \A g \in Handles : Executed(g)' = Executed(g)
    BY <1>6 DEF Poll, Executed, TypeOK
  <2> QED
    BY <1>6, <2>1 DEF Poll, Channel!cvars
<1>7. ASSUME NEW h \in Handles, ReadHeader(h)
      PROVE  UNCHANGED Channel!cvars
  <2>1. req[h] \in Seq(Unit) /\ req[h] # <<>> /\ Head(req[h]) = req[h][1]
    BY <1>7, HandleTypes DEF ReadHeader
  <2>2. Follows(got[h], req[h][1]) /\ got[h].left = 0
    BY <1>7, <2>1, HandleTypes
       DEF ReadHeader, HandleInv, StreamInv, InOrder, ReaderInv
  <2>3. got'[h].n = got[h].n + 1
    BY <1>7, <2>1, <2>2 DEF ReadHeader, Follows, TypeOK
  <2>4. phase[h] = "ready" /\ phase'[h] \in {"cb", "data"}
    BY <1>7 DEF ReadHeader, TypeOK
  <2>5. Executed(h)' = Executed(h)
    BY <2>3, <2>4, HandleTypes DEF Executed
  <2>6. \A g \in Handles : g # h => Executed(g)' = Executed(g)
    BY <1>7 DEF ReadHeader, TypeOK, Executed
  <2> QED
    BY <1>7, <2>5, <2>6 DEF ReadHeader, Channel!cvars
<1>8. ASSUME NEW h \in Handles, ReadData(h)
      PROVE  UNCHANGED Channel!cvars
  <2>1. req[h] \in Seq(Unit) /\ req[h] # <<>> /\ Head(req[h]) = req[h][1]
    BY <1>8, HandleTypes DEF ReadData
  <2>2. Follows(got[h], req[h][1]) /\ got[h].left > 0
    BY <1>8, <2>1 DEF ReadData, HandleInv, StreamInv, InOrder, ReaderInv
  <2>3. got'[h].n = got[h].n
    BY <1>8, <2>1, <2>2 DEF ReadData, Follows, TypeOK
  <2>4. phase[h] = "data" /\ phase'[h] \in {"cb", "data"}
    BY <1>8 DEF ReadData, TypeOK
  <2>5. Executed(h)' = Executed(h)
    BY <2>3, <2>4 DEF Executed
  <2>6. \A g \in Handles : g # h => Executed(g)' = Executed(g)
    BY <1>8 DEF ReadData, TypeOK, Executed
  <2> QED
    BY <1>8, <2>5, <2>6 DEF ReadData, Channel!cvars
<1>9. ASSUME NEW h \in Handles, Callback(h)
      PROVE  Channel!CExecute(h)
  <2>1. phase[h] = "cb" /\ phase'[h] = "reply" /\ got' = got
    BY <1>9 DEF Callback, TypeOK
  <2>2. Executed(h) = got[h].n - 1 /\ Executed(h)' = got[h].n
    BY <2>1 DEF Executed
  <2>3. got[h].n <= put[h].n
    BY HandleTypes, WrittenType DEF HandleInv, ReaderInv, Written
  <2>4. Executed(h) < put[h].n /\ Executed(h)' = Executed(h) + 1
    BY <2>2, <2>3, HandleTypes
  <2>5. \A g \in Handles : g # h => Executed(g)' = Executed(g)
    BY <1>9 DEF Callback, TypeOK, Executed
  <2>6. [g \in Handles |-> Executed(g)]' = [[g \in Handles |-> Executed(g)] EXCEPT ![h] = @ + 1]
    BY <2>4, <2>5
  <2> QED
    BY <1>9, <2>4, <2>6 DEF Callback, Channel!CExecute
<1>10. ASSUME NEW h \in Handles, WriteResult(h)
       PROVE  UNCHANGED Channel!cvars
  <2>1. \A g \in Handles : Executed(g)' = Executed(g)
    BY <1>10 DEF WriteResult, TypeOK, Executed
  <2> QED
    BY <1>10, <2>1 DEF WriteResult, Channel!cvars
<1> QED
  BY <1>1, <1>2, <1>3, <1>4, <1>5, <1>6, <1>7, <1>8, <1>9, <1>10
     DEF Next, Consumer, ProviderOf, Channel!CNext

\* The agent's calls implement the abstract channel, for any number of
\* handles and threads.
THEOREM IpcImplementsChannel == Spec => ImplementsChannel
<1>1. StreamsInOrder /\ [Next]_vars => [Channel!CNext]_(Channel!cvars)
  BY RefineNext
<1> QED
  BY <1>1, RefineInit, StreamsStayInOrder, PTL DEF Spec, ImplementsChannel, Channel!CSpec

-----------------------------------------------------------------------------
(* Nobody waits for ever behind a busy consumer.                           *)

\* A command that came after poll() returned sees the rest of that round, one
\* that was there sees none of its own round but those ready before it.
Turn(h, g) ==
    /\ overtaken[h][g] \in Nat
    /\ ~Waiting(h) => overtaken[h][g] = 0
    /\ phase[h] = "none" => overtaken[h][g] <= 1 /\ (phase[g] = "ready" => overtaken[h][g] = 0)
    /\ phase[h] = "ready" => overtaken[h][g] <= 2 /\ (phase[g] = "ready" => overtaken[h][g] <= 1)
TurnInv ==
    /\ overtaken \in [Handles -> [Handles -> Nat]]
    /\ \A h, g \in Handles : Turn(h, g)

\* The provider begins with a command of g.
Begins(g) == ~Serving(g) /\ Serving(g)'

\* A step that is no poll: a round is over only for who was served, and nobody
\* joins it.
Phases == {"none", "ready", "data", "cb", "reply"}
GoesOn == \A h \in Handles :
    /\ phase[h] = "none" => phase'[h] = "none"
    /\ phase[h] = "ready" => phase'[h] = "ready" \/ Serving(h)'
    /\ Serving(h) => phase'[h] # "ready"
\* poll() of one plugin, whose last round is over.
NewRound(p) == \A h \in Handles :
    /\ req'[h] = req[h]
    /\ Provider[h] # p => phase'[h] = phase[h]
    /\ Provider[h] = p => phase[h] = "none" /\ phase'[h] = IF req[h] # <<>> THEN "ready" ELSE "none"

\* Every step is one or the other.
LEMMA PhaseSteps ==
  ASSUME TypeOK, [Next]_vars
  PROVE  phase' \in [Handles -> Phases] /\ (GoesOn \/ \E p \in Plugins : NewRound(p))
<1>0. phase \in [Handles -> Phases]
  BY DEF TypeOK, Phases
<1>1. ASSUME phase' = phase PROVE phase' \in [Handles -> Phases] /\ GoesOn
  BY <1>0, <1>1 DEF GoesOn, Serving
<1>2. ASSUME NEW h \in Handles, NEW x \in {"none", "cb", "data", "reply"}, phase' = [phase EXCEPT ![h] = x],
             x = "none" => Serving(h), phase[h] # "none"
      PROVE  phase' \in [Handles -> Phases] /\ GoesOn
  <2>1. \A g \in Handles : phase'[g] = IF g = h THEN x ELSE phase[g]
    BY <1>0, <1>2
  <2>. QED  BY <1>0, <1>2, <2>1 DEF GoesOn, Serving, Phases
<1>3. CASE UNCHANGED vars
  BY <1>1, <1>3 DEF vars
<1>4. ASSUME NEW h \in Handles, Consumer(h) PROVE phase' = phase
  BY <1>4 DEF Consumer, Call, WriteHeader, WriteData, ReadResult, Timeout
<1>5. ASSUME NEW h \in Handles, ReadHeader(h) PROVE GoesOn /\ phase' \in [Handles -> Phases]
  <2>. DEFINE x == IF Head(req[h]).left = 0 THEN "cb" ELSE "data"
  <2>1. phase[h] = "ready" /\ phase' = [phase EXCEPT ![h] = x]
    BY <1>5 DEF ReadHeader
  <2>. QED  BY <1>2, <2>1
<1>6. ASSUME NEW h \in Handles, ReadData(h) PROVE GoesOn /\ phase' \in [Handles -> Phases]
  <2>. DEFINE x == IF got[h].left = 1 THEN "cb" ELSE "data"
  <2>1. phase[h] = "data" /\ phase' = [phase EXCEPT ![h] = x]
    BY <1>6 DEF ReadData
  <2>. QED  BY <1>2, <2>1
<1>7. ASSUME NEW h \in Handles, Callback(h) \/ WriteResult(h) PROVE GoesOn /\ phase' \in [Handles -> Phases]
  BY <1>2, <1>7 DEF Callback, WriteResult, Serving
<1>8. ASSUME NEW p \in Plugins, Poll(p)
      PROVE  phase' \in [Handles -> Phases] /\ NewRound(p)
  BY <1>0, <1>8 DEF Poll, Listeners, NewRound, Phases
<1>. QED  BY <1>1, <1>3, <1>4, <1>5, <1>6, <1>7, <1>8 DEF Next, ProviderOf

\* TNext for one pair of handles.
LEMMA CountTurns ==
  ASSUME TurnInv, TNext, NEW h \in Handles, NEW g \in Handles
  PROVE  overtaken'[h][g] = IF ~Waiting(h)' \/ Provider[g] # Provider[h] THEN 0
                            ELSE IF Begins(g) THEN overtaken[h][g] + 1 ELSE overtaken[h][g]
  BY DEF TNext, Begins

\* What is counted in a round follows from who is still ready in it.
LEMMA TurnStep ==
  ASSUME TypeOK, TurnInv, TNext, NEW h \in Handles, NEW g \in Handles
  PROVE  Turn(h, g)'
<1>. DEFINE n == overtaken[h][g]
<1>1. n \in Nat /\ Turn(h, g)
  BY DEF TurnInv
<1>2. CASE ~Waiting(h)' \/ Provider[g] # Provider[h]
  BY <1>2, CountTurns DEF Turn, Waiting, Serving
<1>3. CASE Waiting(h)' /\ Provider[g] = Provider[h]
  <2>1. overtaken'[h][g] = IF Begins(g) THEN n + 1 ELSE n
    BY <1>3, CountTurns
  <2>2. phase'[h] \in {"none", "ready"} /\ phase[g] \in {"none", "ready", "data", "cb", "reply"}
        /\ phase[h] \in {"none", "ready", "data", "cb", "reply"}
        /\ phase'[g] \in {"none", "ready", "data", "cb", "reply"}
    BY <1>3, PhaseSteps DEF Waiting, Serving, TypeOK, TNext, Phases
  <2>3. CASE GoesOn
    BY <1>1, <1>3, <2>1, <2>2, <2>3 DEF GoesOn, Turn, Begins, Serving, Waiting
  <2>4. ASSUME NEW p \in Plugins, NewRound(p) PROVE Turn(h, g)'
    BY <1>1, <1>3, <2>1, <2>2, <2>4 DEF NewRound, Turn, Begins, Serving, Waiting
  <2>. QED  BY <2>3, <2>4, PhaseSteps DEF TNext
<1>. QED  BY <1>2, <1>3

\* The count stays a number.
LEMMA TurnTyped ==
  ASSUME TurnInv, TNext
  PROVE  overtaken' \in [Handles -> [Handles -> Nat]]
<1>1. \A h, g \in Handles : overtaken[h][g] \in Nat
  BY DEF TurnInv
<1>. QED  BY <1>1 DEF TNext

\* At first nobody waits.
LEMMA InitTurns == TInit => TurnInv
  BY DEF TInit, Init, TurnInv, Turn, Waiting

\* No consumer, however busy, is served more than twice while another one of
\* the same plugin waits (ipc_loop, which polls when its list is done).
THEOREM TurnsAreKept == TSpec => []ServedInTurn
<1>1. TypeOK /\ TypeOK' /\ TurnInv /\ [TNext]_<<vars, overtaken>> => TurnInv'
  <2>. SUFFICES ASSUME TypeOK, TurnInv, [TNext]_<<vars, overtaken>> PROVE TurnInv'
    OBVIOUS
  <2>1. CASE TNext
    BY <2>1, TurnStep, TurnTyped DEF TurnInv
  <2>2. CASE UNCHANGED <<vars, overtaken>>
    BY <2>2 DEF vars, TurnInv, Turn, Waiting, Serving
  <2>. QED  BY <2>1, <2>2
<1>2. TInit => Init
  BY DEF TInit
<1>3. [TNext]_<<vars, overtaken>> => [Next]_vars
  BY DEF TNext, vars
<1>4. TypeOK /\ TurnInv => ServedInTurn
  BY DEF TurnInv, Turn, ServedInTurn, TypeOK, Waiting, Serving
<1>5. TSpec => Spec
  BY <1>2, <1>3, PTL DEF TSpec, Spec
<1>6. TSpec => []TypeOK
  BY <1>5, TypeCorrect, PTL
<1>. QED  BY <1>1, <1>4, <1>6, InitTurns, PTL DEF TSpec
=============================================================================
