------------------------------ MODULE VsbProofs ------------------------------
(***************************************************************************)
(* For whatever is appended in whatever pieces, up to the range of an int: *)
(* the assertions of vsb.c hold and nothing is lost.                       *)
(***************************************************************************)
EXTENDS Vsb, TLAPS

\* A new size is large enough, and less than a page larger than it has to be.
LEMMA ExtendSize ==
  ASSUME NEW n \in Nat
  PROVE  /\ VSB_extendsize(n) \in Nat /\ VSB_extendsize(n) >= n /\ VSB_extendsize(n) >= 16
         /\ VSB_extendsize(n) <= n + 4096
  <1>1. CASE n < 4096
    <2>1. \E d \in Doublings : d >= n /\ \A e \in Doublings : e >= n => d <= e
      BY <1>1 DEF Doublings
    <2>2. VSB_extendsize(n) \in Doublings /\ VSB_extendsize(n) >= n
      BY <1>1, <2>1 DEF VSB_extendsize
    <2>. QED  BY <1>1, <2>2 DEF Doublings
  <1>2. CASE n >= 4096
    BY <1>2 DEF VSB_extendsize
  <1>. QED  BY <1>1, <1>2

\* What is in the buffer and what is still to come stay below the bound.
Flags == error \in {0, ENOMEM} /\ finished \in BOOLEAN /\ cut \in BOOLEAN
Sizes ==
    /\ size \in 0 .. IntMax /\ len \in Nat /\ text \in 0 .. MaxText
    /\ (IF size = 0 THEN len = 0 /\ Idle ELSE len < size)
    /\ todo \in Pieces /\ rest \in Seq(Kinds)
    /\ len = text /\ text + todo.n + 4 * Len(rest) <= MaxText
Inv == Flags /\ Sizes

LEMMA InitInv == Init => Inv
  <1>1. Init => Flags
    BY DEF Init, Flags
  <1>2. Init => Sizes
    BY VsbAssumption DEF Init, Sizes, None, Pieces, Idle
  <1>. QED  BY <1>1, <1>2 DEF Inv

LEMMA FlagsInv == Flags /\ [Next]_vars => Flags'
  <1>. SUFFICES ASSUME Flags, [Next]_vars PROVE Flags'
    OBVIOUS
  <1>. USE DEF Flags
  <1>1. CASE VSB_new \/ VSB_clear \/ VSB_delete \/ VSB_finish
    BY <1>1 DEF VSB_new, VSB_clear, VSB_delete, VSB_finish
  <1>2. CASE VSB_bcat \/ VSB_printf \/ VSB_quote \/ QuoteChar \/ Refused
    BY <1>2 DEF VSB_bcat, VSB_printf, Appends, VSB_quote, QuoteChar, Refused
  <1>3. CASE VSB_put_byte
    BY <1>3 DEF VSB_put_byte, PutBytes
  <1>4. CASE VSB_vprintf
    BY <1>4 DEF VSB_vprintf, Vprintf
  <1>5. CASE UNCHANGED vars
    BY <1>5 DEF vars
  <1>. QED  BY <1>1, <1>2, <1>3, <1>4, <1>5 DEF Next

LEMMA LifeInv ==
  ASSUME Sizes, VSB_new \/ VSB_clear \/ VSB_delete \/ VSB_finish
  PROVE  Sizes'
  <1>1. CASE VSB_new
    <2>1. VSB_extendsize(0) \in 1 .. IntMax
      BY VsbAssumption, ExtendSize
    <2>. QED  BY <1>1, <2>1 DEF VSB_new, Sizes, caller, Idle
  <1>2. CASE VSB_clear \/ VSB_delete
    <2>1. todo.n = 0 /\ Len(rest) = 0 /\ UNCHANGED <<todo, rest>> /\ len' = 0 /\ text' = 0
      BY <1>2 DEF VSB_clear, VSB_delete, caller, Idle
    <2>2. size' = 0 \/ (size' = size /\ size # 0)
      BY <1>2 DEF VSB_clear, VSB_delete
    <2>3. Idle'
      BY <1>2 DEF VSB_clear, VSB_delete, caller, Idle
    <2>. QED  BY <2>1, <2>2, <2>3, VsbAssumption DEF Sizes
  <1>3. CASE VSB_finish
    BY <1>3 DEF VSB_finish, Sizes, caller, Idle, Ready
  <1>. QED  BY <1>1, <1>2, <1>3

LEMMA CallInv ==
  ASSUME Sizes, VSB_bcat \/ VSB_printf \/ VSB_quote
  PROVE  Sizes'
  <1>1. CASE VSB_bcat \/ VSB_printf
    <2>0. \A n \in Lengths : Bytes(n) \in Pieces /\ Printf(n) \in Pieces
      BY VsbAssumption DEF Bytes, Printf, Pieces
    <2>1. PICK q \in Pieces : Appends(q)
      BY <1>1, <2>0 DEF VSB_bcat, VSB_printf
    <2>2. rest = <<>> /\ Len(rest) = 0
      BY <2>1 DEF Appends, Ready, Idle
    <2>. QED  BY <2>1, <2>2 DEF Appends, Sizes, Pieces, Ready, Idle
  <1>2. CASE VSB_quote
    <2>1. PICK p \in Strings : text + 4 * (Len(p) + 2) <= MaxText /\ rest' = <<"graph">> \o p \o <<"graph">>
      BY <1>2 DEF VSB_quote
    <2>2. rest' \in Seq(Kinds) /\ Len(rest') = Len(p) + 2 /\ Len(p) \in Nat
      BY <2>1, VsbAssumption DEF Kinds
    <2>. QED  BY <1>2, <2>1, <2>2 DEF VSB_quote, Sizes, Ready, Idle, Pieces
  <1>. QED  BY <1>1, <1>2

LEMMA QuoteInv ==
  ASSUME Sizes, QuoteChar
  PROVE  Sizes'
  <1>1. Head(rest) \in Kinds /\ rest' \in Seq(Kinds) /\ Len(rest') = Len(rest) - 1
    BY DEF QuoteChar, Sizes
  <1>2. PieceOf(Head(rest)) \subseteq {q \in Pieces : q.n <= 4}
    BY <1>1 DEF PieceOf, Bytes, Printf, Kinds, Pieces
  <1>3. todo' \in Pieces /\ todo'.n <= 4 /\ todo'.n \in Nat
    BY <1>2 DEF QuoteChar, Pieces
  <1>4. size # 0 /\ todo.n = 0 /\ Len(rest) \in Nat /\ UNCHANGED <<size, len, text>>
    BY DEF QuoteChar, Sizes, Idle
  <1>. QED  BY <1>1, <1>3, <1>4, VsbAssumption DEF Sizes

\* What a step that appends at most k bytes has to keep to.
LEMMA StepInv ==
  ASSUME Sizes, NEW k \in Nat, k <= todo.n, todo' \in Pieces, todo'.n <= todo.n - k, UNCHANGED rest,
         size' \in 1 .. IntMax, len' \in Nat, len' < size', len' <= len + k, text' = len'
  PROVE  Sizes'
  BY VsbAssumption DEF Sizes, Pieces

LEMMA BytesInv ==
  ASSUME Sizes, VSB_put_byte
  PROVE  Sizes'
  <1>. DEFINE room == VSB_FREESPACE
              k == IF room = 0 THEN 1 ELSE IF todo.n <= room THEN todo.n ELSE room
  <1>1. /\ size \in 1 .. IntMax /\ len \in Nat /\ todo.n \in Nat \ {0} /\ len = text
        /\ room \in Nat /\ room = size - (len + 1) /\ len + todo.n <= MaxText
    BY VsbAssumption DEF Sizes, Pieces, VSB_FREESPACE, VSB_put_byte, PutBytes, Idle
  <1>2. k \in Nat \ {0} /\ k <= todo.n /\ (room > 0 => k <= room) /\ (room = 0 => k = 1)
    BY <1>1
  <1>3. todo' = [todo EXCEPT !.n = @ - k] /\ UNCHANGED rest
    BY DEF VSB_put_byte, PutBytes
  <1>4. todo' \in Pieces /\ todo'.n = todo.n - k
    BY <1>1, <1>2, <1>3 DEF Sizes, Pieces
  <1>5. text' = len' \/ (text' = text + k /\ error' = 0)
    BY DEF VSB_put_byte, PutBytes
  <1>6. \/ room > 0 /\ len' = len + k /\ size' = size
        \/ room = 0 /\ size' = VSB_extendsize(size + 1) /\ len' = len + k
        \/ room = 0 /\ error' = ENOMEM /\ size' = size /\ len' = len
    BY DEF VSB_put_byte, PutBytes
  <1>7. text' = len'
    BY <1>1, <1>5, <1>6 DEF ENOMEM
  <1>8. /\ VSB_extendsize(size + 1) \in Nat /\ VSB_extendsize(size + 1) >= size + 1
        /\ VSB_extendsize(size + 1) <= size + 1 + 4096
    BY <1>1, ExtendSize
  <1>9. size' \in 1 .. IntMax /\ len' \in Nat /\ len' < size' /\ len' <= len + k
    BY <1>1, <1>2, <1>6, <1>8, VsbAssumption
  <1>. HIDE DEF room, k
  <1>. QED  BY <1>1, <1>2, <1>3, <1>4, <1>7, <1>9, StepInv

LEMMA PrintfInv ==
  ASSUME Sizes, VSB_vprintf
  PROVE  Sizes'
  <1>. DEFINE n == todo.n
              new == VSB_extendsize(size + (n - VSB_FREESPACE))
  <1>1. /\ size \in 1 .. IntMax /\ len \in Nat /\ n \in Nat \ {0} /\ len = text
        /\ VSB_FREESPACE = size - (len + 1) /\ len < size /\ len + n <= MaxText
    BY VsbAssumption DEF Sizes, Pieces, VSB_FREESPACE, VSB_vprintf, Vprintf, Idle
  <1>2. todo' = None /\ UNCHANGED rest /\ None \in Pieces /\ None.n = 0
    BY DEF VSB_vprintf, Vprintf, None, Pieces
  <1>3. \/ n <= VSB_FREESPACE /\ len' = len + n /\ size' = size
        \/ n > VSB_FREESPACE /\ size' = new /\ len' = len + n
        \/ n > VSB_FREESPACE /\ len' = len + VSB_FREESPACE /\ size' = size /\ cut' = TRUE
    BY <1>1 DEF VSB_vprintf, Vprintf
  <1>4. text' = IF cut' THEN len' ELSE text + n
    BY DEF VSB_vprintf, Vprintf
  <1>5. text' = len'
    BY <1>1, <1>3, <1>4
  <1>6. n > VSB_FREESPACE => new \in Nat /\ new >= len + n + 1 /\ new <= len + n + 1 + 4096
    <2>1. n > VSB_FREESPACE => size + (n - VSB_FREESPACE) = len + n + 1 /\ len + n + 1 \in Nat
      BY <1>1
    <2>. QED  BY <2>1, ExtendSize
  <1>7. size' \in 1 .. IntMax /\ len' \in Nat /\ len' < size' /\ len' <= len + n
    BY <1>1, <1>3, <1>6, VsbAssumption
  <1>. QED  BY <1>1, <1>2, <1>5, <1>7, StepInv

LEMMA NextInv == Inv /\ [Next]_vars => Inv'
  <1>. SUFFICES ASSUME Inv, [Next]_vars PROVE Sizes'
    BY FlagsInv DEF Inv
  <1>1. CASE UNCHANGED vars
    BY <1>1 DEF Inv, Sizes, Idle, vars, caller
  <1>2. CASE Refused
    <2>1. todo' = None /\ None \in Pieces /\ None.n = 0 /\ UNCHANGED <<size, len, rest, text>> /\ todo.n > 0
      BY <1>2 DEF Refused, None, Pieces
    <2>2. todo.n \in Nat /\ Len(rest) \in Nat /\ size # 0
      BY <2>1 DEF Inv, Sizes, Idle, Pieces
    <2>. QED  BY <2>1, <2>2, VsbAssumption DEF Inv, Sizes
  <1>. QED  BY <1>1, <1>2, LifeInv, CallInv, QuoteInv, BytesInv, PrintfInv DEF Next, Inv

\* The inductive invariant: the text, the piece at hand and what is left to
\* quote are bounded together, and what is in the buffer is the text.
THEOREM VsbInvariant == Spec => []Inv
  BY InitInv, NextInv, PTL DEF Spec

\* The assertions of vsb.c hold and no size overflows an int, as long as what is
\* put into a buffer is two pages short of that.
THEOREM Integrity == Spec => []TypeOK
  <1>1. Inv => TypeOK
    BY DEF Inv, Flags, Sizes, TypeOK
  <1>. QED  BY <1>1, VsbInvariant, PTL

\* A buffer without an error and without a printf that was cut holds all that
\* was appended.
THEOREM NothingIsLost == Spec => []NothingLost
  <1>1. Inv => NothingLost
    BY DEF Inv, Sizes, NothingLost
  <1>. QED  BY <1>1, VsbInvariant, PTL
=============================================================================
