-------------------------------- MODULE Vsb ---------------------------------
(***************************************************************************)
(* A growing string buffer (foreign/vsb.c) as the agent uses it, made by   *)
(* VSB_new_auto: one for a request's body, one for each answer in JSON.    *)
(* Of the bytes only their number is kept.  malloc may find no memory.     *)
(* What is appended comes in pieces, bytes one by one (bcat, cat, putc) or *)
(* all at once (printf); VSB_quote makes a piece of each character.        *)
(***************************************************************************)
EXTENDS Integers, Sequences

CONSTANTS
    Lengths,        \* of what callers append
    Strings,        \* that callers quote: sequences of Kinds
    IntMax,         \* the largest int
    MaxText         \* bound on what is put into a buffer before it is cleared

Kinds == {"graph", "escaped", "octal"}

ASSUME VsbAssumption ==
    /\ Lengths \subseteq Nat /\ Strings \subseteq Seq(Kinds)
    /\ MaxText \in Nat /\ IntMax \in Nat /\ MaxText + 2 * 4096 <= IntMax

VARIABLES
    size,           \* s_size, 0 when there is no buffer
    len,            \* s_len
    error,          \* s_error
    finished,       \* VSB_FINISHED
    todo,           \* the piece that is being appended
    rest,           \* the characters VSB_quote has yet to append
    text,           \* history: what callers appended, while none of it is missing
    cut             \* history: a printf found no memory

ENOMEM == 12
caller == <<todo, rest>>
vars == <<size, len, error, finished, caller, text, cut>>

Pieces == [by : {"byte", "printf"}, n : Nat]
None == [by |-> "byte", n |-> 0]
Bytes(n) == [by |-> "byte", n |-> n]
Printf(n) == [by |-> "printf", n |-> n]

Idle == todo.n = 0 /\ rest = <<>>
Ready == size # 0 /\ ~finished /\ Idle

Init ==
    /\ size = 0 /\ len = 0 /\ error = 0 /\ finished = FALSE
    /\ todo = None /\ rest = <<>> /\ text = 0 /\ cut = FALSE

-----------------------------------------------------------------------------
(* Sizes.                                                                  *)

\* The doubling loop from VSB_MINEXTENDSIZE, and roundup2 from a page on.
Doublings == {16, 32, 64, 128, 256, 512, 1024, 2048, 4096}
VSB_extendsize(n) ==
    IF n < 4096 THEN CHOOSE d \in Doublings : d >= n /\ \A e \in Doublings : e >= n => d <= e
    ELSE ((n + 4095) \div 4096) * 4096

VSB_FREESPACE == size - (len + 1)

-----------------------------------------------------------------------------
(* The life of a buffer.                                                   *)

VSB_new ==
    /\ size = 0
    /\ size' = VSB_extendsize(0)
    /\ UNCHANGED <<len, error, finished, caller, text, cut>>

\* Also when it is finished.
VSB_clear ==
    /\ size # 0 /\ Idle
    /\ len' = 0 /\ error' = 0 /\ finished' = FALSE
    /\ text' = 0 /\ cut' = FALSE
    /\ UNCHANGED <<size, caller>>

VSB_delete ==
    /\ size # 0 /\ Idle
    /\ size' = 0 /\ len' = 0 /\ error' = 0 /\ finished' = FALSE
    /\ text' = 0 /\ cut' = FALSE
    /\ UNCHANGED caller

\* The terminating zero goes to s_buf[s_len].
VSB_finish ==
    /\ Ready
    /\ finished' = TRUE
    /\ UNCHANGED <<size, len, error, caller, text, cut>>

-----------------------------------------------------------------------------
(* Appending.                                                              *)

\* VSB_bcat, VSB_cat and VSB_putc; VSB_printf.
Appends(piece) ==
    /\ Ready /\ error = 0
    /\ text + piece.n <= MaxText
    /\ todo' = piece
    /\ UNCHANGED <<size, len, error, finished, rest, text, cut>>
VSB_bcat == \E n \in Lengths : Appends(Bytes(n))
VSB_printf == \E n \in Lengths : Appends(Printf(n))

\* The quotes around it are characters like any other.
VSB_quote ==
    /\ Ready
    /\ \E p \in Strings :
           /\ text + 4 * (Len(p) + 2) <= MaxText
           /\ rest' = <<"graph">> \o p \o <<"graph">>
    /\ UNCHANGED <<size, len, error, finished, todo, text, cut>>
PieceOf(c) ==
    CASE c = "graph"   -> {Bytes(1)}
      [] c = "escaped" -> {Bytes(2)}
      [] c = "octal"   -> {Printf(n) : n \in 2 .. 4}
QuoteChar ==
    /\ todo.n = 0 /\ rest # <<>>
    /\ todo' \in PieceOf(Head(rest)) /\ rest' = Tail(rest)
    /\ UNCHANGED <<size, len, error, finished, text, cut>>

\* After an error nothing is appended.
Refused ==
    /\ todo.n > 0 /\ error # 0
    /\ todo' = None
    /\ UNCHANGED <<size, len, error, finished, rest, text, cut>>

\* As many bytes as there is room for, or one that needs more room.
PutBytes(room, failed) ==
    /\ todo.n > 0 /\ todo.by = "byte" /\ error = 0
    /\ LET k == IF room = 0 THEN 1 ELSE IF todo.n <= room THEN todo.n ELSE room
       IN  /\ \/ room > 0 /\ len' = len + k /\ UNCHANGED <<size, error>>
              \/ room = 0 /\ size' = VSB_extendsize(size + 1) /\ len' = len + k /\ error' = error
              \/ room = 0 /\ error' = failed /\ UNCHANGED <<size, len>>
           /\ text' = IF cut \/ error' # 0 THEN len' ELSE text + k
           /\ todo' = [todo EXCEPT !.n = @ - k]
    /\ UNCHANGED <<finished, rest, cut>>
VSB_put_byteLate == PutBytes(size - len, ENOMEM)
VSB_put_byteQuiet == PutBytes(VSB_FREESPACE, 0)
VSB_put_byte == PutBytes(VSB_FREESPACE, ENOMEM)

\* Without memory the output is cut, and with VSB_AUTOEXTEND that is no error.
Vprintf(extended) ==
    /\ todo.n > 0 /\ todo.by = "printf" /\ error = 0
    /\ UNCHANGED <<error, finished, rest>>
    /\ IF todo.n <= VSB_FREESPACE THEN len' = len + todo.n /\ UNCHANGED <<size, cut>>
       ELSE \/ size' = extended /\ len' = len + todo.n /\ cut' = cut
            \/ len' = len + VSB_FREESPACE /\ cut' = TRUE /\ size' = size
    /\ text' = IF cut' THEN len' ELSE text + todo.n
    /\ todo' = None
VSB_vprintf == Vprintf(VSB_extendsize(size + (todo.n - VSB_FREESPACE)))

Next ==
    \/ VSB_new \/ VSB_clear \/ VSB_delete \/ VSB_finish
    \/ VSB_bcat \/ VSB_printf \/ VSB_quote
    \/ QuoteChar \/ Refused \/ VSB_put_byte \/ VSB_vprintf
Spec == Init /\ [][Next]_vars

-----------------------------------------------------------------------------
\* Type correctness, and the assertions of vsb.c: the length and the zero
\* after it stay within the buffer (_assert_VSB_integrity), whose size stays
\* within an int.
TypeOK ==
    /\ size \in 0 .. IntMax /\ len \in Nat /\ text \in 0 .. MaxText
    /\ (IF size = 0 THEN len = 0 ELSE len < size)
    /\ error \in {0, ENOMEM} /\ finished \in BOOLEAN /\ cut \in BOOLEAN
    /\ todo \in Pieces /\ rest \in Seq(Kinds)

\* What a buffer without an error holds is all that was appended to it since it
\* was cleared: VSB_finish has the end of it to tell, unless it was a printf
\* that found no memory, which is the one loss without an error.
NothingLost == error = 0 /\ ~cut => len = text
=============================================================================
