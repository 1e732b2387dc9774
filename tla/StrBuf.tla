------------------------------- MODULE StrBuf --------------------------------
(***************************************************************************)
(* The string buffer of src/src/support/str-buf.c, with a program that     *)
(* calls its functions in any order.  The contents of a block of memory    *)
(* are a function from its offsets to bytes; a write outside of the block  *)
(* would extend it.  A null pointer is the empty function.                 *)
(***************************************************************************)
EXTENDS Wrapper, Sequences

CONSTANTS Chars,        \* the bytes of a text
          NUL,
          UNINIT,       \* a byte of fresh memory
          Texts         \* bound: the texts that are appended

ASSUME NulAssumption == NUL \notin Chars
ASSUME TextsAssumption ==
  Texts \subseteq Seq(Chars) /\ \A s \in Texts : Len(s) <= PtrdiffMax

VARIABLES buf, size, len,       \* struct str_buf
          out,                  \* the block last detached
          dead                  \* die() was called

vars == << buf, size, len, out, dead >>

NULL == << >>

-----------------------------------------------------------------------------
(* Mutant of RoomFor: no room for the terminating NUL. *)
RoomForText(s) == Wrapped(len + Len(s))

(* The count for ALLOC_GROW(). *)
RoomFor(s) == Wrapped(len + Len(s) + 1)

(* realloc() keeps the old bytes. *)
Resized(m, n) == [x \in 0 .. n - 1 |-> IF x \in DOMAIN m THEN m[x] ELSE UNINIT]

(* A text and its NUL are written at an offset. *)
Written(m, at, s) ==
  [x \in DOMAIN m \cup at .. at + Len(s) |->
     IF x \in at .. at + Len(s) - 1 THEN s[x - at + 1]
     ELSE IF x = at + Len(s) THEN NUL ELSE m[x]]

Init ==
  buf = NULL /\ size = 0 /\ len = 0 /\ out = << >> /\ dead = FALSE

(* str_buf_vaddf(), str_buf_addf() and str_buf_addstr(): room is made, the *)
(* text is written behind the old one.                                     *)
Add(s) ==
  LET count == RoomFor(s)
      n     == AllocGrow(count, size)
      m     == IF count > size THEN Resized(buf, n) ELSE buf
  IN  /\ ~ dead
      /\ count > size => Allocable(n, 1)
      /\ buf' = Written(m, len, s)
      /\ size' = n
      /\ len' = Wrapped(len + Len(s))
      /\ UNCHANGED << out, dead >>

(* No memory, or a format that vsnprintf() rejects; str_buf_detach() too   *)
(* may find no memory.                                                     *)
Die == ~ dead /\ dead' = TRUE /\ UNCHANGED << buf, size, len, out >>

(* STR_BUF_INIT *)
Reset == buf' = NULL /\ size' = 0 /\ len' = 0

(* Mutant of ResetByDetach: the length survives. *)
ResetBuffer == buf' = NULL /\ size' = 0 /\ UNCHANGED len

ResetByDetach == Reset

(* str_buf_detach(); of an empty buffer it makes an empty text. *)
Detach ==
  /\ ~ dead
  /\ out' = IF buf = NULL THEN [x \in {0} |-> NUL] ELSE buf
  /\ ResetByDetach
  /\ UNCHANGED dead

(* str_buf_release() *)
Release == ~ dead /\ Reset /\ UNCHANGED << out, dead >>

Next == (\E s \in Texts : Add(s)) \/ Die \/ Detach \/ Release

Spec == Init /\ [][Next]_vars

-----------------------------------------------------------------------------
TypeOK ==
  /\ size \in 0 .. PtrdiffMax /\ len \in Nat
  /\ buf \in [0 .. size - 1 -> Chars \cup {NUL, UNINIT}]
  /\ dead \in BOOLEAN

(* The text always ends in its buffer, with a NUL; that holds with sizes   *)
(* that wrap, up to the largest object there can be.                       *)
EndsInBuffer ==
  IF buf = NULL THEN len = 0 ELSE len < size /\ buf[len] = NUL

(* The C string that is in a block of memory. *)
IsEnd(m, n) == n \in DOMAIN m /\ m[n] = NUL /\ \A x \in 0 .. n - 1 : m[x] # NUL

CString(m) ==
  IF m = NULL THEN << >>
  ELSE [x \in 1 .. (CHOOSE n \in DOMAIN m : IsEnd(m, n)) |-> m[x - 1]]

(* The C string in the buffer is all that was appended since it was last   *)
(* detached or released, and a detached one keeps it.                      *)
Builder == INSTANCE TextBuilder WITH text <- CString(buf), out <- CString(out)

BuilderSpec == Builder!Spec
=============================================================================
