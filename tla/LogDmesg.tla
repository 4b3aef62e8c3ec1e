------------------------------ MODULE LogDmesg ------------------------------
(***************************************************************************)
(* log_dmesg of bsd/kern/subr_log.c, the dmesg read of the kernel message *)
(* buffer: with bsd_log_lock held it walks the ring from msg_bufx, drops  *)
(* NULs and "\n<...>" syslog sequences, stops at msg_bufx - 1 or when     *)
(* localbuff is full, adds a newline if the text does not end in one and *)
(* a terminator, and copies out the newest buffersize bytes.              *)
(*                                                                         *)
(* msg_size is read once to size localbuff and again, after the lock was *)
(* dropped for kalloc_data, for the walk; a resize may come in between,   *)
(* so the two are chosen independently.  A byte is a model value; one     *)
(* call is modelled, and it ends when it returns.                         *)
(***************************************************************************)
EXTENDS Naturals, Sequences, SequencesExt

CONSTANTS
  NUL, NL, LT, GT,  \* '\0', '\n', '<', '>'
  Other,            \* every other byte
  Sizes,            \* msg_size values
  BufSizes          \* buffersize values of the caller

Bytes == {NUL, NL, LT, GT} \cup Other

VARIABLES
  ring,    \* msg_bufc[0 .. msg_size - 1] during the walk
  size,    \* msg_size during the walk
  bufx,    \* msg_bufx during the walk
  lsize,   \* localbuff_size - 2, from the first read of msg_size
  bsz,     \* buffersize
  p,       \* the walk pointer, as an index into msg_bufc
  newl,    \* newl: the last byte appended was '\n'
  skip,    \* skip: inside a "\n<...>" sequence
  out,     \* localbuff[0 .. i - 1]
  pc,      \* "loop", "end" or "done"
  res      \* the bytes copied out

vars == <<ring, size, bufx, lsize, bsz, p, newl, skip, out, pc, res>>

(* The first read of msg_size, kalloc_data of localbuff and the second   *)
(* lock: the walk starts at msg_bufx of the buffer as it is now.         *)
Init ==
  /\ size \in Sizes
  /\ ring \in [0..size - 1 -> Bytes]
  /\ bufx \in 0..size - 1
  /\ lsize \in Sizes
  /\ bsz \in BufSizes
  /\ p = bufx /\ newl = FALSE /\ skip = FALSE
  /\ out = <<>> /\ pc = "loop" /\ res = <<>>

(* Mutant: the bounds check counts the byte after the one just stored. *)
FullLate(n) == n = lsize + 1

\* i == localbuff_size - 2 after storing byte number n.
Full(n) == n = lsize

(* One pass of the for loop body: wrap p past the end, then skip inside a *)
(* syslog sequence (a '>' ends it), start one on '<' after a newline,     *)
(* drop a NUL, or append the byte; a full localbuff breaks the loop.      *)
LoopStep ==
  /\ pc = "loop" /\ p # bufx - 1
  /\ LET q  == IF p >= size THEN 0 ELSE p
         ch == ring[q]
     IN \/ /\ skip
           /\ IF ch = GT THEN newl' = FALSE /\ skip' = FALSE
                         ELSE UNCHANGED <<newl, skip>>
           /\ p' = q + 1 /\ UNCHANGED <<out, pc>>
        \/ /\ ~skip /\ newl /\ ch = LT
           /\ skip' = TRUE
           /\ p' = q + 1 /\ UNCHANGED <<newl, out, pc>>
        \/ /\ ~skip /\ ~(newl /\ ch = LT) /\ ch = NUL
           /\ p' = q + 1 /\ UNCHANGED <<newl, skip, out, pc>>
        \/ /\ ~skip /\ ~(newl /\ ch = LT) /\ ch # NUL
           /\ newl' = (ch = NL)
           /\ out' = Append(out, ch)
           /\ IF Full(Len(out) + 1) THEN pc' = "end" ELSE UNCHANGED pc
           /\ p' = q + 1 /\ UNCHANGED skip
  /\ UNCHANGED <<ring, size, bufx, lsize, bsz, res>>

\* The loop condition: p reached msg_bufc + msg_bufx - 1.
LoopExit ==
  /\ pc = "loop" /\ p = bufx - 1
  /\ pc' = "end"
  /\ UNCHANGED <<ring, size, bufx, lsize, bsz, p, newl, skip, out, res>>

\* The text localbuff holds once the loop is over.
Text == (IF newl THEN out ELSE Append(out, NL)) \o <<NUL>>

(* Mutant: copyout starts at localbuff whatever the text's length. *)
DmesgCopyHead(t) == IF bsz >= Len(t) THEN t ELSE SubSeq(t, 1, bsz)

\* copystart and copysize: the whole text, or its last buffersize bytes.
DmesgCopy(t) ==
  IF bsz >= Len(t) THEN t ELSE SubSeq(t, Len(t) - bsz + 1, Len(t))

(* After the loop: the newline unless the text ends in one, the           *)
(* terminator, and copyout of the chosen bytes.                           *)
LoopEnd ==
  /\ pc = "end"
  /\ res' = DmesgCopy(Text)
  /\ pc' = "done"
  /\ UNCHANGED <<ring, size, bufx, lsize, bsz, p, newl, skip, out>>

Next == LoopStep \/ LoopExit \/ LoopEnd

(* The walk runs with bsd_log_lock, a spin lock, held: nothing preempts   *)
(* it, so it keeps taking steps while it can.                             *)
Spec == Init /\ [][Next]_vars /\ WF_vars(Next)
-----------------------------------------------------------------------------
(* Properties *)

TypeOK ==
  /\ size \in Sizes /\ ring \in [0..size - 1 -> Bytes]
  /\ bufx \in 0..size - 1 /\ lsize \in Sizes /\ bsz \in BufSizes
  /\ p \in 0..size /\ newl \in BOOLEAN /\ skip \in BOOLEAN
  /\ out \in Seq(Bytes) /\ Len(out) <= lsize
  /\ pc \in {"loop", "end", "done"} /\ res \in Seq(Bytes)

\* The ring read from msg_bufx for n bytes, wrapping at msg_size.
RingFrom(n) == [k \in 1..n |-> ring[(bufx + k - 1) % size]]

(* Reference: the bytes the walk meets, as the comment before the loop   *)
(* says: "start at the write pointer, and make one loop up to write       *)
(* pointer - 1".                                                          *)
OneLoop == RingFrom(size - 1)

(* Reference: the syslog filter over a NUL-free byte sequence, by the     *)
(* shape of the text: a '<' right after an emitted newline swallows        *)
(* everything up to and including the next '>' (or the rest, if none).    *)
(* It emits at most room bytes; the result is the emitted text and        *)
(* whether it ends "in a newline".                                        *)
RECURSIVE Filtered(_, _, _)
Filtered(s, nl, room) ==
  IF s = <<>> \/ room = 0 THEN [text |-> <<>>, nl |-> nl]
  ELSE LET c == Head(s) IN
    IF nl /\ c = LT
      THEN LET g == SelectInSeq(Tail(s), LAMBDA b : b = GT) IN
           IF g = 0 THEN [text |-> <<>>, nl |-> TRUE]
                    ELSE Filtered(SubSeq(Tail(s), g + 1, Len(Tail(s))), FALSE, room)
      ELSE LET r == Filtered(Tail(s), c = NL, room - 1) IN
           [text |-> <<c>> \o r.text, nl |-> r.nl]

(* The text of a walk: NULs vanish, the filtered bytes up to the size of  *)
(* localbuff, then a newline unless it ends in one, then the NUL.         *)
TextOf(w) ==
  LET f == Filtered(SelectSeq(w, LAMBDA b : b # NUL), FALSE, lsize)
  IN (IF f.nl THEN f.text ELSE Append(f.text, NL)) \o <<NUL>>

\* res is what copyout takes of text e: its newest buffersize bytes.
CopiedFrom(e) ==
  /\ IsSuffix(res, e)
  /\ Len(res) = IF bsz < Len(e) THEN bsz ELSE Len(e)

(* When log_dmesg returns, the bytes it copied out are the newest          *)
(* buffersize bytes of the filtered text of one loop from msg_bufx up to  *)
(* msg_bufx - 1, newline and terminator added.                            *)
DmesgOneLoop == pc = "done" => CopiedFrom(TextOf(OneLoop))

(* DmesgOneLoop wherever the stop test can be met (msg_bufx >= 2): the    *)
(* pointer wrap, the stop test, the break on a full localbuff sized from  *)
(* an earlier msg_size, the skip state and the copystart arithmetic       *)
(* together produce what the reference says.  For msg_bufx 0 or 1 the    *)
(* test runs after ++p and before the wrap, where p is never               *)
(* msg_bufc + msg_bufx - 1, and the walk goes round until localbuff is    *)
(* full; the run logdmesg_one_loop checks that case.                      *)
DmesgMatchesReference == bufx >= 2 => DmesgOneLoop
=============================================================================
