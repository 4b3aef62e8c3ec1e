---------------------------- MODULE AbstractLog ----------------------------
(***************************************************************************)
(* What a bounded violation log promises its reader: a FIFO of at most    *)
(* Capacity published entries; publishing appends at the end, clearing    *)
(* drops a prefix, nothing else changes the entries.                       *)
(***************************************************************************)
EXTENDS Naturals, Sequences

CONSTANTS
  Entries,    \* the values an entry may take
  Capacity    \* how many entries the log can hold

VARIABLE log

TypeOK == log \in Seq(Entries) /\ Len(log) <= Capacity

Init == log = <<>>

Publish(e) ==
  /\ Len(log) < Capacity
  /\ log' = Append(log, e)

\* Drop the k oldest entries.
DropOldest(k) == log' = SubSeq(log, k + 1, Len(log))

Next ==
  \/ \E e \in Entries : Publish(e)
  \/ \E k \in 1..Len(log) : DropOldest(k)

Spec == Init /\ [][Next]_log
=============================================================================
