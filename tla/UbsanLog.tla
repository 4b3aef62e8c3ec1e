----------------------------- MODULE UbsanLog -----------------------------
(***************************************************************************)
(* The UBSan violation log of san/memory/ubsan_log.c: a fixed-size ring    *)
(* written by any number of CPUs and read by two sysctl handlers.          *)
(*                                                                         *)
(* A writer (ubsan_log_append, preemption disabled) reserves a slot by a   *)
(* CAS on ubsan_log_next, stores the violation into it, and publishes it   *)
(* by a CAS of ubsan_log_head from its slot to the next one, waiting for   *)
(* earlier writers to publish first.  ubsan_log_tail is moved only by the  *)
(* logentries sysctl, which clears the log up to a head it read earlier;   *)
(* the log sysctl dumps the entries from tail to head.                     *)
(*                                                                         *)
(* Both handlers are registered without CTLFLAG_LOCKED, so the sysctl      *)
(* layer (kern_newsysctl.c, sysctl_unlocked_node_lock) runs them one at a  *)
(* time: they are modelled as one sysctl actor.  Each atomic load, store   *)
(* or CAS is one step; a failed CAS retries and is no step.               *)
(***************************************************************************)
EXTENDS Naturals

CONSTANTS
  Writers,   \* CPUs that report violations
  LogSize,   \* ubsan_log_size (2048 in the code)
  NULL       \* an entry never written

ASSUME LogSize \in Nat /\ LogSize >= 2 /\ NULL \notin Writers

Slots == 0..LogSize - 1

VARIABLES
  head,     \* ubsan_log_head: end of the published entries
  tail,     \* ubsan_log_tail: first entry not yet cleared
  next,     \* ubsan_log_next: next slot to reserve
  log,      \* ubsan_log[]: the writer whose violation a slot holds
  wpc,      \* where each writer is in ubsan_log_append
  slot,     \* the slot i each writer reserved
  spc,      \* where the sysctl handler is
  sh,       \* the head the handler loaded
  cur       \* the dump loop index

vars == <<head, tail, next, log, wpc, slot, spc, sh, cur>>

(* Mutant: the increment without the wrap. *)
next_entry_no_wrap(x) == x + 1

\* next_entry
next_entry(x) == (x + 1) % LogSize

\* Distance from a to b walking forward on the ring.
Dist(a, b) == (b - a + LogSize) % LogSize

\* The slots from a up to, not including, b.
RingRange(a, b) == {(a + k) % LogSize : k \in 0..Dist(a, b) - 1}

\* ubsan_log_recorded, as written.
ubsan_log_recorded(h, t) ==
  IF h >= t THEN h - t ELSE LogSize - (t - h + 1)

Init ==
  /\ head = 0 /\ tail = 0 /\ next = 0
  /\ log = [s \in Slots |-> NULL]
  /\ wpc = [w \in Writers |-> "idle"]
  /\ slot = [w \in Writers |-> 0]
  /\ spc = "idle" /\ sh = 0 /\ cur = 0

-----------------------------------------------------------------------------
(* ubsan_log_append, reserve: the rmw loop on ubsan_log_next.  If the slot *)
(* after next is the tail the log is full and the violation is dropped    *)
(* (no state changes); otherwise next advances and slot i is ours.        *)
Reserve(w) ==
  /\ wpc[w] = "idle"
  /\ next_entry(next) # tail
  /\ next' = next_entry(next)
  /\ slot' = [slot EXCEPT ![w] = next]
  /\ wpc' = [wpc EXCEPT ![w] = "write"]
  /\ UNCHANGED <<head, tail, log, spc, sh, cur>>

\* ubsan_log[i] = *violation
Write(w) ==
  /\ wpc[w] = "write"
  /\ log' = [log EXCEPT ![slot[w]] = w]
  /\ wpc' = [wpc EXCEPT ![w] = "commit"]
  /\ UNCHANGED <<head, tail, next, slot, spc, sh, cur>>

(* Mutant: the rmw loop on head forgets to wait for earlier writers. *)
CommitUnordered(w) ==
  /\ wpc[w] = "commit"
  /\ head' = next_entry(slot[w])
  /\ wpc' = [wpc EXCEPT ![w] = "idle"]
  /\ UNCHANGED <<tail, next, log, slot, spc, sh, cur>>

(* Mutant: publish everything reserved so far. *)
CommitToNext(w) ==
  /\ wpc[w] = "commit"
  /\ head = slot[w]
  /\ head' = next
  /\ wpc' = [wpc EXCEPT ![w] = "idle"]
  /\ UNCHANGED <<tail, next, log, slot, spc, sh, cur>>

(* Mutant: the rmw loop on head compares it with n instead of i. *)
CommitComparesNew(w) ==
  /\ wpc[w] = "commit"
  /\ head = next_entry(slot[w])
  /\ head' = next_entry(slot[w])
  /\ wpc' = [wpc EXCEPT ![w] = "idle"]
  /\ UNCHANGED <<tail, next, log, slot, spc, sh, cur>>

(* ubsan_log_append, publish: the rmw loop on ubsan_log_head moves it from *)
(* i to next_entry(i); while head is not i it gives up and waits           *)
(* (hw_wait_while_equals), which is no step.                              *)
Commit(w) ==
  /\ wpc[w] = "commit"
  /\ head = slot[w]
  /\ head' = next_entry(slot[w])
  /\ wpc' = [wpc EXCEPT ![w] = "idle"]
  /\ UNCHANGED <<tail, next, log, slot, spc, sh, cur>>

-----------------------------------------------------------------------------
(* sysctl_ubsan_log_dump: load head, then (after the fence) tail.  An      *)
(* empty count by ubsan_log_recorded, or a failed kalloc_data, returns at *)
(* once; otherwise the loop formats the entries from tail to head.         *)
(* Mutant: the dump loads ubsan_log_next as its end. *)
DumpLoadHeadFromNext ==
  /\ spc = "idle"
  /\ sh' = next
  /\ spc' = "dump_tail"
  /\ UNCHANGED <<head, tail, next, log, wpc, slot, cur>>

DumpLoadHead ==
  /\ spc = "idle"
  /\ sh' = head
  /\ spc' = "dump_tail"
  /\ UNCHANGED <<head, tail, next, log, wpc, slot, cur>>

DumpLoadTail ==
  /\ spc = "dump_tail"
  /\ \/ /\ ubsan_log_recorded(sh, tail) # 0
        /\ spc' = "dump"
        /\ cur' = tail
     \/ /\ spc' = "idle"      \* empty, or the buffer allocation failed
        /\ UNCHANGED cur
  /\ UNCHANGED <<head, tail, next, log, wpc, slot, sh>>

\* One iteration of the loop: ubsan_json_format(&ubsan_log[i]).
DumpEntry ==
  /\ spc = "dump"
  /\ IF cur # sh
       THEN /\ cur' = next_entry(cur)
            /\ UNCHANGED spc
       ELSE /\ spc' = "idle"
            /\ UNCHANGED cur
  /\ UNCHANGED <<head, tail, next, log, wpc, slot, sh>>

(* sysctl_ubsan_log_entries: load head (and tail, for the count it         *)
(* reports).  A read, an error or a nonzero new value returns; writing 0  *)
(* stores the loaded head into tail, clearing the log up to it.            *)
EntriesLoadHead ==
  /\ spc = "idle"
  /\ sh' = head
  /\ spc' = "entries"
  /\ UNCHANGED <<head, tail, next, log, wpc, slot, cur>>

EntriesStore ==
  /\ spc = "entries"
  /\ \/ tail' = sh
     \/ UNCHANGED tail
  /\ spc' = "idle"
  /\ UNCHANGED <<head, next, log, wpc, slot, sh, cur>>

-----------------------------------------------------------------------------
Next ==
  \/ \E w \in Writers : Reserve(w) \/ Write(w) \/ Commit(w)
  \/ DumpLoadHead \/ DumpLoadTail \/ DumpEntry
  \/ EntriesLoadHead \/ EntriesStore

(* A writer runs with preemption disabled, so once it has reserved a slot *)
(* it keeps running until it has published it.                           *)
Fairness == \A w \in Writers : WF_vars(Write(w)) /\ WF_vars(Commit(w))

Spec == Init /\ [][Next]_vars /\ Fairness
-----------------------------------------------------------------------------
(* Properties *)

TypeOK ==
  /\ {head, tail, next} \subseteq Slots
  /\ log \in [Slots -> Writers \cup {NULL}]
  /\ wpc \in [Writers -> {"idle", "write", "commit"}]
  /\ slot \in [Writers -> Slots]
  /\ spc \in {"idle", "dump_tail", "dump", "entries"}
  /\ sh \in Slots /\ cur \in Slots

\* The slots reserved by writers that have not published yet.
InFlight == {slot[w] : w \in {v \in Writers : wpc[v] # "idle"}}

(* The three indices stay in ring order tail, head, next, and the slots   *)
(* between head and next are exactly the reservations of the writers      *)
(* still inside ubsan_log_append, one each: the full check on             *)
(* ubsan_log_next keeps writers out of the unread entries, and the        *)
(* ordered CAS on ubsan_log_head publishes the slots in reservation       *)
(* order, whichever writer finishes storing first.                        *)
ReservationsContiguous ==
  /\ Dist(tail, head) + Dist(head, next) = Dist(tail, next)
  /\ InFlight = RingRange(head, next)
  /\ \A v, w \in Writers :
       (v # w /\ wpc[v] # "idle" /\ wpc[w] # "idle") => slot[v] # slot[w]

(* The dump loop of sysctl_ubsan_log_dump only formats published entries, *)
(* never a slot a writer has reserved and may be storing into, although   *)
(* writers keep publishing and reserving while it runs.                   *)
DumpReadsPublished ==
  (spc = "dump" /\ cur # sh) => cur \in RingRange(tail, head)

(* Every violation whose slot was reserved is eventually published, even *)
(* when several writers wait on one another in the rmw loop on head.       *)
AppendCompletes ==
  \A w \in Writers : wpc[w] = "write" ~> wpc[w] = "idle"

\* The entries from tail to head, oldest first.
Published == [k \in 1..Dist(tail, head) |-> log[(tail + k - 1) % LogSize]]

AL == INSTANCE AbstractLog
        WITH Entries <- Writers, Capacity <- LogSize - 1, log <- Published

(* Refinement: the ring is a FIFO of at most ubsan_log_size - 1 entries.  *)
(* Every step publishes one entry at the end or clears a prefix; no       *)
(* writer ever overwrites an entry that is published and not cleared.     *)
LogRefinement == AL!Spec

(* ubsan_log_recorded returns the number of recorded entries: the count   *)
(* the logentries sysctl reports and the dump declares in                 *)
(* ubsan_json_begin, and 0 makes the dump report an empty log.  When the  *)
(* ring has wrapped (head < tail) it returns one less than the entries    *)
(* between tail and head.                                                 *)
RecordedMatchesOccupancy == ubsan_log_recorded(head, tail) = Dist(tail, head)
=============================================================================
