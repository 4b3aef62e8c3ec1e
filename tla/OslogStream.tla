----------------------------- MODULE OslogStream -----------------------------
(***************************************************************************)
(* The oslog_stream device of bsd/kern/subr_log.c: os_log writers append  *)
(* records (oslog_stream) to a byte ring oslog_streambufp and to the      *)
(* oslog_stream_buf_head queue of list entries; readers dequeue one entry *)
(* per read into the static logline and copy it out; open allocates the  *)
(* ring and a pool of NumEntries list entries, close drops what is        *)
(* queued.  Everything shared is under oslog_stream_lock, a spin lock, so *)
(* every locked section is one step; the unlocked reads of                *)
(* oslog_stream_open, the wakeup after the unlock, thread_block and the   *)
(* uiomove out of logline are steps of their own.                         *)
(*                                                                         *)
(* A message is its id; a byte of the ring holds the id of the record it *)
(* belongs to (0: never written).  A record is the ft_length bytes the   *)
(* two oslog_streamwrite_append_bytes calls put in one go.                *)
(***************************************************************************)
EXTENDS Naturals, Sequences, SequencesExt

CONSTANTS
  Writers,     \* threads calling oslog_stream
  Readers,     \* threads in oslog_streamread on the open descriptor
  Openers,     \* processes calling oslog_streamopen
  Selectors,   \* threads in select(2) for reading on the open descriptor
  BufSize,     \* oslog_stream_buf_size
  NumEntries,  \* oslog_stream_num_entries
  Lens,        \* ft_length of a log record: header plus publen
  MaxMsgs      \* bound on oslog_stream calls

ASSUME BufSize \in Nat \ {0} /\ NumEntries \in Nat \ {0}
ASSUME Lens \subseteq Nat \ {0} /\ MaxMsgs \in Nat

Ids == 1..MaxMsgs
Rec == [t : {"log"}, off : 0..BufSize - 1, size : Lens, id : Ids]
         \cup [t : {"meta"}, id : Ids]
Call == [meta : BOOLEAN, len : Lens, id : Ids, safe : BOOLEAN]

VARIABLES
  open,      \* oslog_stream_open
  nbio,      \* LOG_NBIO in oslog_streamsoftc.sc_state
  rdwait,    \* LOG_RDWAIT in oslog_streamsoftc.sc_state
  ring,      \* msg_bufc[0 .. BufSize - 1]
  bufx,      \* msg_bufx
  bufr,      \* msg_bufr
  avail,     \* oslog_stream_buf_bytesavail
  free,      \* entries on oslog_stream_free_head
  q,         \* oslog_stream_buf_head, oldest first
  logline,   \* the static logline of oslog_streamread
  panicked,  \* a NULL entry was dereferenced
  sent,      \* oslog_stream calls so far
  wpc,       \* writer: "idle", "locked" (before stream_lock), "wake"
  wrec,      \* writer: the call in progress
  rpc,       \* reader: "idle", "block" (in thread_block), "copy"
  waiting,   \* readers whose assert_wait on oslog_streambufp is pending
  deq,       \* reader: the entry the read in progress dequeued
  opc,       \* opener: "idle" or "alloc" (lock dropped for kalloc)
  selq       \* selectors recorded on oslog_streamsoftc.sc_selp, asleep

vars == <<open, nbio, rdwait, ring, bufx, bufr, avail, free, q, logline,
          panicked, sent, wpc, wrec, rpc, waiting, deq, opc, selq>>
ringv == <<ring, bufx, bufr, avail, free, q>>

NoRec == [t |-> "none"]
NoCall == [meta |-> FALSE, len |-> 1, id |-> 1, safe |-> TRUE]

Init ==
  /\ open = FALSE /\ nbio = FALSE /\ rdwait = FALSE
  /\ ring = [i \in 0..BufSize - 1 |-> 0]
  /\ bufx = 0 /\ bufr = 0 /\ avail = 0 /\ free = 0 /\ q = <<>>
  /\ logline = <<>> /\ panicked = FALSE /\ sent = 0
  /\ wpc = [w \in Writers |-> "idle"]
  /\ wrec = [w \in Writers |-> NoCall]
  /\ rpc = [r \in Readers |-> "idle"]
  /\ waiting = {} /\ deq = [r \in Readers |-> NoRec]
  /\ opc = [o \in Openers |-> "idle"] /\ selq = {}
-----------------------------------------------------------------------------
(* Opening and closing *)

\* First locked check: not open, so drop the lock for the allocations.
OpenCheck(o) ==
  /\ opc[o] = "idle" /\ ~open /\ ~panicked
  /\ opc' = [opc EXCEPT ![o] = "alloc"]
  /\ UNCHANGED <<open, nbio, rdwait, ringv, logline, panicked, sent, wpc,
                 wrec, rpc, waiting, deq, selq>>

(* kalloc of the ring or the entries fails (ENOMEM); another open got in  *)
(* first (EBUSY); or the ring, the free list of NumEntries entries, the   *)
(* pointers and bytesavail are set up and the stream is open.             *)
OpenFinish(o) ==
  /\ opc[o] = "alloc" /\ ~panicked
  /\ opc' = [opc EXCEPT ![o] = "idle"]
  /\ \/ UNCHANGED <<open, ringv>>
     \/ open /\ UNCHANGED <<open, ringv>>
     \/ /\ ~open /\ open' = TRUE
        /\ ring' = [i \in 0..BufSize - 1 |-> 0]
        /\ free' = NumEntries /\ q' = <<>>
        /\ bufx' = 0 /\ bufr' = 0 /\ avail' = BufSize
  /\ UNCHANGED <<nbio, rdwait, logline, panicked, sent, wpc, wrec, rpc,
                 waiting, deq, selq>>

(* Mutant: selwakeup is done only when a reader set LOG_RDWAIT. *)
WakeupLockedSelUnderRdwait ==
  IF open /\ rdwait THEN waiting' = {} /\ rdwait' = FALSE /\ selq' = {}
                    ELSE UNCHANGED <<waiting, rdwait, selq>>

(* oslog_streamwakeup_locked: nothing on a closed stream; else selwakeup *)
(* every selector, and wake the readers asleep on the buffer if one set   *)
(* LOG_RDWAIT.                                                            *)
WakeupLocked ==
  IF ~open THEN UNCHANGED <<waiting, rdwait, selq>>
  ELSE /\ selq' = {}
       /\ IF rdwait THEN waiting' = {} /\ rdwait' = FALSE
                    ELSE UNCHANGED <<waiting, rdwait>>

(* The last close of the descriptor (no read or select is in progress on *)
(* it): drop every queued entry, wake readers and selectors, clear NBIO,  *)
(* selthreadclear, reset the pointers.                                    *)
Close ==
  /\ open /\ \A r \in Readers : rpc[r] = "idle" /\ ~panicked /\ selq = {}
  /\ q' = <<>>
  /\ WakeupLocked
  /\ nbio' = FALSE /\ open' = FALSE /\ bufr' = 0 /\ bufx' = 0
  /\ UNCHANGED <<ring, avail, free, logline, panicked, sent, wpc, wrec, rpc,
                 deq, opc>>

\* FIONBIO on the open descriptor.
Ioctl ==
  /\ open /\ \E v \in BOOLEAN : nbio' = v /\ ~panicked
  /\ UNCHANGED <<open, rdwait, ringv, logline, panicked, sent, wpc, wrec,
                 rpc, waiting, deq, opc, selq>>
-----------------------------------------------------------------------------
(* Writing *)

\* The index of the oldest log entry in s (metadata is skipped), 0 if none.
FirstLog(s) == SelectInSeq(s, LAMBDA e : e.t = "log")

\* STAILQ_REMOVE of entry i, msg_bufr moved past its bytes.
Evict(st, i) ==
  [st EXCEPT !.q = RemoveAt(st.q, i),
             !.bufr = (st.bufr + st.q[i].size) % BufSize]

(* Mutant: the consumed entry's bytes are dropped without moving msg_bufr. *)
FindFreeEntryNoBufr(st) ==
  IF st.free > 0 THEN [st EXCEPT !.free = @ - 1]
  ELSE [st EXCEPT !.q = RemoveAt(st.q, FirstLog(st.q))]

(* oslog_stream_find_free_buf_entry_locked: take a free entry, or consume *)
(* the oldest log entry (msg_bufr moves past it; bytesavail is left as   *)
(* it is).                                                               *)
FindFreeEntry(st) ==
  IF st.free > 0 THEN [st EXCEPT !.free = @ - 1]
  ELSE Evict(st, FirstLog(st.q))

(* Mutant: the loop is an if, dropping at most one entry. *)
MakeRoomOnce(st, len) ==
  IF len <= st.avail \/ st.panic THEN st
  ELSE IF FirstLog(st.q) = 0 THEN [st EXCEPT !.panic = TRUE]
  ELSE LET e == st.q[FirstLog(st.q)] IN
       [Evict(st, FirstLog(st.q)) EXCEPT !.avail = @ + e.size, !.free = @ + 1]

(* The loop of oslog_streamwrite_locked: while ft_length exceeds          *)
(* bytesavail, drop the oldest log entry, give its bytes back and put its *)
(* entry on the free list.  Stepping past the metadata to a NULL entry    *)
(* (no log entry left) sets panic.                                       *)
RECURSIVE MakeRoom(_, _)
MakeRoom(st, len) ==
  IF len <= st.avail \/ st.panic THEN st
  ELSE IF FirstLog(st.q) = 0 THEN [st EXCEPT !.panic = TRUE]
  ELSE LET e == st.q[FirstLog(st.q)] IN
       MakeRoom([Evict(st, FirstLog(st.q)) EXCEPT !.avail = @ + e.size,
                                                 !.free = @ + 1], len)

\* oslog_streamwrite_append_bytes of len bytes of record id at msg_bufx.
AppendBytes(st, len, id) ==
  [st EXCEPT !.ring = [i \in 0..BufSize - 1 |->
                        IF (i - st.bufx + BufSize) % BufSize < len
                          THEN id ELSE st.ring[i]],
             !.bufx = (st.bufx + len) % BufSize,
             !.avail = @ - len]

(* oslog_streamwrite_locked: a record longer than the ring is dropped;    *)
(* otherwise an entry, room, the bytes, and the entry at the tail.       *)
StreamWrite(len, id) ==
  LET st0 == [ring |-> ring, bufx |-> bufx, bufr |-> bufr, avail |-> avail,
              free |-> free, q |-> q, panic |-> FALSE]
      st1 == MakeRoom(FindFreeEntry(st0), len)
      st2 == AppendBytes(st1, len, id)
  IN
  IF len > BufSize THEN UNCHANGED <<ringv, panicked>>
  ELSE IF st1.panic THEN panicked' = TRUE /\ UNCHANGED ringv
  ELSE /\ ring' = st2.ring /\ bufx' = st2.bufx /\ bufr' = st2.bufr
       /\ avail' = st2.avail /\ free' = st2.free
       /\ q' = Append(st2.q, [t |-> "log", off |-> bufx, size |-> len, id |-> id])
       /\ UNCHANGED panicked

(* oslog_stream: a new call (is_metadata, ft_length, id, whether           *)
(* oslog_is_safe() holds) and the unlocked check of oslog_stream_open;    *)
(* a closed stream drops the message.                                    *)
StreamCall(w) ==
  /\ wpc[w] = "idle" /\ sent < MaxMsgs /\ ~panicked
  /\ sent' = sent + 1
  /\ \/ /\ open /\ wpc' = [wpc EXCEPT ![w] = "locked"]
        /\ \E m \in BOOLEAN, l \in Lens, s \in BOOLEAN :
             wrec' = [wrec EXCEPT ![w] = [meta |-> m, len |-> l,
                                          id |-> sent + 1, safe |-> s]]
     \/ ~open /\ UNCHANGED <<wpc, wrec>>
  /\ UNCHANGED <<open, nbio, rdwait, ringv, logline, panicked, rpc,
                 waiting, deq, opc, selq>>

\* stream_metadata_create fails to allocate: the message is dropped.
MetaCreateFail(w) ==
  /\ wpc[w] = "locked" /\ wrec[w].meta /\ ~panicked
  /\ wpc' = [wpc EXCEPT ![w] = "idle"] /\ wrec' = [wrec EXCEPT ![w] = NoCall]
  /\ UNCHANGED <<open, nbio, rdwait, ringv, logline, panicked, sent,
                 rpc, waiting, deq, opc, selq>>

(* Mutant: the lock is taken without checking oslog_stream_open again. *)
WriteLockedNoRecheck(w) ==
  /\ wpc[w] = "locked" /\ ~panicked
  /\ \/ /\ wrec[w].meta
        /\ q' = Append(q, [t |-> "meta", id |-> wrec[w].id])
        /\ UNCHANGED <<ring, bufx, bufr, avail, free, panicked>>
     \/ /\ ~wrec[w].meta
        /\ StreamWrite(wrec[w].len, wrec[w].id)
  /\ wpc' = [wpc EXCEPT ![w] = "wake"]
  /\ UNCHANGED <<open, nbio, rdwait, logline, sent, wrec, rpc, waiting, deq,
                 opc, selq>>

(* oslog_stream_metadata / oslog_stream_data under the lock: a stream     *)
(* closed since the unlocked check drops the message and skips the      *)
(* wakeup; otherwise the entry is queued and the wakeup follows.          *)
WriteLocked(w) ==
  /\ wpc[w] = "locked" /\ ~panicked
  /\ \/ /\ ~open
        /\ wpc' = [wpc EXCEPT ![w] = "idle"]
        /\ wrec' = [wrec EXCEPT ![w] = NoCall]
        /\ UNCHANGED <<ringv, panicked>>
     \/ /\ open /\ wrec[w].meta
        /\ q' = Append(q, [t |-> "meta", id |-> wrec[w].id])
        /\ wpc' = [wpc EXCEPT ![w] = "wake"]
        /\ UNCHANGED <<ring, bufx, bufr, avail, free, panicked, wrec>>
     \/ /\ open /\ ~wrec[w].meta
        /\ StreamWrite(wrec[w].len, wrec[w].id)
        /\ wpc' = [wpc EXCEPT ![w] = "wake"]
        /\ UNCHANGED wrec
  /\ UNCHANGED <<open, nbio, rdwait, logline, sent, rpc, waiting,
                 deq, opc, selq>>

(* oslog_streamwakeup after the unlock: nothing when oslog_is_safe() is   *)
(* false, else oslog_streamwakeup_locked under the lock.                  *)
Wakeup(w) ==
  /\ wpc[w] = "wake" /\ ~panicked
  /\ wpc' = [wpc EXCEPT ![w] = "idle"] /\ wrec' = [wrec EXCEPT ![w] = NoCall]
  /\ IF wrec[w].safe THEN WakeupLocked ELSE UNCHANGED <<waiting, rdwait, selq>>
  /\ UNCHANGED <<open, nbio, ringv, logline, panicked, sent, rpc,
                 deq, opc>>
-----------------------------------------------------------------------------
(* Reading *)

\* What oslog_streamread puts in logline for entry e: timestamp, then the
\* metadata or the record's bytes from the ring.
Line(e) ==
  <<e.id>> \o IF e.t = "meta" THEN <<e.id>>
              ELSE [k \in 1..e.size |-> ring[(e.off + k - 1) % BufSize]]

\* The bytes a read of entry e should hand out: its timestamp and payload.
Expected(e) ==
  <<e.id>> \o IF e.t = "meta" THEN <<e.id>> ELSE [k \in 1..e.size |-> e.id]

\* msg_bufr after reading log entry e, contiguous or wrapped.
BufrAfter(e) ==
  IF e.off + e.size <= BufSize
    THEN IF bufr + e.size = BufSize THEN 0 ELSE bufr + e.size
    ELSE e.off + e.size - BufSize

\* The empty queue: set LOG_RDWAIT and assert_wait before unlocking.
Sleep(r) ==
  /\ rdwait' = TRUE /\ waiting' = waiting \cup {r}
  /\ rpc' = [rpc EXCEPT ![r] = "block"]
  /\ UNCHANGED <<ringv, logline, deq>>

(* Mutant: a metadata entry's size is also credited to bytesavail. *)
DequeueCreditAll(r) ==
  LET e == Head(q) IN
  /\ q' = Tail(q) /\ logline' = Line(e)
  /\ deq' = [deq EXCEPT ![r] = e]
  /\ IF e.t = "log"
       THEN bufr' = BufrAfter(e) /\ avail' = avail + e.size /\ free' = free + 1
       ELSE avail' = avail + 1 /\ UNCHANGED <<bufr, free>>
  /\ rpc' = [rpc EXCEPT ![r] = "copy"]
  /\ UNCHANGED <<ring, bufx, rdwait, waiting>>

(* Take the head entry, copy it into logline; a log entry's bytes are     *)
(* released (msg_bufr, bytesavail) and its entry goes back on the free    *)
(* list; then the lock is dropped.                                        *)
Dequeue(r) ==
  LET e == Head(q) IN
  /\ q' = Tail(q) /\ logline' = Line(e)
  /\ deq' = [deq EXCEPT ![r] = e]
  /\ IF e.t = "log"
       THEN bufr' = BufrAfter(e) /\ avail' = avail + e.size /\ free' = free + 1
       ELSE UNCHANGED <<bufr, avail, free>>
  /\ rpc' = [rpc EXCEPT ![r] = "copy"]
  /\ UNCHANGED <<ring, bufx, rdwait, waiting>>

(* One pass of the loop of oslog_streamread with the lock held: an empty *)
(* queue returns EWOULDBLOCK for IO_NDELAY or LOG_NBIO and sleeps         *)
(* otherwise; a non-empty one is read.                                    *)
ReadBody(r, nd) ==
  IF q = <<>>
    THEN IF nd \/ nbio
           THEN rpc' = [rpc EXCEPT ![r] = "idle"]
                /\ UNCHANGED <<rdwait, waiting, ringv, logline, deq>>
           ELSE Sleep(r)
    ELSE Dequeue(r)

\* read(2) on the open descriptor.
ReadStart(r) ==
  /\ rpc[r] = "idle" /\ open /\ ~panicked
  /\ \E nd \in BOOLEAN : ReadBody(r, nd)
  /\ UNCHANGED <<open, nbio, panicked, sent, wpc, wrec, opc, selq>>

(* thread_block returns THREAD_AWAKENED; relock and loop.  A read that   *)
(* slept had no IO_NDELAY, though LOG_NBIO may have been set since.      *)
ReadWake(r) ==
  /\ rpc[r] = "block" /\ r \notin waiting /\ ~panicked
  /\ ReadBody(r, FALSE)
  /\ UNCHANGED <<open, nbio, panicked, sent, wpc, wrec, opc, selq>>

\* A signal interrupts the sleep: EINTR.
ReadIntr(r) ==
  /\ rpc[r] = "block" /\ r \in waiting /\ ~panicked
  /\ waiting' = waiting \ {r} /\ rpc' = [rpc EXCEPT ![r] = "idle"]
  /\ UNCHANGED <<open, nbio, rdwait, ringv, logline, panicked, sent, wpc,
                 wrec, deq, opc, selq>>

\* uiomove from logline, after the lock was dropped.
ReadCopy(r) ==
  /\ rpc[r] = "copy" /\ ~panicked
  /\ rpc' = [rpc EXCEPT ![r] = "idle"] /\ deq' = [deq EXCEPT ![r] = NoRec]
  /\ UNCHANGED <<open, nbio, rdwait, ringv, logline, panicked, sent, wpc,
                 wrec, waiting, opc, selq>>
-----------------------------------------------------------------------------
(* Selecting *)

(* oslog_streamselect for FREAD under the lock: an empty queue records    *)
(* the selector on sc_selp and select(2) sleeps; a non-empty one returns  *)
(* 1 and select(2) returns at once, which changes nothing here.           *)
Select(s) ==
  /\ s \notin selq /\ open /\ q = <<>> /\ ~panicked
  /\ selq' = selq \cup {s}
  /\ UNCHANGED <<open, nbio, rdwait, ringv, logline, panicked, sent, wpc,
                 wrec, rpc, waiting, deq, opc>>

\* The select(2) timeout or a signal ends the sleep.
SelectIntr(s) ==
  /\ s \in selq /\ ~panicked
  /\ selq' = selq \ {s}
  /\ UNCHANGED <<open, nbio, rdwait, ringv, logline, panicked, sent, wpc,
                 wrec, rpc, waiting, deq, opc>>
-----------------------------------------------------------------------------
(* Every action requires ~panicked: a panic stops the machine. *)
Next ==
  \/ \E o \in Openers : OpenCheck(o) \/ OpenFinish(o)
  \/ Close \/ Ioctl
  \/ \E w \in Writers : StreamCall(w) \/ MetaCreateFail(w) \/ WriteLocked(w)
                        \/ Wakeup(w)
  \/ \E r \in Readers : ReadStart(r) \/ ReadWake(r) \/ ReadIntr(r)
                        \/ ReadCopy(r)
  \/ \E s \in Selectors : Select(s) \/ SelectIntr(s)

(* A writer that has dropped the queue lock goes on to its wakeup: it    *)
(* runs in a kernel thread that returns from oslog_stream.  Nothing else *)
(* is assumed: starting calls, open, close, ioctl, signals and the       *)
(* scheduling of readers get no fairness.                                *)
Fairness == \A w \in Writers : WF_vars(Wakeup(w))

Spec == Init /\ [][Next]_vars /\ Fairness
-----------------------------------------------------------------------------
(* Properties *)

\* The log entries of the queue, oldest first; metadata holds no ring bytes.
Logs == SelectSeq(q, LAMBDA e : e.t = "log")

\* The ring bytes queued log entries occupy.
LogBytes == FoldSeq(LAMBDA e, n : e.size + n, 0, Logs)

TypeOK ==
  /\ open \in BOOLEAN /\ nbio \in BOOLEAN /\ rdwait \in BOOLEAN
  /\ ring \in [0..BufSize - 1 -> 0..MaxMsgs]
  /\ bufx \in 0..BufSize - 1 /\ bufr \in 0..BufSize - 1
  /\ avail \in 0..BufSize /\ free \in 0..NumEntries
  /\ q \in Seq(Rec) /\ panicked \in BOOLEAN /\ sent \in 0..MaxMsgs
  /\ wpc \in [Writers -> {"idle", "locked", "wake"}] /\ wrec \in [Writers -> Call]
  /\ rpc \in [Readers -> {"idle", "block", "copy"}]
  /\ waiting \subseteq Readers /\ deq \in [Readers -> Rec \cup {NoRec}]
  /\ opc \in [Openers -> {"idle", "alloc"}] /\ selq \subseteq Selectors

(* The queued log records tile the ring from msg_bufr to msg_bufx: the    *)
(* oldest starts at msg_bufr (what oslog_streamread asserts), each starts *)
(* where the one before ends, the newest ends at msg_bufx, and together  *)
(* they fit in the ring.  Both eviction paths, the read and the wrap      *)
(* arithmetic of append and read must agree for this to hold.            *)
RecordsTileRing ==
  /\ LogBytes <= BufSize
  /\ Logs = <<>> => bufr = bufx
  /\ Logs # <<>> =>
       /\ Logs[1].off = bufr
       /\ (Logs[Len(Logs)].off + Logs[Len(Logs)].size) % BufSize = bufx
       /\ \A i \in 1..Len(Logs) - 1 :
            Logs[i + 1].off = (Logs[i].off + Logs[i].size) % BufSize

(* No queued record has been overwritten: every byte of every queued log  *)
(* record still holds that record.  The writer makes room by bytesavail, *)
(* so this needs bytesavail never to promise bytes that are still queued. *)
QueuedRecordsIntact ==
  \A i \in 1..Len(Logs) :
    \A k \in 0..Logs[i].size - 1 : ring[(Logs[i].off + k) % BufSize] = Logs[i].id

(* A closed stream holds nothing: close empties the queue and resets the *)
(* pointers, and a writer that saw oslog_stream_open before a close      *)
(* checks it again under the lock instead of queueing into the stream    *)
(* that close has freed.                                                  *)
ClosedStreamEmpty == ~open => q = <<>> /\ bufx = 0 /\ bufr = 0

(* A reader asleep in oslog_streamread, or a selector asleep in select,  *)
(* when a writer running in a safe context reaches oslog_streamwakeup is  *)
(* woken: LOG_RDWAIT and the assert_wait, or the selrecord, are done      *)
(* before the queue lock is dropped, so the wakeup after the unlock       *)
(* cannot miss them; selwakeup does not depend on LOG_RDWAIT.             *)
WakeupReachesSleeper ==
  \A w \in Writers, r \in Readers \cup Selectors :
    (wpc[w] = "wake" /\ wrec[w].safe /\ r \in waiting \cup selq)
      ~> (r \notin waiting \cup selq \/ panicked)

(* No write dereferences a NULL entry: when oslog_streamwrite_locked      *)
(* needs room it finds a log entry to drop (assert(next_entry != NULL)).  *)
NoNullEntry == ~panicked

(* A read hands out the entry it dequeued: the bytes uiomove copies from  *)
(* logline are the timestamp and payload of the entry that same read took *)
(* off the queue.                                                         *)
ReadReturnsDequeued ==
  [][\A r \in Readers : ReadCopy(r) => logline = Expected(deq[r])]_vars
=============================================================================
