----------------------------- MODULE AuditPipe -----------------------------
(***************************************************************************)
(* One audit pipe of bsd/security/audit/audit_pipe.c: the record queue    *)
(* filled by audit_pipe_submit / audit_pipe_submit_user and drained by     *)
(* audit_pipe_read, with the flush and queue-limit ioctls.                *)
(*                                                                         *)
(* Two locks guard the queue.  ap_mtx guards every field; ap_sx (a sleep  *)
(* lock) serialises reads and flushes, because audit_pipe_read drops       *)
(* ap_mtx while uiomove copies out of the head record and relies on ap_sx  *)
(* to keep that record in the queue.  Code that runs entirely under        *)
(* ap_mtx is one step, so ap_mtx itself needs no variable: a step that    *)
(* takes it is a step of the code that runs under it.                     *)
(*                                                                         *)
(* A record is abstracted to an identifier (its insertion number) and its *)
(* length; its bytes are not modelled.  Whether the pipe's preselection    *)
(* selects a record is a free choice of the submitter; a record it does   *)
(* not select changes nothing.                                             *)
(***************************************************************************)
EXTENDS Naturals, Sequences, SequencesExt

CONSTANTS
  Readers,         \* user threads calling read(2) on the pipe
  RecordLens,      \* lengths a record may have
  ResidSizes,      \* sizes of the user buffer of a read
  MaxSubmits,      \* bound on the records the audit worker submits
  QLimitDefault,   \* AUDIT_PIPE_QLIMIT_DEFAULT
  QLimitMin,       \* AUDIT_PIPE_QLIMIT_MIN
  QLimitMax,       \* AUDIT_PIPE_QLIMIT_MAX
  QLimitRequests,  \* values a caller passes to AUDITPIPE_SET_QLIMIT
  NULL

ASSUME /\ QLimitMin <= QLimitDefault /\ QLimitDefault <= QLimitMax
       /\ NULL \notin Readers /\ "ctl" \notin Readers

\* The thread issuing ioctls on the pipe.
Ctl == "ctl"

VARIABLES
  queue,      \* ap_queue: records <<[id, len]>>, oldest first
  qlen,       \* ap_qlen
  qbyteslen,  \* ap_qbyteslen
  qoffset,    \* ap_qoffset: bytes of the head record already read
  qlimit,     \* ap_qlimit
  nbio,       \* AUDIT_PIPE_NBIO in ap_flags
  inserts,    \* ap_inserts
  drops,      \* ap_drops
  sx,         \* holder of ap_sx
  cvq,        \* readers asleep on ap_cv
  rpc,        \* where each reader is in audit_pipe_read
  resid,      \* uio_resid of each reader
  toread,     \* the byte count each reader is copying
  ape,        \* the record each reader is copying from
  cpc,        \* where the ioctl thread is
  selq        \* readers recorded on ap_selinfo by audit_pipe_poll

vars == <<queue, qlen, qbyteslen, qoffset, qlimit, nbio, inserts, drops,
          sx, cvq, rpc, resid, toread, ape, cpc, selq>>

Record == [id: 1..MaxSubmits, len: RecordLens]

Min2(a, b) == IF a < b THEN a ELSE b

\* The total length of the records in a queue.
Bytes(q) == FoldLeft(LAMBDA acc, rec : acc + rec.len, 0, q)

\* audit_pipe_alloc: a zeroed pipe with the default queue limit.
Init ==
  /\ queue = <<>> /\ qlen = 0 /\ qbyteslen = 0 /\ qoffset = 0
  /\ qlimit = QLimitDefault /\ nbio = FALSE
  /\ inserts = 0 /\ drops = 0
  /\ sx = NULL /\ cvq = {}
  /\ rpc = [r \in Readers |-> "idle"]
  /\ resid = [r \in Readers |-> 0]
  /\ toread = [r \in Readers |-> 0]
  /\ ape = [r \in Readers |-> 0]
  /\ cpc = "idle" /\ selq = {}

-----------------------------------------------------------------------------
(* audit_pipe_submit(_user) delivering one record to the pipe: with ap_mtx *)
(* held, audit_pipe_append drops the newest record when the queue is at   *)
(* its limit or an allocation fails, else inserts it at the tail, counts  *)
(* it, wakes the pollers (selwakeup) and every sleeping reader            *)
(* (cv_broadcast).                                                        *)
Drop ==
  /\ drops' = drops + 1
  /\ UNCHANGED <<selq, queue, qlen, qbyteslen, inserts, cvq, rpc>>

(* Mutant: audit_pipe_append without the cv_broadcast. *)
SubmitNoBroadcast ==
  /\ inserts + drops < MaxSubmits
  /\ \/ qlen >= qlimit /\ Drop
     \/ /\ qlen < qlimit
        /\ \E n \in RecordLens :
             /\ queue' = Append(queue, [id |-> inserts + 1, len |-> n])
             /\ qbyteslen' = qbyteslen + n
        /\ qlen' = qlen + 1
        /\ inserts' = inserts + 1
        /\ selq' = {}
        /\ rpc' = [r \in Readers |-> IF r \in selq THEN "idle" ELSE rpc[r]]
        /\ UNCHANGED <<drops, cvq>>
  /\ UNCHANGED <<qoffset, qlimit, nbio, sx, resid, toread, ape, cpc>>

Submit ==
  /\ inserts + drops < MaxSubmits
  /\ \/ qlen >= qlimit /\ Drop
     \/ qlen < qlimit /\ Drop         \* kalloc_type or kalloc_data failed
     \/ /\ qlen < qlimit
        /\ \E n \in RecordLens :
             /\ queue' = Append(queue, [id |-> inserts + 1, len |-> n])
             /\ qbyteslen' = qbyteslen + n
        /\ qlen' = qlen + 1
        /\ inserts' = inserts + 1
        /\ cvq' = {}
        /\ selq' = {}
        /\ rpc' = [r \in Readers |-> CASE r \in cvq -> "mtx"
                                        [] r \in selq -> "idle"
                                        [] OTHER -> rpc[r]]
        /\ UNCHANGED drops
  /\ UNCHANGED <<qoffset, qlimit, nbio, sx, resid, toread, ape, cpc>>

-----------------------------------------------------------------------------
(* audit_pipe_read, entry: take ap_sx (slck_lock_sig; a signal returns     *)
(* EINTR and changes nothing), then contend for ap_mtx.                   *)
ReadLockSx(r) ==
  /\ rpc[r] = "idle"
  /\ sx = NULL
  /\ sx' = r
  /\ \E n \in ResidSizes : resid' = [resid EXCEPT ![r] = n]
  /\ rpc' = [rpc EXCEPT ![r] = "mtx"]
  /\ UNCHANGED <<selq, queue, qlen, qbyteslen, qoffset, qlimit, nbio, inserts,
                 drops, cvq, toread, ape, cpc>>

(* Start copying from the head record: toread = MIN(record_len - qoffset, *)
(* uio_resid), then drop ap_mtx for uiomove.                               *)
StartCopy(r) ==
  /\ toread' = [toread EXCEPT ![r] = Min2(Head(queue).len - qoffset, resid[r])]
  /\ ape' = [ape EXCEPT ![r] = Head(queue).id]
  /\ rpc' = [rpc EXCEPT ![r] = "copy"]

(* With ap_mtx held (taken here, or retaken after cv_wait_sig): while the *)
(* queue is empty, return EAGAIN for a non-blocking pipe or sleep on      *)
(* ap_cv, releasing ap_mtx; once it is not, start the copy loop.          *)
ReadCheck(r) ==
  /\ rpc[r] = "mtx"
  /\ \/ /\ queue = <<>> /\ nbio
        /\ sx' = NULL
        /\ rpc' = [rpc EXCEPT ![r] = "idle"]
        /\ UNCHANGED <<cvq, toread, ape>>
     \/ /\ queue = <<>> /\ ~nbio
        /\ cvq' = cvq \cup {r}
        /\ rpc' = [rpc EXCEPT ![r] = "cvwait"]
        /\ UNCHANGED <<sx, toread, ape>>
     \/ /\ queue # <<>>
        /\ StartCopy(r)
        /\ UNCHANGED <<sx, cvq>>
  /\ UNCHANGED <<selq, queue, qlen, qbyteslen, qoffset, qlimit, nbio, inserts,
                 drops, resid, cpc>>

(* cv_wait_sig interrupted by a signal: retake ap_mtx, release both locks *)
(* and return the error.                                                  *)
ReadInterrupted(r) ==
  /\ rpc[r] = "cvwait"
  /\ cvq' = cvq \ {r}
  /\ sx' = NULL
  /\ rpc' = [rpc EXCEPT ![r] = "idle"]
  /\ UNCHANGED <<selq, queue, qlen, qbyteslen, qoffset, qlimit, nbio, inserts,
                 drops, resid, toread, ape, cpc>>

(* uiomove without ap_mtx.  A fault returns the error holding only ap_sx, *)
(* which is released; otherwise the user buffer shrinks by toread.        *)
ReadCopy(r) ==
  /\ rpc[r] = "copy"
  /\ \/ /\ resid' = [resid EXCEPT ![r] = @ - toread[r]]
        /\ rpc' = [rpc EXCEPT ![r] = "relock"]
        /\ UNCHANGED sx
     \/ /\ sx' = NULL
        /\ rpc' = [rpc EXCEPT ![r] = "idle"]
        /\ UNCHANGED resid
  /\ UNCHANGED <<selq, queue, qlen, qbyteslen, qoffset, qlimit, nbio, inserts,
                 drops, cvq, toread, ape, cpc>>

(* Mutant: the loop condition drops uio_resid(uio) > 0. *)
ReadAdvanceIgnoresResid(r) ==
  /\ rpc[r] = "relock"
  /\ LET off  == qoffset + toread[r]
         done == off = Head(queue).len
         q    == IF done THEN Tail(queue) ELSE queue
     IN /\ queue' = q
        /\ qoffset' = IF done THEN 0 ELSE off
        /\ qbyteslen' = IF done THEN qbyteslen - Head(queue).len ELSE qbyteslen
        /\ qlen' = IF done THEN qlen - 1 ELSE qlen
        /\ IF q # <<>>
             THEN /\ toread' = [toread EXCEPT ![r] =
                                  Min2(Head(q).len - qoffset', resid[r])]
                  /\ ape' = [ape EXCEPT ![r] = Head(q).id]
                  /\ rpc' = [rpc EXCEPT ![r] = "copy"]
                  /\ UNCHANGED sx
             ELSE /\ sx' = NULL
                  /\ rpc' = [rpc EXCEPT ![r] = "idle"]
                  /\ UNCHANGED <<toread, ape>>
  /\ UNCHANGED <<selq, qlimit, nbio, inserts, drops, cvq, resid, cpc>>

(* Mutant: ap_qlen-- outside the record-finished branch. *)
ReadAdvanceCountsEveryPass(r) ==
  /\ rpc[r] = "relock"
  /\ LET off  == qoffset + toread[r]
         done == off = Head(queue).len
         q    == IF done THEN Tail(queue) ELSE queue
     IN /\ queue' = q
        /\ qoffset' = IF done THEN 0 ELSE off
        /\ qbyteslen' = IF done THEN qbyteslen - Head(queue).len ELSE qbyteslen
        /\ qlen' = qlen - 1
        /\ IF q # <<>> /\ resid[r] > 0
             THEN /\ toread' = [toread EXCEPT ![r] =
                                  Min2(Head(q).len - qoffset', resid[r])]
                  /\ ape' = [ape EXCEPT ![r] = Head(q).id]
                  /\ rpc' = [rpc EXCEPT ![r] = "copy"]
                  /\ UNCHANGED sx
             ELSE /\ sx' = NULL
                  /\ rpc' = [rpc EXCEPT ![r] = "idle"]
                  /\ UNCHANGED <<toread, ape>>
  /\ UNCHANGED <<selq, qlimit, nbio, inserts, drops, cvq, resid, cpc>>

(* Retake ap_mtx after the copy: advance qoffset; a record read to its end *)
(* is removed and freed (qbyteslen, qlen, qoffset updated).  Loop while   *)
(* records remain and the buffer has room, else release both locks.       *)
ReadAdvance(r) ==
  /\ rpc[r] = "relock"
  /\ LET off  == qoffset + toread[r]
         done == off = Head(queue).len
         q    == IF done THEN Tail(queue) ELSE queue
     IN /\ queue' = q
        /\ qoffset' = IF done THEN 0 ELSE off
        /\ qbyteslen' = IF done THEN qbyteslen - Head(queue).len ELSE qbyteslen
        /\ qlen' = IF done THEN qlen - 1 ELSE qlen
        /\ IF q # <<>> /\ resid[r] > 0
             THEN /\ toread' = [toread EXCEPT ![r] =
                                  Min2(Head(q).len - qoffset', resid[r])]
                  /\ ape' = [ape EXCEPT ![r] = Head(q).id]
                  /\ rpc' = [rpc EXCEPT ![r] = "copy"]
                  /\ UNCHANGED sx
             ELSE /\ sx' = NULL
                  /\ rpc' = [rpc EXCEPT ![r] = "idle"]
                  /\ UNCHANGED <<toread, ape>>
  /\ UNCHANGED <<selq, qlimit, nbio, inserts, drops, cvq, resid, cpc>>

-----------------------------------------------------------------------------
(* Mutant: the flush frees the records but leaves ap_qoffset. *)
audit_pipe_flush_keeps_offset ==
  /\ queue' = <<>>
  /\ qbyteslen' = 0
  /\ qlen' = 0
  /\ UNCHANGED qoffset

(* audit_pipe_flush with ap_mtx held: free every record, reset qoffset.   *)
audit_pipe_flush ==
  /\ queue' = <<>>
  /\ qbyteslen' = 0
  /\ qlen' = 0
  /\ qoffset' = 0

(* Mutant: AUDITPIPE_FLUSH without ap_sx. *)
FlushLockSxSkipped ==
  /\ cpc = "idle"
  /\ cpc' = "flush"
  /\ UNCHANGED <<selq, queue, qlen, qbyteslen, qoffset, qlimit, nbio, inserts,
                 drops, sx, cvq, rpc, resid, toread, ape>>

(* AUDITPIPE_FLUSH: take ap_sx (EINTR on a signal changes nothing), then  *)
(* flush under ap_mtx and release both.                                   *)
FlushLockSx ==
  /\ cpc = "idle"
  /\ sx = NULL
  /\ sx' = Ctl
  /\ cpc' = "flush"
  /\ UNCHANGED <<selq, queue, qlen, qbyteslen, qoffset, qlimit, nbio, inserts,
                 drops, cvq, rpc, resid, toread, ape>>

Flush ==
  /\ cpc = "flush"
  /\ audit_pipe_flush
  /\ sx' = NULL
  /\ cpc' = "idle"
  /\ UNCHANGED <<selq, qlimit, nbio, inserts, drops, cvq, rpc, resid,
                 toread, ape>>

(* AUDITPIPE_SET_QLIMIT: a lockless store of the value when the range     *)
(* check passes, EINVAL otherwise.                                        *)
SetQLimit ==
  /\ cpc = "idle"
  /\ \E v \in QLimitRequests :
       /\ v >= QLimitMin \/ v <= QLimitMax
       /\ qlimit' = v
  /\ UNCHANGED <<selq, queue, qlen, qbyteslen, qoffset, nbio, inserts, drops,
                 sx, cvq, rpc, resid, toread, ape, cpc>>

(* audit_pipe_poll for POLLIN, with ap_mtx held: ready (no change) when  *)
(* the queue has a record, else selrecord, and poll sleeps until a        *)
(* selwakeup.                                                             *)
audit_pipe_poll(r) ==
  /\ rpc[r] = "idle"
  /\ queue = <<>>
  /\ selq' = selq \cup {r}
  /\ rpc' = [rpc EXCEPT ![r] = "pollwait"]
  /\ UNCHANGED <<queue, qlen, qbyteslen, qoffset, qlimit, nbio, inserts, drops,
                 sx, cvq, resid, toread, ape, cpc>>

\* FIONBIO under ap_mtx.
SetNBIO ==
  /\ cpc = "idle"
  /\ nbio' = ~nbio
  /\ UNCHANGED <<selq, queue, qlen, qbyteslen, qoffset, qlimit, inserts, drops,
                 sx, cvq, rpc, resid, toread, ape, cpc>>

-----------------------------------------------------------------------------
Next ==
  \/ Submit
  \/ \E r \in Readers :
       ReadLockSx(r) \/ ReadCheck(r) \/ ReadInterrupted(r)
         \/ ReadCopy(r) \/ ReadAdvance(r) \/ audit_pipe_poll(r)
  \/ FlushLockSx \/ Flush \/ SetQLimit \/ SetNBIO

(* A reader that holds ap_sx runs its read to the end (uiomove and the    *)
(* bookkeeping are not blocked by anything but ap_mtx, which every holder *)
(* releases at once); the flush likewise.                                 *)
Fairness ==
  /\ \A r \in Readers :
       WF_vars(ReadCheck(r)) /\ WF_vars(ReadCopy(r)) /\ WF_vars(ReadAdvance(r))
  /\ WF_vars(Flush)

Spec == Init /\ [][Next]_vars /\ Fairness
-----------------------------------------------------------------------------
(* Properties *)

TypeOK ==
  /\ queue \in Seq(Record) /\ Len(queue) <= MaxSubmits
  /\ {qlen, qbyteslen, qoffset, inserts, drops} \subseteq Nat
  /\ qlimit \in {QLimitDefault} \cup QLimitRequests
  /\ nbio \in BOOLEAN
  /\ sx \in Readers \cup {Ctl, NULL}
  /\ cvq \subseteq Readers /\ selq \subseteq Readers
  /\ rpc \in [Readers -> {"idle", "mtx", "cvwait", "copy", "relock", "pollwait"}]
  /\ resid \in [Readers -> Nat] /\ toread \in [Readers -> Nat]
  /\ ape \in [Readers -> 0..MaxSubmits]
  /\ cpc \in {"idle", "flush"}

(* The counters match the queue, as the KASSERTs of audit_pipe_flush and  *)
(* audit_pipe_read expect: ap_qlen is its length, ap_qbyteslen the bytes  *)
(* of its records, and ap_qoffset lies inside the head record (0 when the *)
(* queue is empty), so FIONREAD's qbyteslen - qoffset is the unread byte  *)
(* count.  Appends, partial reads, record removals and flushes each       *)
(* update a different subset of the four.                                 *)
QueueAccounting ==
  /\ qlen = Len(queue)
  /\ qbyteslen = Bytes(queue)
  /\ IF queue = <<>> THEN qoffset = 0 ELSE qoffset < Head(queue).len

(* The record a reader copies from with ap_mtx dropped is still the head  *)
(* of the queue, with at least toread unread bytes at the offset it       *)
(* started from ("queue out of sync after uiomove" must not fire): appends *)
(* go to the tail and flushes wait for ap_sx.                              *)
CopyTargetStable ==
  \A r \in Readers :
    rpc[r] \in {"copy", "relock"} =>
      /\ queue # <<>>
      /\ Head(queue).id = ape[r]
      /\ qoffset + toread[r] <= Head(queue).len

(* No lost wakeup: a reader asleep on ap_cv, or a poller recorded on      *)
(* ap_selinfo, sleeps only while the queue is empty; each append that     *)
(* could end its wait wakes it (cv_broadcast and selwakeup under ap_mtx,  *)
(* the mutex its emptiness check held).                                   *)
NoSleepWithRecords == cvq \cup selq # {} => queue = <<>>

(* A read that has started copying returns: the loop consumes at least   *)
(* one byte of the head record per iteration and frees each record it     *)
(* finishes, so it ends when the buffer is full or the queue is empty.     *)
ReadReturns ==
  \A r \in Readers : rpc[r] = "copy" ~> rpc[r] = "idle"
=============================================================================
