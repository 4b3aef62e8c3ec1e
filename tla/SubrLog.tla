------------------------------ MODULE SubrLog ------------------------------
(***************************************************************************)
(* The kernel message buffer of bsd/kern/subr_log.c: the ring msgbufp     *)
(* written by log_putc, read through /dev/klog by logread, and resized by  *)
(* the kern.msgbuf sysctl (log_setsize).  Every field is guarded by        *)
(* bsd_log_lock; a section that holds it is one step.  logread drops the   *)
(* lock around uiomove and log_setsize zeroes and frees the old buffer     *)
(* after dropping it; those are steps of their own.                        *)
(*                                                                         *)
(* A character is abstracted to its serial number (1 for the first one     *)
(* written, 0 for zeroed memory).  /dev/klog is opened exclusively, so     *)
(* there is one reader; log_putc calls are serialised by the lock, so one  *)
(* writer stands for all.  The device exports msgbufp                      *)
(* (ATM_ENABLE_LEGACY_LOGGING); FIOASYNC signals are not modelled.         *)
(***************************************************************************)
EXTENDS Naturals, Integers

CONSTANTS
  InitSize,     \* CONFIG_MSG_BSIZE
  MaxMsgBSize,  \* MAX_MSG_BSIZE
  Requests,     \* sizes written to kern.msgbuf
  ResidSizes,   \* sizes of the reader's buffer
  MaxChars,     \* bound on the characters logged
  MaxResizes    \* bound on the buffers log_setsize allocates

ASSUME /\ InitSize \in Nat \ {0} /\ InitSize <= MaxMsgBSize
       /\ Requests \subseteq Int /\ ResidSizes \subseteq Nat \ {0}

VARIABLES
  size,     \* msg_size
  bufx,     \* msg_bufx: next write index
  bufr,     \* msg_bufr: next read index
  buf,      \* msg_bufc[0 .. msg_size - 1]
  gen,      \* which allocation msg_bufc is (0: smsg_bufc)
  live,     \* allocations neither zeroed nor freed
  serial,   \* characters logged so far
  kept,     \* how many of the newest characters the ring still holds
  logopen,  \* log_open
  rdwait,   \* LOG_RDWAIT in logsoftc.sc_state
  rpc,      \* where the reader is in logread
  resid,    \* uio_resid of the read
  readpos,  \* readpos of the current copy
  rl,       \* its length l
  rgen,     \* the allocation it copies from
  wpc,      \* where the writer is in log_putc
  spc,      \* where the sysctl handler is
  snew,     \* the size it was given
  nbio,     \* LOG_NBIO in logsoftc.sc_state
  sel       \* a thread is recorded on logsoftc.sc_selp, asleep in select

vars == <<nbio, size, bufx, bufr, buf, gen, live, serial, kept, logopen, rdwait,
          rpc, resid, readpos, rl, rgen, wpc, spc, snew, sel>>

Min2(a, b) == IF a < b THEN a ELSE b

\* msg_bufx - msg_bufr, plus msg_size when negative.
Unread(x, r, s) == IF x - r < 0 THEN x - r + s ELSE x - r

\* msgbuf is a zeroed static array.
Init ==
  /\ size = InitSize /\ bufx = 0 /\ bufr = 0
  /\ buf = [i \in 0..InitSize - 1 |-> 0]
  /\ gen = 0 /\ live = {0}
  /\ serial = 0 /\ kept = 0
  /\ logopen = FALSE /\ rdwait = FALSE /\ nbio = FALSE
  /\ rpc = "idle" /\ resid = 0 /\ readpos = 0 /\ rl = 0 /\ rgen = 0
  /\ wpc = "idle"
  /\ spc = "idle" /\ snew = 0 /\ sel = FALSE

-----------------------------------------------------------------------------
(* Mutant: the wrap test of log_putc_locked compares with > . *)
NextBufxLate(x, s) == IF x + 1 > s THEN 0 ELSE x + 1

\* log_putc_locked: msg_bufx++, back to 0 at msg_size.
NextBufx(x, s) == IF x + 1 >= s THEN 0 ELSE x + 1

(* log_putc: with bsd_log_lock held, store the character and advance      *)
(* msg_bufx; then, after unlocking, call logwakeup for a newline or when  *)
(* |msg_bufx - msg_bufr| is at least half the buffer ("unsafe": the call *)
(* is made where oslog_is_safe() is false).  A failed bsd_log_lock only   *)
(* counts the drop.                                                       *)
log_putc ==
  /\ wpc = "idle" /\ serial < MaxChars
  /\ buf' = [buf EXCEPT ![bufx] = serial + 1]
  /\ bufx' = NextBufx(bufx, size)
  /\ serial' = serial + 1
  /\ kept' = Min2(kept + 1, size)
  /\ LET unread == bufx' - bufr
         count  == IF unread < 0 THEN 0 - unread ELSE unread
     IN \/ wpc' \in {"wakeup", "unsafe"}          \* c == '\n', or ...
        \/ count < size \div 2 /\ UNCHANGED wpc
  /\ UNCHANGED <<nbio, size, bufr, gen, live, logopen, rdwait, rpc, resid,
                 readpos, rl, rgen, spc, snew, sel>>

(* Mutant: selwakeup is done only when the reader set LOG_RDWAIT. *)
logwakeupSelUnderRdwait ==
  /\ wpc \in {"wakeup", "unsafe"}
  /\ IF wpc = "wakeup" /\ logopen /\ rdwait
       THEN /\ sel' = FALSE /\ rdwait' = FALSE
            /\ rpc' = IF rpc = "sleep" THEN "check" ELSE rpc
       ELSE UNCHANGED <<sel, rdwait, rpc>>
  /\ wpc' = "idle"
  /\ UNCHANGED <<nbio, size, bufx, bufr, buf, gen, live, serial, kept, logopen,
                 resid, readpos, rl, rgen, spc, snew>>

(* logwakeup: nothing where oslog_is_safe() is false; else, with the lock *)
(* held, nothing if the log is not open, otherwise selwakeup the          *)
(* selectors, then wake the reader if it set LOG_RDWAIT, and clear the    *)
(* flag.  A reader between setting the flag and tsleep misses the wakeup. *)
logwakeup ==
  /\ wpc \in {"wakeup", "unsafe"}
  /\ IF wpc = "wakeup" /\ logopen
       THEN /\ sel' = FALSE
            /\ IF rdwait
                 THEN /\ rdwait' = FALSE
                      /\ rpc' = IF rpc = "sleep" THEN "check" ELSE rpc
                 ELSE UNCHANGED <<rdwait, rpc>>
       ELSE UNCHANGED <<sel, rdwait, rpc>>
  /\ wpc' = "idle"
  /\ UNCHANGED <<nbio, size, bufx, bufr, buf, gen, live, serial, kept, logopen,
                 resid, readpos, rl, rgen, spc, snew>>

-----------------------------------------------------------------------------
(* Mutant: the copy loop drops the l == 0 test. *)
CopyLoopNoBreak(r) ==
  LET avail == IF bufx >= r THEN bufx - r ELSE size - r
      l     == Min2(avail, resid')
  IN IF resid' > 0
       THEN /\ readpos' = r /\ rl' = l /\ rgen' = gen
            /\ rpc' = "copy"
       ELSE /\ rpc' = "idle"
            /\ UNCHANGED <<readpos, rl, rgen>>

(* The copy loop of logread, with the lock held: while the user buffer    *)
(* has room, take l = MIN(the contiguous unread bytes, uio_resid); stop   *)
(* when l is 0, else note readpos and drop the lock for uiomove.  r is    *)
(* msg_bufr as the loop sees it.                                          *)
CopyLoop(r) ==
  LET avail == IF bufx >= r THEN bufx - r ELSE size - r
      l     == Min2(avail, resid')
  IN IF resid' > 0 /\ l # 0
       THEN /\ readpos' = r /\ rl' = l /\ rgen' = gen
            /\ rpc' = "copy"
       ELSE /\ rpc' = "idle"
            /\ UNCHANGED <<readpos, rl, rgen>>

(* The wait loop of logread, with the lock held: while the ring is empty, *)
(* return EWOULDBLOCK for IO_NDELAY (ndelay, the read's flag) or          *)
(* LOG_NBIO, else set LOG_RDWAIT and drop the lock to sleep; once it is   *)
(* not, clear LOG_RDWAIT and copy.                                        *)
ReadCheck(ndelay) ==
  IF bufr = bufx
    THEN /\ IF ndelay \/ nbio
              THEN rpc' = "idle" /\ UNCHANGED rdwait
              ELSE rdwait' = TRUE /\ rpc' = "presleep"
         /\ UNCHANGED <<readpos, rl, rgen>>
    ELSE /\ rdwait' = FALSE
         /\ CopyLoop(bufr)

\* logread: take the lock and enter the wait loop.
logread ==
  /\ rpc = "idle" /\ logopen
  /\ \E n \in ResidSizes : resid' = n
  /\ \E ndelay \in BOOLEAN : ReadCheck(ndelay)
  /\ UNCHANGED <<nbio, size, bufx, bufr, buf, gen, live, serial, kept, logopen,
                 wpc, spc, snew, sel>>

(* Retake the lock after tsleep and test the ring again; a read that     *)
(* slept did not have IO_NDELAY.                                          *)
ReadRecheck ==
  /\ rpc = "check"
  /\ UNCHANGED resid
  /\ ReadCheck(FALSE)
  /\ UNCHANGED <<nbio, size, bufx, bufr, buf, gen, live, serial, kept, logopen,
                 wpc, spc, snew, sel>>

\* tsleep on mbp, entered after the lock was dropped.
ReadSleep ==
  /\ rpc = "presleep"
  /\ rpc' = "sleep"
  /\ UNCHANGED <<nbio, size, bufx, bufr, buf, gen, live, serial, kept, logopen,
                 rdwait, resid, readpos, rl, rgen, wpc, spc, snew, sel>>

(* tsleep returns after its 5 s timeout (EWOULDBLOCK, ignored) or on a    *)
(* signal (the error is returned, the lock is not held).                  *)
ReadWake ==
  /\ rpc = "sleep"
  /\ \/ rpc' = "check"
     \/ rpc' = "idle"
  /\ UNCHANGED <<nbio, size, bufx, bufr, buf, gen, live, serial, kept, logopen,
                 rdwait, resid, readpos, rl, rgen, wpc, spc, snew, sel>>

(* uiomove from &msg_bufc[readpos] without the lock, then retake it:      *)
(* msg_bufr = readpos + l (0 at or past msg_size) and the loop goes on.  *)
ReadCopy ==
  /\ rpc = "copy"
  /\ bufr' = IF readpos + rl >= size THEN 0 ELSE readpos + rl
  /\ resid' = resid - rl
  /\ CopyLoop(bufr')
  /\ UNCHANGED <<nbio, size, bufx, buf, gen, live, serial, kept, logopen, rdwait,
                 wpc, spc, snew, sel>>

\* uiomove fails: the loop stops and the error is returned.
ReadCopyFault ==
  /\ rpc = "copy"
  /\ rpc' = "idle"
  /\ UNCHANGED <<nbio, size, bufx, bufr, buf, gen, live, serial, kept, logopen,
                 rdwait, resid, readpos, rl, rgen, wpc, spc, snew, sel>>

(* logopen (EBUSY when already open) and logclose, which clears LOG_NBIO  *)
(* and LOG_ASYNC; the last close waits for no read or select in progress. *)
OpenClose ==
  /\ rpc = "idle" /\ ~sel
  /\ logopen' = ~logopen
  /\ nbio' = IF logopen THEN FALSE ELSE nbio
  /\ UNCHANGED <<size, bufx, bufr, buf, gen, live, serial, kept, rdwait,
                 rpc, resid, readpos, rl, rgen, wpc, spc, snew, sel>>

(* logioctl FIONBIO, with the lock held: set or clear LOG_NBIO.  FIONREAD *)
(* and TIOCGPGRP only report, and FIOASYNC and TIOCSPGRP set what the      *)
(* unmodelled SIGIO uses; an unknown command returns -1.                  *)
logioctl ==
  /\ logopen
  /\ nbio' \in BOOLEAN
  /\ UNCHANGED <<size, bufx, bufr, buf, gen, live, serial, kept, logopen, rdwait,
                 rpc, resid, readpos, rl, rgen, wpc, spc, snew, sel>>

(* logselect for FREAD, with the lock held: unread bytes return 1 and    *)
(* select(2) returns at once, which changes nothing here; an empty ring   *)
(* records the thread on sc_selp and select sleeps.                       *)
logselect ==
  /\ logopen /\ ~sel /\ bufr = bufx
  /\ sel' = TRUE
  /\ UNCHANGED <<nbio, size, bufx, bufr, buf, gen, live, serial, kept, logopen,
                 rdwait, rpc, resid, readpos, rl, rgen, wpc, spc, snew>>

\* The select(2) timeout or a signal ends the sleep.
SelectTimeout ==
  /\ sel
  /\ sel' = FALSE
  /\ UNCHANGED <<nbio, size, bufx, bufr, buf, gen, live, serial, kept, logopen,
                 rdwait, rpc, resid, readpos, rl, rgen, wpc, spc, snew>>

-----------------------------------------------------------------------------
(* sysctl_kern_msgbuf: read msg_size under the lock, then take the new    *)
(* value; a negative one is EINVAL and an unchanged one does nothing.     *)
sysctl_kern_msgbuf ==
  /\ spc = "idle" /\ gen < MaxResizes
  /\ \E n \in Requests :
       IF n >= 0 /\ n # size
         THEN spc' = "setsize" /\ snew' = n
         ELSE UNCHANGED <<spc, snew>>
  /\ UNCHANGED <<nbio, size, bufx, bufr, buf, gen, live, serial, kept, logopen,
                 rdwait, rpc, resid, readpos, rl, rgen, wpc, sel>>

\* How many bytes log_setsize copies, and from which old index.
SetsizeCount(n) == IF n <= bufx THEN n ELSE Min2(n, size)

(* Mutant: the copy starts one byte later in the old buffer. *)
SetsizeStartLate(n) ==
  IF n <= bufx THEN bufx - SetsizeCount(n) + 1
               ELSE size - (SetsizeCount(n) - bufx)

SetsizeStart(n) ==
  IF n <= bufx THEN bufx - SetsizeCount(n)
               ELSE size - (SetsizeCount(n) - bufx)

(* log_setsize: EINVAL for 0 or more than MAX_MSG_BSIZE, ENOMEM when      *)
(* kalloc_data fails; otherwise, with the lock held, copy the newest      *)
(* "count" bytes ending at msg_bufx into the zeroed new buffer (p wraps   *)
(* once past the end of the old one), put msg_bufx after them (0 when     *)
(* they fill it), put msg_bufr as far behind it as it trailed before      *)
(* (adding new_logsize once if that is negative), and switch buffers.     *)
log_setsize ==
  /\ spc = "setsize"
  /\ \/ /\ \/ snew = 0 \/ snew > MaxMsgBSize      \* EINVAL
           \/ snew <= MaxMsgBSize                 \* ENOMEM
        /\ spc' = "idle"
        /\ UNCHANGED <<size, bufx, bufr, buf, gen, live, kept>>
     \/ /\ snew # 0 /\ snew <= MaxMsgBSize
        /\ LET n     == snew
               count == SetsizeCount(n)
               start == SetsizeStart(n)
               nx    == IF count >= n THEN 0 ELSE count
               nr0   == nx - Unread(bufx, bufr, size)
           IN /\ buf' = [i \in 0..n - 1 |->
                           IF i < count THEN buf[(start + i) % size] ELSE 0]
              /\ bufx' = nx
              /\ bufr' = IF nr0 < 0 THEN nr0 + n ELSE nr0
              /\ size' = n
              /\ kept' = Min2(kept, count)
        /\ gen' = gen + 1
        /\ live' = live \cup {gen + 1}
        /\ spc' = "free"
  /\ UNCHANGED <<nbio, serial, logopen, rdwait, rpc, resid, readpos, rl, rgen,
                 wpc, snew, sel>>

(* After unlocking: bzero the old buffer and kfree it (unless it is the   *)
(* static smsg_bufc, which is only zeroed).                               *)
SetsizeRelease ==
  /\ spc = "free"
  /\ live' = live \ {gen - 1}
  /\ spc' = "idle"
  /\ UNCHANGED <<nbio, size, bufx, bufr, buf, gen, serial, kept, logopen, rdwait,
                 rpc, resid, readpos, rl, rgen, wpc, snew, sel>>

-----------------------------------------------------------------------------
Next ==
  \/ log_putc \/ logwakeup
  \/ logread \/ ReadRecheck \/ ReadSleep \/ ReadWake \/ ReadCopy \/ ReadCopyFault
  \/ OpenClose \/ logioctl \/ logselect \/ SelectTimeout
  \/ sysctl_kern_msgbuf \/ log_setsize \/ SetsizeRelease

(* The reader's steps after it has taken the lock do not wait for anything *)
(* but the spin lock, which every holder drops within its section, and     *)
(* tsleep returns within 5 s; the writer's wakeup and the resize finish    *)
(* likewise.                                                               *)
Fairness ==
  /\ WF_vars(ReadRecheck) /\ WF_vars(ReadSleep) /\ WF_vars(ReadWake)
  /\ WF_vars(ReadCopy) /\ WF_vars(logwakeup)
  /\ WF_vars(log_setsize) /\ WF_vars(SetsizeRelease)

Spec == Init /\ [][Next]_vars /\ Fairness
-----------------------------------------------------------------------------
(* Properties *)

TypeOK ==
  /\ size \in 1..MaxMsgBSize
  /\ bufx \in 0..size - 1
  /\ bufr \in -MaxMsgBSize..MaxMsgBSize
  /\ buf \in [0..size - 1 -> 0..MaxChars]
  /\ gen \in 0..MaxResizes /\ live \subseteq 0..gen
  /\ serial \in 0..MaxChars /\ kept \in 0..size
  /\ rpc \in {"idle", "presleep", "sleep", "check", "copy"}
  /\ wpc \in {"idle", "wakeup", "unsafe"} /\ spc \in {"idle", "setsize", "free"}
  /\ nbio \in BOOLEAN /\ sel \in BOOLEAN

(* The ring holds the newest characters in the order they were logged:   *)
(* the kept ones end just before msg_bufx, newest last.  log_putc_locked  *)
(* wraps msg_bufx at msg_size, and log_setsize copies the newest "count"  *)
(* bytes, wrapping its source pointer, and places msg_bufx after them.    *)
RecentCharsInOrder ==
  \A k \in 1..kept : buf[(bufx - k + size) % size] = serial - k + 1

(* A read that has started copying returns: each pass of the copy loop    *)
(* consumes at least one byte of uio_resid, also when a resize or a       *)
(* writer moves the indices while the lock is dropped.                    *)
ReadReturns == rpc = "copy" ~> rpc = "idle"

(* A thread asleep in select on /dev/klog when log_putc decides to call  *)
(* logwakeup (a newline, or the ring half full) in a safe context is     *)
(* woken: logselect tests the ring and records the thread under           *)
(* bsd_log_lock, and logwakeup selwakeups whether or not a reader set     *)
(* LOG_RDWAIT.                                                            *)
SelectorWoken == (wpc = "wakeup" /\ sel) ~> ~sel

(* msg_bufr is an index into msg_bufc: logread copies from                *)
(* &msg_bufc[msg_bufr].  log_setsize corrects a negative new_bufr by one  *)
(* new_logsize only, so shrinking the buffer below the unread byte count  *)
(* leaves it negative.                                                    *)
BufrInRange == 0 <= bufr /\ bufr < size

(* uiomove in logread copies from the buffer msg_bufc pointed to when the *)
(* lock was dropped; that buffer must not be zeroed or freed meanwhile.   *)
(* log_setsize swaps buffers under the lock and bzero()s and frees the    *)
(* old one after dropping it, without waiting for readers.                *)
CopySourceIntact == rpc = "copy" => rgen \in live
=============================================================================
