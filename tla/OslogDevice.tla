----------------------------- MODULE OslogDevice -----------------------------
(***************************************************************************)
(* The /dev/oslog device of bsd/kern/subr_log.c, through which logd learns *)
(* that the kernel firehose buffer has chunks to drain.  os_log_wakeup is  *)
(* the readiness flag: oslogwakeup sets it (and selwakeups the selectors)  *)
(* after a push, oslogselect reports ready while it is set and otherwise   *)
(* records the thread on sc_selp, and the LOGFLUSHED ioctl stores into it  *)
(* whether __firehose_merge_updates found more to read.  All of them hold  *)
(* bsd_log_lock; a section that holds it is one step.  LOGFLUSHED merges   *)
(* before taking the lock, and that is a step of its own.                  *)
(*                                                                         *)
(* The firehose buffer is abstracted to pending: chunks logd has not yet   *)
(* drained.  A push (in the firehose code, outside this slice) sets it and *)
(* then calls oslogwakeup; one writer stands for all, as the wakeups are   *)
(* serialised by the lock.  The device is opened by one logd process whose *)
(* threads select and issue the ioctl; close runs once no thread is inside *)
(* a call on the descriptor.                                               *)
(***************************************************************************)
EXTENDS Naturals

CONSTANT LogdThreads  \* threads of the process that has /dev/oslog open

VARIABLES
  oslog_open,     \* oslog_open
  os_log_wakeup,  \* os_log_wakeup
  selp,           \* the threads recorded on oslogsoftc.sc_selp
  tpc,            \* tpc[t]: idle, asleep in select, or between merge and lock
  has_more,       \* has_more[t]: what the merge returned
  pending,        \* the firehose buffer holds chunks logd has not drained
  opc             \* the writer: idle, or between the push and oslogwakeup

devvars == <<oslog_open, os_log_wakeup, selp, tpc, has_more, pending, opc>>

\* The statics: oslog_open = 0, os_log_wakeup = false.
DevInit ==
  /\ oslog_open = FALSE /\ os_log_wakeup = FALSE /\ selp = {}
  /\ tpc = [t \in LogdThreads |-> "idle"]
  /\ has_more = [t \in LogdThreads |-> FALSE]
  /\ pending = FALSE /\ opc = "idle"

\* selwakeup(&oslogsoftc.sc_selp): the recorded selectors return.
SelWakeup ==
  /\ selp' = {}
  /\ tpc' = [t \in LogdThreads |-> IF t \in selp THEN "idle" ELSE tpc[t]]

\* oslogopen: EBUSY while open (no step), else mark it open.
oslogopen ==
  /\ ~oslog_open
  /\ oslog_open' = TRUE
  /\ UNCHANGED <<os_log_wakeup, selp, tpc, has_more, pending, opc>>

(* oslogclose, once the last reference to the descriptor goes: clear      *)
(* LOG_NBIO and LOG_ASYNC, selthreadclear, oslog_open = 0.  os_log_wakeup *)
(* is left as it is.                                                      *)
oslogclose ==
  /\ oslog_open
  /\ \A t \in LogdThreads : tpc[t] = "idle"
  /\ oslog_open' = FALSE /\ selp' = {}
  /\ UNCHANGED <<os_log_wakeup, tpc, has_more, pending, opc>>

\* A firehose push makes chunks pending and goes on to oslogwakeup.
FirehosePush ==
  /\ opc = "idle"
  /\ pending' = TRUE /\ opc' = "wakeup"
  /\ UNCHANGED <<oslog_open, os_log_wakeup, selp, tpc, has_more>>

(* Mutant: the flag is set but the selectors are not woken. *)
oslogwakeup_noselwakeup ==
  /\ opc = "wakeup" /\ opc' = "idle"
  /\ \/ UNCHANGED <<os_log_wakeup, selp, tpc>>
     \/ /\ oslog_open
        /\ os_log_wakeup' = TRUE
        /\ UNCHANGED <<selp, tpc>>
  /\ UNCHANGED <<oslog_open, has_more, pending>>

(* oslogwakeup: nothing when !oslog_is_safe() (a context that may not      *)
(* block), nor when the device is closed; otherwise selwakeup and set      *)
(* os_log_wakeup, with the lock held.                                      *)
oslogwakeup ==
  /\ opc = "wakeup" /\ opc' = "idle"
  /\ \/ UNCHANGED <<os_log_wakeup, selp, tpc>>
     \/ /\ oslog_open
        /\ SelWakeup
        /\ os_log_wakeup' = TRUE
  /\ UNCHANGED <<oslog_open, has_more, pending>>

(* oslogselect for FREAD: with the lock held, ready (no change) while     *)
(* os_log_wakeup is set; else selrecord, and select sleeps until a        *)
(* selwakeup.                                                             *)
oslogselect(t) ==
  /\ oslog_open /\ tpc[t] = "idle"
  /\ ~os_log_wakeup
  /\ selp' = selp \cup {t}
  /\ tpc' = [tpc EXCEPT ![t] = "selwait"]
  /\ UNCHANGED <<oslog_open, os_log_wakeup, has_more, pending, opc>>

(* oslogioctl LOGFLUSHED, before the lock: __firehose_merge_updates takes  *)
(* in what logd flushed and returns whether chunks remain.                 *)
LogFlushedMerge(t) ==
  /\ oslog_open /\ tpc[t] = "idle"
  /\ \E more \in IF pending THEN BOOLEAN ELSE {FALSE} :
       /\ pending' = more
       /\ has_more' = [has_more EXCEPT ![t] = more]
  /\ tpc' = [tpc EXCEPT ![t] = "flushed"]
  /\ UNCHANGED <<oslog_open, os_log_wakeup, selp, opc>>

(* LOGFLUSHED, with the lock: os_log_wakeup = has_more, and selwakeup if   *)
(* it is set.                                                              *)
LogFlushedPublish(t) ==
  /\ tpc[t] = "flushed"
  /\ os_log_wakeup' = has_more[t]
  /\ IF has_more[t]
       THEN /\ selp' = {}
            /\ tpc' = [u \in LogdThreads |->
                         IF u \in selp \/ u = t THEN "idle" ELSE tpc[u]]
       ELSE /\ tpc' = [tpc EXCEPT ![t] = "idle"]
            /\ UNCHANGED selp
  /\ UNCHANGED <<oslog_open, has_more, pending, opc>>

DevNext ==
  \/ oslogopen \/ oslogclose \/ FirehosePush \/ oslogwakeup
  \/ \E t \in LogdThreads : oslogselect(t) \/ LogFlushedMerge(t) \/ LogFlushedPublish(t)

DevSpec == DevInit /\ [][DevNext]_devvars

-----------------------------------------------------------------------------
(* No selector of /dev/oslog sleeps while os_log_wakeup says the buffer   *)
(* is ready: oslogselect tests the flag and records the thread in one     *)
(* section, and every store of TRUE into it (oslogwakeup, LOGFLUSHED with  *)
(* has_more) wakes the recorded threads in the same section, whatever the *)
(* order of pushes, merges, selects and closes.                           *)
SelectNotStale == \A t \in LogdThreads : tpc[t] = "selwait" => ~os_log_wakeup
====
