------------------------------ MODULE LckSpin ------------------------------
(***************************************************************************)
(* The x86 spin lock of osfmk/i386/locks_i386.c: lck_spin_t is a           *)
(* usimple_lock, whose only state is the hw_lock word `interlock`: 0 when  *)
(* free, the holder otherwise, LCK_SPIN_TAG_DESTROYED after destroy.       *)
(*                                                                         *)
(* hw_lock_to, hw_lock_try and hw_lock_unlock are outside this file; they  *)
(* are modelled by their contract: an atomic test of the word for 0 and    *)
(* store of the caller, and a store of 0.  hw_lock_to spins and calls the  *)
(* timeout handler usimple_lock_acquire_timeout_panic each time the        *)
(* spin exceeds LockTimeOutTSC.  The _nopreempt variants differ only in    *)
(* the preemption count, which is not modelled.                            *)
(*                                                                         *)
(* The deadline loops read mach_absolute_time, a W-bit counter (W = 64 in  *)
(* the code).  nanoseconds_to_absolutetime is the identity on x86, where   *)
(* absolute time is in nanoseconds.                                        *)
(*                                                                         *)
(* The build is a USLOCK_DEBUG one with uslock_check set: each call runs   *)
(* the usld_* checks on l->debug, whose TAKEN bit and lock_thread are      *)
(* kept; the pcs, cpus and durations it records only feed panic messages.  *)
(* A thread is a CPU (preemption is disabled while the lock is held), so   *)
(* the lock_cpu test is the lock_thread test.                              *)
(***************************************************************************)
EXTENDS Naturals

CONSTANTS
  Threads,      \* threads (with preemption disabled: CPUs) using the lock
  NULL,         \* the free word, 0
  Destroyed,    \* LCK_SPIN_TAG_DESTROYED
  W,            \* width of mach_absolute_time and of the deadline
  LockTimeOut,  \* LockTimeOutTSC
  Durations     \* durations passed to ..._loop_duration

ASSUME /\ NULL \notin Threads /\ Destroyed \notin Threads \cup {NULL}
       /\ W \in Nat \ {0} /\ LockTimeOut \in Nat \ {0}

\* ULLONG_MAX for a W-bit word.
UMax == 2^W - 1

ASSUME Durations \subseteq 0..UMax

VARIABLES
  word,      \* l->interlock.lock_data
  pc,        \* where each thread is
  now,       \* mach_absolute_time()
  start,     \* when a thread's hw_lock_to spin (re)started
  base,      \* base_at of a deadline loop
  dur,       \* the duration it was given (ULLONG_MAX for try_lock_loop)
  deadline,  \* its deadline
  dbg        \* l->debug: USLOCK_TAKEN and lock_thread

vars == <<word, pc, now, start, base, dur, deadline, dbg>>

Locations == {"idle", "spin", "loop", "hold", "timedout", "panicked", "dpanic"}

\* usld_lock_init: USLOCK_INITIALIZED, not taken, lock_thread INVALID_THREAD.
NoDebug == [taken |-> FALSE, thread |-> NULL]

Init ==
  /\ word = NULL
  /\ pc = [t \in Threads |-> "idle"]
  /\ now = 0
  /\ start = [t \in Threads |-> 0]
  /\ base = [t \in Threads |-> 0]
  /\ dur = [t \in Threads |-> 0]
  /\ deadline = [t \in Threads |-> 0]
  /\ dbg = NoDebug

\* The locals of a call that returns: base_at, duration_at, deadline, start.
Forget(f, t) == [f EXCEPT ![t] = 0]

(* usld_lock_post, after hw_lock_to returns: panic if the lock is marked  *)
(* taken, else mark it taken by t.                                        *)
usld_lock_post(t) ==
  IF dbg.taken THEN pc' = [pc EXCEPT ![t] = "dpanic"] /\ UNCHANGED dbg
  ELSE pc' = [pc EXCEPT ![t] = "hold"] /\ dbg' = [taken |-> TRUE, thread |-> t]

(* Mutant: a successful try does not record the new holder. *)
usld_lock_try_post_skipped(t) == pc' = [pc EXCEPT ![t] = "hold"] /\ UNCHANGED dbg

(* usld_lock_try_post, after a successful hw_lock_try: the same checks    *)
(* and bookkeeping as usld_lock_post.                                     *)
usld_lock_try_post(t) ==
  IF dbg.taken THEN pc' = [pc EXCEPT ![t] = "dpanic"] /\ UNCHANGED dbg
  ELSE pc' = [pc EXCEPT ![t] = "hold"] /\ dbg' = [taken |-> TRUE, thread |-> t]

\* The atomic test-and-set of hw_lock_try on a free word, in usimple_lock_try.
HwLockTake(t) ==
  /\ word = NULL
  /\ word' = t
  /\ usld_lock_try_post(t)

-----------------------------------------------------------------------------
(* usimple_lock_init: hw_lock_init stores 0. *)
usimple_lock_init(t) ==
  /\ pc[t] = "idle"
  /\ word = Destroyed
  /\ word' = NULL /\ dbg' = NoDebug
  /\ UNCHANGED <<pc, now, start, base, dur, deadline>>

(* lck_spin_destroy: a word already carrying the tag returns at once (no   *)
(* step); otherwise the tag is stored, whoever holds or spins on the word. *)
lck_spin_destroy(t) ==
  /\ pc[t] = "idle"
  /\ word # Destroyed
  /\ word' = Destroyed
  /\ UNCHANGED <<pc, now, start, base, dur, deadline, dbg>>

(* usld_lock_pre: the lock is marked taken by the caller itself. *)
usld_lock_pre(t) == dbg.taken /\ dbg.thread = t

(* usimple_lock: usld_lock_pre panics on a lock the caller already holds; *)
(* otherwise enter hw_lock_to with the timeout handler.                   *)
usimple_lock(t) ==
  /\ pc[t] = "idle"
  /\ IF usld_lock_pre(t)
       THEN pc' = [pc EXCEPT ![t] = "dpanic"] /\ UNCHANGED start
       ELSE pc' = [pc EXCEPT ![t] = "spin"] /\ start' = [start EXCEPT ![t] = now]
  /\ UNCHANGED <<word, now, base, dur, deadline, dbg>>

(* One spin of hw_lock_to that finds the word free, then usld_lock_post. *)
HwLockToAcquire(t) ==
  /\ pc[t] = "spin"
  /\ word = NULL /\ word' = t
  /\ usld_lock_post(t)
  /\ start' = Forget(start, t)
  /\ UNCHANGED <<now, base, dur, deadline>>

(* usimple_lock_acquire_timeout_panic, called when an attempt of the spin *)
(* fails after it has lasted LockTimeOutTSC: while machine timeouts are suspended (debugger,        *)
(* sleep) it returns HW_LOCK_TIMEOUT_CONTINUE and the spin starts over;   *)
(* otherwise it panics.                                                   *)
usimple_lock_acquire_timeout_panic(t) ==
  /\ pc[t] = "spin"
  /\ word # NULL
  /\ now - start[t] >= LockTimeOut
  /\ \/ start' = [start EXCEPT ![t] = now] /\ UNCHANGED pc
     \/ pc' = [pc EXCEPT ![t] = "panicked"] /\ UNCHANGED start
  /\ UNCHANGED <<word, now, base, dur, deadline, dbg>>

(* usimple_lock_try: one hw_lock_try; a failure changes nothing. *)
usimple_lock_try(t) ==
  /\ pc[t] = "idle"
  /\ HwLockTake(t)
  /\ UNCHANGED <<now, start, base, dur, deadline>>

(* usld_unlock: the lock must be marked taken, by t; the mark is cleared. *)
usld_unlock(t) ==
  IF ~dbg.taken \/ dbg.thread # t
    THEN pc' = [pc EXCEPT ![t] = "dpanic"] /\ UNCHANGED dbg
    ELSE pc' = [pc EXCEPT ![t] = "idle"] /\ dbg' = NoDebug

(* usimple_unlock: usld_unlock, then hw_lock_unlock stores 0 (the word    *)
(* itself is not checked, destroyed tag or not).                          *)
usimple_unlock(t) ==
  /\ pc[t] = "hold"
  /\ usld_unlock(t)
  /\ word' = IF pc'[t] = "idle" THEN NULL ELSE word
  /\ UNCHANGED <<now, start, base, dur, deadline>>

-----------------------------------------------------------------------------
(* Mutant: the overflow test is left out. *)
DurationDeadlineWraps(b, d) == (b + d) % 2^W

\* deadline = base_at + duration_at, saturated to ULLONG_MAX on overflow.
DurationDeadline(b, d) ==
  LET sum == (b + d) % 2^W IN IF sum < b THEN UMax ELSE sum

(* Enter usimple_lock_try_lock_mp_signal_safe_loop_deadline. *)
EnterLoop(t, b, d, dl) ==
  /\ word # NULL
  /\ pc' = [pc EXCEPT ![t] = "loop"]
  /\ base' = [base EXCEPT ![t] = b]
  /\ dur' = [dur EXCEPT ![t] = d]
  /\ deadline' = [deadline EXCEPT ![t] = dl]

(* Mutant: the fast track tests the result of simple_lock_try inverted. *)
loop_duration_inverted_fast_track(t) ==
  /\ pc[t] = "idle"
  /\ \/ /\ word # NULL
        /\ pc' = [pc EXCEPT ![t] = "hold"]
        /\ UNCHANGED <<word, base, dur, deadline, dbg>>
     \/ /\ \E d \in Durations :
             EnterLoop(t, now, d, DurationDeadline(now, d))
        /\ UNCHANGED <<word, dbg>>
  /\ UNCHANGED <<now, start>>

(* usimple_lock_try_lock_mp_signal_safe_loop_duration: the fast-track     *)
(* simple_lock_try; when it fails, the deadline from now and the loop.    *)
loop_duration(t) ==
  /\ pc[t] = "idle"
  /\ \/ /\ HwLockTake(t)
        /\ UNCHANGED <<base, dur, deadline>>
     \/ /\ \E d \in Durations :
             EnterLoop(t, now, d, DurationDeadline(now, d))
        /\ UNCHANGED <<word, dbg>>
  /\ UNCHANGED <<now, start>>

(* usimple_lock_try_lock_loop: simple_lock_try, then the loop with the    *)
(* deadline ULLONG_MAX.                                                    *)
try_lock_loop(t) ==
  /\ pc[t] = "idle"
  /\ \/ /\ HwLockTake(t)
        /\ UNCHANGED <<base, dur, deadline>>
     \/ /\ EnterLoop(t, now, UMax, UMax)
        /\ UNCHANGED <<word, dbg>>
  /\ UNCHANGED <<now, start>>

(* One pass of the deadline loop: return 0 once deadline < now (checked   *)
(* on entry and after each failed simple_lock_try), else try the lock.    *)
(* A failed try, the signal handler and cpu_pause change nothing.         *)
loop_deadline(t) ==
  /\ pc[t] = "loop"
  /\ \/ /\ deadline[t] < now
        /\ pc' = [pc EXCEPT ![t] = "timedout"]
        /\ UNCHANGED <<word, base, dur, deadline, dbg>>
     \/ /\ deadline[t] >= now
        /\ HwLockTake(t)
        /\ base' = Forget(base, t) /\ dur' = Forget(dur, t)
        /\ deadline' = Forget(deadline, t)
  /\ UNCHANGED <<now, start>>

\* The caller sees the loop return 0.
ReturnTimedOut(t) ==
  /\ pc[t] = "timedout"
  /\ pc' = [pc EXCEPT ![t] = "idle"]
  /\ base' = Forget(base, t) /\ dur' = Forget(dur, t)
  /\ deadline' = Forget(deadline, t)
  /\ UNCHANGED <<word, now, start, dbg>>

(* lck_spin_assert: a holder asserts LCK_ASSERT_OWNED, any other thread  *)
(* LCK_ASSERT_NOTOWNED; it panics when the word says otherwise: OWNED     *)
(* needs the word to be t, NOTOWNED only that it is not t.                *)
lck_spin_assert(t) ==
  /\ pc[t] \in {"idle", "hold"}
  /\ LET ok == IF pc[t] = "hold" THEN word = t ELSE word # t
     IN IF ok THEN UNCHANGED pc ELSE pc' = [pc EXCEPT ![t] = "dpanic"]
  /\ UNCHANGED <<word, now, start, base, dur, deadline, dbg>>

\* mach_absolute_time advances; it does not wrap within the life of a system.
Tick ==
  /\ now < UMax
  /\ now' = now + 1
  /\ UNCHANGED <<word, pc, start, base, dur, deadline, dbg>>

-----------------------------------------------------------------------------
\* A panic stops every CPU.
Panicked == \E t \in Threads : pc[t] \in {"panicked", "dpanic"}

\* No thread is inside an operation on the lock or holds it.
NoThreadInside == \A t \in Threads : pc[t] \in {"idle", "timedout", "panicked", "dpanic"}

\* Starting an operation on a live lock, or continuing one.
Call(t) ==
  \/ usimple_lock(t) \/ usimple_lock_try(t)
  \/ loop_duration(t) \/ try_lock_loop(t)

Continue(t) ==
  \/ HwLockToAcquire(t) \/ usimple_lock_acquire_timeout_panic(t)
  \/ loop_deadline(t) \/ ReturnTimedOut(t) \/ usimple_unlock(t)

(* The callers' contract: operations on a live lock only, destroy only a  *)
(* free lock nobody is using, init only a destroyed one.                  *)
Next ==
  \/ Panicked /\ UNCHANGED vars
  \/ ~Panicked /\ Tick
  \/ ~Panicked /\ \E t \in Threads :
       \/ word # Destroyed /\ Call(t)
       \/ word # Destroyed /\ lck_spin_assert(t)
       \/ Continue(t)
       \/ NoThreadInside /\ word = NULL /\ lck_spin_destroy(t)
       \/ usimple_lock_init(t)

Spec == Init /\ [][Next]_vars

-----------------------------------------------------------------------------
(* Properties *)

\* The thread whose call returned holding the lock, if any.
Holder == IF \E t \in Threads : pc[t] = "hold"
            THEN CHOOSE t \in Threads : pc[t] = "hold"
            ELSE NULL

AM == INSTANCE AbstractMutex WITH holder <- Holder

(* Refinement: the calls that return holding the lock (usimple_lock,      *)
(* usimple_lock_try and both deadline loops, fast track or loop) and      *)
(* usimple_unlock behave as one abstract mutex: a call returns holding    *)
(* only when no other thread holds it.                                    *)
MutexRefinement == AM!Spec

(* A deadline loop gives up (returns 0) only after the full duration has *)
(* elapsed: base_at + duration_at < now in exact arithmetic.  The sum is  *)
(* computed in W bits, and the saturation to ULLONG_MAX is what keeps a   *)
(* sum that overflows from becoming a deadline in the past;               *)
(* usimple_lock_try_lock_loop never gives up.                             *)
NoEarlyTimeout ==
  \A t \in Threads : pc[t] = "timedout" => now > base[t] + dur[t]

(* A debug kernel never panics a correct caller: with the callers'        *)
(* contract kept, no usld_* check and no lck_spin_assert fires, across    *)
(* every acquire path (hw_lock_to, usimple_lock_try, both fast tracks,    *)
(* the deadline loop's tries), timeouts, destroy and re-init: l->debug    *)
(* always names the thread the word names.                                *)
NoDebugPanic == \A t \in Threads : pc[t] # "dpanic"
=============================================================================
