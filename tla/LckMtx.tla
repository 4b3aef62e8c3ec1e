------------------------------- MODULE LckMtx -------------------------------
(***************************************************************************)
(* The x86 adaptive kernel mutex of osfmk/i386/locks_i386.c: the lock      *)
(* word, its interlock bit, the contended path (spin, then block on the    *)
(* turnstile) and the unlock/wakeup hand-off.                              *)
(*                                                                         *)
(* Granularity.  Every section of the code that runs with the interlock    *)
(* held (LCK_MTX_ILOCKED_MSK) is one atomic step: other threads only read  *)
(* the word while it is set, and every reader that sees it set busy-waits  *)
(* (lck_mtx_lock_wait_interlock_to_clear, interlock_lock_set_and_clear).   *)
(* A load of the word followed by a compare-and-swap is one step that      *)
(* tests the current word: a failed CAS only sends the thread back to the  *)
(* same test.  The only interlock hold that spans several steps is the     *)
(* spin-mode hold (lck_mtx_lock_spin), which keeps the interlock for the   *)
(* whole critical section, as the code does.                               *)
(*                                                                         *)
(* The turnstile is abstracted to the set of threads on its wait queue    *)
(* and its inheritor.  The queue is priority ordered (waitq_prio_queue,    *)
(* kern/waitq.h) and priorities are not modelled, so a wakeup may pick any *)
(* queued thread.                                                          *)
(***************************************************************************)
EXTENDS Naturals, FiniteSets

CONSTANTS
  Threads,   \* kernel threads using the one mutex
  NULL       \* THREAD_NULL / no inheritor

ASSUME NULL \notin Threads

VARIABLES
  state,      \* lck_mtx_state: [ilocked, mlocked, spin, waiters]
  owner,      \* lck_mtx_owner
  pc,         \* where each thread is in the lck_mtx_* routines
  waitq,      \* the turnstile wait queue of LCK_MTX_EVENT(mutex)
  inheritor   \* the turnstile inheritor (priority push target)

vars == <<state, owner, pc, waitq, inheritor>>

(* Thread locations:                                                       *)
(*   idle      not inside any lck_mtx routine                              *)
(*   spin      in lck_mtx_lock_spinwait_x86 (lck_mtx_lock_contended)       *)
(*   ilk       lck_mtx_lock_contended after spinning: interlock_lock       *)
(*   blocked   parked in thread_block by lck_mtx_lock_wait_x86             *)
(*   mutex     holds the lock as a mutex                                   *)
(*   spinlock  holds the lock in spin mode (interlock kept)                *)
(*   panicked  stopped in lck_mtx_destroyed / lck_mtx_try_destroyed        *)
Locations == {"idle", "spin", "ilk", "blocked", "mutex", "spinlock", "panicked"}

(* The word.  destroyed marks the LCK_MTX_TAG_DESTROYED sentinel, a value  *)
(* of the whole word rather than a bit.                                    *)
Word == [ilocked: BOOLEAN, mlocked: BOOLEAN, spin: BOOLEAN,
         waiters: 0..Cardinality(Threads), destroyed: BOOLEAN]

\* State 0, as lck_mtx_init stores it.
FreeWord == [ilocked |-> FALSE, mlocked |-> FALSE, spin |-> FALSE,
             waiters |-> 0, destroyed |-> FALSE]

(* LCK_MTX_TAG_DESTROYED: as the comments in the lock paths say, the tag   *)
(* has the interlock and mutex bits set, so every CAS on it fails.         *)
DestroyedTag == [ilocked |-> TRUE, mlocked |-> TRUE, spin |-> FALSE,
                 waiters |-> 0, destroyed |-> TRUE]

Init ==
  /\ state = FreeWord
  /\ owner = NULL
  /\ pc = [t \in Threads |-> "idle"]
  /\ waitq = {}
  /\ inheritor = NULL

Holding(t) == pc[t] \in {"mutex", "spinlock"}

-----------------------------------------------------------------------------
(* Mutant: the CAS test forgets LCK_MTX_MLOCKED_MSK. *)
AcquirableIgnoringMutexBit(w) == ~w.ilocked

(* The test of lck_mtx_interlock_try_lock_set_flags: the CAS that takes    *)
(* the interlock together with the mutex or spin bit succeeds only on a    *)
(* word with neither the interlock nor the mutex bit set.                  *)
Acquirable(w) == ~w.ilocked /\ ~w.mlocked

(* Mutant: the acquire tail skips turnstile_update_inheritor. *)
lck_mtx_lock_acquire_inline_no_update(t, w) == inheritor' = inheritor

(* lck_mtx_lock_acquire_inline: the new owner (read back from lck_mtx_owner) *)
(* becomes the turnstile inheritor when the word shows waiters.            *)
lck_mtx_lock_acquire_inline(t, w) ==
  inheritor' = IF w.waiters > 0 THEN t ELSE inheritor

(* Take the word as a mutex and finish the acquire: set mlocked, record     *)
(* the owner, run the acquire tail when there are waiters, and release the *)
(* interlock (lck_mtx_lock_finish_inline).  Shared by lck_mtx_lock_slow,   *)
(* lck_mtx_try_lock_slow, lck_mtx_lock_grab_mutex and the grab branch of   *)
(* lck_mtx_lock_contended.                                                 *)
GrabMutex(t) ==
  /\ state' = [state EXCEPT !.mlocked = TRUE, !.ilocked = FALSE]
  /\ owner' = t
  /\ lck_mtx_lock_acquire_inline(t, state)
  /\ pc' = [pc EXCEPT ![t] = "mutex"]
  /\ UNCHANGED waitq

Goto(t, where) ==
  /\ pc' = [pc EXCEPT ![t] = where]
  /\ UNCHANGED <<state, owner, waitq, inheritor>>

(* lck_mtx_destroyed and lck_mtx_try_destroyed: a lock routine that finds *)
(* the destroyed tag where it expected to interlock panics.               *)
lck_mtx_destroyed(t) == Goto(t, "panicked")

(* lck_mtx_interlock_lock (lck_mtx_interlock_lock_set_and_clear_flags     *)
(* with no flags to wait for): spin while the interlock is set, then one   *)
(* CAS sets it; the CAS loop succeeds on the first word without it.       *)
lck_mtx_interlock_lock(w) == ~w.ilocked

-----------------------------------------------------------------------------
(* lck_mtx_lock_slow.  Free word: one CAS takes interlock and mutex.       *)
(* Mutex bit set (with or without the interlock): lck_mtx_lock_contended.  *)
(* Interlock alone set: busy-wait in lck_mtx_lock_wait_interlock_to_clear  *)
(* (no step).                                                              *)
lck_mtx_lock_slow(t) ==
  /\ pc[t] = "idle"
  /\ \/ Acquirable(state) /\ GrabMutex(t)
     \/ state.mlocked /\ ~state.destroyed /\ Goto(t, "spin")
     \/ state.destroyed /\ lck_mtx_destroyed(t)

(* lck_mtx_try_lock_slow.  Succeeds exactly when the word is acquirable;   *)
(* its FALSE returns (mutex or spin bit seen) change nothing and are not   *)
(* steps.  Interlock alone set: busy-wait.                                 *)
lck_mtx_try_lock_slow(t) ==
  /\ pc[t] = "idle"
  /\ \/ Acquirable(state) /\ GrabMutex(t)
     \/ state.destroyed /\ lck_mtx_destroyed(t)

(* lck_mtx_lock_spin_slow.  Free word: take interlock and spin bit, record *)
(* the owner and return with the interlock held.  No acquire tail: a spin  *)
(* holder does not become the inheritor.  Mutex held: the contended path,  *)
(* which acquires a full mutex.                                            *)
lck_mtx_lock_spin_slow(t) ==
  /\ pc[t] = "idle"
  /\ \/ /\ Acquirable(state)
        /\ state' = [state EXCEPT !.ilocked = TRUE, !.spin = TRUE]
        /\ owner' = t
        /\ pc' = [pc EXCEPT ![t] = "spinlock"]
        /\ UNCHANGED <<waitq, inheritor>>
     \/ state.mlocked /\ ~state.destroyed /\ Goto(t, "spin")
     \/ state.destroyed /\ lck_mtx_destroyed(t)

(* Mutant: the spin try-lock tests only the interlock bit. *)
lck_mtx_try_lock_spin_slow_ilk_only(t) ==
  /\ pc[t] = "idle"
  /\ \/ /\ ~state.ilocked
        /\ state' = [state EXCEPT !.ilocked = TRUE, !.spin = TRUE]
        /\ owner' = t
        /\ pc' = [pc EXCEPT ![t] = "spinlock"]
        /\ UNCHANGED <<waitq, inheritor>>
     \/ state.destroyed /\ lck_mtx_destroyed(t)

(* lck_mtx_try_lock_spin_slow: the spin-mode acquire without waiting.      *)
lck_mtx_try_lock_spin_slow(t) ==
  /\ pc[t] = "idle"
  /\ \/ /\ Acquirable(state)
        /\ state' = [state EXCEPT !.ilocked = TRUE, !.spin = TRUE]
        /\ owner' = t
        /\ pc' = [pc EXCEPT ![t] = "spinlock"]
        /\ UNCHANGED <<waitq, inheritor>>
     \/ state.destroyed /\ lck_mtx_destroyed(t)

-----------------------------------------------------------------------------
(* lck_mtx_lock_spinwait_x86, as seen by the lock word.  Every iteration   *)
(* first tries lck_mtx_lock_grab_mutex; spinning on without acquiring      *)
(* changes nothing.  The loop may stop after any failed grab (hard         *)
(* deadline, owner not on core, no contention in the window, sliding       *)
(* deadline): the timing that decides which is abstracted, so leaving is   *)
(* always possible.                                                        *)
lck_mtx_lock_spinwait_x86(t) ==
  /\ pc[t] = "spin"
  /\ \/ Acquirable(state) /\ GrabMutex(t)
     \/ Goto(t, "ilk")

(* Mutant: the waiter is counted twice. *)
lck_mtx_lock_wait_x86_counts_twice(t) ==
  /\ state' = [state EXCEPT !.waiters = @ + 2]
  /\ waitq' = waitq \cup {t}
  /\ inheritor' = owner
  /\ pc' = [pc EXCEPT ![t] = "blocked"]
  /\ UNCHANGED owner

(* lck_mtx_lock_wait_x86, from the interlock taken by the contended path   *)
(* to its release before thread_block: count the waiter, queue the thread  *)
(* on the turnstile (waitq_assert_wait64 precedes the interlock release,   *)
(* so a wakeup after the release finds it), push priority to the holder.  *)
lck_mtx_lock_wait_x86(t) ==
  /\ state' = [state EXCEPT !.waiters = @ + 1]
  /\ waitq' = waitq \cup {t}
  /\ inheritor' = owner
  /\ pc' = [pc EXCEPT ![t] = "blocked"]
  /\ UNCHANGED owner

(* lck_mtx_lock_contended after the spin: lck_mtx_interlock_lock waits for *)
(* the interlock; then block if the mutex is held, else grab it.           *)
lck_mtx_lock_contended(t) ==
  /\ pc[t] = "ilk"
  /\ lck_mtx_interlock_lock(state)
  /\ \/ state.mlocked /\ lck_mtx_lock_wait_x86(t)
     \/ ~state.mlocked /\ GrabMutex(t)

-----------------------------------------------------------------------------
(* Mutant: the wakeup forgets to decrement the waiter count. *)
lck_mtx_unlock_wakeup_tail_keeps_count(t) ==
  \E w \in waitq :
    /\ waitq' = waitq \ {w}
    /\ inheritor' = IF state.waiters > 1 THEN w ELSE NULL
    /\ state' = [state EXCEPT !.ilocked = FALSE, !.mlocked = FALSE, !.spin = FALSE]
    /\ pc' = [pc EXCEPT ![t] = "idle", ![w] = "spin"]

(* lck_mtx_unlock_wakeup_tail: wake one waiter; with more than one waiter *)
(* it is woken WAITQ_PROMOTE_ON_WAKE and becomes the inheritor,            *)
(* the last waiter is woken plainly and the inheritor cleared.  Then one   *)
(* waiter less, spin and interlock bits cleared in one release store.  The *)
(* woken thread resumes at try_again of lck_mtx_lock_contended.            *)
lck_mtx_unlock_wakeup_tail(t) ==
  \E w \in waitq :
    /\ waitq' = waitq \ {w}
    /\ inheritor' = IF state.waiters > 1 THEN w ELSE NULL
    /\ state' = [state EXCEPT !.waiters = @ - 1, !.ilocked = FALSE,
                              !.mlocked = FALSE, !.spin = FALSE]
    /\ pc' = [pc EXCEPT ![t] = "idle", ![w] = "spin"]

(* Mutant: unlock takes the wakeup path only for more than one waiter. *)
lck_mtx_unlock_slow_wakes_many(t) ==
  /\ \/ pc[t] = "spinlock"
     \/ pc[t] = "mutex" /\ lck_mtx_interlock_lock(state)
  /\ owner' = NULL
  /\ IF state.waiters > 1
       THEN lck_mtx_unlock_wakeup_tail(t)
       ELSE /\ state' = [state EXCEPT !.ilocked = FALSE, !.mlocked = FALSE,
                                      !.spin = FALSE]
            /\ pc' = [pc EXCEPT ![t] = "idle"]
            /\ UNCHANGED <<waitq, inheritor>>

(* Mutant: the unlock leaves lck_mtx_owner set. *)
lck_mtx_unlock_slow_keeps_owner(t) ==
  /\ \/ pc[t] = "spinlock"
     \/ pc[t] = "mutex" /\ lck_mtx_interlock_lock(state)
  /\ UNCHANGED owner
  /\ IF state.waiters > 0
       THEN lck_mtx_unlock_wakeup_tail(t)
       ELSE /\ state' = [state EXCEPT !.ilocked = FALSE, !.mlocked = FALSE,
                                      !.spin = FALSE]
            /\ pc' = [pc EXCEPT ![t] = "idle"]
            /\ UNCHANGED <<waitq, inheritor>>

(* lck_mtx_unlock_slow.  A spin-mode holder already has the interlock; a   *)
(* mutex holder takes it clearing the mutex bit (interlock_lock_clear_     *)
(* flags).  Clear the owner; wake a waiter if the word counts any, else    *)
(* release interlock and spin bit.                                         *)
lck_mtx_unlock_slow(t) ==
  /\ \/ pc[t] = "spinlock"
     \/ pc[t] = "mutex" /\ lck_mtx_interlock_lock(state)
  /\ owner' = NULL
  /\ IF state.waiters > 0
       THEN lck_mtx_unlock_wakeup_tail(t)
       ELSE /\ state' = [state EXCEPT !.ilocked = FALSE, !.mlocked = FALSE,
                                      !.spin = FALSE]
            /\ pc' = [pc EXCEPT ![t] = "idle"]
            /\ UNCHANGED <<waitq, inheritor>>

(* lck_mtx_convert_spin on a spin-mode hold: the acquire tail when there   *)
(* are waiters (the owner becomes inheritor), then                         *)
(* lck_mtx_convert_spin_finish_inline sets the mutex bit, clears the spin  *)
(* bit and releases the interlock.  On a mutex hold it returns at once.    *)
lck_mtx_convert_spin(t) ==
  /\ pc[t] = "spinlock"
  /\ lck_mtx_lock_acquire_inline(owner, state)
  /\ state' = [state EXCEPT !.mlocked = TRUE, !.spin = FALSE, !.ilocked = FALSE]
  /\ pc' = [pc EXCEPT ![t] = "mutex"]
  /\ UNCHANGED <<owner, waitq>>

-----------------------------------------------------------------------------
(* lck_mtx_destroy.  Already destroyed: return at once (no step).  Else    *)
(* lck_mtx_lock_mark_destroyed waits for the interlock alone               *)
(* (lck_mtx_interlock_lock) and overwrites the whole word with the tag.    *)
(* Neither checks that the lock is free; the MACH_LDEBUG assert only       *)
(* checks that the caller does not own it.                                 *)
lck_mtx_destroy(t) ==
  /\ pc[t] = "idle"
  /\ ~state.destroyed
  /\ lck_mtx_interlock_lock(state)
  /\ state' = DestroyedTag
  /\ UNCHANGED <<owner, pc, waitq, inheritor>>

(* lck_mtx_init on the memory of a destroyed lock (direct attribute):      *)
(* owner = 0, state = 0.                                                   *)
lck_mtx_init(t) ==
  /\ pc[t] = "idle"
  /\ state.destroyed
  /\ state' = FreeWord
  /\ owner' = NULL
  /\ UNCHANGED <<pc, waitq, inheritor>>

(* lck_mtx_assert: LCK_MTX_ASSERT_OWNED from a holder panics unless        *)
(* lck_mtx_owner is the caller and the word has the interlock or the mutex *)
(* bit; LCK_MTX_ASSERT_NOTOWNED from a thread outside the lock routines    *)
(* panics if lck_mtx_owner is the caller.  A passing assert changes        *)
(* nothing.                                                                *)
lck_mtx_assert(t) ==
  /\ pc[t] \in {"idle", "mutex", "spinlock"}
  /\ LET ok == IF Holding(t) THEN owner = t /\ (state.ilocked \/ state.mlocked)
                ELSE owner # t
     IN IF ok THEN UNCHANGED vars ELSE Goto(t, "panicked")

-----------------------------------------------------------------------------
\* The entry points a client calls on the lock.
Call(t) ==
  \/ lck_mtx_lock_slow(t)
  \/ lck_mtx_try_lock_slow(t)
  \/ lck_mtx_lock_spin_slow(t)
  \/ lck_mtx_try_lock_spin_slow(t)

\* The steps of a thread already inside the lock routines.
Continue(t) ==
  \/ lck_mtx_lock_spinwait_x86(t)
  \/ lck_mtx_lock_contended(t)
  \/ lck_mtx_unlock_slow(t)
  \/ lck_mtx_convert_spin(t)

(* Clients that keep the lifecycle contract of spec.md section 4: destroy  *)
(* only when no thread is inside or holding the lock, no call on a         *)
(* destroyed lock, and the memory re-initialised before reuse.             *)
NoThreadInside == \A u \in Threads : pc[u] = "idle"

Next ==
  \E t \in Threads :
    \/ ~state.destroyed /\ Call(t)
    \/ ~state.destroyed /\ lck_mtx_assert(t)
    \/ Continue(t)
    \/ NoThreadInside /\ lck_mtx_destroy(t)
    \/ lck_mtx_init(t)

(* A runnable thread in the contended path keeps being scheduled, and a    *)
(* holder eventually unlocks (the callers' contract).  Nothing forces a    *)
(* thread to start an operation or to convert a spin hold.                 *)
Fairness ==
  \A t \in Threads :
    /\ WF_vars(lck_mtx_lock_spinwait_x86(t))
    /\ WF_vars(lck_mtx_lock_contended(t))
    /\ WF_vars(lck_mtx_unlock_slow(t))

Spec == Init /\ [][Next]_vars /\ Fairness

-----------------------------------------------------------------------------
(* Properties *)

TypeOK ==
  /\ state \in Word
  /\ owner \in Threads \cup {NULL}
  /\ pc \in [Threads -> Locations]
  /\ waitq \in SUBSET Threads
  /\ inheritor \in Threads \cup {NULL}

(* Mutual exclusion: at most one thread is between a successful lock,      *)
(* lock_spin or try_lock and its unlock, whichever acquire path (fast CAS, *)
(* grab during spinwait, grab after the interlock) each one took.          *)
MutualExclusion ==
  \A t1, t2 \in Threads : Holding(t1) /\ Holding(t2) => t1 = t2

(* Waiter-count conservation: the 16-bit waiters field incremented by      *)
(* lck_mtx_lock_wait_x86 and decremented only by the unlocker in           *)
(* lck_mtx_unlock_wakeup_tail equals the number of threads parked on the   *)
(* turnstile, and the parked threads are exactly those in the queue.       *)
WaitersMatchTurnstile ==
  /\ state.waiters = Cardinality(waitq)
  /\ waitq = {t \in Threads : pc[t] = "blocked"}

(* Priority inheritance: while any thread is parked, the priority push     *)
(* lands on a thread that holds the lock or is about to contend for it     *)
(* again (the waiter woken with WAITQ_PROMOTE_ON_WAKE), never on a parked  *)
(* or departed thread; and whenever the lock is held as a mutex, it lands  *)
(* on the owner (acquire tail and convert_spin).                           *)
PriorityInheritance ==
  waitq # {} =>
    /\ inheritor \in Threads
    /\ pc[inheritor] \in {"spin", "ilk", "mutex"}
    /\ state.mlocked => inheritor = owner

(* No lost wakeup: threads parked by lck_mtx_lock_wait_x86 are never      *)
(* stranded on a lock nobody takes: whenever some are parked, the lock is  *)
(* eventually held again, by a woken waiter or a newcomer, and that        *)
(* holder's lck_mtx_unlock_slow sees the waiter count and wakes the next.  *)
NoLostWakeup ==
  waitq # {} ~> \E t \in Threads : Holding(t)

(* No caller that keeps the contract panics: lck_mtx_assert finds the     *)
(* owner field naming exactly the thread that holds the lock, in mutex or  *)
(* spin mode, across the contended grabs, convert_spin and the unlock that *)
(* clears it before waking a waiter; no lock routine meets the destroyed  *)
(* tag.                                                                    *)
NoPanic == \A t \in Threads : pc[t] # "panicked"

-----------------------------------------------------------------------------
(* Refinement: the lock word implements the abstract mutex.  The abstract  *)
(* holder is the recorded owner whenever the word is held in either mode.  *)
AM == INSTANCE AbstractMutex
        WITH holder <- IF state.mlocked \/ state.spin THEN owner ELSE NULL

(* Every change of the word's holder is a release by the holder or an      *)
(* acquire of a free lock: no acquire path overwrites a live hold, no      *)
(* unlock, wakeup or convert hands the lock over without freeing it.       *)
MutexRefinement == AM!Spec

=============================================================================
