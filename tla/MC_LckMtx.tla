------------------------------ MODULE MC_LckMtx ------------------------------
(* Four threads contend for one mutex: enough for several parked waiters,  *)
(* a woken waiter still runnable while another thread barges in and a    *)
(* spin-mode holder taking the lock with waiters queued.  Beside them, one *)
(* call of the adaptive spin runs its loop: on 1 to 3 CPUs, with          *)
(* high_MutexSpin set and unset, two owners and clock steps of 1 or 2.    *)
(* Its locals change nothing of the lock word, so its steps interleave    *)
(* freely with the threads'.                                              *)
(*                                                                         *)
(* The spin lock (LckSpin) is a separate part of the state space (part):  *)
(* three threads on one lck_spin_t, a 3-bit clock (ULLONG_MAX = 7) with    *)
(* durations 2 and 6, so that a duration loop starts early (no overflow)  *)
(* and late (base_at + duration_at wraps), and a lock timeout of 2, so    *)
(* that hw_lock_to times out while another thread holds the lock.  The    *)
(* two locks share no state; each behaviour explores one of them and      *)
(* leaves the other at its initial state.                                 *)
EXTENDS LckMtx, SpinWaitEstimator

CONSTANTS t1, t2, t3, t4, Destroyed, W, LockTimeOut, Durations

MCThreads == {t1, t2, t3, t4}
MCSpinThreads == {t1, t2, t3}

\* high_MutexSpin unset (negative) and set.
MCHighSpins == {-1, 5}

\* The spin lock's variables; its pc is spc here.
VARIABLES word, spc, now, start, base, dur, deadline, dbg, part

spinvars == <<word, spc, now, start, base, dur, deadline, dbg>>

SP == INSTANCE LckSpin WITH Threads <- MCSpinThreads, pc <- spc

\* The lock and the spin loop's locals.
SpinVars == <<vars, sw>>

MCInit ==
  /\ part \in {"mutex", "spin"}
  /\ Init /\ SP!Init
  /\ sw \in SpinStart
  /\ part = "spin" => sw = CHOOSE s \in SpinStart : TRUE

MCNext ==
  \/ /\ part = "mutex"
     /\ (Next /\ UNCHANGED sw) \/ (SwIterate /\ UNCHANGED vars)
     /\ UNCHANGED <<spinvars, part>>
  \/ part = "spin" /\ SP!Next /\ UNCHANGED <<SpinVars, part>>

MCSpec == MCInit /\ [][MCNext]_<<SpinVars, spinvars, part>> /\ Fairness

-----------------------------------------------------------------------------
(* Properties of the spin lock part *)

(* No deadline loop gives up early: lck_spin_try_lock_loop_duration and   *)
(* the deadline loop return FALSE only once mach_absolute_time has passed *)
(* base_at + duration_at, including when that sum overflows the clock     *)
(* width and the inverted fast track is taken.                            *)
NoEarlyTimeout == SP!NoEarlyTimeout

(* A debug kernel never panics a correct caller: no usld_* check and no   *)
(* lck_spin_assert fires on any acquire path, timeout, destroy or         *)
(* re-init; l->debug always names the thread the word names.              *)
NoDebugPanic == SP!NoDebugPanic

(* Every change of the spin lock's holder is a release by the holder or   *)
(* an acquire of a free word, whichever of hw_lock_to, usimple_lock_try,  *)
(* the fast tracks or the deadline loops took it.                         *)
SpinMutexRefinement == SP!MutexRefinement
=============================================================================
