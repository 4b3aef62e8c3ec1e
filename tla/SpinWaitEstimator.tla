-------------------------- MODULE SpinWaitEstimator --------------------------
(***************************************************************************)
(* The deadline arithmetic of lck_mtx_lock_spinwait_x86 (osfmk/i386/      *)
(* locks_i386.c): the spin loop as a function of what each iteration     *)
(* observes.  Time starts at 0 (start_time); an iteration reads the clock *)
(* dt later, sees the grab succeed, or the owner (0 for none, else an     *)
(* identity) on core, off core and unchanged, or off core and replaced    *)
(* while the CPUs were scanned.  Counting owner changes, the learning     *)
(* window, the unfairness estimate and the sliding deadline are kept; the *)
(* lock word itself is LckMtx's.  The variable sw holds the locals of one *)
(* call; each step is one pass of the loop, until it exits.               *)
(***************************************************************************)
EXTENDS Integers, FiniteSets

CONSTANTS
  LowSpin,     \* low_MutexSpin
  HighSpins,   \* values of high_MutexSpin (negative: use low * ncpus)
  NCpus,       \* values of real_ncpus
  Dts,         \* clock advance between two reads of mach_absolute_time
  OwnerIds     \* thread identities an owner can have (0 is none)

(* What one iteration sees: the grab succeeds; the owner is o and on      *)
(* core; o is off core and still the owner; or the owner, off core, was   *)
(* replaced by o during the scan.                                         *)
Obs == [k : {"grab", "offsame"}, o : {0}]
         \cup [k : {"oncore"}, o : OwnerIds \ {0}]
         \cup [k : {"null"}, o : {0}]
         \cup [k : {"offchanged"}, o : OwnerIds]

\* high_deadline from high_MutexSpin.
HighDeadline(high, n) == IF high >= 0 THEN high ELSE LowSpin * n

(* The locals before the first iteration.  bias is                       *)
(* (os_hash_kernel_pointer(mutex) + cpu_number()) % real_ncpus, any value *)
(* below real_ncpus.                                                      *)
SpinStart ==
  UNION { { [cur |-> 0, wd |-> LowSpin, sd |-> LowSpin, hd |-> HighDeadline(h, n),
             n |-> n, bias |-> b, tot |-> 0, win |-> 0, adj |-> TRUE, prev |-> p,
             spun |-> FALSE, div0 |-> FALSE, ret |-> "loop"] :
              h \in HighSpins, b \in 0..n - 1, p \in OwnerIds } : n \in NCpus }

\* The owner the iteration ends up with, for the sample count.
SpinOwner(s, ob) == IF ob.k = "null" THEN 0 ELSE ob.o

(* Save how many times the owner changed: off core and replaced always   *)
(* counts (prev_owner was set to the old owner), otherwise owner !=       *)
(* prev_owner.                                                            *)
SpinSample(s, ob) ==
  IF ob.k = "offchanged" \/ SpinOwner(s, ob) # s.prev
    THEN [s EXCEPT !.prev = SpinOwner(s, ob), !.tot = @ + 1, !.win = @ + 1]
    ELSE s

(* Mutant: the window is closed without checking that it saw contention. *)
SpinWindowNoCheck(s) ==
  IF s.cur < s.wd THEN s
  ELSE LET t == IF ~s.adj THEN s
                ELSE IF s.tot \div s.n = 0
                  THEN [s EXCEPT !.sd = IF s.tot = 0 THEN 0
                                        ELSE (s.cur * (s.n - 1)) \div s.tot,
                                 !.div0 = s.tot = 0]
                  ELSE [s EXCEPT !.sd = s.cur + ((s.hd - s.cur) * s.bias) \div s.n,
                                 !.adj = FALSE]
       IN [t EXCEPT !.wd = @ + LowSpin, !.win = 0]

(* The learning window expired: without an owner change in it, stop;    *)
(* while adjusting, a lock changing hands fewer than real_ncpus times    *)
(* gets cur_time * (ncpus - 1) / total_hold_time_samples, an unfair one  *)
(* a share of the time left to high_deadline by bias, after which it is  *)
(* not adjusted again.  Then the next window.  div0 records a division   *)
(* by a zero total_hold_time_samples.                                    *)
SpinWindow(s) ==
  IF s.cur < s.wd THEN s
  ELSE IF s.win < 1 THEN [s EXCEPT !.ret = "no_window_contention"]
  ELSE LET t == IF ~s.adj THEN s
                ELSE IF s.tot \div s.n = 0
                  THEN [s EXCEPT !.sd = IF s.tot = 0 THEN 0
                                        ELSE (s.cur * (s.n - 1)) \div s.tot,
                                 !.div0 = s.tot = 0]
                  ELSE [s EXCEPT !.sd = s.cur + ((s.hd - s.cur) * s.bias) \div s.n,
                                 !.adj = FALSE]
       IN [t EXCEPT !.wd = @ + LowSpin, !.win = 0]

(* One iteration of the do-while loop: the grab, the clock against       *)
(* high_deadline, the owner check, the sample, the window, the sliding   *)
(* deadline, loopcount++.                                                 *)
SpinIteration(s, ob, dt) ==
  IF ob.k = "grab" THEN [s EXCEPT !.ret = "acquired"]
  ELSE LET c == [s EXCEPT !.cur = @ + dt] IN
  IF c.cur >= c.hd THEN [c EXCEPT !.ret = "spun_high_thr"]
  ELSE IF ob.k = "offsame"
    THEN [c EXCEPT !.ret = IF c.spun THEN "spun_owner_not_core" ELSE "no_spin"]
  ELSE LET w == SpinWindow(SpinSample(c, ob)) IN
  IF w.ret # "loop" THEN w
  ELSE IF w.cur >= w.sd THEN [w EXCEPT !.ret = "spun_sliding_thr"]
  ELSE [w EXCEPT !.spun = TRUE]

VARIABLE sw   \* the locals of one lck_mtx_lock_spinwait_x86 call

(* What is left of a call once it returns: retval; the locals leave the    *)
(* stack (div0 is kept as the record of a division by zero).              *)
SpinReturn(s) ==
  IF s.ret = "loop" THEN s
  ELSE [cur |-> 0, wd |-> 0, sd |-> 0, hd |-> 0, n |-> 0, bias |-> 0,
        tot |-> 0, win |-> 0, adj |-> FALSE, prev |-> 0, spun |-> FALSE,
        div0 |-> s.div0, ret |-> s.ret]

(* One pass of the loop, with whatever the grab, the owner and the clock  *)
(* show this time; the call is over once the loop exits.                  *)
SwIterate ==
  /\ sw.ret = "loop"
  /\ \E ob \in Obs, dt \in Dts : sw' = SpinReturn(SpinIteration(sw, ob, dt))

-----------------------------------------------------------------------------
(* The unfairness estimate never divides by a zero                       *)
(* total_hold_time_samples: in every run of the loop, whatever the clock, *)
(* the owners seen and the settings, a learning window that closes while  *)
(* adjusting has counted an owner change, because the window without one  *)
(* ends the spin first (locks_i386.c, the division after the window test).*)
SpinDivisorPositive == ~sw.div0
====
