------------------------------ MODULE ProcFork ------------------------------
(***************************************************************************)
(* Process creation in bsd/kern/kern_fork.c: fork1 as called by fork,     *)
(* posix_spawn and vfork.  fork1 tests the global limit on nprocs under  *)
(* proc_list_lock and drops the lock; chgproccnt then counts the new      *)
(* process against the caller's uid and the RLIMIT_NPROC test runs on the *)
(* count it returns.  forkproc scans for a free pid and, under the lock   *)
(* again, increments nprocs and enters the child in the pid hash; a later *)
(* failure runs forkproc_free, which takes both back, and fork1's error   *)
(* label gives the uid count back.  vfork marks the parent (p_vforkcnt,   *)
(* P_LVFORK) and lends the calling thread to the child (UT_VFORK) until   *)
(* the child's execve or exit calls vfork_return.                         *)
(*                                                                         *)
(* A process is its pid and its record in the hash: the real uid it is   *)
(* counted under and the parent's vfork state.  Every section under       *)
(* proc_list_lock or proc_lock is one step.  No process exits here (the   *)
(* exit path is not part of this slice), so the pgrp and session ids that *)
(* the pid scan also avoids are all pids of hashed processes.  PROC_CREATE *)
(* _SPAWN takes the path of PROC_CREATE_FORK except for thread_dup and the *)
(* coalitions, which hold no state here, and is the kind "fork".          *)
(***************************************************************************)
EXTENDS Integers, FiniteSets, FiniteSetsExt, Functions, TLC

CONSTANTS
  Callers,     \* threads calling fork1
  CallerProc,  \* CallerProc[c]: the process thread c belongs to
  InitProcs,   \* InitProcs[pid]: the real uid of each process at the start
  MaxProc,     \* maxproc
  RlimNproc,   \* the RLIMIT_NPROC soft limit of every process
  PidMax,      \* PID_MAX
  PidWrap      \* where the pid scan restarts: 100 in the code

ASSUME /\ PidWrap < PidMax
       /\ CallerProc \in [Callers -> DOMAIN InitProcs]

Kinds == {"fork", "vfork"}
NoPid == -1

VARIABLES
  procs,    \* the pid hash: procs[pid] = [ruid, vforkcnt, lvfork]
  nprocs,   \* nprocs
  proccnt,  \* proccnt[uid]: the per-uid count kept by chgproccnt
  lastpid,  \* forkproc's static lastpid
  fpc,      \* fpc[c]: where thread c is in fork1
  fkind,    \* fkind[c]: the kind of creation c asked for
  fchild,   \* fchild[c]: the pid forkproc gave c's child, or NoPid
  utvfork,  \* utvfork[c]: UT_VFORK on thread c, lent to its vfork child
  halted    \* the kernel stopped (a panic or a NULL dereference)

forkvars == <<procs, nprocs, proccnt, lastpid, fpc, fkind, fchild, utvfork, halted>>

Uids == {InitProcs[q] : q \in DOMAIN InitProcs}

\* kauth_getruid(): the caller counts under the real uid of its process.
Uid(c) == InitProcs[CallerProc[c]]

ForkInit ==
  /\ procs = [q \in DOMAIN InitProcs |-> [ruid |-> InitProcs[q], vforkcnt |-> 0, lvfork |-> FALSE]]
  /\ nprocs = Cardinality(DOMAIN InitProcs)
  /\ proccnt = [u \in Uids |-> Cardinality({q \in DOMAIN InitProcs : InitProcs[q] = u})]
  /\ lastpid = Max(DOMAIN InitProcs)
  /\ fpc = [c \in Callers |-> "idle"]
  /\ fkind = [c \in Callers |-> "fork"]
  /\ fchild = [c \in Callers |-> NoPid]
  /\ utvfork = [c \in Callers |-> FALSE]
  /\ halted = FALSE

-----------------------------------------------------------------------------
(* proc_vfork_begin, under the parent's proc_lock, on the hash h. *)
proc_vfork_begin(h, q) == [h EXCEPT ![q].lvfork = TRUE, ![q].vforkcnt = @ + 1]

(* proc_vfork_end: the count drops and P_LVFORK is cleared at zero. *)
proc_vfork_end(h, q) ==
  [h EXCEPT ![q].vforkcnt = @ - 1, ![q].lvfork = @ /\ h[q].vforkcnt > 1]

\* proc_vfork_end panics on a count that goes negative.
VforkEndPanics(h, q) == h[q].vforkcnt = 0

(* fork1, the global limit under proc_list_lock: a caller that is not    *)
(* root may not take the last process and root may not exceed maxproc.   *)
(* On the limit fork1 returns EAGAIN having changed nothing (no step).    *)
(* The lock is dropped before anything is counted.                       *)
Fork1(c, k) ==
  /\ fpc[c] = "idle"
  /\ ~((nprocs >= MaxProc - 1 /\ Uid(c) # 0) \/ nprocs >= MaxProc)
  /\ fpc' = [fpc EXCEPT ![c] = "count"]
  /\ fkind' = [fkind EXCEPT ![c] = k]
  /\ UNCHANGED <<procs, nprocs, proccnt, lastpid, fchild, utvfork, halted>>

(* chgproccnt(uid, 1) under the list lock, then the tests that goto bad:  *)
(* the new count over RLIMIT_NPROC for a caller that is not root, a MAC   *)
(* policy that denies the fork, and vfork from a thread already lent to a *)
(* vfork child (EINVAL).  A vfork that passes marks its parent with       *)
(* proc_vfork_begin before forkproc.                                      *)
Fork1Count(c) ==
  LET count == proccnt[Uid(c)] + 1 IN
  /\ fpc[c] = "count"
  /\ proccnt' = [proccnt EXCEPT ![Uid(c)] = count]
  /\ IF Uid(c) # 0 /\ count > RlimNproc
       THEN fpc' = [fpc EXCEPT ![c] = "bad"] /\ UNCHANGED procs
       ELSE \/ fpc' = [fpc EXCEPT ![c] = "bad"] /\ UNCHANGED procs
            \/ /\ fkind[c] = "vfork" /\ utvfork[c]
               /\ fpc' = [fpc EXCEPT ![c] = "bad"] /\ UNCHANGED procs
            \/ /\ fkind[c] = "vfork" /\ ~utvfork[c]
               /\ procs' = proc_vfork_begin(procs, CallerProc[c])
               /\ fpc' = [fpc EXCEPT ![c] = "forkproc"]
            \/ /\ fkind[c] = "fork"
               /\ fpc' = [fpc EXCEPT ![c] = "forkproc"] /\ UNCHANGED procs
  /\ UNCHANGED <<nprocs, lastpid, fkind, fchild, utvfork, halted>>

(* The pid scan of forkproc from pid: step to the next pid, restarting at *)
(* PidWrap at PID_MAX, panic on coming back to lastpid, and stop at a pid *)
(* the hash does not hold.  A scan that never meets lastpid again (it was *)
(* below the restart point) loops for ever with the lock held; both end   *)
(* in NoPid, after at most PidMax steps.                                  *)
RECURSIVE PidScan(_, _)
PidScan(pid, fuel) ==
  LET q == IF pid + 1 >= PidMax THEN PidWrap ELSE pid + 1 IN
  IF q = lastpid \/ fuel = 0 THEN NoPid
  ELSE IF q \in DOMAIN procs THEN PidScan(q, fuel - 1) ELSE q

(* forkproc, under proc_list_lock: the next free pid after lastpid        *)
(* becomes lastpid, nprocs goes up and the child enters the hash with the *)
(* caller's credential (its real uid).                                    *)
Forkproc(c) ==
  LET pid == PidScan(lastpid, PidMax) IN
  /\ fpc[c] = "forkproc"
  /\ IF pid = NoPid
       THEN halted' = TRUE /\ UNCHANGED <<procs, nprocs, lastpid, fpc, fchild>>
       ELSE /\ lastpid' = pid
            /\ nprocs' = nprocs + 1
            /\ procs' = (pid :> [ruid |-> Uid(c), vforkcnt |-> 0, lvfork |-> FALSE]) @@ procs
            /\ fchild' = [fchild EXCEPT ![c] = pid]
            /\ fpc' = [fpc EXCEPT ![c] = "init"]
            /\ UNCHANGED halted
  /\ UNCHANGED <<proccnt, fkind, utvfork>>

(* Mutant: the child is left in the pid hash. *)
forkproc_free_keeps_hash(c) == procs

(* forkproc_free, for the child of c: its lock section decrements nprocs *)
(* and takes the pid out of the hash; the rest frees memory.             *)
forkproc_free(c) == Restrict(procs, DOMAIN procs \ {fchild[c]})

(* Mutant: the failed vfork leaves its parent marked. *)
ForkprocNullNoVforkEnd(c) ==
  /\ procs' = forkproc_free(c)
  /\ UNCHANGED halted

(* forkproc returned NULL after it hashed the child (fdt_fork or          *)
(* persona_proc_inherit failed): forkproc_free.  vfork then ends the       *)
(* parent's vfork with proc_vfork_end (ENOMEM); fork and spawn get NULL   *)
(* from cloneproc (EAGAIN).  Both goto bad.                               *)
ForkprocNull(c) ==
  IF fkind[c] = "vfork"
    THEN /\ procs' = proc_vfork_end(forkproc_free(c), CallerProc[c])
         /\ halted' = VforkEndPanics(procs, CallerProc[c])
    ELSE /\ procs' = forkproc_free(c)
         /\ UNCHANGED halted

(* vfork, after forkproc: the child borrows the parent's task and the     *)
(* calling thread (UT_VFORK, uu_proc = child), P_LINVFORK and P_LPPWAIT  *)
(* are set and pinsertchild makes it visible; fork1 and vfork return 0    *)
(* and the thread runs as the child.                                      *)
VforkBorrow(c) == utvfork' = [utvfork EXCEPT ![c] = TRUE]

(* The rest of forkproc, where it can fail after the hash insert, and     *)
(* what fork1 does with its result.                                       *)
ForkprocInit(c) ==
  /\ fpc[c] = "init"
  /\ \/ /\ ForkprocNull(c)
        /\ nprocs' = nprocs - 1
        /\ fchild' = [fchild EXCEPT ![c] = NoPid]
        /\ fpc' = [fpc EXCEPT ![c] = "bad"]
        /\ UNCHANGED utvfork
     \/ /\ fkind[c] = "vfork"
        /\ VforkBorrow(c)
        /\ fchild' = [fchild EXCEPT ![c] = NoPid]
        /\ fpc' = [fpc EXCEPT ![c] = "idle"]
        /\ UNCHANGED <<procs, nprocs, halted>>
     \/ /\ fkind[c] = "fork"
        /\ fpc' = [fpc EXCEPT ![c] = "create"]
        /\ UNCHANGED <<procs, nprocs, fchild, utvfork, halted>>
  /\ UNCHANGED <<proccnt, lastpid, fkind>>

(* How fork_create_child ends: a child thread; NULL when                  *)
(* task_create_internal fails; or, when thread_create_waiting fails, the  *)
(* task is deallocated and thread_set_tag is still called on the NULL      *)
(* child_thread, a NULL dereference.                                       *)
CreateChildOutcomes == {"thread", "null", "deref"}

(* fork and vfork returning to the parent: the child's signal and         *)
(* transition locks are dropped, NOTE_FORK posted and the child resumed.  *)
ForkReturn(c) ==
  /\ fchild' = [fchild EXCEPT ![c] = NoPid]
  /\ fpc' = [fpc EXCEPT ![c] = "idle"]

(* cloneproc after forkproc: fork_create_child; a NULL thread makes it    *)
(* call forkproc_free and fork1 goto bad (EAGAIN); otherwise pinsertchild *)
(* and SRUN, and fork1 returns the child.                                 *)
Cloneproc(c) ==
  /\ fpc[c] = "create"
  /\ \E r \in CreateChildOutcomes :
       \/ /\ r = "thread"
          /\ ForkReturn(c)
          /\ UNCHANGED <<procs, nprocs, halted>>
       \/ /\ r = "null"
          /\ procs' = forkproc_free(c)
          /\ nprocs' = nprocs - 1
          /\ fchild' = [fchild EXCEPT ![c] = NoPid]
          /\ fpc' = [fpc EXCEPT ![c] = "bad"]
          /\ UNCHANGED halted
       \/ /\ r = "deref"
          /\ halted' = TRUE
          /\ UNCHANGED <<procs, nprocs, fchild, fpc>>
  /\ UNCHANGED <<proccnt, lastpid, fkind, utvfork>>

(* fork1's bad label: chgproccnt(uid, -1) gives the count back. *)
Fork1Bad(c) ==
  /\ fpc[c] = "bad"
  /\ proccnt' = [proccnt EXCEPT ![Uid(c)] = @ - 1]
  /\ fpc' = [fpc EXCEPT ![c] = "idle"]
  /\ UNCHANGED <<procs, nprocs, lastpid, fkind, fchild, utvfork, halted>>

(* vfork_return, when the child execs or exits: proc_vfork_end on the     *)
(* parent, UT_VFORK cleared and uu_proc reset; the thread is the          *)
(* parent's again.                                                        *)
vfork_return(c) ==
  /\ fpc[c] = "idle" /\ utvfork[c]
  /\ procs' = proc_vfork_end(procs, CallerProc[c])
  /\ halted' = VforkEndPanics(procs, CallerProc[c])
  /\ utvfork' = [utvfork EXCEPT ![c] = FALSE]
  /\ UNCHANGED <<nprocs, proccnt, lastpid, fpc, fkind, fchild>>

ForkNext ==
  /\ ~halted
  /\ \E c \in Callers :
       \/ \E k \in Kinds : Fork1(c, k)
       \/ Fork1Count(c) \/ Forkproc(c) \/ ForkprocInit(c)
       \/ Cloneproc(c) \/ Fork1Bad(c) \/ vfork_return(c)

ForkSpec == ForkInit /\ [][ForkNext]_forkvars

-----------------------------------------------------------------------------
\* The callers that hold a count from chgproccnt and no hashed child.
Counting(c) == fpc[c] \in {"forkproc", "bad"}

(* Every path out of fork1 gives back what it took, whatever the         *)
(* interleaving of callers and wherever fork1 fails: nprocs is the number *)
(* of processes in the pid hash (forkproc and forkproc_free change both   *)
(* under one lock, and the pid scan never reuses a hashed pid), and the   *)
(* per-uid count of chgproccnt is the uid's hashed processes plus the     *)
(* callers between chgproccnt(uid, 1) and forkproc or the bad label.      *)
ForkAccounting ==
  /\ nprocs = Cardinality(DOMAIN procs)
  /\ \A u \in Uids :
       proccnt[u] = Cardinality({q \in DOMAIN procs : procs[q].ruid = u})
                      + Cardinality({c \in Callers : Uid(c) = u /\ Counting(c)})

\* The threads of process q that are in a vfork of it.
InVfork(q) ==
  {c \in Callers : CallerProc[c] = q
                   /\ (utvfork[c] \/ (fkind[c] = "vfork" /\ fpc[c] \in {"forkproc", "init"}))}

(* A process is marked as in vfork (P_LVFORK, p_vforkcnt) exactly while   *)
(* its threads are between proc_vfork_begin and the child's vfork_return, *)
(* counted once each: a vfork whose forkproc fails ends the mark again,   *)
(* and two threads of one process in vfork at once are both counted.     *)
VforkState ==
  \A q \in DOMAIN procs :
    /\ procs[q].vforkcnt = Cardinality(InVfork(q))
    /\ procs[q].lvfork = (InVfork(q) # {})

(* The limit fork1 states in its comment: "don't let root exceed the      *)
(* limit", so nprocs never goes past maxproc.  fork1 tests nprocs under   *)
(* proc_list_lock and drops the lock; forkproc raises it later under a    *)
(* new hold, so callers that pass the test together each add a process.  *)
NprocsWithinMaxproc == nprocs <= MaxProc
====
