----------------------------- MODULE MC_LogDmesg -----------------------------
(* Rings of 1 to 3 bytes over '\0', '\n', '<', '>' and one ordinary byte, *)
(* every msg_bufx, localbuff sized for 1 to 3 bytes, and a caller buffer  *)
(* shorter and longer than the text.  Beside it, as a separate part of    *)
(* the state space (part), the host notification registry: three ports,   *)
(* two notifier threads and three zone entries; and process creation:    *)
(* two threads of a process of uid 501 and one thread of a root process  *)
(* calling fork1, beside the kernel, a root and a user process, with      *)
(* maxproc 5, RLIMIT_NPROC 3 and pids scanned over 3 .. 5.  Each          *)
(* behaviour explores one of the three; none shares state with another.  *)
EXTENDS LogDmesg, HostNotify, ProcFork

CONSTANTS a, pt1, pt2, pt3, n1, n2, e1, e2, e3, t1, t2, t3

MCOther == {a}
MCPorts == {pt1, pt2, pt3}
MCNotifiers == {n1, n2}
MCEntries == {e1, e2, e3}
MCCallers == {t1, t2, t3}
MCCallerProc == (t1 :> 2) @@ (t2 :> 2) @@ (t3 :> 1)
MCInitProcs == (0 :> 0) @@ (1 :> 0) @@ (2 :> 501)

VARIABLE part

\* The host part starts beside one fixed log_dmesg state.
MCDmesgFixed == size = 1 /\ ring = [i \in {0} |-> NUL] /\ lsize = 1 /\ bsz = 2

MCInit ==
  /\ part \in {"dmesg", "host", "fork"}
  /\ Init
  /\ HostInit
  /\ ForkInit
  /\ part # "dmesg" => MCDmesgFixed

MCNext ==
  \/ part = "dmesg" /\ Next /\ UNCHANGED <<hnvars, forkvars, part>>
  \/ part = "host" /\ HostNext /\ UNCHANGED <<vars, forkvars, part>>
  \/ part = "fork" /\ ForkNext /\ UNCHANGED <<vars, hnvars, part>>

MCSpec ==
  /\ MCInit
  /\ [][MCNext]_<<vars, hnvars, forkvars, part>>
  /\ WF_<<vars, hnvars, forkvars, part>>(part = "dmesg" /\ Next /\ UNCHANGED <<hnvars, forkvars, part>>)

\* t1 and t2 are threads of one process and interchangeable.
MCSymmetry ==
  Permutations(MCPorts) \cup Permutations(MCNotifiers) \cup Permutations(MCEntries)
    \cup Permutations({t1, t2})
=============================================================================
