--------------------------- MODULE MC_OslogStream ---------------------------
(* One writer (writes are serialised by oslog_stream_lock), two readers  *)
(* and a selector on the descriptor, and two racing opens.  A ring of 3   *)
(* bytes and 2 list entries: two 1-byte records use up the entries       *)
(* before the bytes, a 2-byte record wraps, and a 4-byte one is longer  *)
(* than the ring.                                                         *)
(*                                                                         *)
(* MCSpec adds, as a separate part of the state space (part), the UBSan   *)
(* violation log (UB, its variables renamed with the prefix ub_): three   *)
(* writers on a ring of three slots (two usable), so the log fills, a     *)
(* third writer finds it full, indices wrap, and two writers wait on each *)
(* other to publish, while the sysctl handler clears and dumps.  Each     *)
(* behaviour explores one part; they share no variable, and each starts   *)
(* from its program's single initial state.                               *)
EXTENDS OslogStream

CONSTANTS w1, r1, r2, o1, o2, s1, u1, u2, u3, LogSize, NULL

MCWriters == {w1}
MCReaders == {r1, r2}
MCOpeners == {o1, o2}
MCSelectors == {s1}

VARIABLES ub_head, ub_tail, ub_next, ub_log, ub_wpc, ub_slot, ub_spc, ub_sh,
          ub_cur, part

UB == INSTANCE UbsanLog
        WITH Writers <- {u1, u2, u3},
             head <- ub_head, tail <- ub_tail, next <- ub_next, log <- ub_log,
             wpc <- ub_wpc, slot <- ub_slot, spc <- ub_spc, sh <- ub_sh,
             cur <- ub_cur

ubvars == <<ub_head, ub_tail, ub_next, ub_log, ub_wpc, ub_slot, ub_spc, ub_sh,
            ub_cur>>

MCInit == Init /\ UB!Init /\ part \in {"stream", "ubsan"}

MCNext ==
  \/ part = "stream" /\ Next /\ UNCHANGED <<ubvars, part>>
  \/ part = "ubsan" /\ UB!Next /\ UNCHANGED <<vars, part>>

MCSpec == MCInit /\ [][MCNext]_<<vars, ubvars, part>> /\ Fairness /\ UB!Fairness

(* The UBSan log's properties, stated in UbsanLog.tla. *)

\* The indices, slots and places of the log keep their types.
UbsanTypeOK == UB!TypeOK

(* tail, head and next stay in ring order, and the slots between head   *)
(* and next are exactly the reservations of the writers still appending. *)
ReservationsContiguous == UB!ReservationsContiguous

(* sysctl_ubsan_log_dump formats only published entries, never a slot a *)
(* writer has reserved and may be storing into.                         *)
DumpReadsPublished == UB!DumpReadsPublished

(* Every violation whose slot was reserved is eventually published, even *)
(* when writers wait on one another in the rmw loop on head.             *)
AppendCompletes == UB!AppendCompletes

(* The ring implements a FIFO of at most ubsan_log_size - 1 entries: no  *)
(* writer overwrites an entry that is published and not cleared.         *)
LogRefinement == UB!LogRefinement
=============================================================================
