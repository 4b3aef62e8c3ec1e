---------------------------- MODULE MC_AuditPipe ----------------------------
(* Two configurations of bsd/security/audit/audit_pipe.c in one run; each *)
(* behaviour explores one of them, chosen by part, and leaves the other   *)
(* at its initial state.                                                   *)
(*                                                                         *)
(* "queue": two readers and the ioctl thread on one pipe.  Records of one *)
(* and two bytes and user buffers of one and three bytes give partial     *)
(* reads of a record, reads spanning two records, and a flush between two *)
(* reads of one record; a queue limit of two, with requests of 0, 1 and   *)
(* 3, puts appends at the limit.                                           *)
(*                                                                         *)
(* "list": two clients cloning, opening and closing two minors, so that   *)
(* both can be handed the same free minor and all minors can be in use;   *)
(* two auids (one the default), masks selecting nothing or success,       *)
(* records of either outcome, and two preselection ioctls per run, enough *)
(* for a local-mode pipe with a mask set, or an auid set twice or set and *)
(* deleted.                                                                *)
EXTENDS AuditPipe, AuditPipeList

CONSTANTS r1, r2, c1, c2, a1, adef

MCReaders == {r1, r2}
MCClients == {c1, c2}
MCMasks == {{}, {"success"}}
MCSorfs == {{"success"}, {"failure"}}

VARIABLE part

MCInit == Init /\ ListInit /\ part \in {"queue", "list"}

MCNext ==
  \/ part = "queue" /\ Next /\ UNCHANGED <<listvars, part>>
  \/ part = "list" /\ ListNext /\ UNCHANGED <<vars, part>>

MCSpec == MCInit /\ [][MCNext]_<<vars, listvars, part>> /\ Fairness
=============================================================================
