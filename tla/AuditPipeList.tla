---------------------------- MODULE AuditPipeList ----------------------------
(***************************************************************************)
(* The pipes of bsd/security/audit/audit_pipe.c as a set: the clone       *)
(* routine handing out minor numbers, open and close allocating and       *)
(* freeing a pipe, each pipe's preselection settings and their ioctls,    *)
(* and the two walks of the audit side over audit_pipe_list:              *)
(* audit_pipe_preselect (is any pipe interested?) and audit_pipe_submit   *)
(* (offer the record to every interested pipe).  The queue of a pipe is   *)
(* AuditPipe's; here a submit records the set of pipes it offered the     *)
(* record to.                                                             *)
(*                                                                         *)
(* audit_pipe_open and audit_pipe_close change audit_pipe_dtab and        *)
(* audit_pipe_list together under the list's write lock, so a minor is    *)
(* in dtab exactly when its pipe is on the list and ap_open is set; one   *)
(* variable stands for the three.  The walks hold the read lock and take *)
(* each pipe's mutex in turn; an ioctl, which takes only that mutex, on a *)
(* pipe already visited or not yet visited acts as if after or before the *)
(* whole walk, so a walk is one step.                                     *)
(*                                                                         *)
(* A mask is the set of outcomes (success, failure) it selects for the    *)
(* one event class of the record: au_preselect, outside this slice,       *)
(* selects when the mask and the record's sorf share an outcome.         *)
(***************************************************************************)
EXTENDS Naturals, FiniteSets, Sequences, SequencesExt

CONSTANTS
  Clients,     \* processes opening /dev/auditpipe
  Minors,      \* 0 .. MAX_AUDIT_PIPES - 1
  Auids,       \* audit user ids of records and ioctls
  DefAuid,     \* AU_DEFAUDITID, a member of Auids
  Masks,       \* au_mask_t values passed to the ioctls
  Sorfs,       \* sorf values of a record
  Modes,       \* values passed to AUDITPIPE_SET_PRESELECT_MODE
  MaxIoctls    \* bound on the preselection ioctls of a run

ASSUME DefAuid \in Auids /\ 0 \in Minors /\ {"trail", "local"} \subseteq Modes

VARIABLES
  dtab,     \* dtab[u]: audit_pipe_dtab[u] # NULL (on the list, ap_open)
  mode,     \* ap_preselect_mode
  flags,    \* ap_preselect_flags
  naflags,  \* ap_preselect_naflags
  psl,      \* ap_preselect_list: <<[auid, mask]>> in list order
  opc,      \* where each client is: "idle", "cloned" or "open"
  ominor,   \* the minor number devfs gave each client
  nioctl,   \* preselection ioctls issued so far
  req,      \* the per-auid ioctl request each client has copied in
  last      \* the walk in progress: its record and its result

listvars == <<dtab, mode, flags, naflags, psl, opc, ominor, nioctl, req, last>>

Records == [auid : Auids, sorf : Sorfs, trail : BOOLEAN]

NoWalk == [op |-> "none"]

NoReq == [op |-> "none"]

(* The arguments of AUDITPIPE_SET_PRESELECT_AUID (auid and mask),         *)
(* AUDITPIPE_DELETE_PRESELECT_AUID (auid) and FLUSH_PRESELECT_AUID, with  *)
(* the pipe of the descriptor, audit_pipe_dtab[minor(dev)].               *)
AuidRequests ==
  [op : {"set"}, pipe : Minors, auid : Auids, mask : Masks]
    \cup [op : {"delete"}, pipe : Minors, auid : Auids]
    \cup [op : {"flush"}, pipe : Minors]

\* The minors whose pipe is allocated.
Opened == {u \in Minors : dtab[u]}

\* audit_pipe_init: no pipe, no client.
ListInit ==
  /\ dtab = [u \in Minors |-> FALSE]
  /\ mode = [u \in Minors |-> "trail"]
  /\ flags = [u \in Minors |-> {}]
  /\ naflags = [u \in Minors |-> {}]
  /\ psl = [u \in Minors |-> <<>>]
  /\ opc = [c \in Clients |-> "idle"]
  /\ ominor = [c \in Clients |-> 0]
  /\ nioctl = 0
  /\ req = [c \in Clients |-> NoReq]
  /\ last = NoWalk

-----------------------------------------------------------------------------
\* The index of the first entry for auid a, 0 if none.
audit_pipe_preselect_find(u, a) == SelectInSeq(psl[u], LAMBDA e : e.auid = a)

(* Trail mode follows the global trail's decision; local mode uses the   *)
(* auid's own entry, else naflags for AU_DEFAUDITID and flags otherwise. *)
(* The default case panics; SET_PRESELECT_MODE stores no other mode.     *)
audit_pipe_preselect_check(u, r) ==
  LET AuPreselect(m) == m \cap r.sorf # {}
      i == audit_pipe_preselect_find(u, r.auid)
  IN IF mode[u] = "trail" THEN r.trail
     ELSE IF i = 0 THEN IF r.auid = DefAuid THEN AuPreselect(naflags[u])
                                            ELSE AuPreselect(flags[u])
     ELSE AuPreselect(psl[u][i].mask)

(* audit_pipe_preselect: after the lockless emptiness test, walk the     *)
(* list and answer whether any pipe is interested.                        *)
audit_pipe_preselect(r) ==
  [op |-> "preselect", rec |-> r,
   res |-> \E u \in Opened : audit_pipe_preselect_check(u, r)]

(* audit_pipe_submit: offer the record to each interested pipe, whose    *)
(* audit_pipe_append queues or drops it.                                  *)
audit_pipe_submit(r) ==
  [op |-> "submit", rec |-> r,
   res |-> {u \in Opened : audit_pipe_preselect_check(u, r)}]

\* audit_pipe_submit_user: offer the record to every pipe.
audit_pipe_submit_user(r) == [op |-> "submit_user", rec |-> r, res |-> Opened]

(* The audit side calls one of the walks; the call ends with its return. *)
AuditWalk ==
  /\ last = NoWalk
  /\ \E r \in Records :
       last' \in {audit_pipe_preselect(r), audit_pipe_submit(r),
                  audit_pipe_submit_user(r)}
  /\ UNCHANGED <<dtab, mode, flags, naflags, psl, opc, ominor, nioctl, req>>

AuditReturn ==
  /\ last # NoWalk
  /\ last' = NoWalk
  /\ UNCHANGED <<dtab, mode, flags, naflags, psl, opc, ominor, nioctl, req>>

-----------------------------------------------------------------------------
(* audit_pipe_clone, DEVFS_CLONE_ALLOC, under DEVFS_LOCK but not the      *)
(* pipe list lock: the lowest minor with no pipe, or 0 when all are used. *)
audit_pipe_clone(c) ==
  /\ opc[c] = "idle"
  /\ ominor' = [ominor EXCEPT ![c] = IF Opened = Minors THEN 0
                                     ELSE Min(Minors \ Opened)]
  /\ opc' = [opc EXCEPT ![c] = "cloned"]
  /\ UNCHANGED <<dtab, mode, flags, naflags, psl, nioctl, req, last>>

(* audit_pipe_alloc: zero masks, no auid entries, trail mode. *)
audit_pipe_alloc(u) ==
  /\ dtab' = [dtab EXCEPT ![u] = TRUE]
  /\ mode' = [mode EXCEPT ![u] = "trail"]
  /\ flags' = [flags EXCEPT ![u] = {}]
  /\ naflags' = [naflags EXCEPT ![u] = {}]
  /\ psl' = [psl EXCEPT ![u] = <<>>]

(* Mutant: open attaches to a pipe that is already open. *)
audit_pipe_open_shared(c) ==
  /\ opc[c] = "cloned"
  /\ IF ~dtab[ominor[c]]
       THEN audit_pipe_alloc(ominor[c])
       ELSE UNCHANGED <<dtab, mode, flags, naflags, psl>>
  /\ opc' = [opc EXCEPT ![c] = "open"]
  /\ UNCHANGED <<ominor, nioctl, req, last>>

(* audit_pipe_open under the list write lock: allocate a pipe for a free  *)
(* minor, or fail with EBUSY when the minor has one.  The minor always    *)
(* passes the ENXIO range test, and Z_NOFAIL allocation never gives       *)
(* ENOMEM.                                                                 *)
audit_pipe_open(c) ==
  /\ opc[c] = "cloned"
  /\ \/ /\ ~dtab[ominor[c]]
        /\ audit_pipe_alloc(ominor[c])
        /\ opc' = [opc EXCEPT ![c] = "open"]
     \/ /\ dtab[ominor[c]]
        /\ opc' = [opc EXCEPT ![c] = "idle"]
        /\ UNCHANGED <<dtab, mode, flags, naflags, psl>>
  /\ UNCHANGED <<ominor, nioctl, req, last>>

(* audit_pipe_free, with the write lock and the pipe mutex held:        *)
(* audit_pipe_preselect_flush_locked, audit_pipe_flush of the records,    *)
(* the pipe taken off the list and freed.  The freed settings return to   *)
(* the values a new pipe starts with.                                     *)
audit_pipe_free(u) ==
  /\ dtab' = [dtab EXCEPT ![u] = FALSE]
  /\ mode' = [mode EXCEPT ![u] = "trail"]
  /\ flags' = [flags EXCEPT ![u] = {}]
  /\ naflags' = [naflags EXCEPT ![u] = {}]
  /\ psl' = [psl EXCEPT ![u] = <<>>]

(* audit_pipe_close: clear ap_open and free the pipe under both locks,    *)
(* then clear its dtab slot.  A client's own ioctl in progress holds the  *)
(* descriptor, so the close comes after it.                               *)
audit_pipe_close(c) ==
  /\ opc[c] = "open" /\ req[c] = NoReq
  /\ audit_pipe_free(ominor[c])
  /\ opc' = [opc EXCEPT ![c] = "idle"]
  /\ UNCHANGED <<ominor, nioctl, req, last>>

-----------------------------------------------------------------------------
(* The preselection ioctls of a client with the pipe open, each under the *)
(* pipe mutex.  GET requests change nothing and are left out.             *)
Ioctl(c) ==
  /\ opc[c] = "open" /\ req[c] = NoReq
  /\ nioctl < MaxIoctls
  /\ nioctl' = nioctl + 1
  /\ UNCHANGED <<dtab, opc, ominor, req, last>>

\* AUDITPIPE_SET_PRESELECT_FLAGS and AUDITPIPE_SET_PRESELECT_NAFLAGS.
SetPreselectFlags(u, m) ==
  /\ flags' = [flags EXCEPT ![u] = m]
  /\ UNCHANGED <<mode, naflags, psl>>

SetPreselectNaflags(u, m) ==
  /\ naflags' = [naflags EXCEPT ![u] = m]
  /\ UNCHANGED <<mode, flags, psl>>

(* AUDITPIPE_SET_PRESELECT_MODE: trail and local are stored, any other    *)
(* value is EINVAL.                                                        *)
SetPreselectMode(u, md) ==
  /\ mode' = [mode EXCEPT ![u] = IF md \in {"trail", "local"} THEN md ELSE @]
  /\ UNCHANGED <<flags, naflags, psl>>

(* Mutant: the entry is appended without looking for the auid first. *)
audit_pipe_preselect_set_append(u, a, m) ==
  /\ psl' = [psl EXCEPT ![u] = Append(@, [auid |-> a, mask |-> m])]
  /\ UNCHANGED <<mode, flags, naflags>>

(* audit_pipe_preselect_set: the entry allocated beforehand is inserted at *)
(* the tail when the auid has none (find under the mutex), else the       *)
(* existing entry takes the mask and the new one is freed.                *)
audit_pipe_preselect_set(u, a, m) ==
  /\ LET i == audit_pipe_preselect_find(u, a) IN
       psl' = [psl EXCEPT ![u] = IF i = 0 THEN Append(@, [auid |-> a, mask |-> m])
                                          ELSE [@ EXCEPT ![i].mask = m]]
  /\ UNCHANGED <<mode, flags, naflags>>

(* audit_pipe_preselect_delete: remove the auid's entry, ENOENT if none. *)
audit_pipe_preselect_delete(u, a) ==
  /\ LET i == audit_pipe_preselect_find(u, a) IN
       psl' = [psl EXCEPT ![u] = IF i = 0 THEN @ ELSE RemoveAt(@, i)]
  /\ UNCHANGED <<mode, flags, naflags>>

\* audit_pipe_preselect_flush: free every auid entry.
audit_pipe_preselect_flush(u) ==
  /\ psl' = [psl EXCEPT ![u] = <<>>]
  /\ UNCHANGED <<mode, flags, naflags>>

PipeIoctl(c) ==
  /\ Ioctl(c)
  /\ \/ \E m \in Masks : SetPreselectFlags(ominor[c], m)
     \/ \E m \in Masks : SetPreselectNaflags(ominor[c], m)
     \/ \E md \in Modes : SetPreselectMode(ominor[c], md)

(* ioctl(2) copying in the argument of a per-auid request. *)
AuidIoctlCopyin(c) ==
  /\ opc[c] = "open" /\ req[c] = NoReq
  /\ nioctl < MaxIoctls
  /\ nioctl' = nioctl + 1
  /\ \E q \in AuidRequests : q.pipe = ominor[c] /\ req' = [req EXCEPT ![c] = q]
  /\ UNCHANGED <<dtab, mode, flags, naflags, psl, opc, ominor, last>>

(* audit_pipe_ioctl for the request: SET_PRESELECT_AUID,                  *)
(* DELETE_PRESELECT_AUID or FLUSH_PRESELECT_AUID on the pipe.            *)
AuidIoctl(c) ==
  LET q == req[c] IN
  /\ q # NoReq
  /\ CASE q.op = "set"    -> audit_pipe_preselect_set(q.pipe, q.auid, q.mask)
       [] q.op = "delete" -> audit_pipe_preselect_delete(q.pipe, q.auid)
       [] q.op = "flush"  -> audit_pipe_preselect_flush(q.pipe)
  /\ req' = [req EXCEPT ![c] = NoReq]
  /\ UNCHANGED <<dtab, opc, ominor, nioctl, last>>

ListNext ==
  \/ AuditWalk \/ AuditReturn
  \/ \E c \in Clients :
       audit_pipe_clone(c) \/ audit_pipe_open(c) \/ audit_pipe_close(c)
         \/ PipeIoctl(c) \/ AuidIoctlCopyin(c) \/ AuidIoctl(c)

ListSpec == ListInit /\ [][ListNext]_listvars
-----------------------------------------------------------------------------
(* Properties *)

(* Two clients never hold the same pipe: the clone routine reads dtab    *)
(* without the list lock, so two lookups of /dev/auditpipe can be given  *)
(* the same free minor (or 0 when all are used), and only the open's     *)
(* check under the write lock, EBUSY for a minor with a pipe, keeps the   *)
(* second client off the first one's pipe.  A client with the pipe open   *)
(* also always finds it allocated.                                        *)
ExclusiveOpen ==
  \A c \in Clients :
    opc[c] = "open" =>
      /\ dtab[ominor[c]]
      /\ \A d \in Clients \ {c} : opc[d] = "open" => ominor[d] # ominor[c]

\* The mask map a pipe's list stands for: the first entry of each auid.
PipeMasks(u) ==
  [a \in {e.auid : e \in Range(psl[u])} |->
     psl[u][audit_pipe_preselect_find(u, a)].mask]

AbsPre == INSTANCE AbstractPreselect
            WITH pmask <- [u \in Minors |-> PipeMasks(u)], preq <- req

(* The preselection list of every pipe implements the partial map the    *)
(* ioctls promise: performing a client's SET_PRESELECT_AUID request makes *)
(* the lookup of that auid give the new mask (the find-or-insert never    *)
(* shadows an older entry), DELETE leaves the auid with no entry, FLUSH,  *)
(* open and close empty the list, and nothing else changes it.            *)
PreselectRefinement == AbsPre!PresetSpec
=============================================================================
