------------------------- MODULE AbstractPreselect -------------------------
(***************************************************************************)
(* What the per-auid preselection ioctls of an audit pipe promise         *)
(* (AUDITPIPE_SET/DELETE/FLUSH_PRESELECT_AUID): each pipe holds a partial *)
(* map from audit user ids to masks.  A client's request, once copied in, *)
(* is performed in one step: SET gives the auid that mask, replacing an   *)
(* earlier one; DELETE removes the auid; FLUSH empties the map.  The      *)
(* allocation and freeing of a pipe empty it as well.                     *)
(***************************************************************************)
EXTENDS Functions, TLC

CONSTANTS Clients, Minors, Auids, Masks

VARIABLES
  pmask,   \* pmask[u]: the mask of each auid configured on pipe u
  preq     \* preq[c]: the request client c has issued, not yet performed

NoReq == [op |-> "none"]

AuidRequests ==
  [op : {"set"}, pipe : Minors, auid : Auids, mask : Masks]
    \cup [op : {"delete"}, pipe : Minors, auid : Auids]
    \cup [op : {"flush"}, pipe : Minors]

PresetInit ==
  /\ pmask = [u \in Minors |-> <<>>]
  /\ preq = [c \in Clients |-> NoReq]

Request(c) ==
  /\ preq[c] = NoReq
  /\ \E q \in AuidRequests : preq' = [preq EXCEPT ![c] = q]
  /\ UNCHANGED pmask

Perform(c) ==
  LET q == preq[c] IN
  /\ q # NoReq
  /\ preq' = [preq EXCEPT ![c] = NoReq]
  /\ pmask' = [pmask EXCEPT ![q.pipe] =
                 CASE q.op = "set"    -> (q.auid :> q.mask) @@ @
                   [] q.op = "delete" -> Restrict(@, DOMAIN @ \ {q.auid})
                   [] q.op = "flush"  -> <<>>]

ClearMasks(u) ==
  /\ pmask' = [pmask EXCEPT ![u] = <<>>]
  /\ UNCHANGED preq

PresetNext ==
  \/ \E c \in Clients : Request(c) \/ Perform(c)
  \/ \E u \in Minors : ClearMasks(u)

PresetSpec == PresetInit /\ [][PresetNext]_<<pmask, preq>>
=============================================================================
