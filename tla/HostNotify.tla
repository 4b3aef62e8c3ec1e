----------------------------- MODULE HostNotify -----------------------------
(***************************************************************************)
(* Host notification registration (osfmk/kern/host_notify.c).  A client   *)
(* registers a send-once right to a port for one notification type: the   *)
(* kernel allocates an entry, binds it to the port as its kobject and      *)
(* queues it on host_notify_queue[type].  A calendar change takes the     *)
(* whole queue into a local send_queue under host_notify_lock, then for   *)
(* each entry downgrades the port, drops the lock, frees the entry, sends *)
(* the notification through the right, and locks again.  A port that     *)
(* dies runs host_notify_port_destroy, which takes back the entry still   *)
(* bound to it, unlinks it from whatever queue holds it (the type queue   *)
(* or a notifier's send_queue), frees it and releases the right.          *)
(*                                                                         *)
(* The entry zone is a set of entry names; host_notify_lock is the        *)
(* variable lk (a blocked lck_mtx_lock is a disabled step).  The kobject *)
(* calls ipc_kobject_upgrade / ipc_kobject_downgrade_host_notify are the  *)
(* port's kobj field: an upgrade succeeds on a live port with no kobject. *)
(***************************************************************************)
EXTENDS Naturals, FiniteSets, Sequences, SequencesExt

CONSTANTS
  Ports,        \* ports clients register
  Notifiers,    \* threads that post calendar changes
  Entries,      \* the host_notify_zone elements
  NONE,         \* no entry / no holder
  MaxRequests   \* bound on host_request_notification calls

HOST_NOTIFY_CALENDAR_CHANGE == "change"
HOST_NOTIFY_CALENDAR_SET == "set"
Types == {HOST_NOTIFY_CALENDAR_CHANGE, HOST_NOTIFY_CALENDAR_SET}

VARIABLES
  queue,      \* host_notify_queue[type]: the registered entries, in order
  kobj,       \* kobj[p]: the entry bound to port p as kobject, or NONE
  alive,      \* alive[p]: port p is active
  eport,      \* eport[e]: entry->port
  allocated,  \* the entries allocated from host_notify_zone
  sonce,      \* sonce[p]: send-once rights to p the registry holds
  lk,         \* host_notify_lock holder
  npc,        \* npc[n]: where notifier n is in host_notify_all
  sendq,      \* sendq[n]: the local send_queue of notifier n
  cur,        \* cur[n]: the entry notifier n has dequeued
  nreq        \* requests made so far

hnvars == <<queue, kobj, alive, eport, allocated, sonce, lk, npc, sendq, cur, nreq>>

(* host_notify_init: every type queue empty; the static lock is free.     *)
HostInit ==
  /\ queue = [t \in Types |-> <<>>]
  /\ kobj = [port \in Ports |-> NONE]
  /\ alive = [port \in Ports |-> TRUE]
  /\ eport = [e \in Entries |-> NONE]
  /\ allocated = {}
  /\ sonce = [port \in Ports |-> 0]
  /\ lk = NONE
  /\ npc = [n \in Notifiers |-> "idle"]
  /\ sendq = [n \in Notifiers |-> <<>>]
  /\ cur = [n \in Notifiers |-> NONE]
  /\ nreq = 0

\* remqueue: unlink e from the list that holds it.
Unlink(s, e) == SelectSeq(s, LAMBDA x : x # e)

(* host_request_notification on a live port with no kobject: allocate the *)
(* entry, lock, upgrade the port to it, enqueue it at the tail, unlock.   *)
(* The registry keeps the right.  An invalid argument, or an upgrade that *)
(* fails (the entry is freed again), changes nothing and is no step.     *)
host_request_notification(port, t) ==
  /\ nreq < MaxRequests
  /\ lk = NONE
  /\ alive[port] /\ kobj[port] = NONE
  /\ \E e \in Entries \ allocated :
       /\ allocated' = allocated \cup {e}
       /\ eport' = [eport EXCEPT ![e] = port]
       /\ kobj' = [kobj EXCEPT ![port] = e]
       /\ queue' = [queue EXCEPT ![t] = Append(@, e)]
  /\ sonce' = [sonce EXCEPT ![port] = @ + 1]
  /\ nreq' = nreq + 1
  /\ UNCHANGED <<alive, lk, npc, sendq, cur>>

(* The port dies and host_notify_port_destroy runs: under the lock, take  *)
(* back the entry still bound to the port and unlink it from the queue    *)
(* that holds it; after the unlock, free it and release the right.       *)
host_notify_port_destroy(port) ==
  /\ alive[port]
  /\ lk = NONE
  /\ alive' = [alive EXCEPT ![port] = FALSE]
  /\ LET e == kobj[port] IN
     IF e = NONE THEN UNCHANGED <<queue, kobj, allocated, sonce, sendq>>
     ELSE /\ kobj' = [kobj EXCEPT ![port] = NONE]
          /\ queue' = [t \in Types |-> Unlink(queue[t], e)]
          /\ sendq' = [n \in Notifiers |-> Unlink(sendq[n], e)]
          /\ allocated' = allocated \ {e}
          /\ sonce' = [sonce EXCEPT ![port] = @ - 1]
  /\ UNCHANGED <<eport, lk, npc, cur, nreq>>

(* host_notify_all, up to the loop: lock; a non-empty type queue moves   *)
(* whole into send_queue and the type queue is reinitialised.  On an     *)
(* empty queue the call only locks and unlocks, and is no step.          *)
host_notify_all(n, t) ==
  /\ npc[n] = "idle"
  /\ lk = NONE
  /\ queue[t] # <<>>
  /\ sendq' = [sendq EXCEPT ![n] = queue[t]]
  /\ queue' = [queue EXCEPT ![t] = <<>>]
  /\ lk' = n
  /\ npc' = [npc EXCEPT ![n] = "loop"]
  /\ UNCHANGED <<kobj, alive, eport, allocated, sonce, cur, nreq>>

host_notify_calendar_change(n) == host_notify_all(n, HOST_NOTIFY_CALENDAR_CHANGE)
host_notify_calendar_set(n) == host_notify_all(n, HOST_NOTIFY_CALENDAR_SET)

(* Mutant: the port is not downgraded before the lock is dropped. *)
NotifyDequeueNoDowngrade(n) ==
  /\ npc[n] = "loop"
  /\ IF sendq[n] = <<>>
       THEN /\ npc' = [npc EXCEPT ![n] = "idle"]
            /\ UNCHANGED <<sendq, kobj, cur>>
       ELSE /\ cur' = [cur EXCEPT ![n] = Head(sendq[n])]
            /\ sendq' = [sendq EXCEPT ![n] = Tail(@)]
            /\ npc' = [npc EXCEPT ![n] = "send"]
            /\ UNCHANGED kobj
  /\ lk' = NONE
  /\ UNCHANGED <<queue, alive, eport, allocated, sonce, nreq>>

(* The loop test, holding the lock: dequeue the next entry, downgrade its *)
(* port, unlock.  With send_queue empty the loop ends and the final       *)
(* unlock returns.                                                        *)
NotifyDequeue(n) ==
  /\ npc[n] = "loop"
  /\ IF sendq[n] = <<>>
       THEN /\ npc' = [npc EXCEPT ![n] = "idle"]
            /\ UNCHANGED <<sendq, kobj, cur>>
       ELSE LET e == Head(sendq[n]) IN
            /\ cur' = [cur EXCEPT ![n] = e]
            /\ sendq' = [sendq EXCEPT ![n] = Tail(@)]
            /\ kobj' = [kobj EXCEPT ![eport[e]] = NONE]
            /\ npc' = [npc EXCEPT ![n] = "send"]
  /\ lk' = NONE
  /\ UNCHANGED <<queue, alive, eport, allocated, sonce, nreq>>

(* Unlocked: free the entry and send the notification, which moves the   *)
(* send-once right out of the registry (to a dead port it is destroyed). *)
NotifySend(n) ==
  /\ npc[n] = "send"
  /\ allocated' = allocated \ {cur[n]}
  /\ sonce' = [sonce EXCEPT ![eport[cur[n]]] = @ - 1]
  /\ cur' = [cur EXCEPT ![n] = NONE]
  /\ npc' = [npc EXCEPT ![n] = "relock"]
  /\ UNCHANGED <<queue, kobj, alive, eport, lk, sendq, nreq>>

\* lck_mtx_lock(&host_notify_lock) at the bottom of the loop.
NotifyRelock(n) ==
  /\ npc[n] = "relock"
  /\ lk = NONE
  /\ lk' = n
  /\ npc' = [npc EXCEPT ![n] = "loop"]
  /\ UNCHANGED <<queue, kobj, alive, eport, allocated, sonce, sendq, cur, nreq>>

HostNext ==
  \/ \E port \in Ports, t \in Types : host_request_notification(port, t)
  \/ \E port \in Ports : host_notify_port_destroy(port)
  \/ \E n \in Notifiers :
       \/ host_notify_calendar_change(n)
       \/ host_notify_calendar_set(n)
       \/ NotifyDequeue(n)
       \/ NotifySend(n)
       \/ NotifyRelock(n)

HostSpec == HostInit /\ [][HostNext]_hnvars

-----------------------------------------------------------------------------
\* Where entry e is linked or held: a type queue, a send_queue, or cur.
Places(e) ==
  UNION {{<<"queue", t, i>> : i \in {i \in DOMAIN queue[t] : queue[t][i] = e}} : t \in Types}
  \cup UNION {{<<"sendq", n, i>> : i \in {i \in DOMAIN sendq[n] : sendq[n][i] = e}} : n \in Notifiers}
  \cup {<<"cur", n, 0>> : n \in {n \in Notifiers : cur[n] = e}}

Linked(e) == \E pl \in Places(e) : pl[1] # "cur"

(* The registry stays intact whatever the order of registrations, port   *)
(* deaths and notifiers that drop host_notify_lock inside their loop: an *)
(* allocated entry sits in exactly one place and a free one in none (no  *)
(* use after free, no double free, no leak); a port's kobject is an      *)
(* entry for that port exactly while the entry is still linked, so       *)
(* host_notify_port_destroy can only take back an entry the notifier has *)
(* not dequeued; and the registry holds as many send-once rights to a    *)
(* port as it has allocated entries for it (each right is used once).    *)
RegistryIntegrity ==
  /\ \A e \in Entries : Cardinality(Places(e)) = IF e \in allocated THEN 1 ELSE 0
  /\ \A port \in Ports :
       /\ kobj[port] # NONE => kobj[port] \in allocated /\ eport[kobj[port]] = port
                             /\ Linked(kobj[port])
       /\ \A e \in allocated : eport[e] = port /\ Linked(e) => kobj[port] = e
       /\ sonce[port] = Cardinality({e \in allocated : eport[e] = port})
====
