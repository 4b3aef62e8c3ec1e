---------------------------- MODULE AbstractMutex ----------------------------
(***************************************************************************)
(* What the mutex facade promises, independent of how the lock word is     *)
(* encoded: the lock has at most one holder; a free lock can be taken by   *)
(* any thread and only its holder gives it back.  Spin-mode and mutex-mode *)
(* holds are the same abstract hold; converting one into the other is a   *)
(* stuttering step.                                                        *)
(***************************************************************************)
CONSTANTS Threads, NULL

VARIABLE holder

TypeOK == holder \in Threads \cup {NULL}

Init == holder = NULL

Acquire(t) == holder = NULL /\ holder' = t

Release(t) == holder = t /\ holder' = NULL

Next == \E t \in Threads : Acquire(t) \/ Release(t)

Spec == Init /\ [][Next]_holder
=============================================================================
