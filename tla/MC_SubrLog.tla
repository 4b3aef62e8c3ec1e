----------------------------- MODULE MC_SubrLog -----------------------------
(* A ring of 3 bytes that may be resized to 2 or 4 (5 is above the 4-byte *)
(* maximum, -1 is negative) at most twice, five characters logged (the   *)
(* writer laps the ring), and reads of 1 or 2 bytes.  Beside it, as a    *)
(* separate part of the state space (part), the /dev/oslog device with   *)
(* two logd threads and any number of firehose pushes.  Each behaviour explores  *)
(* one of the two; they share no variable.                               *)
EXTENDS SubrLog, OslogDevice

CONSTANTS d1, d2

MCRequests == {-1, 2, 4, 5}
MCLogdThreads == {d1, d2}

VARIABLE part

MCInit == Init /\ DevInit /\ part \in {"msgbuf", "oslog"}

MCNext ==
  \/ part = "msgbuf" /\ Next /\ UNCHANGED <<devvars, part>>
  \/ part = "oslog" /\ DevNext /\ UNCHANGED <<vars, part>>

MCSpec == MCInit /\ [][MCNext]_<<vars, devvars, part>> /\ Fairness
=============================================================================
