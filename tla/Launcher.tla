------------------------------ MODULE Launcher ------------------------------
(***************************************************************************)
(* What a launch script owes the host, whichever script it is: it leases   *)
(* loop devices, boots a guest, and gives every lease back. A run that     *)
(* gives up while preparing may leak what it leased; once a guest has been *)
(* booted, only a failure of its own can. Leaked devices are out of reach  *)
(* of later runs until somebody cleans up.                                 *)
(***************************************************************************)
EXTENDS Naturals

CONSTANT Loop

VARIABLES phase,     \* "idle", "preparing", "guest" or "cleaning"
          leased,    \* devices of the run in progress
          leaked,    \* devices that ended runs have left attached
          failures   \* failures that nothing in the state calls for

vars == <<phase, leased, leaked, failures>>

Init == phase = "idle" /\ leased = {} /\ leaked = {} /\ failures = 0

Begin ==
  /\ phase = "idle" /\ phase' = "preparing"
  /\ UNCHANGED <<leased, leaked, failures>>

Acquire(l) ==
  /\ phase = "preparing"
  /\ l \notin leased \cup leaked
  /\ leased' = leased \cup {l}
  /\ UNCHANGED <<phase, leaked, failures>>

Release(l) ==
  /\ phase \in {"preparing", "cleaning"}
  /\ leased' = leased \ {l}
  /\ UNCHANGED <<phase, leaked, failures>>

Boot ==
  /\ phase = "preparing" /\ phase' = "guest"
  /\ UNCHANGED <<leased, leaked, failures>>

Quit ==
  /\ phase = "guest" /\ phase' = "cleaning"
  /\ UNCHANGED <<leased, leaked, failures>>

(* only after a guest, and without a leak *)
Finish ==
  /\ phase \in {"guest", "cleaning"} /\ phase' = "idle"
  /\ leased' = {}
  /\ UNCHANGED <<leaked, failures>>

Leak == /\ phase' = "idle" /\ leased' = {}
        /\ leaked \subseteq leaked' /\ leaked' \subseteq leaked \cup leased

(* the run cannot go on with what it finds *)
GiveUp == phase = "preparing" /\ Leak /\ UNCHANGED failures

(* a command fails, or the run is killed, whatever it finds *)
Fail == phase # "idle" /\ Leak /\ failures' = failures + 1

(* the host goes down *)
HostRestarts ==
  /\ phase' = "idle" /\ leased' = {} /\ leaked' = {}
  /\ failures' = IF phase = "idle" THEN failures ELSE failures + 1

(* ... or the operator cleans up between runs *)
CleanUp ==
  /\ phase = "idle"
  /\ leaked' \subseteq leaked
  /\ UNCHANGED <<phase, leased, failures>>

Next ==
  \/ Begin \/ Boot \/ Quit \/ Finish \/ GiveUp \/ Fail \/ HostRestarts \/ CleanUp
  \/ \E l \in Loop : Acquire(l) \/ Release(l)

Spec == Init /\ [][Next]_vars
=============================================================================
