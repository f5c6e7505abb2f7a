---------------------------- MODULE Reservation -----------------------------
(***************************************************************************)
(* What the quota settlement of background jobs promises, without workers, *)
(* leases, retries or requests: the units reserved for a job are held when *)
(* the job is scheduled, may be spent one by one while it is open, and are *)
(* settled once, either by keeping all of them or by returning what has    *)
(* not been spent.  A settled reservation never changes again.             *)
(***************************************************************************)
EXTENDS Integers

CONSTANTS Jobs, Units

VARIABLES
  state,     \* state[j]: "none", "open" or "settled"
  spent,     \* units of j that are consumed
  returned   \* units of j that were handed back

reservationVars == <<state, spent, returned>>

ReservationInit ==
  /\ state = [j \in Jobs |-> "none"]
  /\ spent = [j \in Jobs |-> 0]
  /\ returned = [j \in Jobs |-> 0]

Open(j) ==
  /\ state[j] = "none"
  /\ state' = [state EXCEPT ![j] = "open"]
  /\ UNCHANGED <<spent, returned>>

SpendOne(j) ==
  /\ state[j] = "open"
  /\ spent[j] < Units[j]
  /\ spent' = [spent EXCEPT ![j] = @ + 1]
  /\ UNCHANGED <<state, returned>>

KeepAll(j) ==
  /\ state[j] = "open"
  /\ state' = [state EXCEPT ![j] = "settled"]
  /\ spent' = [spent EXCEPT ![j] = Units[j]]
  /\ UNCHANGED returned

ReturnRest(j) ==
  /\ state[j] = "open"
  /\ state' = [state EXCEPT ![j] = "settled"]
  /\ returned' = [returned EXCEPT ![j] = Units[j] - spent[j]]
  /\ UNCHANGED spent

ReservationNext ==
  \E j \in Jobs : Open(j) \/ SpendOne(j) \/ KeepAll(j) \/ ReturnRest(j)

ReservationSpec == ReservationInit /\ [][ReservationNext]_reservationVars

=============================================================================
