---------------------------- MODULE UnaryReactor ----------------------------
(***************************************************************************)
(* What every gRPC unary reactor of the servers promises: the call is      *)
(* finished exactly once, with one status; after that it starts nothing    *)
(* new; and grpc releases the reactor (OnDone deletes it) only when no     *)
(* callback that was given a pointer to it can still run.                  *)
(***************************************************************************)


CONSTANTS
  Status,      \* the status codes a call can be finished with
  NoStatus,    \* "Finish has not been called"
  Callback     \* names of the callbacks that may hold the reactor


VARIABLES
  status,       \* the status of the call, or NoStatus
  outstanding,  \* callbacks that still hold a pointer to the reactor
  released      \* OnDone has deleted the reactor

vars == <<status, outstanding, released>>

Init == status = NoStatus /\ outstanding = {} /\ released = FALSE

(* Callbacks are handed out and return. *)
Work ==
  /\ status = NoStatus /\ outstanding' \in SUBSET Callback
  /\ UNCHANGED <<status, released>>

Finish ==
  /\ status = NoStatus /\ status' \in Status
  /\ outstanding' \in SUBSET outstanding
  /\ UNCHANGED released

(* A straggler returns after the call was finished. *)
Drain ==
  /\ status # NoStatus /\ ~released
  /\ outstanding' \in SUBSET outstanding
  /\ UNCHANGED <<status, released>>

Release ==
  /\ status # NoStatus /\ outstanding = {} /\ ~released
  /\ released' = TRUE
  /\ UNCHANGED <<status, outstanding>>

Next == Work \/ Finish \/ Drain \/ Release

Safety == Init /\ [][Next]_vars

Spec == Safety /\ <>released
=============================================================================
