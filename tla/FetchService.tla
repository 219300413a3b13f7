---------------------------- MODULE FetchService ----------------------------
(***************************************************************************)
(* What the HTTPS client promises to its user (https_client.h): every      *)
(* request handed to https_client_fetch gets its callback exactly once,    *)
(* with a reply or with none, and while one is pending the client has a    *)
(* watcher in the event loop, so that the loop does not end before the     *)
(* callback. The exception is a multi handle that died: it is revived by   *)
(* the next fetch or reset only.                                           *)
(***************************************************************************)
CONSTANT Reqs

VARIABLES
  status,   \* of each request
  dead,     \* the multi handle has died
  active    \* the client has a watcher in the loop, or is in a callback of one

serviceVars == <<status, dead, active>>

Status == {"new", "pending", "replied", "dropped"}

Pending == {r \in Reqs : status[r] = "pending"}

Watched == Pending # {} => active \/ dead

Init ==
  /\ status = [r \in Reqs |-> "new"]
  /\ dead = FALSE
  /\ active = FALSE

(* The requests of S change to status s, all others keep theirs. *)
Become(S, s) == [r \in Reqs |-> IF r \in S THEN s ELSE status[r]]

-----------------------------------------------------------------------------
(* Calls of the user. A request is accepted, refused, or ended together     *)
(* with all others by a reset.                                              *)
Submit(r) ==
  /\ status[r] = "new"
  /\ status' = Become({r}, "pending")
  /\ dead' = FALSE
  /\ active' = TRUE

Refuse(r) ==
  /\ status[r] = "new"
  /\ status' = Become({r}, "dropped")
  /\ UNCHANGED <<dead, active>>

Reset(S) ==
  /\ Pending \subseteq S
  /\ \A r \in S : status[r] \in {"new", "pending"}
  /\ status' = Become(S, "dropped")
  /\ dead' = FALSE
  /\ active' \in BOOLEAN

(* What the client does in callbacks of its watchers. *)
Works ==
  /\ active
  /\ dead' \in BOOLEAN
  /\ active' \in BOOLEAN
  /\ Watched'

Reply(r) ==
  /\ status[r] = "pending"
  /\ status' = Become({r}, "replied")
  /\ Works

Drop(S) ==
  /\ S \subseteq Pending
  /\ status' = Become(S, "dropped")
  /\ Works

Next ==
  \/ \E r \in Reqs : Submit(r) \/ Refuse(r) \/ Reply(r)
  \/ \E S \in SUBSET Reqs : Reset(S) \/ Drop(S)

Spec == Init /\ [][Next]_serviceVars
=============================================================================
