---------------------------- MODULE RconSession -----------------------------
(***************************************************************************)
(* What the RCON server of module Rcon promises to one connection, as if   *)
(* there were no other and no slots, buffers or pieces of packets: its     *)
(* packets are dealt with one at a time in the order they were sent, and   *)
(* a command runs only behind the right password.                          *)
(***************************************************************************)
EXTENDS Sequences

CONSTANTS Packets, Passwords, None

VARIABLES
  password,  \* of the server, None if there is none
  phase,     \* "new", "waiting" for accept, "open" or "over"
  todo,      \* the packets sent and not dealt with
  authd,     \* did it send the password?
  running    \* is the first packet a command that runs?
vars == <<phase, todo, authd, running>>

Init == phase = "new" /\ todo = <<>> /\ ~authd /\ ~running

Connect == phase = "new" /\ phase' = "waiting" /\ UNCHANGED <<todo, authd, running>>
Open    == phase = "waiting" /\ phase' = "open" /\ UNCHANGED <<todo, authd, running>>

Arrive ==
  /\ phase \in {"waiting", "open"}
  /\ \E p \in Packets : todo' = Append(todo, p)
  /\ UNCHANGED <<phase, authd, running>>

Ready(kind) == phase = "open" /\ ~running /\ todo # <<>> /\ Head(todo).kind = kind

Authenticate ==
  /\ Ready("auth")
  /\ authd' = (authd \/ (password # None /\ Head(todo).secret = password))
  /\ todo' = Tail(todo)
  /\ UNCHANGED <<phase, running>>

Echo ==
  /\ Ready("other")
  /\ todo' = Tail(todo)
  /\ UNCHANGED <<phase, authd, running>>

Run ==
  /\ Ready("exec") /\ authd
  /\ running' = TRUE
  /\ UNCHANGED <<phase, todo, authd>>

Complete ==
  /\ running
  /\ running' = FALSE /\ todo' = Tail(todo)
  /\ UNCHANGED <<phase, authd>>

\* It is closed, for whatever reason, and nothing of it is left.
End ==
  /\ phase \in {"waiting", "open"}
  /\ phase' = "over" /\ todo' = <<>> /\ authd' = FALSE /\ running' = FALSE

Next == Connect \/ Open \/ Arrive \/ Authenticate \/ Echo \/ Run \/ Complete \/ End
Spec == Init /\ [][Next]_vars
=============================================================================
