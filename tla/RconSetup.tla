----------------------------- MODULE RconSetup ------------------------------
(***************************************************************************)
(* rcon_create_tcp of tom_rcon.h: how a server gets its listening socket   *)
(* and its memory, and what it keeps when one of the calls fails.  `pc` is *)
(* the call that comes next; module Rcon goes on where it is "app".        *)
(***************************************************************************)
EXTENDS Naturals

CONSTANT MaxAddresses   \* bound: the addresses getaddrinfo returns

ASSUME SetupAssumption == MaxAddresses \in Nat \ {0}

VARIABLES
  pc,
  addresses,  \* those of the list ai that have not been tried
  fds,        \* the number of descriptors that are open
  memory      \* what is allocated: "list" (ai), "block" (tcp), "clients"
setupVars == <<pc, addresses, fds, memory>>

SetupInit == pc = "getaddrinfo" /\ addresses = 0 /\ fds = 0 /\ memory = {}

Goes(to) == pc' = to
Keeps(what) == memory' = what

GetAddresses ==
  /\ pc = "getaddrinfo"
  /\ \/ /\ addresses' \in 1 .. MaxAddresses
        /\ Goes("socket") /\ Keeps({"list"})
     \/ Goes("failed") /\ UNCHANGED <<addresses, memory>>
  /\ UNCHANGED fds

\* The next address is tried, or there is none.
Socket ==
  /\ pc = "socket"
  /\ \/ /\ addresses > 0
        /\ Goes("bind") /\ fds' = fds + 1
        /\ UNCHANGED <<addresses, memory>>
     \/ /\ addresses > 0
        /\ addresses' = addresses - 1
        /\ UNCHANGED <<pc, fds, memory>>
     \/ /\ addresses = 0
        /\ Goes("failed") /\ Keeps(memory \ {"list"})
        /\ UNCHANGED <<addresses, fds>>

Bind ==
  /\ pc = "bind"
  /\ Goes("listen")
  /\ UNCHANGED <<addresses, fds, memory>>

\* bind or listen fails.
AddressUnusableKept ==                                    \* mutant
  /\ pc \in {"bind", "listen"}
  /\ Goes("socket") /\ addresses' = addresses - 1
  /\ UNCHANGED <<fds, memory>>
AddressUnusable ==
  /\ pc \in {"bind", "listen"}
  /\ Goes("socket") /\ addresses' = addresses - 1 /\ fds' = fds - 1
  /\ UNCHANGED memory

Listen ==
  /\ pc = "listen"
  /\ Goes("block") /\ Keeps(memory \ {"list"})
  /\ addresses' = 0
  /\ UNCHANGED fds

\* The result of this calloc is used unseen.
AllocateBlock ==
  /\ pc = "block"
  /\ \/ Goes("create") /\ Keeps(memory \cup {"block"})
     \/ Goes("crashed") /\ UNCHANGED memory
  /\ UNCHANGED <<addresses, fds>>

\* rcon_create; if it fails rcon_create_tcp closes what rcon_tcp_open opened.
Create ==
  /\ pc = "create"
  /\ \/ Goes("app") /\ Keeps(memory \cup {"clients"}) /\ UNCHANGED fds
     \/ Goes("failed") /\ Keeps(memory \ {"block"}) /\ fds' = fds - 1
  /\ UNCHANGED addresses

Setup ==
  GetAddresses \/ Socket \/ Bind \/ AddressUnusable \/ Listen \/ AllocateBlock \/ Create
=============================================================================
