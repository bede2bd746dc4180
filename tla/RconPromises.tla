---------------------------- MODULE RconPromises ----------------------------
(***************************************************************************)
(* What the clients are promised: proofs that the server serves each       *)
(* connection as module RconSession says, whatever the others do, and that *)
(* under the loop of example/rcon/main.c no client is disconnected for     *)
(* being served late.                                                      *)
(***************************************************************************)
EXTENDS RconProofs

-----------------------------------------------------------------------------
(* What a step does to a connection that has no slot after it: nothing, or *)
(* it joins the queue, or it sends a packet, or it is over.                *)

NoSlot(c) == \A s \in Slots : conn[s] # c

Unmoved(c) ==
  /\ NoSlot(c) /\ wire'[c] = wire[c]
  /\ c \in Range(backlog') <=> c \in Range(backlog)
  /\ peer'[c] = "new" <=> peer[c] = "new"

Queued(c) ==
  /\ peer[c] = "new" /\ peer'[c] # "new"
  /\ c \in Range(backlog') /\ wire'[c] = wire[c]

QueuedGrows(c) ==
  /\ c \in Range(backlog) /\ c \in Range(backlog')
  /\ peer' = peer
  /\ \E p \in Packets : wire'[c] = Append(wire[c], p)

Ends(c) ==
  /\ peer[c] \in Alive /\ peer'[c] \notin Alive \cup {"new"}
  /\ c \notin Range(backlog')
  /\ wire'[c] = <<>>

LEMMA OtherSteps ==
  ASSUME ServerInv, Idle \/ Move, NEW c \in Conns, NoSlot(c)'
  PROVE  Unmoved(c) \/ Queued(c) \/ QueuedGrows(c) \/ Ends(c)
<1> DEFINE Goal == Unmoved(c) \/ Queued(c) \/ QueuedGrows(c) \/ Ends(c)
<1>1. Tables /\ Control /\ Places /\ Streams /\ c # None
  BY RconAssumption DEF ServerInv
<1>2. ASSUME UNCHANGED <<conn, wire, backlog, peer>> PROVE Goal
  BY <1>2 DEF NoSlot, Unmoved
<1>3. CASE Idle
  BY <1>2, <1>3 DEF Idle, clientVars, peerVars
<1>4. CASE PeerStep
  <2>1. NoSlot(c)
    BY <1>4 DEF PeerStep, Connect, SendPacket, Leave, clientVars, NoSlot
  <2>2. ASSUME NEW d \in Conns, Connect(d) PROVE Goal
    <3>1. /\ peer[d] = "new" /\ peer' = [peer EXCEPT ![d] = "open"]
          /\ backlog' = Append(backlog, d) /\ wire' = wire
      BY <2>2 DEF Connect
    <3>2. backlog \in Seq(Conns) /\ IsInjective(backlog) /\ d \notin Range(backlog)
      BY <1>1, <3>1 DEF Tables, Places, Alive
    <3>3. Range(backlog') = Range(backlog) \cup {d}
      BY <3>1, <3>2, RangeAppend
    <3>4. peer'[d] = "open" /\ \A e \in Conns \ {d} : peer'[e] = peer[e]
      BY <1>1, <3>1 DEF Tables
    <3> QED  BY <2>1, <3>1, <3>3, <3>4 DEF Queued, Unmoved
  <2>3. ASSUME NEW d \in Conns, NEW p \in Packets, SendPacket(d, p) PROVE Goal
    <3>1. /\ peer[d] = "open" /\ wire' = [wire EXCEPT ![d] = Append(@, p)]
          /\ UNCHANGED <<peer, backlog>>
      BY <2>3 DEF SendPacket
    <3>2. CASE c = d
      <4>1. c \in Range(backlog)
        BY <1>1, <2>1, <3>1, <3>2 DEF Places, NoSlot, Alive
      <4>2. wire'[c] = Append(wire[c], p)
        BY <1>1, <3>1, <3>2 DEF Tables
      <4> QED  BY <3>1, <4>1, <4>2 DEF QueuedGrows
    <3>3. CASE c # d
      BY <1>1, <2>1, <3>1, <3>3 DEF Tables, Unmoved
    <3> QED  BY <3>2, <3>3
  <2>4. ASSUME NEW d \in Conns, NEW how \in {"closed", "reset"}, Leave(d, how) PROVE Goal
    BY <1>1, <2>1, <2>4 DEF Leave, Tables, Unmoved
  <2> QED  BY <1>4, <2>2, <2>3, <2>4 DEF PeerStep
<1>5. ASSUME NEW n \in 1 .. BufSize, Receive(n) PROVE Goal
  BY <1>2, <1>5 DEF Receive, peerVars
<1>6. CASE Drop
  <2> DEFINE d == conn[at]
  <2>1. /\ at \in Slots /\ d \in Conns /\ CloseConns({d}, "dropped") /\ backlog' = backlog
    BY <1>6, Dropped DEF Drop
  <2>2. d \notin Range(backlog) /\ peer[d] \in Alive
    BY <1>1, <2>1, RconAssumption DEF Places
  <2> HIDE DEF d
  <2>3. /\ peer'[d] \in {"dropped", "gone"} /\ wire'[d] = <<>>
        /\ \A e \in Conns \ {d} : peer'[e] = peer[e] /\ wire'[e] = wire[e]
        /\ \A s \in Slots : conn'[s] = IF conn[s] \in {d} THEN None ELSE conn[s]
    BY <1>1, <2>1, Closed
  <2>4. CASE c = d
    BY <2>1, <2>2, <2>3, <2>4 DEF Ends, Alive
  <2>5. CASE c # d
    BY <2>1, <2>3, <2>5 DEF Unmoved, NoSlot
  <2> QED  BY <2>4, <2>5
<1>7. CASE Accept
  <2>1. PICK s \in Slots, d \in Conns :
          conn[s] = None /\ AcceptInto(d, s) /\ Range(backlog') = Range(backlog) \ {d}
    BY <1>7, Accepted
  <2>2. conn'[s] = d /\ \A z \in Slots \ {s} : conn'[z] = conn[z]
    BY <1>1, <2>1 DEF AcceptInto, Tables
  <2> QED  BY <1>1, <1>7, <2>1, <2>2 DEF Accept, Unmoved, NoSlot
<1>8. CASE Refuse
  <2> DEFINE d == Head(backlog)
  <2>1. backlog \in Seq(Conns) /\ backlog # <<>> /\ IsInjective(backlog)
        /\ backlog' = Tail(backlog)
    BY <1>8 DEF Refuse, ServerInv, Polled, Places, Tables
  <2>2. d \in Range(backlog) /\ d \in Conns /\ Range(backlog') = Range(backlog) \ {d}
    BY <2>1, RangeTail
  <2>3. CloseConns({d}, "refused")
    BY <1>8 DEF Refuse
  <2>4. peer[d] \in Alive
    BY <1>1, <2>2 DEF Places
  <2> HIDE DEF d
  <2>5. /\ peer'[d] \in {"refused", "gone"} /\ wire'[d] = <<>>
        /\ \A e \in Conns \ {d} : peer'[e] = peer[e] /\ wire'[e] = wire[e]
        /\ \A s \in Slots : conn'[s] = IF conn[s] \in {d} THEN None ELSE conn[s]
    BY <1>1, <2>2, <2>3, Closed
  <2>6. CASE c = d
    BY <2>2, <2>4, <2>5, <2>6 DEF Ends, Alive
  <2>7. CASE c # d
    BY <2>2, <2>5, <2>7 DEF Unmoved, NoSlot
  <2> QED  BY <2>6, <2>7
<1>9. ASSUME NEW s \in Slots, pc # "destroyed", inUse[s], wire[conn[s]] # <<>>,
             First(s).units <= recvd[s], Consume(s), UNCHANGED <<conn, peer, backlog>>
      PROVE  Goal
  <2>1. \A d \in Conns \ {conn[s]} : wire'[d] = wire[d]
    BY <1>9, Consumed
  <2> QED  BY <1>9, <2>1 DEF Unmoved, NoSlot
<1>10. ASSUME pc = "fetch", HasPacket(at), ~First(at).misread
       PROVE  /\ at \in Slots /\ inUse[at] /\ wire[conn[at]] # <<>>
              /\ First(at).units <= recvd[at] /\ pc # "destroyed"
  <2>1. at \in Slots /\ inUse[at] /\ pc # "destroyed"
    BY <1>1, <1>10 DEF Control, HasPacket
  <2> QED  BY <1>10, <2>1, PacketThere
<1>11. CASE Authenticate
  BY <1>9, <1>10, <1>11 DEF Authenticate
<1>12. CASE Echo
  BY <1>9, <1>10, <1>12 DEF Echo
<1>13. CASE FetchCommand
  BY <1>2, <1>13 DEF FetchCommand, peerVars
<1>14. ASSUME NEW s \in Slots, NEW d \in Conns, Complete(s, d) PROVE Goal
  <2>1. pc # "destroyed" /\ UNCHANGED <<conn, peer, backlog>>
    BY <1>14 DEF Complete
  <2>2. CASE inUse[s] /\ inCmd[s]
    BY <1>9, <1>14, <2>1, <2>2, CommandThere DEF Complete
  <2>3. CASE ~(inUse[s] /\ inCmd[s])
    BY <1>2, <1>14, <2>1, <2>3 DEF Complete
  <2> QED  BY <2>2, <2>3
<1>15. CASE Destroy
  <2> DEFINE C == {d \in Conns : peer[d] # "new"}
  <2>1. /\ CloseConns(C, "gone") /\ backlog' = <<>> /\ C \in SUBSET Conns
    BY <1>15 DEF Destroy
  <2>2. \A s \in Slots : conn[s] # None => conn[s] \in C
    BY <1>1 DEF Places, Alive, Tables
  <2>3. c \in C => peer[c] # "new"
    OBVIOUS
  <2>4. c \notin C => peer[c] = "new"
    OBVIOUS
  <2> HIDE DEF C
  <2>5. /\ c \in C => peer'[c] = "gone" /\ wire'[c] = <<>>
        /\ c \notin C => peer'[c] = peer[c] /\ wire'[c] = wire[c]
    BY <1>1, <2>1, Closed
  <2>6. c \notin Range(backlog')
    BY <2>1, RangeEmpty
  <2>7. CASE peer[c] \in Alive
    <3>1. peer'[c] = "gone" /\ wire'[c] = <<>>
      BY <2>4, <2>5, <2>7 DEF Alive
    <3> QED  BY <2>6, <2>7, <3>1 DEF Ends, Alive
  <2>8. CASE peer[c] \notin Alive
    <3>1. c \notin Range(backlog) /\ NoSlot(c) /\ wire[c] = <<>>
      BY <1>1, <2>8 DEF Places, Streams, NoSlot
    <3> QED  BY <2>3, <2>4, <2>5, <2>6, <3>1 DEF Unmoved
  <2> QED  BY <2>7, <2>8
<1> QED
  BY <1>3, <1>4, <1>5, <1>6, <1>7, <1>8, <1>11, <1>12, <1>13, <1>14, <1>15 DEF Move

-----------------------------------------------------------------------------
(* A connection as module RconSession sees it.                             *)

\* The phase of a connection follows from the place it has.
LEMMA Phases ==
  ASSUME ServerInv, NEW c \in Conns
  PROVE  /\ peer[c] = "new" => PhaseOf(c) = "new" /\ SlotsOf(c) = {}
         /\ c \in Range(backlog) => PhaseOf(c) = "waiting" /\ SlotsOf(c) = {}
         /\ \A s \in Slots : conn[s] = c => PhaseOf(c) = "open" /\ SlotsOf(c) = {s}
         /\ peer[c] \notin Alive \cup {"new"} => PhaseOf(c) = "over" /\ SlotsOf(c) = {}
<1>1. Places /\ c # None
  BY RconAssumption DEF ServerInv
<1>2. c \in Range(backlog) => peer[c] \in Alive /\ SlotsOf(c) = {}
  BY <1>1 DEF Places, SlotsOf
<1>3. \A s \in Slots : conn[s] = c =>
        peer[c] \in Alive /\ c \notin Range(backlog) /\ SlotsOf(c) = {s}
  BY <1>1 DEF Places, SlotsOf
<1>4. peer[c] \notin Alive => c \notin Range(backlog) /\ SlotsOf(c) = {}
  BY <1>1 DEF Places, SlotsOf
<1>5. "new" \notin Alive
  BY DEF Alive
<1>6. CASE peer[c] = "new"
  BY <1>2, <1>3, <1>4, <1>5, <1>6 DEF PhaseOf
<1>7. CASE c \in Range(backlog)
  BY <1>2, <1>3, <1>5, <1>7 DEF PhaseOf
<1>8. ASSUME NEW s \in Slots, conn[s] = c
      PROVE  PhaseOf(c) = "open" /\ SlotsOf(c) = {s}
  BY <1>3, <1>5, <1>8 DEF PhaseOf
<1>9. ASSUME peer[c] \notin Alive \cup {"new"}
      PROVE  PhaseOf(c) = "over" /\ SlotsOf(c) = {}
  BY <1>4, <1>9 DEF PhaseOf
<1> QED  BY <1>6, <1>7, <1>8, <1>9

\* The same after a step.
LEMMA PhasesNext ==
  ASSUME ServerInv', NEW c \in Conns
  PROVE  /\ peer'[c] = "new" => PhaseOf(c)' = "new" /\ SlotsOf(c)' = {}
         /\ c \in Range(backlog') => PhaseOf(c)' = "waiting" /\ SlotsOf(c)' = {}
         /\ \A s \in Slots : conn'[s] = c => PhaseOf(c)' = "open" /\ SlotsOf(c)' = {s}
         /\ peer'[c] \notin Alive \cup {"new"} => PhaseOf(c)' = "over" /\ SlotsOf(c)' = {}
<1>1. Places' /\ c # None
  BY RconAssumption DEF ServerInv
<1>2. c \in Range(backlog') => peer'[c] \in Alive /\ SlotsOf(c)' = {}
  BY <1>1 DEF Places, SlotsOf
<1>3. \A s \in Slots : conn'[s] = c =>
        peer'[c] \in Alive /\ c \notin Range(backlog') /\ SlotsOf(c)' = {s}
  BY <1>1 DEF Places, SlotsOf
<1>4. peer'[c] \notin Alive => c \notin Range(backlog') /\ SlotsOf(c)' = {}
  BY <1>1 DEF Places, SlotsOf
<1>5. "new" \notin Alive
  BY DEF Alive
<1>6. CASE peer'[c] = "new"
  BY <1>2, <1>3, <1>4, <1>5, <1>6 DEF PhaseOf
<1>7. CASE c \in Range(backlog')
  BY <1>2, <1>3, <1>5, <1>7 DEF PhaseOf
<1>8. ASSUME NEW s \in Slots, conn'[s] = c
      PROVE  PhaseOf(c)' = "open" /\ SlotsOf(c)' = {s}
  BY <1>3, <1>5, <1>8 DEF PhaseOf
<1>9. ASSUME peer'[c] \notin Alive \cup {"new"}
      PROVE  PhaseOf(c)' = "over" /\ SlotsOf(c)' = {}
  BY <1>4, <1>9 DEF PhaseOf
<1> QED  BY <1>6, <1>7, <1>8, <1>9

\* A step does to a connection in a slot what RconSession allows.
LEMMA ServedAsSession ==
  ASSUME ServerInv, ServerInv', Idle \/ Move, NEW c \in Conns,
         NEW s \in Slots, conn'[s] = c
  PROVE  Session(c)!Next \/ UNCHANGED Session(c)!vars
<1> DEFINE A == \E z \in SlotsOf(c) : authd[z]
           R == \E z \in SlotsOf(c) : inCmd[z]
<1>1. c # None /\ Tables /\ Tables'
  BY RconAssumption DEF ServerInv
<1>2. PhaseOf(c)' = "open" /\ SlotsOf(c)' = {s}
  BY PhasesNext
<1>3. (A' <=> authd'[s]) /\ (R' <=> inCmd'[s])
  BY <1>2
<1>4. ASSUME conn[s] = c
      PROVE  PhaseOf(c) = "open" /\ (A <=> authd[s]) /\ (R <=> inCmd[s])
  <2>1. PhaseOf(c) = "open" /\ SlotsOf(c) = {s}
    BY <1>4, Phases
  <2> QED  BY <2>1
<1> HIDE DEF A, R
<1>5. CASE Untouched(s)
  <2>1. conn[s] = c /\ wire'[c] = wire[c] /\ (A' <=> A) /\ (R' <=> R)
    BY <1>3, <1>4, <1>5 DEF Untouched, SameConn, SameBytes
  <2>2. PhaseOf(c)' = PhaseOf(c)
    BY <1>2, <1>4, <2>1
  <2> QED  BY <2>1, <2>2 DEF Session!vars, A, R
<1>6. CASE Grows(s)
  <2>1. conn[s] = c /\ (A' <=> A) /\ (R' <=> R)
    BY <1>3, <1>4, <1>6 DEF Grows, SameConn
  <2>2. \E p \in Packets : wire'[c] = Append(wire[c], p)
    BY <1>6, <2>1 DEF Grows
  <2>3. PhaseOf(c)' = PhaseOf(c) /\ PhaseOf(c) = "open"
    BY <1>2, <1>4, <2>1
  <2>4. Session(c)!Arrive
    BY <2>1, <2>2, <2>3 DEF Session!Arrive, A, R
  <2> QED  BY <2>4 DEF Session!Next
<1>7. CASE Taken(s)
  <2>1. /\ c \in Range(backlog) /\ wire'[c] = wire[c]
        /\ inCmd'[s] = FALSE /\ authd'[s] = FALSE
    BY <1>7 DEF Taken, SameBytes
  <2>2. PhaseOf(c) = "waiting" /\ ~A /\ ~R
    BY <2>1, Phases DEF A, R
  <2>3. ~A' /\ ~R'
    BY <1>3, <2>1
  <2>4. Session(c)!Open
    BY <1>2, <2>1, <2>2, <2>3 DEF Session!Open, A, R
  <2> QED  BY <2>4 DEF Session!Next
<1>8. CASE Answered(s)
  <2>1. /\ conn[s] = c /\ PhaseOf(c) = "open"
        /\ wire[c] # <<>> /\ wire'[c] = Tail(wire[c]) /\ ~R'
        /\ First(s) = Head(wire[c])
    BY <1>3, <1>4, <1>8 DEF Answered, SameConn, First
  <2>2. (A <=> authd[s]) /\ (R <=> inCmd[s])
    BY <1>4, <2>1
  <2>3. CASE inCmd[s] /\ authd'[s] = authd[s]
    <3>1. Session(c)!Complete
      BY <1>2, <1>3, <2>1, <2>2, <2>3 DEF Session!Complete, A, R
    <3> QED  BY <3>1 DEF Session!Next
  <2>4. CASE ~inCmd[s] /\ First(s).kind = "other" /\ authd'[s] = authd[s]
    <3>1. Session(c)!Ready("other")
      BY <2>1, <2>2, <2>4 DEF Session!Ready, R
    <3>2. Session(c)!Echo
      BY <1>2, <1>3, <2>1, <2>2, <2>4, <3>1 DEF Session!Echo, A, R
    <3> QED  BY <3>2 DEF Session!Next
  <2>5. CASE /\ ~inCmd[s] /\ First(s).kind = "auth"
             /\ IF RightPassword(First(s)) THEN authd'[s] = TRUE ELSE authd'[s] = authd[s]
    <3>1. Session(c)!Ready("auth")
      BY <2>1, <2>2, <2>5 DEF Session!Ready, R
    <3>2. A' <=> A \/ (password # None /\ Head(wire[c]).secret = password)
      BY <1>3, <2>1, <2>2, <2>5 DEF RightPassword
    <3>3. Session(c)!Authenticate
      BY <1>2, <2>1, <2>2, <2>5, <3>1, <3>2 DEF Session!Authenticate, A, R
    <3> QED  BY <3>3 DEF Session!Next
  <2> QED  BY <1>8, <2>3, <2>4, <2>5 DEF Answered
<1>9. CASE Started(s)
  <2>1. /\ conn[s] = c /\ PhaseOf(c) = "open" /\ wire[c] # <<>> /\ wire'[c] = wire[c]
        /\ Head(wire[c]).kind = "exec"
    BY <1>4, <1>9 DEF Started, SameConn, SameBytes, First
  <2>2. A /\ A' /\ ~R /\ R'
    BY <1>3, <1>4, <1>9, <2>1 DEF Started
  <2>3. Session(c)!Ready("exec")
    BY <2>1, <2>2 DEF Session!Ready, R
  <2>4. Session(c)!Run
    BY <1>2, <2>1, <2>2, <2>3 DEF Session!Run, A, R
  <2> QED  BY <2>4 DEF Session!Next
<1> QED  BY <1>1, <1>5, <1>6, <1>7, <1>8, <1>9, SlotSteps

\* And to one that has none.
LEMMA OutsideAsSession ==
  ASSUME ServerInv, ServerInv', Idle \/ Move, NEW c \in Conns, NoSlot(c)'
  PROVE  Session(c)!Next \/ UNCHANGED Session(c)!vars
<1> DEFINE A == \E z \in SlotsOf(c) : authd[z]
           R == \E z \in SlotsOf(c) : inCmd[z]
<1>1. SlotsOf(c)' = {} /\ ~A' /\ ~R'
  BY DEF NoSlot, SlotsOf
<1>2. SlotsOf(c) = {} => ~A /\ ~R
  OBVIOUS
<1> HIDE DEF A, R
<1>3. CASE Unmoved(c)
  <2>1. SlotsOf(c) = {} /\ wire'[c] = wire[c]
    BY <1>3 DEF Unmoved, NoSlot, SlotsOf
  <2>2. PhaseOf(c)' = PhaseOf(c)
    <3>1. peer[c] = "new" <=> peer'[c] = "new"
      BY <1>3 DEF Unmoved
    <3>2. c \in Range(backlog) <=> c \in Range(backlog)'
      BY <1>3 DEF Unmoved
    <3>3. CASE peer[c] = "new"
      BY <3>1, <3>3, Phases, PhasesNext
    <3>4. CASE c \in Range(backlog)
      BY <3>2, <3>4, Phases, PhasesNext
    <3>5. CASE peer[c] # "new" /\ c \notin Range(backlog)
      BY <1>1, <2>1, <3>1, <3>2, <3>5 DEF PhaseOf
    <3> QED  BY <3>3, <3>4, <3>5
  <2> QED  BY <1>1, <1>2, <2>1, <2>2 DEF Session!vars, A, R
<1>4. CASE Queued(c)
  <2>1. PhaseOf(c) = "new" /\ SlotsOf(c) = {} /\ PhaseOf(c)' = "waiting" /\ wire'[c] = wire[c]
    BY <1>4, Phases, PhasesNext DEF Queued
  <2>2. Session(c)!Connect
    BY <1>1, <1>2, <2>1 DEF Session!Connect, A, R
  <2> QED  BY <2>2 DEF Session!Next
<1>5. CASE QueuedGrows(c)
  <2>1. PhaseOf(c) = "waiting" /\ SlotsOf(c) = {} /\ PhaseOf(c)' = "waiting"
    BY <1>5, Phases, PhasesNext DEF QueuedGrows
  <2>2. \E p \in Packets : wire'[c] = Append(wire[c], p)
    BY <1>5 DEF QueuedGrows
  <2>3. Session(c)!Arrive
    BY <1>1, <1>2, <2>1, <2>2 DEF Session!Arrive, A, R
  <2> QED  BY <2>3 DEF Session!Next
<1>6. CASE Ends(c)
  <2>1. PhaseOf(c) \in {"waiting", "open"}
    <3>1. c \in Range(backlog) \/ \E s \in Slots : conn[s] = c
      BY <1>6 DEF Ends, ServerInv, Places
    <3> QED  BY <3>1, Phases
  <2>2. PhaseOf(c)' = "over" /\ wire'[c] = <<>>
    BY <1>6, PhasesNext DEF Ends
  <2>3. Session(c)!End
    BY <1>1, <2>1, <2>2 DEF Session!End, A, R
  <2> QED  BY <2>3 DEF Session!Next
<1> QED  BY <1>3, <1>4, <1>5, <1>6, OtherSteps

\* The server serves each connection as if it were alone: it implements
\* RconSession for every connection at once.
THEOREM Refinement == Spec => ImplementsSessions
<1> DEFINE Starts == \A c \in Conns : Session(c)!Init
           Steps  == \A c \in Conns : Session(c)!Next \/ UNCHANGED Session(c)!vars
<1>1. Init => Starts
  <2> SUFFICES ASSUME Init, NEW c \in Conns PROVE Session(c)!Init
    OBVIOUS
  <2>1. peer[c] = "new" /\ wire[c] = <<>>
    BY DEF Init
  <2>2. PhaseOf(c) = "new" /\ SlotsOf(c) = {}
    BY <2>1, InitInv, Phases
  <2> QED  BY <2>1, <2>2 DEF Session!Init
<1>2. ServerInv /\ ServerInv' /\ [Next]_vars => Steps
  <2> SUFFICES ASSUME ServerInv, ServerInv', [Next]_vars, NEW c \in Conns
               PROVE  Session(c)!Next \/ UNCHANGED Session(c)!vars
    OBVIOUS
  <2>1. Idle \/ Move
    BY StepKinds
  <2>2. NoSlot(c)' \/ \E s \in Slots : conn'[s] = c
    BY DEF NoSlot
  <2> QED  BY <2>1, <2>2, ServedAsSession, OutsideAsSession
<1> HIDE DEF Starts, Steps
<1>3. Spec => Starts /\ [][Steps]_vars
  BY <1>1, <1>2, ServerInvariant, PTL DEF Spec
<1> QED  BY <1>3 DEF ImplementsSessions, Starts, Steps

-----------------------------------------------------------------------------
(* The loop of example/rcon/main.c, with Prompt.                           *)

\* Nothing is left to do for slot s before the next wait.
Served(s) == inUse[s] => ~inCmd[s] /\ ~HasPacket(s)

\* The program waits only when every slot is served and no command runs.
Turns ==
  /\ pc \in {"recv", "accept"} \cup Stages => turn = "wait"
  /\ pc = "fetch" => turn = "fetch"
  /\ pc \in {"recv", "accept", "fetch"} \/ turn = "wait" => pending = {}
  /\ \A s \in Slots : inUse[s] /\ inCmd[s] => <<s, conn[s]>> \in pending

\* How far it has come in that.
AllServed ==
  /\ pc = "fetch" => \A s \in Slots : s < at => ~HasPacket(s)
  /\ pc = "app" /\ turn = "wait" => \A s \in Slots : Served(s)
  /\ pc = "recv" => \A s \in Slots : s >= at => Served(s)

LoopInv == Turns /\ AllServed /\ DropsOnlyOversized

LEMMA TurnsKept ==
  ASSUME Prompt, ServerInv, Turns, [Next]_vars
  PROVE  Turns'
<1> USE DEF Turns
<1>1. Tables /\ Control /\ Places /\ Held
  BY DEF ServerInv
<1>2. ASSUME UNCHANGED <<conn, inUse, inCmd, pending>>
      PROVE  \A s \in Slots : inUse'[s] /\ inCmd'[s] => <<s, conn'[s]>> \in pending'
  BY <1>2
<1>3. ASSUME NEW after \in {"app", "accept"}, NextSlot(after),
             pc = IF after = "app" THEN "fetch" ELSE "recv"
      PROVE  /\ pc' \in {"recv", "accept"} \cup Stages => turn' = "wait"
             /\ pc' = "fetch" => turn' = "fetch"
             /\ pending' = {} /\ pending = {}
  BY <1>3 DEF NextSlot, Returns, Stages
<1>4. ASSUME Returns("fetch")
      PROVE  pc' = "app" /\ turn' = "fetch"
  BY <1>4 DEF Returns
<1>5. CASE OpenServer
  <2>1. pc \in Stages /\ UNCHANGED <<conn, inUse, inCmd, pending, turn>>
    BY <1>5
    DEF OpenServer, Setup, GetAddresses, Socket, Bind, AddressUnusable, Listen,
        AllocateBlock, Create, Stages, clientVars
  <2>2. pc' \notin {"recv", "accept", "fetch"}
    BY <1>5
    DEF OpenServer, Setup, GetAddresses, Socket, Bind, AddressUnusable, Listen,
        AllocateBlock, Create, Goes
  <2> QED  BY <1>2, <2>1, <2>2
<1>6. CASE RunsOn
  BY <1>2, <1>6 DEF RunsOn, Goes, clientVars, Stages
<1>7. CASE StartWait
  BY <1>2, <1>7 DEF StartWait, clientVars
<1>8. CASE SkipSlot
  BY <1>2, <1>3, <1>8 DEF SkipSlot, clientVars, NextSlot
<1>9. ASSUME NEW n \in 1 .. BufSize, Receive(n) PROVE Turns'
  BY <1>2, <1>3, <1>9 DEF Receive, NextSlot
<1>10. ASSUME Drop
       PROVE  \A s \in Slots : inUse'[s] /\ inCmd'[s] => <<s, conn'[s]>> \in pending'
  <2>1. /\ conn' = [conn EXCEPT ![at] = None] /\ inUse' = [inUse EXCEPT ![at] = FALSE]
        /\ UNCHANGED <<inCmd, pending>>
    BY <1>10, Dropped DEF Drop
  <2> QED  BY <1>1, <2>1 DEF Tables
<1>11. CASE ReceiveNothing
  <2>1. Drop /\ NextSlot("accept") /\ pc = "recv"
    BY <1>11 DEF ReceiveNothing, Drop, NextSlot
  <2> QED  BY <1>3, <1>10, <2>1
<1>12. CASE ReceiveError
  <2>1. Drop
    BY <1>12 DEF ReceiveError, Drop
  <2> QED  BY <1>4, <1>10, <1>12, <2>1 DEF ReceiveError, Stages
<1>13. CASE NoAccept \/ WaitFails
  BY <1>2, <1>4, <1>13 DEF NoAccept, WaitFails, clientVars, Stages
<1>14. CASE Accept
  <2>1. PICK s \in Slots, c \in Conns : AcceptInto(c, s)
    BY <1>14, Accepted
  <2>2. \A z \in Slots : inUse'[z] /\ inCmd'[z] => <<z, conn'[z]>> \in pending'
    BY <1>1, <1>14, <2>1 DEF Accept, AcceptInto, Tables
  <2> QED  BY <1>4, <1>14, <2>2 DEF Accept, Stages
<1>15. CASE Refuse
  <2>1. \A s \in Slots : conn[s] # None => conn[s] # Head(backlog)
    <3>1. backlog \in Seq(Conns) /\ backlog # <<>> /\ IsInjective(backlog)
      BY <1>15 DEF Refuse, ServerInv, Polled, Places, Tables
    <3>2. Head(backlog) \in Range(backlog)
      BY <3>1, RangeTail
    <3> QED  BY <1>1, <3>2 DEF Places
  <2>2. UNCHANGED <<inUse, inCmd, pending>> /\ pc # "destroyed"
        /\ CloseConns({Head(backlog)}, "refused")
    BY <1>15 DEF Refuse
  <2>3. \A s \in Slots : conn[s] # None => conn'[s] = conn[s]
    BY <2>1, <2>2 DEF CloseConns
  <2>4. \A s \in Slots : inUse'[s] /\ inCmd'[s] => <<s, conn'[s]>> \in pending'
    BY <1>1, <2>2, <2>3 DEF Places
  <2> QED  BY <1>4, <1>15, <2>4 DEF Refuse, Stages
<1>16. CASE StartFetch
  BY <1>2, <1>16 DEF StartFetch, clientVars, Stages
<1>17. CASE NoPacket
  BY <1>2, <1>3, <1>17 DEF NoPacket, clientVars, NextSlot
<1>18. CASE Authenticate \/ Echo
  BY <1>2, <1>18 DEF Authenticate, Echo, appVars, clientVars
<1>19. CASE FetchCommand
  <2>1. /\ pending' = pending \cup {<<at, conn[at]>>} /\ UNCHANGED <<conn, inUse>>
        /\ inCmd' = [inCmd EXCEPT ![at] = TRUE]
    BY <1>19 DEF FetchCommand
  <2>2. \A s \in Slots : inUse'[s] /\ inCmd'[s] => <<s, conn'[s]>> \in pending'
    <3> TAKE s \in Slots
    <3>1. s = at \/ inCmd'[s] = inCmd[s]
      BY <1>1, <2>1 DEF Tables
    <3> QED  BY <2>1, <3>1
  <2> QED  BY <1>4, <1>19, <2>2 DEF FetchCommand, Stages
<1>20. CASE FetchError
  <2>1. turn = "fetch" /\ UNCHANGED <<conn, inUse, inCmd, pending>>
    BY <1>20 DEF FetchError, clientVars
  <2>2. CASE Returns("fetch")
    BY <1>2, <1>4, <2>1, <2>2 DEF Stages
  <2>3. CASE Goes("crashed") /\ UNCHANGED <<at, turn, revents>>
    BY <1>2, <2>1, <2>3 DEF Goes, Stages
  <2> QED  BY <1>20, <2>2, <2>3 DEF FetchError
<1>21. ASSUME NEW s \in Slots, NEW c \in Conns, Complete(s, c) PROVE Turns'
  <2>1. /\ pc = "app" /\ <<s, c>> \in pending /\ pending' = pending \ {<<s, c>>}
        /\ UNCHANGED <<conn, inUse, pc, turn>>
        /\ IF inUse[s] /\ inCmd[s] THEN inCmd' = [inCmd EXCEPT ![s] = FALSE]
           ELSE inCmd' = inCmd
    BY <1>21 DEF Complete
  <2>2. turn # "wait"
    BY <2>1
  <2>3. \A z \in Slots : inUse'[z] /\ inCmd'[z] => <<z, conn'[z]>> \in pending'
    <3> TAKE z \in Slots
    <3>1. CASE z = s
      BY <1>1, <2>1, <3>1 DEF Tables
    <3>2. CASE z # s
      <4>1. inCmd'[z] = inCmd[z] /\ <<z, conn[z]>> # <<s, c>>
        BY <1>1, <2>1, <3>2 DEF Tables
      <4> QED  BY <2>1, <4>1
    <3> QED  BY <3>1, <3>2
  <2> QED  BY <2>1, <2>2, <2>3 DEF Stages
<1>22. CASE \E p \in Passwords \cup {None} : SetPassword(p)
  BY <1>22 DEF SetPassword
<1>23. CASE Destroy
  <2>1. turn = "wait" /\ pending = {} /\ UNCHANGED <<inUse, inCmd, pending, turn>>
        /\ pc' = "destroyed"
    BY <1>23 DEF Destroy
  <2> QED  BY <2>1 DEF Stages
<1>24. CASE PeerStep
  BY <1>2, <1>24 DEF PeerStep, Connect, SendPacket, Leave, appVars, clientVars
<1>25. CASE UNCHANGED vars
  BY <1>2, <1>25 DEF vars, appVars, clientVars
<1> QED
  BY <1>5, <1>6, <1>7, <1>8, <1>9, <1>11, <1>12, <1>13, <1>14, <1>15, <1>16, <1>17, <1>18,
     <1>19, <1>20, <1>21, <1>22, <1>23, <1>24, <1>25
  DEF Next, Server, WaitForInput, Fetch

\* A step that leaves the front of a buffer alone makes no packet of it.
Calm(s) ==
  inUse'[s] => /\ inUse[s] /\ inCmd'[s] = inCmd[s] /\ recvd'[s] = recvd[s]
               /\ recvd[s] > 0 => First(s)' = First(s)

LEMMA CalmServed ==
  ASSUME NEW s \in Slots, Calm(s)
  PROVE  /\ ~HasPacket(s) => ~HasPacket(s)'
         /\ Served(s) => Served(s)'
<1>1. HasPacket(s)' => HasPacket(s)
  <2> SUFFICES ASSUME HasPacket(s)' PROVE HasPacket(s)
    OBVIOUS
  <2>1. inUse'[s] /\ ~inCmd'[s] /\ recvd'[s] > 0
        /\ (First(s)'.misread \/ recvd'[s] >= First(s)'.units)
    BY DEF HasPacket
  <2>2. inUse[s] /\ inCmd'[s] = inCmd[s] /\ recvd'[s] = recvd[s] /\ First(s)' = First(s)
    BY <2>1 DEF Calm
  <2> HIDE DEF First
  <2> QED  BY <2>1, <2>2 DEF HasPacket
<1> QED  BY <1>1 DEF Served, Calm

LEMMA CalmSteps ==
  ASSUME ServerInv
  PROVE  /\ UNCHANGED <<conn, inUse, inCmd, recvd, wire>> => \A s \in Slots : Calm(s)
         /\ pc \notin Stages \cup Ended /\ PeerStep => \A s \in Slots : Calm(s)
         /\ Drop => \A s \in Slots : Calm(s)
         /\ \A n \in 1 .. BufSize : Receive(n) => \A s \in Slots \ {at} : Calm(s)
         /\ Authenticate \/ Echo => \A s \in Slots \ {at} : Calm(s)
<1>1. Tables /\ Control /\ Places
  BY DEF ServerInv
<1>2. ASSUME UNCHANGED <<conn, inUse, inCmd, recvd, wire>>
      PROVE  \A s \in Slots : Calm(s)
  BY <1>2 DEF Calm, First
<1>3. ASSUME pc \notin Stages \cup Ended, PeerStep, NEW s \in Slots
      PROVE  Calm(s)
  <2>1. UNCHANGED <<conn, inUse, inCmd, recvd>>
    BY <1>3 DEF PeerStep, Connect, SendPacket, Leave, clientVars
  <2>2. ASSUME inUse[s], recvd[s] > 0
        PROVE  Head(wire'[conn[s]]) = Head(wire[conn[s]])
    <3> DEFINE c == conn[s]
               w == wire[c]
    <3>1. c \in Conns /\ w \in Seq(Packets) /\ recvd[s] \in 0 .. BufSize
          /\ recvd[s] <= Units(w)
      BY <1>3, <2>2, InUse DEF Ended
    <3>2. w # <<>>
      BY <2>2, <3>1, UnitsEmpty, RconAssumption
    <3>3. wire'[c] = w \/ \E p \in Packets : wire'[c] = Append(w, p)
      <4>1. ASSUME NEW d \in Conns, NEW p \in Packets, SendPacket(d, p)
            PROVE  wire'[c] = w \/ wire'[c] = Append(w, p)
        BY <1>1, <3>1, <4>1 DEF SendPacket, Tables
      <4>2. ASSUME NEW d \in Conns, Connect(d) \/ Leave(d, "closed") \/ Leave(d, "reset")
            PROVE  wire'[c] = w
        BY <4>2 DEF Connect, Leave
      <4> HIDE DEF c, w
      <4> QED  BY <1>3, <4>1, <4>2 DEF PeerStep
    <3> HIDE DEF w, c
    <3>4. \A p \in Packets : Head(Append(w, p)) = Head(w)
      BY <3>1, <3>2
    <3>5. Head(wire'[c]) = Head(w)
      BY <3>3, <3>4
    <3> QED  BY <3>5 DEF w, c
  <2> QED  BY <2>1, <2>2 DEF Calm, First
<1>4. ASSUME Drop, NEW s \in Slots
      PROVE  Calm(s)
  <2>1. /\ at \in Slots /\ conn[at] \in Conns
        /\ conn' = [conn EXCEPT ![at] = None] /\ inUse' = [inUse EXCEPT ![at] = FALSE]
        /\ CloseConns({conn[at]}, "dropped") /\ UNCHANGED <<inCmd, recvd>> /\ pc # "destroyed"
    BY <1>4, Dropped DEF Drop
  <2>2. s # at => inUse'[s] = inUse[s] /\ conn'[s] = conn[s]
    BY <1>1, <2>1 DEF Tables
  <2>3. \A c \in Conns \ {conn[at]} : wire'[c] = wire[c]
    BY <1>1, <2>1, Closed
  <2>4. s # at /\ inUse[s] => conn[s] \in Conns \ {conn[at]}
    BY <2>1, InUse
  <2>5. s = at => ~inUse'[s]
    BY <1>1, <2>1 DEF Tables
  <2> QED  BY <2>1, <2>2, <2>3, <2>4, <2>5 DEF Calm, First
<1>5. ASSUME NEW n \in 1 .. BufSize, Receive(n), NEW s \in Slots \ {at}
      PROVE  Calm(s)
  BY <1>1, <1>5 DEF Receive, peerVars, Tables, Calm, First
<1>6. ASSUME Authenticate \/ Echo, NEW s \in Slots \ {at}
      PROVE  Calm(s)
  <2>1. /\ pc = "fetch" /\ HasPacket(at) /\ ~First(at).misread /\ Consume(at)
        /\ UNCHANGED <<conn, inUse, inCmd>>
    BY <1>6 DEF Authenticate, Echo
  <2>2. at \in Slots /\ inUse[at] /\ pc # "destroyed"
    BY <1>1, <2>1 DEF Control, HasPacket
  <2>3. wire[conn[at]] # <<>> /\ First(at).units <= recvd[at]
    BY <2>1, <2>2, PacketThere
  <2>4. /\ \A c \in Conns \ {conn[at]} : wire'[c] = wire[c]
        /\ recvd'[s] = recvd[s]
    BY <2>1, <2>2, <2>3, Consumed
  <2>5. inUse[s] => conn[s] \in Conns \ {conn[at]}
    BY <2>2, InUse
  <2> QED  BY <2>1, <2>4, <2>5 DEF Calm, First
<1> QED  BY <1>2, <1>3, <1>4, <1>5, <1>6

LEMMA AllServedKept ==
  ASSUME Prompt, ServerInv, Turns, AllServed, [Next]_vars
  PROVE  AllServed'
<1> USE DEF AllServed
<1>1. Tables /\ Control /\ Places /\ Held
  BY DEF ServerInv
<1>2. /\ MaxClients \in Nat /\ at \in Nat /\ at \in Slots
      /\ \A s \in Slots : s \in Nat /\ s >= 1 /\ s <= MaxClients
  BY <1>1, RconAssumption DEF Control, Slots
<1>3. ASSUME UNCHANGED <<pc, at, turn>>, \A s \in Slots : Calm(s)
      PROVE  AllServed'
  BY <1>3, CalmServed
<1>4. ASSUME pc' = "app", turn' = "fetch"
      PROVE  AllServed'
  BY <1>4
<1>5. ASSUME pc' \notin {"app", "recv", "fetch"}
      PROVE  AllServed'
  BY <1>5
<1>6. ASSUME Returns("fetch")
      PROVE  AllServed'
  BY <1>4, <1>6 DEF Returns
<1>7. ASSUME pc = "recv", NextSlot("accept"), \A s \in Slots \ {at} : Calm(s)
      PROVE  AllServed'
  <2>1. CASE at < MaxClients
    <3>1. at' = at + 1 /\ pc' = "recv"
      BY <1>7, <2>1 DEF NextSlot
    <3>2. \A s \in Slots : s >= at' => s >= at /\ s # at
      BY <1>2, <3>1
    <3>3. \A s \in Slots : s >= at' => Served(s)'
      BY <1>7, <3>2, CalmServed
    <3> QED  BY <3>1, <3>3
  <2>2. CASE ~(at < MaxClients)
    BY <1>5, <1>7, <2>2 DEF NextSlot
  <2> QED  BY <2>1, <2>2
<1>8. CASE OpenServer
  <2>1. pc \in Stages /\ UNCHANGED <<conn, inUse>>
    BY <1>8
    DEF OpenServer, Setup, GetAddresses, Socket, Bind, AddressUnusable, Listen,
        AllocateBlock, Create, Stages, clientVars
  <2>2. pc' \notin {"recv", "fetch"}
    BY <1>8
    DEF OpenServer, Setup, GetAddresses, Socket, Bind, AddressUnusable, Listen,
        AllocateBlock, Create, Goes
  <2>3. \A s \in Slots : Served(s)'
    BY <1>1, <2>1 DEF Held, Places, Served, Stages
  <2> QED  BY <2>2, <2>3
<1>9. CASE RunsOn
  BY <1>5, <1>9 DEF RunsOn, Goes
<1>10. CASE StartWait
  <2>1. \A s \in Slots : Served(s)
    BY <1>10 DEF StartWait
  <2>2. pc' = "recv" /\ \A s \in Slots : Calm(s)
    BY <1>10, CalmSteps DEF StartWait, clientVars, peerVars
  <2> QED  BY <2>1, <2>2, CalmServed
<1>11. CASE SkipSlot
  BY <1>7, <1>11, CalmSteps DEF SkipSlot, clientVars, peerVars
<1>12. ASSUME NEW n \in 1 .. BufSize, Receive(n) PROVE AllServed'
  BY <1>7, <1>12, CalmSteps DEF Receive
<1>13. CASE ReceiveNothing
  <2>1. Drop /\ NextSlot("accept") /\ pc = "recv"
    BY <1>13 DEF ReceiveNothing, Drop, NextSlot
  <2> QED  BY <1>7, <2>1, CalmSteps
<1>14. CASE ReceiveError \/ NoAccept \/ WaitFails \/ Accept \/ Refuse \/ FetchCommand
  BY <1>6, <1>14 DEF ReceiveError, NoAccept, WaitFails, Accept, Refuse, FetchCommand
<1>15. CASE StartFetch
  <2>1. pc' = "fetch" /\ \A s \in Slots : ~(s < at')
    BY <1>2, <1>15 DEF StartFetch
  <2> QED  BY <2>1
<1>16. CASE NoPacket
  <2>1. ~HasPacket(at) /\ NextSlot("app") /\ \A s \in Slots : Calm(s)
    BY <1>16, CalmSteps DEF NoPacket, clientVars, peerVars
  <2>2. \A s \in Slots : s <= at => ~HasPacket(s)
    BY <1>2, <1>16, <2>1 DEF NoPacket
  <2>3. CASE at < MaxClients
    <3>1. at' = at + 1 /\ pc' = "fetch"
      BY <1>16, <2>1, <2>3 DEF NextSlot, NoPacket
    <3>2. \A s \in Slots : s < at' => s <= at
      BY <1>2, <3>1
    <3> QED  BY <2>1, <2>2, <3>1, <3>2, CalmServed
  <2>4. CASE ~(at < MaxClients)
    <3>1. \A s \in Slots : ~HasPacket(s)
      BY <1>2, <2>2, <2>4
    <3>2. \A s \in Slots : inUse[s] => ~inCmd[s]
      BY <1>16 DEF NoPacket, Turns
    <3>3. \A s \in Slots : Served(s)'
      BY <2>1, <3>1, <3>2, CalmServed DEF Served
    <3>4. pc' = "app"
      BY <2>1, <2>4 DEF NextSlot, Returns
    <3> QED  BY <3>3, <3>4
  <2> QED  BY <2>3, <2>4
<1>17. CASE Authenticate \/ Echo
  <2>1. pc = "fetch" /\ UNCHANGED <<pc, at, turn>>
    BY <1>17 DEF Authenticate, Echo, appVars
  <2>2. \A s \in Slots : s < at => s # at
    BY <1>2
  <2>3. \A s \in Slots : s < at => ~HasPacket(s)'
    BY <1>17, <2>1, <2>2, CalmSteps, CalmServed
  <2> QED  BY <2>1, <2>3
<1>18. CASE FetchError
  BY <1>5, <1>6, <1>18 DEF FetchError, Goes
<1>19. ASSUME NEW s \in Slots, NEW c \in Conns, Complete(s, c) PROVE AllServed'
  <2>1. pc = "app" /\ <<s, c>> \in pending /\ UNCHANGED <<pc, turn>>
    BY <1>19 DEF Complete
  <2>2. turn # "wait"
    BY <2>1 DEF Turns
  <2> QED  BY <2>1, <2>2
<1>20. CASE \E p \in Passwords \cup {None} : SetPassword(p)
  BY <1>20 DEF SetPassword
<1>21. CASE Destroy
  BY <1>5, <1>21 DEF Destroy
<1>22. CASE pc \notin Stages \cup Ended /\ PeerStep
  <2>1. UNCHANGED <<pc, at, turn>>
    BY <1>22 DEF PeerStep, Connect, SendPacket, Leave, appVars
  <2> QED  BY <1>3, <1>22, <2>1, CalmSteps
<1>23. CASE UNCHANGED vars
  BY <1>3, <1>23, CalmSteps DEF vars, appVars, clientVars, peerVars
<1> QED
  BY <1>8, <1>9, <1>10, <1>11, <1>12, <1>13, <1>14, <1>15, <1>16, <1>17, <1>18, <1>19,
     <1>20, <1>21, <1>22, <1>23
  DEF Next, Server, WaitForInput, Fetch

\* A buffer that is full and holds no packet begins with one it cannot hold.
LEMMA FullBuffer ==
  ASSUME ServerInv, pc # "destroyed", NEW s \in Slots, inUse[s], Served(s), Room(s) = 0
  PROVE  ~Fits(conn[s])
<1> DEFINE c == conn[s]
           w == wire[c]
           t == sent[c]
           i == (Len(t) - Len(w)) + 1
<1>1. /\ c \in Conns /\ c # None /\ peer[c] \in Alive
      /\ w \in Seq(Packets) /\ recvd[s] \in 0 .. BufSize /\ recvd[s] <= Units(w)
  BY InUse
<1>2. BufSize \in Nat /\ BufSize > 0 /\ recvd[s] = BufSize
  BY <1>1, RconAssumption DEF Room
<1>3. w # <<>>
  BY <1>1, <1>2, UnitsEmpty
<1>4. t \in Seq(Packets) /\ IsSuffix(w, t)
  BY <1>1 DEF ServerInv, Tables, Streams
<1>5. ~(BufSize >= Head(w).units)
  BY <1>2 DEF Served, HasPacket, First
<1>6. i \in 1 .. Len(t) /\ t[i] = Head(w)
  BY <1>1, <1>3, <1>4, SuffixTail
<1> HIDE DEF w, i
<1>7. t[i] \in Packets
  BY <1>4, <1>6
<1>8. t[i].units \in Nat
  BY <1>7, PacketUnits
<1>9. ~(t[i].units <= BufSize)
  BY <1>2, <1>5, <1>6, <1>8
<1> QED  BY <1>6, <1>9 DEF Fits

LEMMA DropsKept ==
  ASSUME Prompt, ServerInv, AllServed, DropsOnlyOversized, [Next]_vars
  PROVE  DropsOnlyOversized'
<1>1. Tables /\ Control /\ Places
  BY DEF ServerInv
<1>2. ASSUME UNCHANGED <<peer, sent>>
      PROVE  DropsOnlyOversized'
  BY <1>2 DEF DropsOnlyOversized, Fits
<1>3. ASSUME UNCHANGED sent,
             \A c \in Conns : peer'[c] = "dropped" => peer[c] = "dropped" \/ ~Fits(c)
      PROVE  DropsOnlyOversized'
  BY <1>3 DEF DropsOnlyOversized, Fits
<1>4. ASSUME Drop, Room(at) = 0 \/ peer[conn[at]] # "open"
      PROVE  DropsOnlyOversized'
  <2>1. /\ at \in Slots /\ conn[at] \in Conns /\ CloseConns({conn[at]}, "dropped")
        /\ UNCHANGED sent
    BY <1>4, Dropped DEF Drop
  <2>2. \A c \in Conns \ {conn[at]} : peer'[c] = peer[c]
    BY <1>1, <2>1, Closed
  <2>3. peer'[conn[at]] = "dropped" => peer[conn[at]] = "open"
    BY <1>1, <2>1, Closed
  <2>4. ASSUME Room(at) = 0 PROVE ~Fits(conn[at])
    <3>1. pc = "recv" /\ inUse[at] /\ at \in Nat
      BY <1>4, <2>1 DEF Drop, Slots
    <3>2. Served(at)
      BY <2>1, <3>1 DEF AllServed
    <3> QED  BY <2>1, <2>4, <3>1, <3>2, FullBuffer
  <2> QED  BY <1>3, <1>4, <2>1, <2>2, <2>3, <2>4
<1>5. CASE ReceiveNothing
  BY <1>4, <1>5 DEF ReceiveNothing, Drop, NextSlot
<1>6. CASE ReceiveError
  BY <1>4, <1>6 DEF ReceiveError, Drop
<1>7. CASE Refuse
  <2>1. backlog \in Seq(Conns) /\ backlog # <<>> /\ IsInjective(backlog)
    BY <1>7 DEF Refuse, ServerInv, Polled, Places, Tables
  <2>2. Head(backlog) \in Conns
    BY <2>1
  <2>3. CloseConns({Head(backlog)}, "refused") /\ UNCHANGED sent
    BY <1>7 DEF Refuse
  <2>4. \A c \in Conns : peer'[c] = "dropped" => peer[c] = "dropped"
    BY <1>1, <2>2, <2>3, Closed
  <2> QED  BY <1>3, <2>3, <2>4
<1>8. CASE Destroy
  <2>1. /\ CloseConns({c \in Conns : peer[c] # "new"}, "gone") /\ UNCHANGED sent
        /\ {c \in Conns : peer[c] # "new"} \in SUBSET Conns
    BY <1>8 DEF Destroy
  <2>2. \A c \in Conns : peer'[c] = "dropped" => peer[c] = "dropped"
    BY <1>1, <2>1, Closed
  <2> QED  BY <1>3, <2>1, <2>2
<1>9. ASSUME NEW c \in Conns, Connect(c) \/ Leave(c, "closed") \/ Leave(c, "reset")
      PROVE  DropsOnlyOversized'
  <2>1. \A d \in Conns : peer'[d] = "dropped" => peer[d] = "dropped"
    BY <1>1, <1>9 DEF Connect, Leave, Tables
  <2> QED  BY <1>3, <1>9, <2>1 DEF Connect, Leave
<1>10. ASSUME NEW c \in Conns, NEW p \in Packets, SendPacket(c, p)
       PROVE  DropsOnlyOversized'
  <2> SUFFICES ASSUME NEW d \in Conns, peer'[d] = "dropped" PROVE ~Fits(d)'
    BY DEF DropsOnlyOversized
  <2>1. peer'[d] = peer[d] /\ d # c /\ sent'[d] = sent[d]
    BY <1>1, <1>10 DEF SendPacket, Tables
  <2> QED  BY <2>1 DEF DropsOnlyOversized, Fits
<1>11. CASE PeerStep
  BY <1>9, <1>10, <1>11 DEF PeerStep
<1>12. CASE OpenServer \/ RunsOn \/ StartWait \/ SkipSlot \/ NoAccept \/ Accept \/ WaitFails
  BY <1>2, <1>12
  DEF OpenServer, RunsOn, StartWait, SkipSlot, NoAccept, Accept, WaitFails, peerVars
<1>13. CASE StartFetch \/ NoPacket \/ Authenticate \/ Echo \/ FetchCommand \/ FetchError
  BY <1>2, <1>13
  DEF StartFetch, NoPacket, Authenticate, Echo, FetchCommand, FetchError, peerVars
<1>14. ASSUME NEW n \in 1 .. BufSize, Receive(n) PROVE DropsOnlyOversized'
  BY <1>2, <1>14 DEF Receive, peerVars
<1>15. ASSUME NEW s \in Slots, NEW c \in Conns, Complete(s, c) PROVE DropsOnlyOversized'
  BY <1>2, <1>15 DEF Complete
<1>16. CASE (\E p \in Passwords \cup {None} : SetPassword(p)) \/ UNCHANGED vars
  BY <1>2, <1>16 DEF SetPassword, vars, peerVars
<1> QED
  BY <1>5, <1>6, <1>7, <1>8, <1>11, <1>12, <1>13, <1>14, <1>15, <1>16
  DEF Next, Server, WaitForInput, Fetch

\* With the loop of the example, no peer that keeps its packets within the
\* buffer is dropped by the server.
THEOREM DropsJustified == Prompt => (Spec => []DropsOnlyOversized)
<1> SUFFICES ASSUME Prompt PROVE Spec => []DropsOnlyOversized
  OBVIOUS
<1>1. Init => LoopInv
  <2> SUFFICES ASSUME Init PROVE LoopInv
    OBVIOUS
  <2>1. pc \in Stages /\ pc \notin {"app", "recv", "fetch"}
    BY DEF Init, SetupInit, Stages
  <2>2. Turns
    BY <2>1 DEF Init, Turns
  <2>3. AllServed
    BY <2>1 DEF AllServed
  <2>4. DropsOnlyOversized
    BY DEF Init, DropsOnlyOversized
  <2> QED  BY <2>2, <2>3, <2>4 DEF LoopInv
<1>2. ServerInv /\ LoopInv /\ [Next]_vars => LoopInv'
  BY TurnsKept, AllServedKept, DropsKept DEF LoopInv
<1>3. LoopInv => DropsOnlyOversized
  BY DEF LoopInv
<1> QED  BY <1>1, <1>2, <1>3, ServerInvariant, PTL DEF Spec

=============================================================================
