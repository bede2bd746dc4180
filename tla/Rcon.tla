-------------------------------- MODULE Rcon --------------------------------
(***************************************************************************)
(* The RCON server of tom_rcon.h over its TCP transport: one server with   *)
(* MaxClients slots, the program that embeds it, and the connections its   *)
(* peers open.  The library never blocks except in poll, and runs no       *)
(* thread of its own; what makes it hard is that the peers connect, send,  *)
(* close and reset at any moment between two of its steps, that a packet   *)
(* arrives in pieces, and that slots are used again.                       *)
(*                                                                         *)
(* The bytes of a connection are its packets in order (`wire`, from the    *)
(* first one the server has not consumed on), and client->buffer is the    *)
(* prefix of recvd units of them.  The first unit of a packet is its       *)
(* length field.                                                           *)
(*                                                                         *)
(* The server first goes through module RconSetup; RconSession says what   *)
(* it promises to each connection.                                         *)
(***************************************************************************)
EXTENDS RconSetup, Integers, Sequences, FiniteSets, SequencesExt

CONSTANTS
  MaxClients,  \* rc->maxClients
  Conns,       \* the connections peers may open
  None,
  Packets,     \* what peers send; see PacketType
  Passwords,   \* the passwords the program sets
  BufSize,     \* sizeof client->buffer, in units
  MaxPackets,  \* bound: packets the peers send in all
  Prompt       \* is the program the loop of example/rcon/main.c?

\* `misread` says that rcon_read_i32 makes of the length field, plus 4, a
\* number below 10 (module RconCodec has the lengths this happens to).
PacketType == [kind : {"auth", "exec", "other"}, secret : Passwords \cup {None},
               units : Nat \ {0}, misread : BOOLEAN]

ASSUME RconAssumption ==
  /\ MaxClients \in Nat \ {0} /\ BufSize \in Nat \ {0} /\ MaxPackets \in Nat
  /\ None \notin Conns \cup Passwords
  /\ \A p \in Packets : p \in PacketType
  /\ Prompt \in BOOLEAN

Slots == 1 .. MaxClients
Listener == 0

VARIABLES
  conn,      \* the connection in tcp->pfds[i], None if its fd is -1
  inUse, authd, inCmd, recvd,     \* the fields of rc->clients[i - 1]
  password,  \* rc->password
  revents,   \* the indices poll has marked POLLIN
  at,        \* the loop index in the function that pc names; "app" is the program
  turn,      \* what the program's loop calls next
  pending,   \* commands fetched and not completed: <<slot, connection>>
  peer,      \* what each peer has done
  backlog,   \* the connections accept will return
  wire,      \* packets sent on a connection and not consumed
  sent,      \* all packets sent on it
  granted,   \* connections that were sent a positive AUTH_RESPONSE
  proved,    \* connections that sent the password that was set at the time
  ran,       \* the commands fetched from a connection, in order
  answers    \* <<c, d>>: c was sent the response to a command of d

clientVars == <<conn, inUse, authd, inCmd, recvd>>
heldVars   == <<addresses, fds, memory>>
appVars    == <<pc, at, turn, pending, revents>>
peerVars   == <<peer, backlog, wire, sent>>
ghostVars  == <<granted, proved, ran, answers>>
vars == <<clientVars, password, heldVars, appVars, peerVars, ghostVars>>

Units(w)  == FoldLeft(LAMBDA n, p : n + p.units, 0, w)
Unread(s) == Units(wire[conn[s]]) - recvd[s]

RoomWholeBuffer(s) == BufSize                             \* mutant
RoomLessOne(s) == BufSize - 1 - recvd[s]                  \* mutant
Room(s) == BufSize - recvd[s]

-----------------------------------------------------------------------------
Init ==
  /\ conn = [s \in Slots |-> None]
  /\ inUse = [s \in Slots |-> FALSE]
  /\ authd = [s \in Slots |-> FALSE]
  /\ inCmd = [s \in Slots |-> FALSE]
  /\ recvd = [s \in Slots |-> 0]
  /\ password \in Passwords
  /\ revents = {}
  /\ SetupInit /\ at = 1 /\ turn = "wait"
  /\ pending = {}
  /\ peer = [c \in Conns |-> "new"]
  /\ backlog = <<>>
  /\ wire = [c \in Conns |-> <<>>]
  /\ sent = [c \in Conns |-> <<>>]
  /\ ran = [c \in Conns |-> <<>>]
  /\ granted = {} /\ proved = {} /\ answers = {}

-----------------------------------------------------------------------------
(* The peers.                                                              *)

Connect(c) ==
  /\ peer[c] = "new"
  /\ peer' = [peer EXCEPT ![c] = "open"]
  /\ backlog' = Append(backlog, c)
  /\ UNCHANGED <<clientVars, password, heldVars, appVars, wire, sent, ghostVars>>

SendPacket(c, p) ==
  /\ peer[c] = "open"
  /\ MapThenSumSet(LAMBDA d : Len(sent[d]), Conns) < MaxPackets
  /\ wire' = [wire EXCEPT ![c] = Append(@, p)]
  /\ sent' = [sent EXCEPT ![c] = Append(@, p)]
  /\ UNCHANGED <<clientVars, password, heldVars, appVars, peer, backlog, ghostVars>>

\* The peer closes its end in order, or the connection is reset.
Leave(c, how) ==
  /\ peer[c] = "open"
  /\ peer' = [peer EXCEPT ![c] = how]
  /\ UNCHANGED <<clientVars, password, heldVars, appVars, backlog, wire, sent, ghostVars>>

PeerStep ==
  \E c \in Conns :
    \/ Connect(c)
    \/ \E p \in Packets : SendPacket(c, p)
    \/ Leave(c, "closed") \/ Leave(c, "reset")

-----------------------------------------------------------------------------
(* rcon_wait_for_input                                                     *)

\* rcon_tcp_close: the connections C are gone, with all they had sent.  `fate`
\* is what it means to a peer that had not left.
CloseConns(C, fate) ==
  /\ conn' = [s \in Slots |-> IF conn[s] \in C THEN None ELSE conn[s]]
  /\ peer' = [c \in Conns |-> IF c \notin C THEN peer[c]
                              ELSE IF peer[c] = "open" THEN fate ELSE "gone"]
  /\ wire' = [c \in Conns |-> IF c \in C THEN <<>> ELSE wire[c]]

DropClientKeepUse(s) ==                                   \* mutant
  CloseConns({conn[s]}, "dropped") /\ fds' = fds - 1 /\ UNCHANGED inUse
DropClient(s) ==
  /\ CloseConns({conn[s]}, "dropped") /\ fds' = fds - 1
  /\ inUse' = [inUse EXCEPT ![s] = FALSE]

ReadableNoListener ==                                     \* mutant
  {s \in Slots : conn[s] # None /\ (Unread(s) > 0 \/ peer[conn[s]] # "open")}
Readable ==
  {s \in Slots : conn[s] # None /\ (Unread(s) > 0 \/ peer[conn[s]] # "open")}
    \cup (IF backlog = <<>> THEN {} ELSE {Listener})

\* poll blocks until something is readable.
StartWait ==
  /\ pc = "app"
  /\ Prompt => turn = "wait"
  /\ Readable # {}
  /\ revents' = Readable
  /\ pc' = "recv" /\ at' = 1
  /\ UNCHANGED <<clientVars, password, heldVars, turn, pending, peerVars, ghostVars>>

\* The function returns; revents is not read again before the next poll.
Returns(next) ==
  /\ pc' = "app" /\ at' = 1 /\ revents' = {}
  /\ turn' = IF Prompt THEN next ELSE turn

\* poll fails, a signal for instance, or its time is up.
WaitFails ==
  /\ pc = "app"
  /\ Prompt => turn = "wait"
  /\ Returns("fetch")
  /\ UNCHANGED <<clientVars, password, heldVars, pending, peerVars, ghostVars>>

NextSlot(after) ==
  /\ IF at < MaxClients THEN at' = at + 1 /\ UNCHANGED <<pc, turn, revents>>
     ELSE IF after = "app" THEN Returns("wait")
     ELSE at' = 1 /\ pc' = after /\ UNCHANGED <<turn, revents>>
  /\ UNCHANGED pending

SkipSlot ==
  /\ pc = "recv"
  /\ ~inUse[at] \/ at \notin revents
  /\ NextSlot("accept")
  /\ UNCHANGED <<clientVars, password, heldVars, peerVars, ghostVars>>

\* recv returns some of the unread bytes, as many as fit in the buffer.  After
\* a reset it may still return what had arrived, or fail.
Receive(n) ==
  /\ pc = "recv" /\ inUse[at] /\ at \in revents
  /\ n <= Unread(at) /\ n <= Room(at)
  /\ recvd' = [recvd EXCEPT ![at] = @ + n]
  /\ NextSlot("accept")
  /\ UNCHANGED <<conn, inUse, authd, inCmd, password, heldVars, peerVars, ghostVars>>

\* recv returns 0 at the end of the stream, and when it is asked for nothing
\* because the buffer is full.
ReceiveNothing ==
  /\ pc = "recv" /\ inUse[at] /\ at \in revents
  /\ Room(at) = 0 \/ (Unread(at) = 0 /\ peer[conn[at]] = "closed")
  /\ DropClient(at)
  /\ NextSlot("accept")
  /\ UNCHANGED <<authd, inCmd, recvd, password, addresses, memory, backlog, sent, ghostVars>>

\* recv fails: rcon_wait_for_input returns, leaving the slots after this one
\* and the listener to the next call.
ReceiveError ==
  /\ pc = "recv" /\ inUse[at] /\ at \in revents
  /\ peer[conn[at]] = "reset"
  /\ DropClient(at)
  /\ Returns("fetch")
  /\ UNCHANGED <<authd, inCmd, recvd, password, addresses, memory, pending, backlog, sent,
                 ghostVars>>

FreeSlotsAny == Slots                                     \* mutant
FreeSlots == {s \in Slots : conn[s] = None}

AcceptKeepAuth(c, s) ==                                   \* mutant
  /\ conn' = [conn EXCEPT ![s] = c]
  /\ recvd' = [recvd EXCEPT ![s] = 0]
  /\ inUse' = [inUse EXCEPT ![s] = TRUE]
  /\ inCmd' = [inCmd EXCEPT ![s] = FALSE]
  /\ UNCHANGED authd
AcceptKeepBytes(c, s) ==                                  \* mutant
  /\ conn' = [conn EXCEPT ![s] = c]
  /\ inUse' = [inUse EXCEPT ![s] = TRUE]
  /\ authd' = [authd EXCEPT ![s] = FALSE]
  /\ inCmd' = [inCmd EXCEPT ![s] = FALSE]
  /\ UNCHANGED recvd
AcceptInto(c, s) ==
  /\ conn' = [conn EXCEPT ![s] = c]
  /\ recvd' = [recvd EXCEPT ![s] = 0]
  /\ inUse' = [inUse EXCEPT ![s] = TRUE]
  /\ authd' = [authd EXCEPT ![s] = FALSE]
  /\ inCmd' = [inCmd EXCEPT ![s] = FALSE]

\* No connection waits, or accept fails and leaves it in the queue: the call was
\* interrupted, or the process has no descriptor left.
NoAccept ==
  /\ pc = "accept"
  /\ Returns("fetch")
  /\ UNCHANGED <<clientVars, password, heldVars, pending, peerVars, ghostVars>>

Accept ==
  /\ pc = "accept" /\ Listener \in revents
  /\ FreeSlots # {}
  /\ AcceptInto(Head(backlog), Min(FreeSlots))
  /\ backlog' = Tail(backlog) /\ fds' = fds + 1
  /\ Returns("fetch")
  /\ UNCHANGED <<password, addresses, memory, pending, peer, wire, sent, ghostVars>>

\* All slots are taken, or accept fails: the connection is closed.
Refuse ==
  /\ pc = "accept" /\ Listener \in revents
  /\ FreeSlots = {} \/ peer[Head(backlog)] = "reset"
  /\ CloseConns({Head(backlog)}, "refused")
  /\ backlog' = Tail(backlog)
  /\ Returns("fetch")
  /\ UNCHANGED <<inUse, authd, inCmd, recvd, password, heldVars, pending, sent,
                 ghostVars>>

WaitForInput ==
  \/ StartWait \/ SkipSlot
  \/ \E n \in 1 .. BufSize : Receive(n)
  \/ ReceiveNothing \/ ReceiveError
  \/ NoAccept \/ Accept \/ Refuse

-----------------------------------------------------------------------------
(* rcon_fetch_command                                                      *)

StartFetch ==
  /\ pc = "app"
  /\ Prompt => turn = "fetch" /\ pending = {}
  /\ pc' = "fetch" /\ at' = 1
  /\ UNCHANGED <<clientVars, password, heldVars, turn, pending, revents, peerVars, ghostVars>>

First(s) == Head(wire[conn[s]])

\* Is there something to do for slot s before the next one?
HasPacketAgain(s) ==                                      \* mutant
  inUse[s] /\ recvd[s] > 0 /\ (First(s).misread \/ recvd[s] >= First(s).units)
HasPacket(s) ==
  /\ inUse[s] /\ ~inCmd[s]
  /\ recvd[s] > 0
  /\ First(s).misread \/ recvd[s] >= First(s).units

\* The packet leaves the front of the buffer.
Consume(s) ==
  /\ recvd' = [recvd EXCEPT ![s] = @ - First(s).units]
  /\ wire' = [wire EXCEPT ![conn[s]] = Tail(@)]

NoPacket ==
  /\ pc = "fetch" /\ ~HasPacket(at)
  /\ NextSlot("app")
  /\ UNCHANGED <<clientVars, password, heldVars, peerVars, ghostVars>>

\* rcon_streq_consttime is false if either string is NULL.
RightPassword(p) == password # None /\ p.secret = password

Authenticate ==
  /\ pc = "fetch" /\ HasPacket(at)
  /\ ~First(at).misread /\ First(at).kind = "auth"
  /\ IF RightPassword(First(at))
     THEN /\ authd' = [authd EXCEPT ![at] = TRUE]
          /\ granted' = granted \cup {conn[at]}
     ELSE UNCHANGED <<authd, granted>>
  /\ proved' = IF password \in Passwords /\ First(at).secret = password THEN proved \cup {conn[at]} ELSE proved
  /\ Consume(at)
  /\ UNCHANGED <<conn, inUse, inCmd, password, heldVars, appVars, peer, backlog, sent, ran, answers>>

Echo ==
  /\ pc = "fetch" /\ HasPacket(at)
  /\ ~First(at).misread /\ First(at).kind = "other"
  /\ Consume(at)
  /\ UNCHANGED <<conn, inUse, authd, inCmd, password, heldVars, appVars, peer, backlog, sent,
                 ghostVars>>

MayRun(s) == authd[s]

FetchCommand ==
  /\ pc = "fetch" /\ HasPacket(at)
  /\ ~First(at).misread /\ First(at).kind = "exec"
  /\ MayRun(at)
  /\ inCmd' = [inCmd EXCEPT ![at] = TRUE]
  /\ pending' = pending \cup {<<at, conn[at]>>}
  /\ ran' = [ran EXCEPT ![conn[at]] = Append(@, First(at))]
  /\ Returns("fetch")
  /\ UNCHANGED <<conn, inUse, authd, recvd, password, heldVars, peerVars, granted,
                 proved, answers>>

\* A packet with a bad length, or a command before authentication: an error,
\* and the packet stays where it is.  The example takes the error for a client
\* and its command for one that was fetched; cmd has no value then.
FetchError ==
  /\ pc = "fetch" /\ HasPacket(at)
  /\ First(at).misread \/ (First(at).kind = "exec" /\ ~MayRun(at))
  /\ \/ Returns("fetch")
     \/ Prompt /\ Goes("crashed") /\ UNCHANGED <<at, turn, revents>>
  /\ UNCHANGED <<clientVars, password, heldVars, pending, peerVars, ghostVars>>

Fetch == StartFetch \/ NoPacket \/ Authenticate \/ Echo \/ FetchCommand \/ FetchError

-----------------------------------------------------------------------------
\* rcon_complete_command, for a command fetched from slot s when connection c
\* was in it.  The caller names the slot only.
CompleteKeepCmd(s, c) ==                                  \* mutant
  /\ pc = "app"
  /\ <<s, c>> \in pending
  /\ pending' = pending \ {<<s, c>>}
  /\ IF inUse[s] /\ inCmd[s]
     THEN /\ answers' = answers \cup {<<conn[s], c>>}
          /\ Consume(s)
     ELSE UNCHANGED <<answers, recvd, wire>>
  /\ UNCHANGED <<conn, inUse, authd, inCmd, password, heldVars, pc, at, turn, revents, peer,
                 backlog, sent, granted, proved, ran>>
Complete(s, c) ==
  /\ pc = "app"
  /\ <<s, c>> \in pending
  /\ pending' = pending \ {<<s, c>>}
  /\ IF inUse[s] /\ inCmd[s]
     THEN /\ answers' = answers \cup {<<conn[s], c>>}
          /\ inCmd' = [inCmd EXCEPT ![s] = FALSE]
          /\ Consume(s)
     ELSE UNCHANGED <<answers, inCmd, recvd, wire>>
  /\ UNCHANGED <<conn, inUse, authd, password, heldVars, pc, at, turn, revents, peer, backlog,
                 sent, granted, proved, ran>>

\* rcon_set_password; a password that is too long counts as NULL.  The example
\* sets it once, before its loop.
SetPassword(p) ==
  /\ pc = "app" /\ ~Prompt
  /\ password' = p
  /\ UNCHANGED <<clientVars, heldVars, appVars, peerVars, ghostVars>>

Destroy ==
  /\ pc = "app"
  /\ Prompt => turn = "wait"
  /\ pc' = "destroyed"
  /\ CloseConns({c \in Conns : peer[c] # "new"}, "gone")
  /\ backlog' = <<>>
  /\ fds' = fds - 1 - Cardinality({s \in Slots : conn[s] # None})
  /\ memory' = {}
  /\ UNCHANGED <<inUse, authd, inCmd, recvd, password, addresses, at, turn, pending, revents,
                 sent, ghostVars>>

Server ==
  \/ WaitForInput
  \/ Fetch
  \/ \E s \in Slots, c \in Conns : Complete(s, c)

OpenServer ==
  /\ Setup
  /\ UNCHANGED <<clientVars, password, at, turn, pending, revents, peerVars, ghostVars>>

\* The example does not ask whether rcon_create_tcp failed: rc->io is NULL then.
RunsOn ==
  /\ Prompt /\ pc = "failed"
  /\ Goes("crashed")
  /\ UNCHANGED <<clientVars, password, heldVars, at, turn, pending, revents, peerVars, ghostVars>>

Stages == {"getaddrinfo", "socket", "bind", "listen", "block", "create"}
Ended  == {"failed", "crashed", "destroyed"}

Next ==
  \/ OpenServer \/ RunsOn
  \/ Server
  \/ \E p \in Passwords \cup {None} : SetPassword(p)
  \/ WaitFails \/ Destroy
  \/ pc \notin Stages \cup Ended /\ PeerStep

Spec == Init /\ [][Next]_vars

\* The program calls the library again and again, and neither poll nor accept
\* fails every time it is called.
FairSpec == Spec /\ WF_vars(Server) /\ SF_vars(StartWait) /\ SF_vars(Accept \/ Refuse)

-----------------------------------------------------------------------------
TypeOK ==
  /\ conn \in [Slots -> Conns \cup {None}]
  /\ inUse \in [Slots -> BOOLEAN] /\ authd \in [Slots -> BOOLEAN]
  /\ inCmd \in [Slots -> BOOLEAN] /\ recvd \in [Slots -> 0 .. BufSize]
  /\ password \in Passwords \cup {None}
  /\ revents \subseteq Slots \cup {Listener}
  /\ pc \in {"app", "recv", "accept", "fetch"} \cup Stages \cup Ended
  /\ addresses \in 0 .. MaxAddresses /\ fds \in Nat
  /\ memory \subseteq {"list", "block", "clients"}
  /\ at \in Slots /\ turn \in {"wait", "fetch"}
  /\ pending \subseteq Slots \X Conns
  /\ peer \in [Conns -> {"new", "open", "closed", "reset",
                         "dropped", "refused", "gone"}]
  /\ Range(backlog) \subseteq Conns
  /\ \A c \in Conns : /\ Range(sent[c]) \subseteq Packets
                      /\ Range(wire[c]) \subseteq Packets
                      /\ Range(ran[c]) \subseteq Packets
  /\ granted \subseteq Conns /\ proved \subseteq Conns
  /\ answers \subseteq Conns \X Conns

\* Whichever call of the setup fails, and whenever the server is destroyed,
\* every descriptor is closed and all memory is free; while the server runs it
\* has the listening socket and those of its clients, not one of an address it
\* gave up, of a client it dropped or of one it refused.
NothingLeaks ==
  /\ pc \in {"failed", "destroyed"} => fds = 0 /\ memory = {}
  /\ pc \notin Stages \cup Ended =>
       /\ fds = 1 + Cardinality({s \in Slots : conn[s] # None})
       /\ memory = {"block", "clients"}

\* The server's table and the transport's agree on the slots in use, and no
\* connection has two slots or is still waiting to be accepted.
SlotsAgree ==
  pc # "destroyed" =>
    \A s \in Slots :
      /\ inUse[s] <=> conn[s] # None
      /\ inUse[s] => /\ peer[conn[s]] \in {"open", "closed", "reset"}
                     /\ conn[s] \notin Range(backlog)
                     /\ \A z \in Slots \ {s} : conn[z] # conn[s]

\* A buffer holds bytes of the connection that is in the slot now, never of one
\* that had the slot before, and they start at a packet's length field.
BufferIsOfConnection ==
  \A s \in Slots : conn[s] # None =>
    /\ recvd[s] <= Units(wire[conn[s]])
    /\ IsSuffix(wire[conn[s]], sent[conn[s]])

\* Commands are fetched only from connections that sent the password that was
\* set at that time: a slot never hands on its authentication.
AuthByPasswordOnly ==
  /\ \A s \in Slots : conn[s] # None /\ authd[s] => conn[s] \in proved
  /\ \A c \in Conns : ran[c] # <<>> => c \in proved

\* While a command runs its packet stays whole at the front of the buffer
\* (*commandPtr points into it), whatever is received meanwhile.
CommandHeld ==
  \A s \in Slots : conn[s] # None /\ inCmd[s] =>
    /\ wire[conn[s]] # <<>>
    /\ First(s).kind = "exec" /\ recvd[s] >= First(s).units

Execs(w) ==
  FoldLeft(LAMBDA r, p : IF p.kind = "exec" THEN Append(r, p) ELSE r, <<>>, w)

\* The packets of the connection in slot s that were taken from its buffer, and
\* the one that is being run.
Begun(s) ==
  LET c == conn[s]
      done == Len(sent[c]) - Len(wire[c])
  IN  SubSeq(sent[c], 1, IF inCmd[s] THEN done + 1 ELSE done)

\* Every command runs once, in the order the client sent them, however the
\* bytes arrive and however late the program completes them.
CommandsInOrder ==
  \A s \in Slots : conn[s] # None => ran[conn[s]] = Execs(Begun(s))

\* A response goes to another connection than the one that asked only if the
\* asker's connection had been closed and its slot was used again.
RepliesToAsker ==
  \A a \in answers :
    a[1] # a[2] => peer[a[2]] \in {"gone", "dropped"}

Fits(c) == \A i \in 1 .. Len(sent[c]) : sent[c][i].units <= BufSize

\* A client whose packets fit the buffer is never disconnected by the server.
DropsOnlyOversized ==
  \A c \in Conns : peer[c] = "dropped" => ~Fits(c)

\* What a connection is to RconSession.
SlotsOf(c) == {s \in Slots : conn[s] = c}
PhaseOf(c) ==
  CASE peer[c] = "new" -> "new"
    [] c \in Range(backlog) -> "waiting"
    [] SlotsOf(c) # {} -> "open"
    [] OTHER -> "over"
Session(c) ==
  INSTANCE RconSession WITH
    phase   <- PhaseOf(c),
    todo    <- wire[c],
    authd   <- \E s \in SlotsOf(c) : authd[s],
    running <- \E s \in SlotsOf(c) : inCmd[s]

\* Each connection is served as if it were alone: whatever the others do, its
\* packets are dealt with whole, once, in their order, one command at a time
\* and none before the password, and nothing outlives it in its slot.
ImplementsSessions ==
  /\ \A c \in Conns : Session(c)!Init
  /\ [][\A c \in Conns : Session(c)!Next \/ UNCHANGED Session(c)!vars]_vars

\* The packet at the front of some buffer makes rcon_fetch_command return an
\* error, and it will do so whenever it is called.
Blocked ==
  \E s \in Slots : /\ HasPacket(s)
                   /\ First(s).misread \/ (First(s).kind = "exec" /\ ~MayRun(s))

\* What an authenticated client has sent is processed, unless it leaves, the
\* server is destroyed, or a client with a bad packet blocks the server.
CommandsServed ==
  \A c \in Conns :
    c \in granted /\ wire[c] # <<>> /\ Fits(c)
      ~> wire[c] = <<>> \/ peer[c] \in {"closed", "reset"} \/ pc = "destroyed" \/ Blocked

\* A connection does not wait for ever to be accepted or refused, unless such
\* a client blocks the server.
ConnectionsTaken ==
  \A c \in Conns : c \in Range(backlog) ~> c \notin Range(backlog) \/ Blocked
=============================================================================
