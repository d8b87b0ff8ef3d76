---------------------------- MODULE EpollSocket ----------------------------
(***************************************************************************)
(* The part of Linux that lsylar/src/servers.cc runs on, and its TCP       *)
(* clients: an accept queue, connections, the descriptor table and one     *)
(* edge-triggered epoll instance.  None of it is under src/; it is         *)
(* modelled from the calls servers.cc, sv_rpcapi.cc and Socket.cc make.    *)
(*                                                                         *)
(* What a client sends is only counted; what the server writes back is     *)
(* kept, in echo[c], and its type is left to the module that models the    *)
(* server.                                                                 *)
(***************************************************************************)
EXTENDS Integers, Sequences, FiniteSets

CONSTANTS
    Clients,    \* connection attempts: each connects at most once
    Fds,        \* descriptor numbers the process may get for connections
    MaxBytes,   \* bound: bytes one client sends
    SndCap,     \* capacity of a connection's send buffer
    NoConn      \* the descriptor is not open

ASSUME ClientsAssumption == NoConn \notin Clients
ASSUME FdsAssumption == Fds \subseteq Nat \ {0}   \* 0 is stdin, and "no fd" in fd_item_t
ASSUME CapAssumption == MaxBytes \in Nat /\ SndCap \in Nat \ {0}

VARIABLES
    cl,         \* what each client has done with its end
    queued,     \* established connections no accept() has taken yet
    sent,       \* number of bytes each client has sent
    taken,      \* number of them recv() has returned to the server
    echo,       \* everything the server wrote to each connection
    nread,      \* number of bytes of echo[c] the client has read
    eof,        \* the client's FIN has arrived
    rst,        \* a reset from the client: none, not yet reported, reported
    fdConn,     \* descriptor table: the connection behind each descriptor
    interest,   \* work_epfd: what each descriptor is registered for
    ready       \* work_epfd: the edge-triggered ready list

clientVars == <<cl, sent, nread>>
sockVars == <<taken, echo, eof, rst>>
epollVars == <<interest, ready>>
netVars == <<cl, queued, sent, taken, echo, nread, eof, rst, fdConn, interest, ready>>

NetTypeOK ==
    /\ cl \in [Clients -> {"new", "open", "shut", "gone"}]
    /\ queued \in Seq(Clients)
    /\ sent \in [Clients -> 0..MaxBytes]
    /\ taken \in [Clients -> Nat]
    /\ nread \in [Clients -> Nat]
    /\ eof \in [Clients -> BOOLEAN]
    /\ rst \in [Clients -> {"no", "pending", "done"}]
    /\ fdConn \in [Fds -> Clients \cup {NoConn}]
    /\ interest \in [Fds -> {"none", "in", "out"}]
    /\ ready \in SUBSET Fds

NetInit ==
    /\ cl = [c \in Clients |-> "new"]
    /\ queued = <<>>
    /\ sent = [c \in Clients |-> 0]
    /\ taken = [c \in Clients |-> 0]
    /\ echo = [c \in Clients |-> <<>>]
    /\ nread = [c \in Clients |-> 0]
    /\ eof = [c \in Clients |-> FALSE]
    /\ rst = [c \in Clients |-> "no"]
    /\ fdConn = [fd \in Fds |-> NoConn]
    /\ interest = [fd \in Fds |-> "none"]
    /\ ready = {}

FreeFds == {fd \in Fds : fdConn[fd] = NoConn}
Avail(c) == sent[c] - taken[c]
Unread(c) == Len(echo[c]) - nread[c]

Readable(c) == Avail(c) > 0 \/ eof[c] \/ rst[c] # "no"
Writable(c) == Unread(c) < SndCap \/ rst[c] # "no"

\* poll() of a descriptor, restricted to what it is registered for.
HasEvent(fd) ==
    \/ interest[fd] = "in" /\ Readable(fdConn[fd])
    \/ interest[fd] = "out" /\ Writable(fdConn[fd])

\* A wake-up of connection c puts its descriptor on the ready list when it is
\* registered for one of the kinds of event.
Wake(c, kinds) ==
    ready' = ready \cup {fd \in Fds : fdConn[fd] = c /\ interest[fd] \in kinds}

\* epoll_ctl ADD or MOD: sets the interest and checks the condition at once, so
\* a condition that already holds is reported although its edge has passed.
Register(fd, kind) ==
    /\ interest' = [interest EXCEPT ![fd] = kind]
    /\ ready' = IF \/ kind = "in" /\ Readable(fdConn[fd])
                   \/ kind = "out" /\ Writable(fdConn[fd])
                THEN ready \cup {fd}
                ELSE ready

\* epoll_ctl DEL, and what close() does to a descriptor still registered.
Deregister(fd) ==
    /\ interest' = [interest EXCEPT ![fd] = "none"]
    /\ ready' = ready \ {fd}

----------------------------------------------------------------------------
(* The clients and the network. *)

Connect(c) ==
    /\ cl[c] = "new"
    /\ cl' = [cl EXCEPT ![c] = "open"]
    /\ queued' = Append(queued, c)
    /\ UNCHANGED <<sent, nread, sockVars, fdConn, epollVars>>

ClientSend(c) ==
    /\ cl[c] = "open" /\ sent[c] < MaxBytes
    /\ sent' = [sent EXCEPT ![c] = @ + 1]
    /\ Wake(c, {"in"})
    /\ UNCHANGED <<cl, queued, nread, sockVars, fdConn, interest>>

\* The client has nothing more to send and keeps reading.
ClientShutdown(c) ==
    /\ cl[c] = "open"
    /\ cl' = [cl EXCEPT ![c] = "shut"]
    /\ eof' = [eof EXCEPT ![c] = TRUE]
    /\ Wake(c, {"in"})
    /\ UNCHANGED <<queued, sent, nread, taken, echo, rst, fdConn, interest>>

\* The client closes its socket: a FIN, unless bytes it has not read make it a
\* reset (PeerReset).
ClientClose(c) ==
    /\ cl[c] \in {"open", "shut"}
    /\ cl' = [cl EXCEPT ![c] = "gone"]
    /\ \/ /\ Unread(c) = 0
          /\ eof' = [eof EXCEPT ![c] = TRUE]
          /\ Wake(c, {"in"})
       \/ /\ Unread(c) > 0
          /\ UNCHANGED <<eof, ready>>
    /\ UNCHANGED <<queued, sent, nread, taken, echo, rst, fdConn, interest>>

ClientRead(c) ==
    /\ cl[c] \in {"open", "shut"} /\ Unread(c) > 0
    /\ nread' = [nread EXCEPT ![c] = Len(echo[c])]
    /\ Wake(c, {"out"})
    /\ UNCHANGED <<cl, queued, sent, sockVars, fdConn, interest>>

\* Bytes that reach a socket nobody will read any more are answered by a reset.
PeerReset(c) ==
    /\ cl[c] = "gone" /\ Unread(c) > 0 /\ rst[c] = "no"
    /\ rst' = [rst EXCEPT ![c] = "pending"]
    /\ Wake(c, {"in", "out"})
    /\ UNCHANGED <<clientVars, queued, taken, echo, eof, fdConn, interest>>

NetStep ==
    \E c \in Clients :
        \/ Connect(c) \/ ClientSend(c) \/ ClientShutdown(c)
        \/ ClientClose(c) \/ ClientRead(c) \/ PeerReset(c)
=============================================================================
