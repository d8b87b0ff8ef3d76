------------------------------ MODULE Sockets ------------------------------
(***************************************************************************)
(* Socket objects of lsylar/src/Socket.cc and the descriptors they hold.   *)
(* An object holds its descriptor in m_sock of its PosixSocketApi, where 0 *)
(* stands for none; a descriptor may also be held by its number alone      *)
(* (loose), as the reactor's table does between set_sockfd(0) and the next *)
(* Socket(fd).  Only UdpSocketApi closes in its destructor.                *)
(*                                                                         *)
(* Objects share nothing but the descriptor table, and each call is made   *)
(* by one thread: every operation is one action.  Addresses are reduced to *)
(* whether the object has one.  handle_error uses no member of ErrHandler, *)
(* so it works through the null pointer of an object that never was        *)
(* initialised.                                                            *)
(***************************************************************************)
EXTENDS Integers

CONSTANTS
    Objects,        \* Socket objects
    Numbers         \* descriptors the process may be given

ASSUME SocketsAssumption == Numbers \subseteq Nat \ {0}

VARIABLES
    sock,           \* object: its API, m_sock, and whether it has an m_remote_addr
    table,          \* the kernel's descriptor table
    loose,          \* descriptors held by number
    lost,           \* history: descriptors nobody holds any more
    nullCall        \* the objects that called through a null m_remote_addr

socketVars == <<sock, table, loose, lost, nullCall>>

Apis == {"tcp", "udp"}
Absent == [api |-> "none", fd |-> 0, remote |-> FALSE]
Live(o) == sock[o].api \in Apis
Free == {f \in Numbers : table[f] = "free"}

SocketsTypeOK ==
    /\ sock \in [Objects -> [api : Apis \cup {"none"}, fd : Numbers \cup {0, -1}, remote : BOOLEAN]]
    /\ table \in [Numbers -> {"free", "idle", "listening", "linked"}]
    /\ loose \subseteq Numbers /\ lost \subseteq Numbers
    /\ nullCall \subseteq Objects

SocketsInit ==
    /\ sock = [o \in Objects |-> Absent]
    /\ table = [f \in Numbers |-> "free"]
    /\ loose = {} /\ lost = {} /\ nullCall = {}

Runs == nullCall = {}
On(o) == Runs /\ Live(o)
Becomes(o, api, fd, remote) ==
    sock' = [sock EXCEPT ![o] = [api |-> api, fd |-> fd, remote |-> remote]]

-----------------------------------------------------------------------------
(* Constructor, destructor, and descriptors by number. *)

\* Socket(0, is_tcp): with UDP it gets an address right away.
New(o) ==
    /\ Runs /\ ~Live(o)
    /\ \E api \in Apis : Becomes(o, api, 0, api = "udp")
    /\ UNCHANGED <<table, loose, lost, nullCall>>

\* Socket(fd, is_tcp)
Adopt(o) ==
    /\ Runs /\ ~Live(o)
    /\ \E f \in loose, api \in Apis : Becomes(o, api, f, api = "udp") /\ loose' = loose \ {f}
    /\ UNCHANGED <<table, lost, nullCall>>

\* set_sockfd(0)
Release(o) ==
    /\ On(o)
    /\ loose' = loose \cup ({sock[o].fd} \cap Numbers)
    /\ Becomes(o, sock[o].api, 0, sock[o].remote)
    /\ UNCHANGED <<table, lost, nullCall>>

\* The table after ::close(fd); closing 0 is skipped, closing -1 fails.
Closed(fd) == [f \in Numbers |-> IF f = fd THEN "free" ELSE table[f]]

\* Mutant: m_sock keeps its number after a close.
CloseKeeps(o) ==
    /\ On(o)
    /\ table' = Closed(sock[o].fd)
    /\ UNCHANGED <<sock, loose, lost, nullCall>>

\* close(): m_sock is 0 afterwards, whatever ::close said.
Close(o) ==
    /\ On(o)
    /\ table' = Closed(sock[o].fd)
    /\ Becomes(o, sock[o].api, 0, sock[o].remote)
    /\ UNCHANGED <<loose, lost, nullCall>>

\* ~Socket closes; ~UdpSocketApi closes again, and finds 0.
Destroy(o) ==
    /\ On(o)
    /\ table' = Closed(sock[o].fd)
    /\ sock' = [sock EXCEPT ![o] = Absent]
    /\ UNCHANGED <<loose, lost, nullCall>>

-----------------------------------------------------------------------------
(* Descriptors from the kernel. *)

\* What becomes of o's descriptor when its API object is replaced.
Drops(o) ==
    IF sock[o].api = "udp" THEN Closed(sock[o].fd) ELSE table
LostWith(o) == IF sock[o].api = "udp" THEN {} ELSE {sock[o].fd} \cap Numbers

\* A new descriptor in state st in table t, or -1.
Given(o, api, t, st) ==
    \/ \E f \in Numbers :
        /\ t[f] = "free"
        /\ table' = [t EXCEPT ![f] = st]
        /\ Becomes(o, api, f, sock[o].remote)
    \/ table' = t /\ Becomes(o, api, -1, sock[o].remote)

\* init_tcp, init_udp: a new API object, socket(), and bind(), whose failure
\* init_tcp does not tell.
InitSocket(o) ==
    /\ On(o)
    /\ \E api \in Apis : Given(o, api, Drops(o), "idle")
    /\ lost' = lost \cup LostWith(o)
    /\ UNCHANGED <<loose, nullCall>>

\* socket() alone puts the new descriptor over the old one.
SocketAgain(o) ==
    /\ On(o)
    /\ Given(o, sock[o].api, table, "idle")
    /\ lost' = lost \cup ({sock[o].fd} \cap Numbers)
    /\ UNCHANGED <<loose, nullCall>>

Listen(o) ==
    /\ On(o) /\ sock[o].fd \in Numbers
    /\ sock[o].api = "tcp" /\ table[sock[o].fd] = "idle"
    /\ table' = [table EXCEPT ![sock[o].fd] = "listening"]
    /\ UNCHANGED <<sock, loose, lost, nullCall>>

\* accept(ans): ans gets a TCP API with the client's descriptor, or with -1
\* when accept fails; it has no address unless it had one.
AcceptInto(o, ans) ==
    /\ On(o) /\ Live(ans)
    /\ sock[o].fd \in Numbers /\ table[sock[o].fd] = "listening"
    /\ Given(ans, "tcp", Drops(ans), "linked")
    /\ lost' = lost \cup LostWith(ans)
    /\ UNCHANGED <<loose, nullCall>>

-----------------------------------------------------------------------------
(* Addresses. *)

\* connect(ip, port) stores the address first; set_remote_addr, send and recv
\* with an address store it too.
Tell(o) ==
    /\ On(o)
    /\ Becomes(o, sock[o].api, sock[o].fd, TRUE)
    /\ UNCHANGED <<table, loose, lost, nullCall>>

\* ::connect succeeds; it fails without a trace.
Links(o) ==
    /\ sock[o].fd \in Numbers /\ table[sock[o].fd] # "listening"
    /\ table' = [table EXCEPT ![sock[o].fd] = "linked"]
    /\ UNCHANGED <<sock, loose, lost, nullCall>>

\* connect(m_remote_addr)
Connect(o) == On(o) /\ sock[o].remote /\ Links(o)

CallsNull(o) ==
    /\ On(o) /\ ~sock[o].remote
    /\ nullCall' = {o}
    /\ UNCHANGED <<sock, table, loose, lost>>

\* send(): UDP goes to m_remote_addr, which may be null.  A send changes
\* nothing else here.
Send(o) == sock[o].api = "udp" /\ CallsNull(o)

\* reconnect() connects to m_remote_addr again and again for 6000 ticks of
\* clock(), which are microseconds of CPU time.
Reconnect(o) == Connect(o) \/ CallsNull(o)

\* recv(): UDP writes the sender into m_remote_addr; an error from recv, of
\* either kind, goes on to reconnect().
Recv(o) == CallsNull(o) \/ Reconnect(o)

SocketStep(o) ==
    \/ New(o) \/ Adopt(o) \/ Release(o) \/ Close(o) \/ Destroy(o)
    \/ InitSocket(o) \/ SocketAgain(o) \/ Listen(o)
    \/ \E ans \in Objects : AcceptInto(o, ans)
    \/ Tell(o) \/ Connect(o) \/ Send(o) \/ Recv(o)

SocketsNext == \E o \in Objects : SocketStep(o)

SocketsSpec == SocketsInit /\ [][SocketsNext]_socketVars

-----------------------------------------------------------------------------
Held(o) == {sock[o].fd} \cap Numbers

\* Nobody closes, or is given, a descriptor under somebody else's hands: what
\* an object or the table of numbers holds is open and held once.  An open
\* descriptor that nobody holds was lost in one of two ways: a TCP object was
\* initialised again or accepted into, or socket() was called twice.
DescriptorsOwned ==
    /\ \A o \in Objects : Held(o) \cap (Free \cup loose \cup lost) = {}
    /\ \A o, p \in Objects : o # p => Held(o) \cap Held(p) = {}
    /\ loose \cap (Free \cup lost) = {} /\ lost \cap Free = {}
    /\ \A f \in Numbers \ (Free \cup loose \cup lost) : \E o \in Objects : f \in Held(o)
=============================================================================
