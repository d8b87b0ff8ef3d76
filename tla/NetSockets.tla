----------------------------- MODULE NetSockets -----------------------------
(***************************************************************************)
(* The older Socket of PlatformModul/src/TNet/TNet.cc: one TCP object over *)
(* its life.  m_sock is made when it is first needed, and the local and    *)
(* remote addresses are cached when they are first asked for.              *)
(*                                                                         *)
(* NewAddress leaves m_len of an IPv4Address unset (Address.cc, line 51),  *)
(* so getpeername and getsockname may fail, and connect() to a cached      *)
(* address may fail too; it is accepted only with a length that also made  *)
(* the cached address complete.  send() and recv() change no state.        *)
(***************************************************************************)
EXTENDS Naturals

CONSTANTS
    NetPeers,       \* addresses of servers
    Ports,          \* local ports the kernel may assign
    NoAddress       \* a null Address::ptr

ASSUME NetAssumption ==
    NoAddress \notin NetPeers \cup Ports /\ 0 \notin Ports /\ NetPeers \cap {"none", "idle", "listening"} = {}

VARIABLES
    m_sock,         \* the socket behind m_sock: no socket, its state, or its peer
    localPort,      \* the local port of that socket, 0 as long as it has none
    m_is_connected,
    m_remote_addr, m_local_addr,    \* the caches
    met,            \* history: peers that connect() reached or accept() brought
    reused,         \* history: a socket with a port was closed since the last reconnect()
    restored        \* history: reconnect() has succeeded, and nothing was called since

netVars == <<m_sock, localPort, m_is_connected, m_remote_addr, m_local_addr, met, reused, restored>>

Invalid == m_sock = "none"

NetInit ==
    /\ m_sock = "none" /\ localPort = 0 /\ m_is_connected = FALSE
    /\ m_remote_addr = NoAddress /\ m_local_addr = NoAddress
    /\ met = {} /\ reused = FALSE /\ restored = FALSE

\* What remote_addr() and local_addr() leave in a cache: what was there, or
\* what the kernel says, or nothing if it is not asked properly.
Filled(cache, truth) == IF cache # NoAddress THEN {cache} ELSE {truth, NoAddress}

\* accept() in another object has made this one with init(newsock).
Accepted ==
    /\ met = {} /\ Invalid /\ m_local_addr = NoAddress
    /\ \E p \in NetPeers, n \in Ports :
        /\ m_sock' = p /\ localPort' = n /\ met' = {p}
        /\ m_remote_addr' \in Filled(m_remote_addr, p)
        /\ m_local_addr' \in Filled(m_local_addr, n)
    /\ m_is_connected' = TRUE
    /\ UNCHANGED <<reused, restored>>

\* close(): the caches stay.
NetClose ==
    /\ m_sock' = "none" /\ localPort' = 0 /\ m_is_connected' = FALSE
    /\ reused' = (reused \/ localPort # 0) /\ restored' = FALSE
    /\ UNCHANGED <<m_remote_addr, m_local_addr, met>>

\* new_sock() when there is none, then ::bind, which needs a socket without a
\* port.  socket() itself may fail.
NetBind ==
    /\ \/ m_sock' \in {"none", "idle"} /\ Invalid
       \/ ~Invalid /\ UNCHANGED m_sock
    /\ IF m_sock' = "idle" /\ localPort = 0
       THEN \/ /\ localPort' \in Ports
               /\ m_local_addr' \in Filled(m_local_addr, localPort')
            \/ UNCHANGED <<localPort, m_local_addr>>
       ELSE UNCHANGED <<localPort, m_local_addr>>
    /\ restored' = FALSE
    /\ UNCHANGED <<m_is_connected, m_remote_addr, met, reused>>

NetListen ==
    /\ m_sock \in {"idle", "listening"} /\ localPort # 0
    /\ m_sock' = "listening" /\ restored' = FALSE
    /\ UNCHANGED <<localPort, m_is_connected, m_remote_addr, m_local_addr, met, reused>>

\* ::connect(p) succeeds on a socket that is not connected and does not
\* listen; local is what is cached of the local address by then.
NetLinks(p, local) ==
    /\ m_sock \in {"none", "idle"}
    /\ m_sock' = p /\ m_is_connected' = TRUE
    /\ localPort' \in IF localPort = 0 THEN Ports ELSE {localPort}
    /\ m_remote_addr' \in Filled(m_remote_addr, p)
    /\ m_local_addr' \in Filled(local, localPort')

\* connect() that fails closes the socket.
NetFails(local) ==
    /\ m_sock' = "none" /\ localPort' = 0 /\ m_is_connected' = FALSE
    /\ m_local_addr' = local /\ restored' = FALSE
    /\ UNCHANGED met

\* Mutant: the remote address is remembered before ::connect has succeeded.
NetConnectRemembers ==
    \E p \in NetPeers :
        \/ NetLinks(p, m_local_addr) /\ met' = met \cup {p} /\ restored' = FALSE /\ UNCHANGED reused
        \/ /\ NetFails(m_local_addr) /\ reused' = (reused \/ localPort # 0)
           /\ m_remote_addr' = IF m_remote_addr = NoAddress THEN p ELSE m_remote_addr

\* An address of another family is refused once the socket is made.
NetConnect ==
    \/ \E p \in NetPeers : NetLinks(p, m_local_addr) /\ met' = met \cup {p}
       /\ restored' = FALSE /\ UNCHANGED reused
    \/ /\ NetFails(m_local_addr) /\ UNCHANGED m_remote_addr
       /\ reused' = (reused \/ localPort # 0)
    \/ /\ Invalid /\ m_sock' = "idle" /\ restored' = FALSE
       /\ UNCHANGED <<localPort, m_is_connected, m_remote_addr, m_local_addr, met, reused>>

\* reconnect(): it connects a closed object again, and closes a connected one.
NetReconnect ==
    /\ m_remote_addr # NoAddress
    /\ \/ NetLinks(m_remote_addr, NoAddress) /\ restored' = TRUE /\ UNCHANGED met
       \/ NetFails(NoAddress) /\ UNCHANGED m_remote_addr
    /\ reused' = FALSE

\* remote_addr() and local_addr(), called from outside.
NetAddresses ==
    /\ ~Invalid
    /\ m_remote_addr' \in IF m_sock \in NetPeers
                          THEN Filled(m_remote_addr, m_sock) ELSE {m_remote_addr}
    /\ m_local_addr' \in Filled(m_local_addr, localPort)
    /\ UNCHANGED <<m_sock, localPort, m_is_connected, met, reused, restored>>

NetNext ==
    \/ Accepted \/ NetClose \/ NetBind \/ NetListen
    \/ NetConnect \/ NetReconnect \/ NetAddresses

NetSpec == NetInit /\ [][NetNext]_netVars

-----------------------------------------------------------------------------
\* Both caches outlive what they describe, and reconnect() goes by one of them,
\* yet a connected object is never connected to a peer that neither connect()
\* reached nor accept() brought; what it says of its remote end is wrong only
\* if it has been connected to two peers, and of its local end only if it has
\* lost a bound or connected socket since the last reconnect(), or was asked
\* when the socket had no port yet (0); and right after reconnect() it says
\* nothing wrong of either.
AddressesExplained ==
    m_is_connected =>
        /\ m_sock \in met
        /\ met = {m_sock} => m_remote_addr \in {m_sock, NoAddress}
        /\ ~reused => m_local_addr \in {localPort, 0, NoAddress}
        /\ restored => m_remote_addr = m_sock /\ m_local_addr \in {localPort, NoAddress}
=============================================================================
