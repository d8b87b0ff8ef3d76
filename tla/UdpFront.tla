------------------------------ MODULE UdpFront ------------------------------
(***************************************************************************)
(* ServerRpcApi::run of lsylar/src/sv_rpcapi.cc: the order in which it     *)
(* starts threads, request pool, listeners and the UDP server, with the    *)
(* loops already running, and the UDP callbacks of the same file.          *)
(*                                                                         *)
(* What RpcApi shows of clients and buffers is left out: a client sends    *)
(* nothing but that it has sent, and a reply is its suffix.  GetReqpool    *)
(* finds s_reqpool allocated by its initialiser and does nothing, so the   *)
(* pool is raw memory until run() comes to it.                             *)
(***************************************************************************)
EXTENDS Naturals, Sequences

CONSTANTS
    FrontFds,       \* descriptor numbers
    Listeners,      \* LISTEN_PORT_NUM
    MaxArrivals     \* bound: datagrams, and bytes of clients

ASSUME FrontAssumption == Listeners \in Nat \ {0} /\ MaxArrivals \in Nat

VARIABLES
    step,           \* run(): how far it is in StartOrder, and inside a step
    fdKind,         \* what a descriptor is
    callbacks,      \* its entry in the table: which recv_cb and send_cb
    armed,          \* work_epfd: "none", "in" or "out" for each descriptor
    edges,          \* work_epfd: descriptors with an event to report
    input,          \* what is in a socket's receive queue
    answered,       \* descriptors with slen # 0
    pool,           \* the memory at s_reqpool
    asked,          \* requests, by descriptor number: waiting for a reply, or for epoll_ctl
    serving,        \* work thread: descriptor and next step
    arrivals, emptied, rawUse    \* bound; history: numbers given up, use of a raw pool

frontVars == <<step, fdKind, callbacks, armed, edges, input, answered, pool, asked,
               serving, arrivals, emptied, rawUse>>
tableVars == <<fdKind, callbacks, armed, edges, input, answered>>

\* Mutant: the pool is made when everything else is.
StartOrderPoolLast == <<"threads", "listen", "udp", "pool">>

\* run(), in the order of its statements.
StartOrder == <<"threads", "pool", "listen", "udp">>

AtStep(name, sub) == step.at <= Len(StartOrder) /\ StartOrder[step.at] = name /\ step.sub = sub
StepDone == step' = [at |-> step.at + 1, sub |-> 0]
StepOn == step' = [step EXCEPT !.sub = @ + 1]
Running == \E i \in 1..step.at - 1 : StartOrder[i] = "threads"

Nobody == [fd |-> 0, pc |-> "wait"]

\* Every entry of a block starts out with the callbacks of a TCP client.
FreshCallbacks == [f \in FrontFds |-> "tcp"]

\* rpcapi_reqpool_cb_context_t: a request remembers whom it is for by number, and
\* the model what comes next for it.
Context(f, next) == <<f, next>>

FrontInit ==
    /\ step = [at |-> 1, sub |-> 0]
    /\ fdKind = [f \in FrontFds |-> "free"]
    /\ callbacks = FreshCallbacks
    /\ armed = [f \in FrontFds |-> "none"]
    /\ edges = {} /\ input = [f \in FrontFds |-> <<>>] /\ answered = {}
    /\ pool = "raw" /\ asked = {} /\ serving = Nobody
    /\ arrivals = 0 /\ emptied = {} /\ rawUse = FALSE

\* epoll_ctl ADD or MOD on work_epfd, which looks at the condition once.
Interest(f, ev) ==
    /\ armed' = [armed EXCEPT ![f] = ev]
    /\ edges' = IF ev = "out" \/ input[f] # <<>> THEN edges \cup {f} ELSE edges \ {f}

-----------------------------------------------------------------------------
(* run(), in the caller's thread. *)

StartThreads ==
    /\ AtStep("threads", 0) /\ StepDone
    /\ UNCHANGED <<tableVars, pool, asked, serving, arrivals, emptied, rawUse>>

\* asynreq_context_init; nobody looks whether epoll_create or pthread_create failed.
StartPool ==
    /\ AtStep("pool", 0) /\ StepDone
    /\ pool' \in {"ready", "dead"}
    /\ UNCHANGED <<tableVars, asked, serving, arrivals, emptied, rawUse>>

\* reactor_add_listener: clients may come before add_fd, which only marks.
StartListener ==
    /\ \E n \in 0..Listeners - 1 : AtStep("listen", n)
    /\ \E f \in FrontFds :
        fdKind[f] = "free" /\ fdKind' = [fdKind EXCEPT ![f] = "listener"]
    /\ IF step.sub = Listeners - 1 THEN StepDone ELSE StepOn
    /\ UNCHANGED <<callbacks, armed, edges, input, answered, pool, asked, serving,
                   arrivals, emptied, rawUse>>

\* reactor_add_udp_server: the socket is bound, the entry gets its callbacks ...
StartUdp ==
    /\ AtStep("udp", 0) /\ StepOn
    /\ \E f \in FrontFds :
        fdKind[f] = "free" /\ fdKind' = [fdKind EXCEPT ![f] = "udp"]
    /\ UNCHANGED <<callbacks, armed, edges, input, answered, pool, asked, serving,
                   arrivals, emptied, rawUse>>

UdpEntry(f) == callbacks' = [callbacks EXCEPT ![f] = "udp"] /\ UNCHANGED <<armed, edges>>
UdpCtl(f) == Interest(f, "in") /\ UNCHANGED callbacks

\* Mutant: the entry is filled in once epoll knows the descriptor.
StartUdpServesCtlFirst ==
    \E f \in FrontFds :
        /\ fdKind[f] = "udp"
        /\ \/ AtStep("udp", 1) /\ StepOn /\ UdpCtl(f)
           \/ AtStep("udp", 2) /\ StepDone /\ UdpEntry(f)
        /\ UNCHANGED <<fdKind, input, answered, pool, asked, serving, arrivals, emptied, rawUse>>

\* ... and only then it joins work_epfd.
StartUdpServes ==
    \E f \in FrontFds :
        /\ fdKind[f] = "udp"
        /\ \/ AtStep("udp", 1) /\ StepOn /\ UdpEntry(f)
           \/ AtStep("udp", 2) /\ StepDone /\ UdpCtl(f)
        /\ UNCHANGED <<fdKind, input, answered, pool, asked, serving, arrivals, emptied, rawUse>>

-----------------------------------------------------------------------------
(* What arrives, and the listen thread. *)

\* A datagram, which may be empty; bytes or the end of a client.
Arrives ==
    \E f \in FrontFds, what \in {"data", "empty"} :
        /\ fdKind[f] \in {"udp", "client"} /\ arrivals < MaxArrivals
        /\ arrivals' = arrivals + 1
        /\ input' = [input EXCEPT ![f] = Append(@, what)]
        /\ edges' = IF armed[f] = "in" THEN edges \cup {f} ELSE edges
        /\ UNCHANGED <<step, fdKind, callbacks, armed, answered, pool, asked, serving,
                       emptied, rawUse>>

\* accept_callback: add_fd leaves the callbacks of the entry as they are.
FrontAccepts ==
    /\ Running /\ \E l \in FrontFds : fdKind[l] = "listener"
    /\ \E f \in FrontFds :
        /\ fdKind[f] = "free"
        /\ fdKind' = [fdKind EXCEPT ![f] = "client"]
        /\ Interest(f, "in")
    /\ UNCHANGED <<step, callbacks, input, answered, pool, asked, serving, arrivals, emptied,
                   rawUse>>

-----------------------------------------------------------------------------
(* The work thread. *)

ServeBegin ==
    /\ Running /\ serving = Nobody
    /\ \E f \in edges :
        /\ serving' = [fd |-> f, pc |-> IF armed[f] = "in" THEN "recv" ELSE "send"]
        /\ edges' = edges \ {f}
    /\ UNCHANGED <<step, fdKind, callbacks, armed, input, answered, pool, asked, arrivals,
                   emptied, rawUse>>

Serve(pc, next) == serving.pc = pc /\ serving' = next
ServeOn(next) == [serving EXCEPT !.pc = next]

\* udp_recv_cb, rpcapi_recv_callback: one read, of one datagram; nothing to read
\* is an error, which the model leaves to Sockets.
ServeRecv ==
    LET f == serving.fd IN
    /\ serving.pc = "recv" /\ input[f] # <<>>
    /\ serving' = ServeOn(IF Head(input[f]) = "empty" THEN "del" ELSE "commit")
    /\ input' = [input EXCEPT ![f] = Tail(@)]
    /\ UNCHANGED <<step, fdKind, callbacks, armed, edges, answered, pool, asked, arrivals,
                   emptied, rawUse>>

\* A length of 0 ends a UDP server as it ends a connection: DEL, del_fd ...
ServeDel ==
    LET f == serving.fd IN
    /\ Serve("del", ServeOn("close"))
    /\ armed' = [armed EXCEPT ![f] = "none"] /\ edges' = edges \ {f}
    /\ UNCHANGED <<step, fdKind, callbacks, input, answered, pool, asked, arrivals, emptied,
                   rawUse>>

\* ... and the close by ~Socket; the callbacks stay in the entry.
ServeClose ==
    LET f == serving.fd IN
    /\ Serve("close", Nobody)
    /\ emptied' = IF callbacks[f] = "udp" THEN emptied \cup {f} ELSE emptied
    /\ fdKind' = [fdKind EXCEPT ![f] = "free"]
    /\ input' = [input EXCEPT ![f] = <<>>]
    /\ UNCHANGED <<step, callbacks, armed, edges, answered, pool, asked, arrivals, rawUse>>

\* asynreq_commit_udp: a pool that failed to start takes the request, and nobody answers.
ServeCommit ==
    /\ Serve("commit", Nobody)
    /\ asked' = IF pool = "ready" THEN asked \cup {Context(serving.fd, "reply")} ELSE asked
    /\ rawUse' = (rawUse \/ pool = "raw")
    /\ UNCHANGED <<step, tableVars, pool, arrivals, emptied>>

\* udp_send_cb, send_callback: nothing to send returns without re-arming; an
\* answer to a datagram goes to the address nobody set.
ServeSend ==
    LET f == serving.fd IN
    /\ Serve("send", Nobody)
    /\ IF f \in answered
       THEN answered' = answered \ {f} /\ Interest(f, "in")
       ELSE UNCHANGED <<answered, armed, edges>>
    /\ UNCHANGED <<step, fdKind, callbacks, input, pool, asked, arrivals, emptied, rawUse>>

\* The pool's thread: reqpool_parser_cb puts the answer into the entry ...
FrontAnswer ==
    \E f \in FrontFds :
        /\ Context(f, "reply") \in asked
        /\ asked' = (asked \ {Context(f, "reply")}) \cup {Context(f, "ctl")}
        /\ answered' = answered \cup {f}
        /\ UNCHANGED <<step, fdKind, callbacks, armed, edges, input, pool, serving, arrivals,
                       emptied, rawUse>>

\* ... and switches the number to output; epoll refuses one it does not have.
FrontAnswerCtl ==
    \E f \in FrontFds :
        /\ Context(f, "ctl") \in asked
        /\ asked' = asked \ {Context(f, "ctl")}
        /\ IF armed[f] # "none" THEN Interest(f, "out") ELSE UNCHANGED <<armed, edges>>
        /\ UNCHANGED <<step, fdKind, callbacks, input, answered, pool, serving, arrivals, emptied,
                       rawUse>>

FrontNext ==
    \/ StartThreads \/ StartPool \/ StartListener \/ StartUdp \/ StartUdpServes
    \/ Arrives \/ FrontAccepts
    \/ ServeBegin \/ ServeRecv \/ ServeDel \/ ServeClose \/ ServeCommit \/ ServeSend
    \/ FrontAnswer \/ FrontAnswerCtl

FrontSpec == FrontInit /\ [][FrontNext]_frontVars

-----------------------------------------------------------------------------
\* No request goes to a pool that was never made, though the threads that make
\* requests run before it is.
PoolBeforeRequests == ~rawUse

\* An event of the UDP server is handled by the UDP callbacks from the first one
\* on; and those only ever serve a TCP client whose number was the UDP server's
\* until an empty datagram ended it.
CallbacksFit ==
    \A f \in FrontFds :
        /\ armed[f] # "none" /\ fdKind[f] = "udp" => callbacks[f] = "udp"
        /\ fdKind[f] = "client" /\ callbacks[f] = "udp" => f \in emptied
=============================================================================
