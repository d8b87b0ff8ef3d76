------------------------------- MODULE RpcApi -------------------------------
(***************************************************************************)
(* The RPC front end of lsylar/src/sv_rpcapi.cc on the request pool of     *)
(* lsylar/src/reqpool.cc.  Three threads share fd_item_t.sbuffer and slen  *)
(* without a lock:                                                         *)
(*   - listen_loop accepts connections (detail in module Reactor);         *)
(*   - work_loop reads a request and commits it to the pool over a UDP     *)
(*     socket of its own, and writes what sbuffer holds when the           *)
(*     descriptor is writable;                                             *)
(*   - the pool's thread (asynreq_callback) receives each reply straight   *)
(*     into the sbuffer of the descriptor the request came from, appends   *)
(*     a suffix and switches that descriptor to output.                    *)
(* A pending request knows the descriptor by number only.                  *)
(*                                                                         *)
(* A client's byte stands for a request; whatever one recv() returns is    *)
(* forwarded as one request.  Lengths are counted in cells of 51 bytes:    *)
(* the suffix is one cell, sbuffer (512 bytes) is BufCells of them, and a  *)
(* reply is any number up to MaxReply.  Cells are tagged with the request  *)
(* they come from, which the program cannot see.  slen is read and written *)
(* where the code does, each access in a step of its own; an access to     *)
(* sbuffer that goes beyond its end stops the model.  A request's "lone"   *)
(* is history for the properties: no action looks at it.                   *)
(***************************************************************************)
EXTENDS EpollSocket, FiniteSetsExt

CONSTANTS
    Pipelining,     \* clients send a request before the last one is answered
    Leaving,        \* clients may leave while a request is pending
    MaxRequests,    \* bound: bytes all clients send together
    Lossy,          \* the upstream server or UDP may lose a request or reply
    BufCells,       \* cells of sbuffer; a connection's send buffer takes them all
    MaxReply        \* bound: cells of a reply

ASSUME RpcAssumption ==
    /\ MaxRequests \in Nat /\ Pipelining \in BOOLEAN /\ Leaving \in BOOLEAN /\ Lossy \in BOOLEAN
    /\ BufCells \in 1..SndCap /\ MaxReply \in Nat

VARIABLES
    lpc, lfd,           \* listen thread
    wpc, wfd, batch,    \* work thread
    wlen,               \* work thread: the length given to send(), then its result
    rpc, rcur, rbatch,  \* pool thread, request being handled, its batch
    rlen,               \* pool thread: length about to be stored in slen
    reqs,               \* every request committed, in order (the eparg_t)
    sbuf, slen,         \* fd_item_t.sbuffer and slen
    fault               \* why the program stopped, or "none"

listenVars == <<lpc, lfd>>
workVars == <<wpc, wfd, batch, wlen>>
poolVars == <<rpc, rcur, rbatch, rlen>>
bufVars == <<sbuf, slen>>
rpcVars == <<listenVars, workVars, poolVars, reqs, bufVars, fault>>
vars == <<netVars, rpcVars>>

Nul == <<"nul", 0>>

\* slen is a size_t: SOCKET_ERROR (-1) in it is its largest value, and adding
\* the suffix to that wraps around, to one cell less a byte.
Huge == -1
Wrapped(n) == IF n = Huge THEN 0 ELSE n

\* An access to the first n cells stays inside sbuffer.
Inside(n) == n \in 0..BufCells

Init ==
    /\ NetInit
    /\ lpc = "wait" /\ lfd \in Fds
    /\ wpc = "wait" /\ wfd = lfd /\ batch = {} /\ wlen = 0
    /\ rpc = "wait" /\ rcur = 0 /\ rbatch = {} /\ rlen = 0
    /\ reqs = <<>>
    /\ sbuf = [fd \in Fds |-> [i \in 1..BufCells |-> Nul]]
    /\ slen = [fd \in Fds |-> 0]
    /\ fault = "none"

Stop(why) ==
    /\ fault' = why
    /\ UNCHANGED <<netVars, listenVars, workVars, poolVars, reqs, bufVars>>

----------------------------------------------------------------------------
(* The listen thread. *)

Accept ==
    /\ lpc = "wait" /\ queued # <<>>
    /\ \E fd \in FreeFds :
        /\ fdConn' = [fdConn EXCEPT ![fd] = Head(queued)]
        /\ lfd' = fd
    /\ queued' = Tail(queued)
    /\ lpc' = "ctl"
    /\ UNCHANGED <<clientVars, sockVars, epollVars, workVars, poolVars, reqs, bufVars, fault>>

AcceptCtl ==
    /\ lpc = "ctl"
    /\ Register(lfd, "in")
    /\ lpc' = "wait"
    /\ UNCHANGED <<clientVars, queued, sockVars, fdConn, lfd, workVars, poolVars, reqs, bufVars, fault>>

----------------------------------------------------------------------------
(* The work thread: work_loop, rpcapi_recv_callback, send_callback. *)

LoopPc == IF batch = {} THEN "wait" ELSE "pick"

WorkWait ==
    /\ wpc = "wait"
    /\ batch' = {<<fd, interest[fd]>> : fd \in {f \in ready : HasEvent(f)}}
    /\ batch' # {}
    /\ ready' = {}
    /\ wpc' = "pick"
    /\ UNCHANGED <<clientVars, queued, sockVars, fdConn, interest, wfd, wlen,
                   listenVars, poolVars, reqs, bufVars, fault>>

\* Mutant: the loop handles the event again.
WorkPickAgain ==
    /\ wpc = "pick"
    /\ \E e \in batch :
        /\ wfd' = e[1]
        /\ wpc' = IF e[2] = "in" THEN "recv" ELSE "send"
    /\ UNCHANGED <<netVars, batch, wlen, listenVars, poolVars, reqs, bufVars, fault>>

WorkPick ==
    /\ wpc = "pick"
    /\ \E e \in batch :
        /\ wfd' = e[1]
        /\ wpc' = IF e[2] = "in" THEN "recv" ELSE "send"
        /\ batch' = batch \ {e}
    /\ UNCHANGED <<netVars, wlen, listenVars, poolVars, reqs, bufVars, fault>>

\* recv() had data: everything it returned becomes one request.
WorkRecv ==
    LET c == fdConn[wfd]
    IN  /\ wpc = "recv" /\ Avail(c) > 0
        /\ taken' = [taken EXCEPT ![c] = sent[c]]
        /\ wpc' = "commit"
        /\ UNCHANGED <<clientVars, queued, echo, eof, rst, fdConn, epollVars, wfd, batch, wlen,
                       listenVars, poolVars, reqs, bufVars, fault>>

OnFd(fd) == {r \in DOMAIN reqs : reqs[r].fd = fd}

\* The reply to r can still come, or the pool's thread is at work on it.
UnderWay(r) ==
    \/ reqs[r].st \in {"asked", "answered"}
    \/ rpc \in {"suffix", "add", "grow", "mod"} /\ rcur = r

\* No request of the number is under way, nor is an answer left to be sent.
Rested(fd) == slen[fd] = 0 /\ \A r \in OnFd(fd) : ~UnderWay(r)

\* asynreq_commit_udp: a new socket sends the request upstream, and only then
\* joins the pool's epoll set.  The descriptor stays registered for input.
WorkCommit ==
    /\ wpc = "commit"
    /\ reqs' = Append(reqs, [fd |-> wfd, who |-> fdConn[wfd],
                             reg |-> FALSE, st |-> "asked", lone |-> Rested(wfd)])
    /\ wpc' = "register"
    /\ UNCHANGED <<netVars, wfd, batch, wlen, listenVars, poolVars, bufVars, fault>>

WorkRegister ==
    /\ wpc = "register"
    /\ reqs' = [reqs EXCEPT ![Len(reqs)].reg = TRUE]
    /\ wpc' = LoopPc
    /\ UNCHANGED <<netVars, wfd, batch, wlen, listenVars, poolVars, bufVars, fault>>

WorkRecvEof ==
    LET c == fdConn[wfd]
    IN  /\ wpc = "recv" /\ Avail(c) = 0
        /\ eof[c] \/ rst[c] = "done"
        /\ wpc' = "del"
        /\ UNCHANGED <<netVars, wfd, batch, wlen, listenVars, poolVars, reqs, bufVars, fault>>

WorkRecvFault ==
    LET c == fdConn[wfd]
    IN  /\ wpc = "recv" /\ Avail(c) = 0
        /\ ~eof[c] /\ rst[c] = "pending"
        /\ Stop("recv")

WorkDel ==
    /\ wpc = "del"
    /\ Deregister(wfd)
    /\ wpc' = "close"
    /\ UNCHANGED <<clientVars, queued, sockVars, fdConn, wfd, batch, wlen,
                   listenVars, poolVars, reqs, bufVars, fault>>

\* del_fd keeps slen and sbuffer, and the pending requests keep the number.
WorkClose ==
    /\ wpc = "close"
    /\ fdConn' = [fdConn EXCEPT ![wfd] = NoConn]
    /\ Deregister(wfd)
    /\ wpc' = LoopPc
    /\ UNCHANGED <<clientVars, queued, sockVars, wfd, batch, wlen,
                   listenVars, poolVars, reqs, bufVars, fault>>

\* slen = 0: send_callback returns -2 and leaves the interest on output.
WorkSendNothing ==
    /\ wpc = "send" /\ slen[wfd] = 0
    /\ wpc' = LoopPc
    /\ UNCHANGED <<netVars, wfd, batch, wlen, listenVars, poolVars, reqs, bufVars, fault>>

WorkSendBegin ==
    /\ wpc = "send" /\ slen[wfd] # 0
    /\ wpc' = "load"
    /\ UNCHANGED <<netVars, wfd, batch, wlen, listenVars, poolVars, reqs, bufVars, fault>>

\* Socket::send is given slen by reference, and reads it again.
WorkLoad ==
    /\ wpc = "load"
    /\ wlen' = slen[wfd]
    /\ wpc' = "write"
    /\ UNCHANGED <<netVars, wfd, batch, listenVars, poolVars, reqs, bufVars, fault>>

WorkSend ==
    LET c == fdConn[wfd]
    IN  /\ wpc = "write" /\ Inside(wlen)
        /\ rst[c] = "no" /\ Unread(c) + wlen <= SndCap
        /\ echo' = [echo EXCEPT ![c] = @ \o SubSeq(sbuf[wfd], 1, wlen)]
        /\ wpc' = "result"
        /\ UNCHANGED <<clientVars, queued, taken, eof, rst, fdConn, epollVars, wfd, batch, wlen,
                       listenVars, poolVars, reqs, bufVars, fault>>

WorkSendReset ==
    LET c == fdConn[wfd]
    IN  /\ wpc = "write"
        /\ rst[c] = "pending" /\ ~eof[c]
        /\ rst' = [rst EXCEPT ![c] = "done"]
        /\ wlen' = Huge
        /\ wpc' = "result"
        /\ UNCHANGED <<clientVars, queued, taken, echo, eof, fdConn, epollVars, wfd, batch,
                       listenVars, poolVars, reqs, bufVars, fault>>

WorkSendFault ==
    LET c == fdConn[wfd]
    IN  /\ wpc = "write"
        /\ rst[c] = "done" \/ (rst[c] = "pending" /\ eof[c])
        /\ Stop("pipe")

\* send() reads on behind sbuffer.
WorkSendPast ==
    /\ wpc = "write" /\ ~Inside(wlen)
    /\ Stop("past")

\* What send() returned goes into slen, whatever the pool has put there.
WorkResult ==
    /\ wpc = "result"
    /\ slen' = [slen EXCEPT ![wfd] = wlen]
    /\ wlen' = 0
    /\ wpc' = "check"
    /\ UNCHANGED <<netVars, wfd, batch, listenVars, poolVars, reqs, sbuf, fault>>

\* slen <= 0, which only 0 is: the connection is closed, as after a FIN.
WorkCheck ==
    /\ wpc = "check"
    /\ wpc' = IF slen[wfd] = 0 THEN "del" ELSE "sent"
    /\ UNCHANGED <<netVars, wfd, batch, wlen, listenVars, poolVars, reqs, bufVars, fault>>

\* Mutant: slen is not reset after the send.
WorkSentKeeps ==
    /\ wpc = "sent"
    /\ wpc' = "rearm"
    /\ UNCHANGED <<netVars, wfd, batch, wlen, listenVars, poolVars, reqs, bufVars, fault>>

WorkSent ==
    /\ wpc = "sent"
    /\ slen' = [slen EXCEPT ![wfd] = 0]
    /\ wpc' = "rearm"
    /\ UNCHANGED <<netVars, wfd, batch, wlen, listenVars, poolVars, reqs, sbuf, fault>>

\* Mutant: the interest is not switched back to input.
WorkRearmForgets ==
    /\ wpc = "rearm"
    /\ wpc' = LoopPc
    /\ UNCHANGED <<netVars, wfd, batch, wlen, listenVars, poolVars, reqs, bufVars, fault>>

WorkRearm ==
    /\ wpc = "rearm"
    /\ Register(wfd, "in")
    /\ wpc' = LoopPc
    /\ UNCHANGED <<clientVars, queued, sockVars, fdConn, wfd, batch, wlen,
                   listenVars, poolVars, reqs, bufVars, fault>>

----------------------------------------------------------------------------
(* The pool's thread: asynreq_callback and reqpool_parser_cb. *)

\* Mutant: the target is kept in one shared context the last commit overwrites.
TargetShared == reqs[Len(reqs)].fd

\* The descriptor the reply being handled is for, as the request recorded it.
Target == reqs[rcur].fd

PoolLoopPc == IF rbatch = {} THEN "wait" ELSE "pick"

PoolWait ==
    /\ rpc = "wait"
    /\ rbatch' = {r \in DOMAIN reqs : reqs[r].reg /\ reqs[r].st = "answered"}
    /\ rbatch' # {}
    /\ rpc' = "pick"
    /\ UNCHANGED <<netVars, listenVars, workVars, rcur, rlen, reqs, bufVars, fault>>

\* Every one of the first n cells of fd's sbuffer becomes x.
Fill(fd, n, x) ==
    sbuf' = [sbuf EXCEPT ![fd] = [i \in 1..BufCells |-> IF i <= n THEN x ELSE @[i]]]

\* memset clears the first slen bytes of the descriptor's sbuffer ...
PoolPick ==
    /\ rpc = "pick"
    /\ \E r \in rbatch :
        /\ rcur' = r
        /\ rbatch' = rbatch \ {r}
        /\ Inside(slen[reqs[r].fd])
        /\ Fill(reqs[r].fd, slen[reqs[r].fd], Nul)
    /\ rpc' = "clear"
    /\ UNCHANGED <<netVars, listenVars, workVars, rlen, reqs, slen, fault>>

\* ... and UdpSocketApi::recv does it once more.
PoolClear ==
    /\ rpc = "clear" /\ Inside(slen[Target])
    /\ Fill(Target, slen[Target], Nul)
    /\ rpc' = "recv"
    /\ UNCHANGED <<netVars, listenVars, workVars, rcur, rbatch, rlen, reqs, slen, fault>>

\* recvfrom() is given slen as the room there is, and cuts a reply of n cells.
Received(n) == IF slen[Target] = Huge \/ n <= slen[Target] THEN n ELSE slen[Target]

PoolRecv ==
    /\ rpc = "recv"
    /\ \E n \in 0..MaxReply : rlen' = Received(n)
    /\ Inside(rlen')
    /\ Fill(Target, rlen', <<"ans", rcur>>)
    /\ rpc' = "store"
    /\ UNCHANGED <<netVars, listenVars, workVars, rcur, rbatch, reqs, slen, fault>>

\* slen takes recvfrom's result; the request leaves the pool's epoll set.
PoolStore ==
    /\ rpc = "store"
    /\ slen' = [slen EXCEPT ![Target] = rlen]
    /\ reqs' = [reqs EXCEPT ![rcur].reg = FALSE, ![rcur].st = "done"]
    /\ rpc' = "suffix"
    /\ UNCHANGED <<netVars, listenVars, workVars, rcur, rbatch, rlen, sbuf, fault>>

\* reqpool_parser_cb: the suffix goes behind the first slen bytes ...
PoolSuffix ==
    LET at == Wrapped(slen[Target]) + 1
    IN  /\ rpc = "suffix" /\ Inside(at)
        /\ sbuf' = [sbuf EXCEPT ![Target][at] = <<"sfx", rcur>>]
        /\ rpc' = "add"
        /\ UNCHANGED <<netVars, listenVars, workVars, rcur, rbatch, rlen, reqs, slen, fault>>

\* ... and its length is added to what slen is by then ...
PoolAdd ==
    /\ rpc = "add"
    /\ rlen' = Wrapped(slen[Target]) + 1
    /\ rpc' = "grow"
    /\ UNCHANGED <<netVars, listenVars, workVars, rcur, rbatch, reqs, bufVars, fault>>

\* ... and stored.
PoolGrow ==
    /\ rpc = "grow"
    /\ slen' = [slen EXCEPT ![Target] = rlen]
    /\ rpc' = "mod"
    /\ UNCHANGED <<netVars, listenVars, workVars, rcur, rbatch, rlen, reqs, sbuf, fault>>

\* epoll_ctl MOD on the number: refused if it is not registered, else it
\* applies to whatever connection has the number now.
PoolMod ==
    /\ rpc = "mod"
    /\ IF interest[Target] = "none"
       THEN UNCHANGED epollVars
       ELSE Register(Target, "out")
    /\ rpc' = PoolLoopPc
    /\ UNCHANGED <<clientVars, queued, sockVars, fdConn, listenVars, workVars,
                   rcur, rbatch, rlen, reqs, bufVars, fault>>

\* An access of the pool's thread goes beyond the end of sbuffer: nothing
\* compares the lengths with SR_BUFFER_LEN.
PoolPast ==
    /\ \/ rpc = "pick" /\ \E r \in rbatch : ~Inside(slen[reqs[r].fd])
       \/ rpc = "clear" /\ ~Inside(slen[Target])
       \/ rpc = "recv" /\ \E n \in 0..MaxReply : ~Inside(Received(n))
       \/ rpc = "suffix" /\ ~Inside(Wrapped(slen[Target]) + 1)
    /\ Stop("past")

----------------------------------------------------------------------------
(* The upstream server, the clients. *)

Upstream ==
    /\ \E r \in DOMAIN reqs :
        /\ reqs[r].st = "asked"
        /\ \/ reqs' = [reqs EXCEPT ![r].st = "answered"]
           \/ Lossy /\ reqs' = [reqs EXCEPT ![r].st = "lost"]
    /\ UNCHANGED <<netVars, listenVars, workVars, poolVars, bufVars, fault>>

\* The client has had, and read, an answer to everything it asked.
Settled(c) == Len(echo[c]) >= sent[c] /\ Unread(c) = 0

ClientStep(c) ==
    /\ \/ Connect(c) \/ ClientRead(c) \/ PeerReset(c)
       \/ /\ ClientSend(c)
          /\ Pipelining \/ Settled(c)
          /\ MapThenSumSet(LAMBDA d : sent[d], Clients) < MaxRequests
       \/ (ClientShutdown(c) \/ ClientClose(c)) /\ (Leaving \/ Settled(c))
    /\ UNCHANGED rpcVars

ListenThread == Accept \/ AcceptCtl
WorkThread ==
    \/ WorkWait \/ WorkPick \/ WorkRecv \/ WorkCommit \/ WorkRegister
    \/ WorkRecvEof \/ WorkRecvFault \/ WorkDel \/ WorkClose
    \/ WorkSendNothing \/ WorkSendBegin \/ WorkLoad
    \/ WorkSend \/ WorkSendReset \/ WorkSendFault \/ WorkSendPast
    \/ WorkResult \/ WorkCheck \/ WorkSent \/ WorkRearm
PoolThread ==
    \/ PoolWait \/ PoolPick \/ PoolClear \/ PoolRecv \/ PoolStore
    \/ PoolSuffix \/ PoolAdd \/ PoolGrow \/ PoolMod \/ PoolPast

Next ==
    /\ fault = "none"
    /\ \/ ListenThread \/ WorkThread \/ PoolThread \/ Upstream
       \/ \E c \in Clients : ClientStep(c)

Spec == Init /\ [][Next]_vars

Reads(c) ==
    fault = "none" /\ (ClientRead(c) \/ PeerReset(c)) /\ UNCHANGED rpcVars
FairSpec ==
    /\ Spec
    /\ WF_vars(fault = "none" /\ ListenThread)
    /\ WF_vars(fault = "none" /\ WorkThread)
    /\ WF_vars(fault = "none" /\ PoolThread)
    /\ WF_vars(fault = "none" /\ Upstream)
    /\ \A c \in Clients : WF_vars(Reads(c))

----------------------------------------------------------------------------
(* Properties. *)

Serving == wpc \notin {"wait", "pick"}
Finished(c) ==
    /\ cl[c] # "new"
    /\ \A i \in 1..Len(queued) : queued[i] # c
    /\ \A fd \in Fds : fdConn[fd] # c
Cells(c) == {echo[c][i] : i \in 1..Len(echo[c])} \ {Nul}

(* A reply can reach a client that did not ask for it, because a pending    *)
(* request knows its descriptor by number; but only when the asker's        *)
(* connection was closed while its request was pending.  Whatever the three *)
(* threads interleave, two open connections never get each other's replies. *)
MisdeliveryNeedsReuse ==
    \A c \in Clients : \A cell \in Cells(c) :
        reqs[cell[2]].who = c \/ Finished(reqs[cell[2]].who)

\* The requests of the connection that has fd now; a number's requests may
\* also be a former owner's.
Own(fd) == {r \in OnFd(fd) : reqs[r].who = fdConn[fd]}
Unanswered(r) == UnderWay(r) \/ reqs[r].st = "lost"

\* A request was committed for the number on top of another one.
Overlapped(fd) == \E r \in OnFd(fd) : ~reqs[r].lone

\* fd has an event and nobody is going to hear of it.
Deaf(fd) ==
    /\ interest[fd] # "none" /\ HasEvent(fd)
    /\ fd \notin ready
    /\ \A k \in {"in", "out"} : <<fd, k>> \notin batch
    /\ ~(Serving /\ wfd = fd)

(* A connection is neglected for two reasons only: a reply of its own that  *)
(* has not come, or a request committed for its number while another one    *)
(* was under way there or an answer was left in the buffer.                 *)
(* Deaf on input, it waits for the reply to a request it sent itself: only  *)
(* that re-arms it, and a FIN behind the request made no second edge.  Deaf *)
(* on output, its slen was emptied between the pool's growing it and the    *)
(* epoll_ctl.  It is closed under a client that has not hung up when slen   *)
(* is emptied while it is being sent, and sbuffer is left behind when       *)
(* answers pile up in it or the pool meets the -1 of a send that failed.    *)
NeglectNeedsLossOrOverlap ==
    /\ fault = "none" =>
        \A fd \in Fds : Deaf(fd) =>
            \/ \E r \in Own(fd) : Unanswered(r)
            \/ interest[fd] = "out" /\ Overlapped(fd)
    /\ wpc \in {"del", "close"} =>
        eof[fdConn[wfd]] \/ rst[fdConn[wfd]] = "done" \/ Overlapped(wfd)
    /\ fault = "past" => \E fd \in Fds : Overlapped(fd)

(* Only open descriptors are registered or reported: the late epoll_ctl MOD *)
(* of reqpool_parser_cb never registers a number that is closed.            *)
EventsAreLive ==
    /\ \A fd \in Fds : interest[fd] # "none" => fdConn[fd] # NoConn
    /\ \A e \in batch : fdConn[e[1]] # NoConn

(* A client that calls one at a time gets its own answers and no other, and *)
(* each answer ends with the suffix of its own request.                     *)
AnswersAreOwn ==
    \A c \in Clients : \A i \in 1..Len(echo[c]) :
        /\ echo[c][i][1] = "sfx"
        /\ reqs[echo[c][i][2]].who = c
        /\ \A j \in 1..Len(echo[c]) : echo[c][j] = echo[c][i] => i = j

(* reqpool_parser_cb gets the reply of the upstream server to work on.      *)
ReplyReachesParser ==
    rpc = "suffix" => sbuf[Target][1] = <<"ans", rcur>>

Service == INSTANCE RpcService
    WITH Callers <- Clients, MaxCalls <- MaxBytes,
         calls <- sent, answers <- [c \in Clients |-> Len(echo[c])]

(* One call at a time, and nothing lost: the three threads implement the    *)
(* abstract service, and answer every call in the end.                      *)
ImplementsService == Service!Spec
=============================================================================
