------------------------------ MODULE Reactor ------------------------------
(***************************************************************************)
(* The echo reactor of lsylar/src/servers.cc as test/test_servers.cc runs  *)
(* it: one thread in listen_loop, one in work_loop, sharing the reactor_t  *)
(* without a lock.                                                         *)
(*                                                                         *)
(* listen_loop accepts a connection, adds it to work_epfd, and only then   *)
(* enters it in the descriptor table (add_fd).  work_loop takes a batch of *)
(* events and runs recv_callback or send_callback for each.  A step of the *)
(* model is one system call or one access to the shared table; nfd++ and   *)
(* nfd-- are a load and a store, as the field is a plain size_t.           *)
(*                                                                         *)
(* Where the C++ program leaves defined behaviour or is killed, fault      *)
(* records how and the model stops: nothing that follows is meaningful.    *)
(***************************************************************************)
EXTENDS EpollSocket

CONSTANTS
    BufLen,     \* SR_BUFFER_LEN
    BlockSize,  \* FD_ITEM_BLOCK_SIZE
    NfdMod,     \* 2^64: nfd is a size_t
    Interrupts  \* whether epoll_wait may fail (EINTR)

ASSUME BufLenAssumption == BufLen \in Nat \ {0} /\ BufLen <= SndCap
ASSUME BlockAssumption == BlockSize \in Nat \ {0} /\ NfdMod \in Nat \ {0}
ASSUME InterruptsAssumption == Interrupts \in BOOLEAN

VARIABLES
    lpc, lfd, lreg,     \* listen thread: next step, accepted fd, loaded nfd
    wpc, wfd, wreg,     \* work thread: next step, fd being served, loaded nfd
    batch,              \* events epoll_wait returned and not yet handled
    used,               \* items[fd].fd # 0
    sbuf,               \* the first slen bytes of items[fd].sbuffer
    nblocks,            \* fd_item_blocks.size()
    nfd,                \* reactor_t.nfd
    fault               \* why the program stopped, or "none"

listenVars == <<lpc, lfd, lreg>>
workVars == <<wpc, wfd, wreg, batch>>
tableVars == <<used, sbuf, nblocks, nfd>>
reactorVars == <<listenVars, workVars, tableVars, fault>>
vars == <<netVars, reactorVars>>

\* Byte <<c, i>> is the i-th byte client c sends, so a byte that reaches the
\* wrong client, or the right one at the wrong place, is told apart.
Byte == Clients \X Nat

TypeOK ==
    /\ NetTypeOK
    /\ echo \in [Clients -> Seq(Byte)]
    /\ lpc \in {"wait", "ctl", "grow", "mark", "load", "store", "exit"}
    /\ lfd \in Fds
    /\ lreg \in 0..NfdMod-1
    /\ wpc \in {"wait", "pick", "recv", "arm", "del", "clear", "load", "store",
                "close", "send", "sent", "rearm", "exit"}
    /\ wfd \in Fds
    /\ wreg \in 0..NfdMod-1
    /\ batch \in SUBSET (Fds \X {"in", "out"})
    /\ used \in [Fds -> BOOLEAN]
    /\ sbuf \in [Fds -> Seq(Byte)]
    /\ nblocks \in Nat \ {0}
    /\ nfd \in 0..NfdMod-1
    /\ fault \in {"none", "recv", "pipe", "block", "wild"}

\* Blocks as alloc_fd_item_block makes them: no descriptor, nothing to send.
FreshTable == used = [fd \in Fds |-> FALSE] /\ sbuf = [fd \in Fds |-> <<>>]

\* init_reactor allocates block 0; reactor_add_listener counts its socket.
Init ==
    /\ NetInit
    /\ lpc = "wait" /\ lfd \in Fds /\ lreg = 0
    /\ wpc = "wait" /\ wfd = lfd /\ wreg = 0
    /\ batch = {}
    /\ FreshTable
    /\ nblocks = 1
    /\ nfd = 1 % NfdMod
    /\ fault = "none"

Block(fd) == fd \div BlockSize

Stop(why) ==
    /\ fault' = why
    /\ UNCHANGED <<netVars, listenVars, workVars, tableVars>>

----------------------------------------------------------------------------
(* The listen thread: listen_loop, accept_callback, add_fd. *)

\* The listening socket is level-triggered: it is reported as long as a
\* connection is queued.
Accept ==
    /\ lpc = "wait" /\ queued # <<>>
    /\ \E fd \in FreeFds :
        /\ fdConn' = [fdConn EXCEPT ![fd] = Head(queued)]
        /\ lfd' = fd
    /\ queued' = Tail(queued)
    /\ lpc' = "ctl"
    /\ UNCHANGED <<clientVars, sockVars, epollVars, lreg, workVars, tableVars, fault>>

\* accept() has no descriptor left and returns -1, which the test client == 0
\* does not catch: epoll_ctl refuses -1 and add_fd(-1) writes items[-1].
AcceptFails ==
    /\ lpc = "wait" /\ queued # <<>> /\ FreeFds = {}
    /\ Stop("wild")

AcceptCtl ==
    /\ lpc = "ctl"
    /\ Register(lfd, "in")
    /\ lpc' = "grow"
    /\ UNCHANGED <<clientVars, queued, sockVars, fdConn, lfd, lreg, workVars, tableVars, fault>>

\* add_fd: push_back one block after the other until fd has one.
AddFdGrow ==
    /\ lpc = "grow"
    /\ IF nblocks <= Block(lfd)
       THEN nblocks' = nblocks + 1 /\ UNCHANGED lpc
       ELSE lpc' = "mark" /\ UNCHANGED nblocks
    /\ UNCHANGED <<netVars, lfd, lreg, workVars, used, sbuf, nfd, fault>>

AddFdMark ==
    /\ lpc = "mark"
    /\ used' = [used EXCEPT ![lfd] = TRUE]
    /\ lpc' = "load"
    /\ UNCHANGED <<netVars, lfd, lreg, workVars, sbuf, nblocks, nfd, fault>>

AddFdLoad ==
    /\ lpc = "load"
    /\ lreg' = nfd
    /\ lpc' = "store"
    /\ UNCHANGED <<netVars, lfd, workVars, tableVars, fault>>

AddFdStore ==
    /\ lpc = "store"
    /\ nfd' = (lreg + 1) % NfdMod
    /\ lpc' = "wait"
    /\ UNCHANGED <<netVars, lfd, lreg, workVars, used, sbuf, nblocks, fault>>

\* epoll_wait returned -1: listen_loop returns, and nobody accepts any more.
ListenExit ==
    /\ Interrupts /\ lpc = "wait"
    /\ lpc' = "exit"
    /\ UNCHANGED <<netVars, lfd, lreg, workVars, tableVars, fault>>

----------------------------------------------------------------------------
(* The work thread: work_loop, recv_callback, send_callback, del_fd. *)

\* Where the for loop over the batch goes after a callback.
LoopPc == IF batch = {} THEN "wait" ELSE "pick"

WorkWait ==
    /\ wpc = "wait"
    /\ batch' = {<<fd, interest[fd]>> : fd \in {f \in ready : HasEvent(f)}}
    /\ batch' # {}
    /\ ready' = {}
    /\ wpc' = "pick"
    /\ UNCHANGED <<clientVars, queued, sockVars, fdConn, interest, wfd, wreg,
                   listenVars, tableVars, fault>>

\* Mutant: the loop handles the event again.
WorkPickAgain ==
    /\ wpc = "pick"
    /\ \E e \in batch :
        /\ Block(e[1]) < nblocks
        /\ wfd' = e[1]
        /\ wpc' = IF e[2] = "in" THEN "recv" ELSE "send"
    /\ UNCHANGED <<netVars, wreg, batch, listenVars, tableVars, fault>>

\* get_fd_item finds the block in the vector.
WorkPick ==
    /\ wpc = "pick"
    /\ \E e \in batch :
        /\ Block(e[1]) < nblocks
        /\ wfd' = e[1]
        /\ wpc' = IF e[2] = "in" THEN "recv" ELSE "send"
        /\ batch' = batch \ {e}
    /\ UNCHANGED <<netVars, wreg, listenVars, tableVars, fault>>

\* get_fd_item indexes the vector although it just found the block missing, or
\* while add_fd's push_back is moving the vector.
WorkPickFault ==
    /\ wpc = "pick"
    /\ \/ \E e \in batch : Block(e[1]) >= nblocks
       \/ lpc = "grow" /\ nblocks <= Block(lfd)
    /\ Stop("block")

\* Mutant: every read starts again at the first byte.
RecvBytesFirst(c) ==
    LET n == IF Avail(c) < BufLen THEN Avail(c) ELSE BufLen
    IN  [i \in 1..n |-> <<c, i>>]

\* What recv() returns next: up to BufLen bytes, in order.
RecvBytes(c) ==
    LET n == IF Avail(c) < BufLen THEN Avail(c) ELSE BufLen
    IN  [i \in 1..n |-> <<c, taken[c] + i>>]

\* recv() had data: recv_callback copies it to sbuffer and sets slen.
WorkRecv ==
    LET c == fdConn[wfd]
        bytes == RecvBytes(c)
    IN  /\ wpc = "recv" /\ Avail(c) > 0
        /\ taken' = [taken EXCEPT ![c] = @ + Len(bytes)]
        /\ sbuf' = [sbuf EXCEPT ![wfd] = bytes]
        /\ wpc' = "arm"
        /\ UNCHANGED <<clientVars, queued, echo, eof, rst, fdConn, epollVars, wfd, wreg, batch,
                       listenVars, used, nblocks, nfd, fault>>

\* Mutant: the FIN is acted on before the data in front of it.
WorkRecvEofFirst ==
    LET c == fdConn[wfd]
    IN  /\ wpc = "recv"
        /\ eof[c] \/ rst[c] = "done"
        /\ wpc' = "del"
        /\ UNCHANGED <<netVars, wfd, wreg, batch, listenVars, tableVars, fault>>

\* recv() returned 0: the teardown starts.
WorkRecvEof ==
    LET c == fdConn[wfd]
    IN  /\ wpc = "recv" /\ Avail(c) = 0
        /\ eof[c] \/ rst[c] = "done"
        /\ wpc' = "del"
        /\ UNCHANGED <<netVars, wfd, wreg, batch, listenVars, tableVars, fault>>

\* Mutant: Socket::recv takes the end of the stream for an error.
WorkRecvFaultOnEof ==
    LET c == fdConn[wfd]
    IN  /\ wpc = "recv" /\ Avail(c) = 0
        /\ eof[c] \/ rst[c] = "pending"
        /\ Stop("recv")

\* recv() reported the reset: Socket::recv's error handler reconnects to a
\* remote address that was never set, a call through a null pointer.
WorkRecvFault ==
    LET c == fdConn[wfd]
    IN  /\ wpc = "recv" /\ Avail(c) = 0
        /\ ~eof[c] /\ rst[c] = "pending"
        /\ Stop("recv")

\* Mutant: the descriptor stays on input.
WorkArmInput ==
    /\ wpc = "arm"
    /\ Register(wfd, "in")
    /\ wpc' = LoopPc
    /\ UNCHANGED <<clientVars, queued, sockVars, fdConn, wfd, wreg, batch,
                   listenVars, tableVars, fault>>

\* The echo waits in sbuffer for the descriptor to become writable.
WorkArm ==
    /\ wpc = "arm"
    /\ Register(wfd, "out")
    /\ wpc' = LoopPc
    /\ UNCHANGED <<clientVars, queued, sockVars, fdConn, wfd, wreg, batch,
                   listenVars, tableVars, fault>>

\* Mutant: the descriptor is closed before its entry is deleted.
WorkDelCloses ==
    /\ wpc = "del"
    /\ Deregister(wfd)
    /\ fdConn' = [fdConn EXCEPT ![wfd] = NoConn]
    /\ wpc' = "clear"
    /\ UNCHANGED <<clientVars, queued, sockVars, wfd, wreg, batch,
                   listenVars, tableVars, fault>>

WorkDel ==
    /\ wpc = "del"
    /\ Deregister(wfd)
    /\ wpc' = "clear"
    /\ UNCHANGED <<clientVars, queued, sockVars, fdConn, wfd, wreg, batch,
                   listenVars, tableVars, fault>>

\* del_fd leaves slen and the buffers as they are.
DelFdClear ==
    /\ wpc = "clear"
    /\ used' = [used EXCEPT ![wfd] = FALSE]
    /\ wpc' = "load"
    /\ UNCHANGED <<netVars, wfd, wreg, batch, listenVars, sbuf, nblocks, nfd, fault>>

DelFdLoad ==
    /\ wpc = "load"
    /\ wreg' = nfd
    /\ wpc' = "store"
    /\ UNCHANGED <<netVars, wfd, batch, listenVars, tableVars, fault>>

\* Mutant: the counter is signed.
DelFdStoreSigned ==
    /\ wpc = "store"
    /\ nfd' = wreg - 1
    /\ wpc' = "close"
    /\ UNCHANGED <<netVars, wfd, wreg, batch, listenVars, used, sbuf, nblocks, fault>>

DelFdStore ==
    /\ wpc = "store"
    /\ nfd' = (wreg - 1) % NfdMod
    /\ wpc' = "close"
    /\ UNCHANGED <<netVars, wfd, wreg, batch, listenVars, used, sbuf, nblocks, fault>>

\* Mutant: set_sockfd(0) is called on this path too, and nobody closes.
WorkCloseKeeps ==
    /\ wpc = "close"
    /\ wpc' = LoopPc
    /\ UNCHANGED <<netVars, wfd, wreg, batch, listenVars, tableVars, fault>>

\* recv_callback returns and ~Socket closes the descriptor, after del_fd.
WorkClose ==
    /\ wpc = "close"
    /\ fdConn' = [fdConn EXCEPT ![wfd] = NoConn]
    /\ Deregister(wfd)
    /\ wpc' = LoopPc
    /\ UNCHANGED <<clientVars, queued, sockVars, wfd, wreg, batch,
                   listenVars, tableVars, fault>>

\* The socket is blocking: send() waits until all of slen fits.  With slen = 0
\* send_callback returns at once and the interest stays on output.
WorkSend ==
    LET c == fdConn[wfd]
    IN  /\ wpc = "send"
        /\ sbuf[wfd] # <<>> => rst[c] = "no" /\ Unread(c) + Len(sbuf[wfd]) <= SndCap
        /\ echo' = [echo EXCEPT ![c] = @ \o sbuf[wfd]]
        /\ wpc' = IF sbuf[wfd] = <<>> THEN LoopPc ELSE "sent"
        /\ UNCHANGED <<clientVars, queued, taken, eof, rst, fdConn, epollVars, wfd, wreg, batch,
                       listenVars, tableVars, fault>>

\* send() reports the reset once: slen becomes SIZE_MAX, which passes for
\* success, and the bytes are dropped.
WorkSendReset ==
    LET c == fdConn[wfd]
    IN  /\ wpc = "send" /\ sbuf[wfd] # <<>>
        /\ rst[c] = "pending" /\ ~eof[c]
        /\ rst' = [rst EXCEPT ![c] = "done"]
        /\ wpc' = "sent"
        /\ UNCHANGED <<clientVars, queued, taken, echo, eof, fdConn, epollVars, wfd, wreg, batch,
                       listenVars, tableVars, fault>>

\* A send() on a connection that is over raises SIGPIPE, which nothing handles.
WorkSendFault ==
    LET c == fdConn[wfd]
    IN  /\ wpc = "send" /\ sbuf[wfd] # <<>>
        /\ rst[c] = "done" \/ (rst[c] = "pending" /\ eof[c])
        /\ Stop("pipe")

WorkSent ==
    /\ wpc = "sent"
    /\ sbuf' = [sbuf EXCEPT ![wfd] = <<>>]
    /\ wpc' = "rearm"
    /\ UNCHANGED <<netVars, wfd, wreg, batch, listenVars, used, nblocks, nfd, fault>>

\* Mutant: the interest is not switched back to input.
WorkRearmForgets ==
    /\ wpc = "rearm"
    /\ wpc' = LoopPc
    /\ UNCHANGED <<netVars, wfd, wreg, batch, listenVars, tableVars, fault>>

WorkRearm ==
    /\ wpc = "rearm"
    /\ Register(wfd, "in")
    /\ wpc' = LoopPc
    /\ UNCHANGED <<clientVars, queued, sockVars, fdConn, wfd, wreg, batch,
                   listenVars, tableVars, fault>>

WorkExit ==
    /\ Interrupts /\ wpc = "wait"
    /\ wpc' = "exit"
    /\ UNCHANGED <<netVars, wfd, wreg, batch, listenVars, tableVars, fault>>

----------------------------------------------------------------------------

ListenThread ==
    \/ Accept \/ AcceptFails \/ AcceptCtl
    \/ AddFdGrow \/ AddFdMark \/ AddFdLoad \/ AddFdStore \/ ListenExit

WorkThread ==
    \/ WorkWait \/ WorkPick \/ WorkPickFault
    \/ WorkRecv \/ WorkRecvEof \/ WorkRecvFault \/ WorkArm
    \/ WorkDel \/ DelFdClear \/ DelFdLoad \/ DelFdStore \/ WorkClose
    \/ WorkSend \/ WorkSendReset \/ WorkSendFault
    \/ WorkSent \/ WorkRearm \/ WorkExit

ClientStep == NetStep /\ UNCHANGED reactorVars

Next ==
    /\ fault = "none"
    /\ ListenThread \/ WorkThread \/ ClientStep

Spec == Init /\ [][Next]_vars

(* The two threads run for ever, a client that has something to read reads  *)
(* it, and a reset in flight arrives.                                       *)
Reads(c) ==
    fault = "none" /\ (ClientRead(c) \/ PeerReset(c)) /\ UNCHANGED reactorVars
Fairness ==
    /\ WF_vars(fault = "none" /\ ListenThread)
    /\ WF_vars(fault = "none" /\ WorkThread)
    /\ \A c \in Clients : WF_vars(Reads(c))

FairSpec == Spec /\ Fairness

----------------------------------------------------------------------------
(* Properties. *)

\* Where the work thread is taking a connection down, and where it serves one.
TearingDown == wpc \in {"del", "clear", "load", "store", "close"}
Serving == wpc \notin {"wait", "pick", "exit"}
Registering == lpc \in {"ctl", "grow", "mark", "load", "store"}

\* Accepted at some time, and its descriptor closed since.
Finished(c) ==
    /\ cl[c] # "new"
    /\ \A i \in 1..Len(queued) : queued[i] # c
    /\ \A fd \in Fds : fdConn[fd] # c

(* What the server writes to a connection is what that client sent, in      *)
(* order and nothing else: no byte of another client, none twice, none out  *)
(* of place, across any reuse of descriptors (recv_callback/send_callback). *)
EchoInOrder ==
    \A c \in Clients : \A i \in 1..Len(echo[c]) : echo[c][i] = <<c, i>>

(* The server closes a connection it has not been reset on only when every  *)
(* byte of it has been echoed: recv_callback may not drop data that arrived *)
(* with the FIN.                                                            *)
NothingDropped ==
    \A c \in Clients :
        Finished(c) /\ rst[c] = "no" => Len(echo[c]) = sent[c]

(* Edge-triggered epoll loses no edge: a registered descriptor whose        *)
(* condition holds is on the ready list or in the batch being handled, or   *)
(* the work thread is inside its callback and will re-arm it.               *)
NoLostEdge ==
    fault = "none" =>
        \A fd \in Fds :
            interest[fd] # "none" /\ HasEvent(fd) =>
                \/ fd \in ready
                \/ <<fd, interest[fd]>> \in batch
                \/ Serving /\ wfd = fd

(* recv_callback tears down the connection whose end it saw: from the DEL   *)
(* to the close the descriptor still belongs to a connection with nothing   *)
(* left to read, so del_fd never clears the entry of a connection accepted  *)
(* meanwhile under the same number.                                         *)
TeardownOwn ==
    TearingDown =>
        /\ fdConn[wfd] # NoConn
        /\ Avail(fdConn[wfd]) = 0
        /\ eof[fdConn[wfd]] \/ rst[fdConn[wfd]] = "done"

(* An event in the batch is still about the connection it was reported for: *)
(* a registered or reported descriptor is open, so no callback runs on a    *)
(* closed number, whatever the rest of the batch did.                       *)
EventsAreLive ==
    /\ \A fd \in Fds : interest[fd] # "none" => fdConn[fd] # NoConn
    /\ \A e \in batch : fdConn[e[1]] # NoConn /\ e[2] = interest[e[1]]

(* No descriptor leaks: an open one is registered, or is on its way into    *)
(* work_epfd in accept_callback, or on its way out in recv_callback.        *)
NoDescriptorLeak ==
    \A fd \in Fds :
        fdConn[fd] # NoConn /\ interest[fd] = "none" =>
            \/ lpc = "ctl" /\ lfd = fd
            \/ TearingDown /\ wfd = fd

(* Only a client that leaves bytes of its echo unread can bring the server  *)
(* down from recv() or send(), and SIGPIPE takes a second echo after the    *)
(* first one went unread.                                                   *)
DeathNeedsDesertion ==
    fault \in {"recv", "pipe"} =>
        /\ cl[fdConn[wfd]] = "gone"
        /\ Unread(fdConn[wfd]) > 0
        /\ fault = "pipe" => taken[fdConn[wfd]] > Len(echo[fdConn[wfd]])

(* Once both loops wait, nfd is the number of descriptors in the table: the *)
(* listener and one per open connection.                                    *)
NfdIsDescriptorCount ==
    fault = "none" /\ lpc = "wait" /\ wpc = "wait" =>
        nfd = (1 + Cardinality({fd \in Fds : fdConn[fd] # NoConn})) % NfdMod

(* Every byte a client sends is echoed, unless the client leaves or the     *)
(* program has stopped.                                                     *)
EveryByteEchoed ==
    \A c \in Clients : \A n \in 1..MaxBytes :
        sent[c] >= n ~> Len(echo[c]) >= n \/ cl[c] = "gone" \/ fault # "none"

(* A connection whose client is done is closed by the server.               *)
EveryFinCloses ==
    \A c \in Clients : eof[c] ~> Finished(c) \/ fault # "none"
=============================================================================
