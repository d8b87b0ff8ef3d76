---------------------------- MODULE RpcApi_proofs ----------------------------
(***************************************************************************)
(* Theorems about module RpcApi, for every value of its constants.         *)
(*                                                                         *)
(* For clients of every kind: OpenInv, what the three threads know of the  *)
(* descriptor they work on, so that no number is registered while it is    *)
(* closed; OwnerInv, whose requests a buffer and an echo stand for; and    *)
(* NeglectInv, what is left to report a condition that holds, and what the *)
(* buffers hold where no requests overlapped.  For clients that call one   *)
(* at a time and leave when answered, lost datagrams or not: CallInv, from *)
(* which the three threads implement RpcService's steps.                   *)
(***************************************************************************)
EXTENDS RpcApi, SequenceTheorems, FiniteSetTheorems, TLAPS

----------------------------------------------------------------------------
(* The inductive invariants. *)

Request == [fd : Fds, who : Clients, reg : BOOLEAN, st : {"asked", "answered", "lost", "done"},
            lone : BOOLEAN]
Cell == {"nul", "ans", "sfx"} \X Nat
Length == Nat \cup {Huge}

RpcTypeOK ==
    /\ NetTypeOK
    /\ echo \in [Clients -> Seq(Cell)]
    /\ lpc \in {"wait", "ctl"} /\ lfd \in Fds
    /\ wpc \in {"wait", "pick", "recv", "commit", "register", "del", "close",
                "send", "load", "write", "result", "check", "sent", "rearm"}
    /\ wfd \in Fds
    /\ batch \in SUBSET (Fds \X {"in", "out"})
    /\ wlen \in Length
    /\ rpc \in {"wait", "pick", "clear", "recv", "store", "suffix", "add", "grow", "mod"}
    /\ rbatch \in SUBSET (DOMAIN reqs)
    /\ rpc \notin {"wait", "pick"} => rcur \in DOMAIN reqs
    /\ rlen \in Nat
    /\ reqs \in Seq(Request)
    /\ sbuf \in [Fds -> [1..BufCells -> Cell]]
    /\ slen \in [Fds -> Length]
    /\ fault \in {"none", "recv", "pipe", "past"}

\* The descriptor the work thread serves is open and has no other event waiting;
\* the others with an event are registered.
ServedIsOpen ==
    /\ \A e, f \in batch : e[1] = f[1] => e = f
    /\ \A e \in batch : interest[e[1]] # "none"
    /\ Serving => fdConn[wfd] # NoConn /\ \A e \in batch : e[1] # wfd

\* The descriptor on its way into work_epfd is nobody else's business yet.
AcceptedIsOpen ==
    lpc = "ctl" =>
        /\ fdConn[lfd] # NoConn
        /\ interest[lfd] = "none"
        /\ Serving => wfd # lfd

\* The request being committed is not in the pool's epoll set yet.
CommitIsLast ==
    wpc = "register" =>
        /\ Len(reqs) \in DOMAIN reqs
        /\ LET r == reqs[Len(reqs)]
           IN  r.fd = wfd /\ r.who = fdConn[wfd] /\ ~r.reg /\ r.st # "done"

\* The pool's thread handles answered requests once each, and what it is about
\* to store is at least the suffix.
PoolKnows ==
    /\ \A r \in rbatch : reqs[r].reg /\ reqs[r].st = "answered"
    /\ rpc \in {"clear", "recv", "store"} =>
        rcur \notin rbatch /\ reqs[rcur].reg /\ reqs[rcur].st = "answered"
    /\ rpc \in {"suffix", "add", "grow", "mod"} => reqs[rcur].st = "done"
    /\ rpc = "grow" => rlen >= 1

OpenInv ==
    /\ RpcTypeOK /\ ServedIsOpen /\ AcceptedIsOpen /\ CommitIsLast /\ PoolKnows
    /\ EventsAreLive

\* A connection is queued once, or has one descriptor, or neither.
OneNumber ==
    /\ \A i, j \in 1..Len(queued) : queued[i] = queued[j] => i = j
    /\ \A fd \in Fds : \A i \in 1..Len(queued) : fdConn[fd] # queued[i]
    /\ \A f, g \in Fds : fdConn[f] = fdConn[g] /\ fdConn[f] # NoConn => f = g
    /\ \A i \in 1..Len(queued) : cl[queued[i]] # "new"
    /\ \A fd \in Fds : fdConn[fd] # NoConn => cl[fdConn[fd]] # "new"

\* A request's descriptor is its client's, until that connection is closed.
AskerBehind ==
    \A r \in DOMAIN reqs :
        fdConn[reqs[r].fd] = reqs[r].who \/ Finished(reqs[r].who)

\* A descriptor's buffer holds replies to requests that came from it.
BufferOfNumber ==
    \A fd \in Fds : \A i \in 1..BufCells :
        sbuf[fd][i] # Nul =>
            sbuf[fd][i][2] \in DOMAIN reqs /\ reqs[sbuf[fd][i][2]].fd = fd

\* What was written to a connection are replies to requests.
EchoOfRequests ==
    \A c \in Clients : \A i \in 1..Len(echo[c]) :
        echo[c][i] # Nul => echo[c][i][2] \in DOMAIN reqs

OwnerInv ==
    OneNumber /\ AskerBehind /\ BufferOfNumber /\ EchoOfRequests /\ MisdeliveryNeedsReuse

\* A request whose reply the pool's thread is done with.
Handled(r) ==
    reqs[r].st = "done" /\ ~(rpc \in {"suffix", "add", "grow", "mod"} /\ rcur = r)

\* Where no request overlapped another one: a request under way is the only one
\* of its number, with the descriptor on input and an empty buffer until the
\* pool's thread has made the reply.
AloneRequests(fd) ==
    /\ \A r, s \in OnFd(fd) : UnderWay(r) /\ UnderWay(s) => r = s
    /\ \A r \in OnFd(fd) : UnderWay(r) =>
        /\ interest[fd] # "out"
        /\ slen[fd] = IF rpc = "mod" /\ rcur = r THEN 1 ELSE 0
        /\ rpc = "store" /\ rcur = r => rlen = 0
        /\ rpc = "grow" /\ rcur = r => rlen = 1

\* A descriptor on output has its answer, or the work thread has just sent it.
AloneOutput(fd) ==
    interest[fd] = "out" =>
        \/ slen[fd] = 1
        \/ wfd = fd /\ wpc \in {"check", "sent"} /\ slen[fd] # 0
        \/ wfd = fd /\ wpc = "rearm"

\* The work thread sends that answer, and closes for no other reason than the
\* client's.
AloneWork(fd) ==
    wfd = fd =>
        /\ wpc = "write" => wlen = 1
        /\ wpc = "result" => wlen \in {Huge, 1}
        /\ wpc \in {"del", "close"} => eof[fdConn[fd]] \/ rst[fdConn[fd]] = "done"

AloneInv ==
    \A fd \in Fds : ~Overlapped(fd) => AloneRequests(fd) /\ AloneOutput(fd) /\ AloneWork(fd)

\* send_callback runs for descriptors on output only.
Sending == wpc \in {"send", "load", "write", "result", "check", "sent", "rearm"}
WorkOutput ==
    /\ \A e \in batch : e[2] = "out" => interest[e[1]] = "out"
    /\ Sending => interest[wfd] = "out"

\* Something will still re-arm the descriptor, or two requests ran into each other.
Expected(fd) ==
    \/ \E r \in Own(fd) : Unanswered(r)
    \/ interest[fd] = "out" /\ Overlapped(fd)

\* As the first part of NeglectNeedsLossOrOverlap.
Reported ==
    \A fd \in Fds :
        interest[fd] # "none" /\ HasEvent(fd) =>
            \/ fd \in ready
            \/ \E k \in {"in", "out"} : <<fd, k>> \in batch
            \/ Serving /\ wfd = fd
            \/ Expected(fd)

\* work_loop waits only when it has handled the whole batch.
BatchAtRest == wpc = "wait" => batch = {}

\* sbuffer is left behind only where requests overlapped.
PastNeedsOverlap == fault = "past" => \E fd \in Fds : Overlapped(fd)

NeglectInv ==
    /\ WorkOutput /\ AloneInv /\ BatchAtRest /\ PastNeedsOverlap
    /\ fault = "none" => Reported

\* A request whose answer is not ready to be sent.
Pending(r) == r \in DOMAIN reqs /\ ~Handled(r)

\* The suffix that ends the answer to r has not been written to anybody.
Unsent(r) == \A c \in Clients : \A i \in 1..Len(echo[c]) : echo[c][i] # <<"sfx", r>>

\* What one-at-a-time clients make of the connections: nobody resets one, and
\* who left had all the answers.
OneCall ==
    /\ \A c \in Clients :
        /\ Len(echo[c]) <= taken[c] /\ taken[c] <= sent[c] /\ sent[c] <= Len(echo[c]) + 1
        /\ nread[c] <= Len(echo[c])
        /\ rst[c] = "no"
        /\ eof[c] => sent[c] = Len(echo[c]) /\ cl[c] \in {"shut", "gone"}
        /\ cl[c] = "gone" => nread[c] = Len(echo[c]) /\ eof[c]
    /\ fault = "none"

\* The connection of a pending request waits for it alone ...
Waits(r) ==
    LET fd == reqs[r].fd
        c == reqs[r].who
    IN  /\ fdConn[fd] = c /\ interest[fd] = "in"
        /\ taken[c] = Len(echo[c]) + 1
        /\ \A e \in batch : e[1] # fd
        /\ Serving /\ wfd = fd => wpc = "register" /\ r = Len(reqs)
        /\ \A s \in OnFd(fd) : Pending(s) => s = r
        /\ Unsent(r)

\* ... with an empty buffer until the pool's thread has put the suffix there.
Progress(r) ==
    LET fd == reqs[r].fd
    IN  /\ slen[fd] = IF rpc = "mod" /\ rcur = r THEN 1 ELSE 0
        /\ rpc = "store" /\ rcur = r => rlen = 0
        /\ rpc \in {"add", "grow", "mod"} /\ rcur = r => sbuf[fd][1] = <<"sfx", r>>
        /\ rpc = "grow" /\ rcur = r => rlen = 1

PendingWaits == \A r \in DOMAIN reqs : Pending(r) => Waits(r) /\ Progress(r)

\* A descriptor on output holds the one answer its connection is owed; one on
\* input that waits for nothing has an empty buffer.
ReplyFits(fd) ==
    /\ interest[fd] = "out" /\ ~(wfd = fd /\ wpc \in {"result", "check", "sent", "rearm"}) =>
        /\ slen[fd] = 1
        /\ taken[fdConn[fd]] = Len(echo[fdConn[fd]]) + 1
        /\ \E r \in DOMAIN reqs :
            /\ Handled(r) /\ Unsent(r)
            /\ reqs[r].who = fdConn[fd] /\ sbuf[fd][1] = <<"sfx", r>>
    /\ interest[fd] # "out" /\ (\A r \in OnFd(fd) : ~Pending(r)) => slen[fd] = 0

ReplyWaits == \A fd \in Fds : ReplyFits(fd)

\* What the work thread knows of the connection it serves.
WorkKnows ==
    /\ \A e \in batch : e[2] = interest[e[1]]
    /\ wpc \in {"recv", "commit", "register"} => interest[wfd] = "in"
    /\ wpc \in {"send", "load", "write", "result", "check", "sent", "rearm"} => interest[wfd] = "out"
    /\ wpc \in {"write", "result"} => wlen = 1
    /\ wpc = "check" => slen[wfd] = 1
    /\ wpc = "commit" => taken[fdConn[wfd]] = Len(echo[fdConn[wfd]]) + 1
    /\ wpc = "rearm" => slen[wfd] = 0
    /\ wpc \in {"del", "close"} => eof[fdConn[wfd]]

CallInv == OneCall /\ PendingWaits /\ ReplyWaits /\ WorkKnows /\ AnswersAreOwn

----------------------------------------------------------------------------
(* Facts about the operators of the model. *)

USE DEF netVars, clientVars, sockVars, epollVars, listenVars, workVars, poolVars, bufVars, rpcVars

\* One request of the list is replaced.
LEMMA OneChanged ==
    ASSUME NEW s \in Seq(Request), NEW r \in DOMAIN s, NEW q \in Request, NEW t,
           t = [s EXCEPT ![r] = q]
    PROVE  /\ t \in Seq(Request) /\ DOMAIN t = DOMAIN s /\ Len(t) = Len(s)
           /\ t[r] = q /\ \A i \in DOMAIN s : i # r => t[i] = s[i]
OBVIOUS

\* asynreq_commit_udp adds a request behind the others.
LEMMA CommitAdds ==
    ASSUME RpcTypeOK, WorkCommit, fdConn[wfd] \in Clients
    PROVE  /\ reqs' \in Seq(Request) /\ Len(reqs') = Len(reqs) + 1 /\ Len(reqs) \in Nat
           /\ DOMAIN reqs' = DOMAIN reqs \cup {Len(reqs')} /\ Len(reqs') \notin DOMAIN reqs
           /\ \A r \in DOMAIN reqs : reqs'[r] = reqs[r]
           /\ reqs'[Len(reqs')] = [fd |-> wfd, who |-> fdConn[wfd], reg |-> FALSE, st |-> "asked",
                                   lone |-> Rested(wfd)]
<1> DEFINE q == [fd |-> wfd, who |-> fdConn[wfd], reg |-> FALSE, st |-> "asked", lone |-> Rested(wfd)]
<1>0. Rested(wfd) \in BOOLEAN
  BY DEF Rested
<1>1. reqs \in Seq(Request) /\ q \in Request /\ reqs' = Append(reqs, q)
  BY <1>0 DEF RpcTypeOK, WorkCommit, Request
<1> HIDE DEF q
<1>2. /\ reqs' \in Seq(Request) /\ Len(reqs') = Len(reqs) + 1 /\ Len(reqs) \in Nat
      /\ reqs'[Len(reqs) + 1] = q /\ \A r \in 1..Len(reqs) : reqs'[r] = reqs[r]
  BY <1>1
<1>3. DOMAIN reqs = 1..Len(reqs) /\ DOMAIN reqs' = 1..Len(reqs')
  BY <1>1, <1>2
<1>4. q = [fd |-> wfd, who |-> fdConn[wfd], reg |-> FALSE, st |-> "asked", lone |-> Rested(wfd)]
  BY DEF q
<1> QED
  BY <1>2, <1>3, <1>4

LEMMA RegisterChanges ==
    ASSUME OpenInv, WorkRegister
    PROVE  /\ reqs' \in Seq(Request) /\ DOMAIN reqs' = DOMAIN reqs /\ Len(reqs') = Len(reqs)
           /\ Len(reqs) \in DOMAIN reqs
           /\ \A r \in DOMAIN reqs : /\ reqs'[r].fd = reqs[r].fd /\ reqs'[r].who = reqs[r].who
                                     /\ reqs'[r].st = reqs[r].st /\ reqs'[r].lone = reqs[r].lone
                                     /\ reqs[r].reg => reqs'[r].reg
<1> DEFINE r == Len(reqs)
           q == [reqs[r] EXCEPT !.reg = TRUE]
<1>1. reqs \in Seq(Request) /\ r \in DOMAIN reqs /\ reqs' = [reqs EXCEPT ![r] = q]
  BY DEF OpenInv, RpcTypeOK, WorkRegister, CommitIsLast
<1>2. reqs[r] \in Request
  BY <1>1
<1>3. /\ q \in Request /\ q.fd = reqs[r].fd /\ q.who = reqs[r].who /\ q.st = reqs[r].st /\ q.reg
      /\ q.lone = reqs[r].lone
  BY <1>2 DEF Request
<1> HIDE DEF q, r
<1>4. /\ reqs' \in Seq(Request) /\ DOMAIN reqs' = DOMAIN reqs /\ Len(reqs') = Len(reqs)
      /\ reqs'[r] = q /\ \A i \in DOMAIN reqs : i # r => reqs'[i] = reqs[i]
  BY <1>1, <1>3, OneChanged
<1> QED
  BY <1>1, <1>3, <1>4 DEF r

LEMMA StoreChanges ==
    ASSUME OpenInv, PoolStore
    PROVE  /\ reqs' \in Seq(Request) /\ DOMAIN reqs' = DOMAIN reqs /\ Len(reqs') = Len(reqs)
           /\ rcur \in DOMAIN reqs /\ reqs'[rcur].st = "done" /\ ~reqs'[rcur].reg
           /\ \A r \in DOMAIN reqs : /\ reqs'[r].fd = reqs[r].fd /\ reqs'[r].who = reqs[r].who
                                     /\ reqs'[r].lone = reqs[r].lone
                                     /\ r # rcur => reqs'[r] = reqs[r]
<1> DEFINE q == [reqs[rcur] EXCEPT !.reg = FALSE, !.st = "done"]
<1>1. reqs \in Seq(Request) /\ rcur \in DOMAIN reqs /\ reqs' = [reqs EXCEPT ![rcur] = q]
  BY DEF OpenInv, RpcTypeOK, PoolStore
<1>2. reqs[rcur] \in Request
  BY <1>1
<1>3. q \in Request /\ q.fd = reqs[rcur].fd /\ q.who = reqs[rcur].who /\ q.st = "done" /\ ~q.reg
      /\ q.lone = reqs[rcur].lone
  BY <1>2 DEF Request
<1> HIDE DEF q
<1>4. /\ reqs' \in Seq(Request) /\ DOMAIN reqs' = DOMAIN reqs /\ Len(reqs') = Len(reqs)
      /\ reqs'[rcur] = q /\ \A i \in DOMAIN reqs : i # rcur => reqs'[i] = reqs[i]
  BY <1>1, <1>3, OneChanged
<1> QED
  BY <1>1, <1>3, <1>4

LEMMA UpstreamChanges ==
    ASSUME RpcTypeOK, Upstream
    PROVE  /\ reqs' \in Seq(Request) /\ DOMAIN reqs' = DOMAIN reqs /\ Len(reqs') = Len(reqs)
           /\ \A r \in DOMAIN reqs : /\ reqs'[r].fd = reqs[r].fd /\ reqs'[r].who = reqs[r].who
                                     /\ reqs'[r].reg = reqs[r].reg /\ reqs'[r].lone = reqs[r].lone
                                     /\ \/ reqs'[r].st = reqs[r].st
                                        \/ reqs[r].st = "asked" /\ reqs'[r].st \in {"answered", "lost"}
<1>1. reqs \in Seq(Request)
  BY DEF RpcTypeOK
<1>2. PICK r \in DOMAIN reqs, s \in {"answered", "lost"} :
        reqs[r].st = "asked" /\ reqs' = [reqs EXCEPT ![r].st = s]
  BY DEF Upstream
<1> DEFINE q == [reqs[r] EXCEPT !.st = s]
<1>3. reqs' = [reqs EXCEPT ![r] = q]
  BY <1>1, <1>2
<1>4. reqs[r] \in Request
  BY <1>1
<1>5. q \in Request /\ q.fd = reqs[r].fd /\ q.who = reqs[r].who /\ q.reg = reqs[r].reg /\ q.st = s
      /\ q.lone = reqs[r].lone
  BY <1>4 DEF Request
<1> HIDE DEF q
<1>6. /\ reqs' \in Seq(Request) /\ DOMAIN reqs' = DOMAIN reqs /\ Len(reqs') = Len(reqs)
      /\ reqs'[r] = q /\ \A i \in DOMAIN reqs : i # r => reqs'[i] = reqs[i]
  BY <1>1, <1>3, <1>5, OneChanged
<1> QED
  BY <1>2, <1>5, <1>6

\* What the clients and the network do keeps the types of EpollSocket, and no
\* descriptor, registration or echo changes.
LEMMA ClientTyped ==
    ASSUME NetTypeOK, NEW c \in Clients, echo[c] \in Seq(Cell), ClientStep(c)
    PROVE  NetTypeOK' /\ UNCHANGED <<interest, fdConn, taken, echo, rpcVars>>
<1>1. \/ Connect(c) \/ ClientSend(c) \/ ClientShutdown(c)
      \/ ClientClose(c) \/ ClientRead(c) \/ PeerReset(c)
  BY DEF ClientStep
<1>2. UNCHANGED <<interest, fdConn, taken, echo, rpcVars>>
  BY <1>1 DEF ClientStep, Connect, ClientSend, ClientShutdown, ClientClose, ClientRead, PeerReset
<1>3. CASE Connect(c)
  <2>1. Append(queued, c) \in Seq(Clients)
    BY DEF NetTypeOK
  <2> QED
    BY <1>2, <1>3, <2>1 DEF Connect, NetTypeOK
<1>4. CASE ClientSend(c)
  <2>1. sent[c] + 1 \in 0..MaxBytes
    BY <1>4, CapAssumption DEF ClientSend, NetTypeOK
  <2> QED
    BY <1>2, <1>4, <2>1 DEF ClientSend, NetTypeOK, Wake
<1>5. CASE ClientShutdown(c)
  BY <1>2, <1>5 DEF ClientShutdown, NetTypeOK, Wake
<1>6. CASE ClientClose(c)
  BY <1>2, <1>6 DEF ClientClose, NetTypeOK, Wake
<1>7. CASE ClientRead(c)
  <2>1. Len(echo[c]) \in Nat
    OBVIOUS
  <2> QED
    BY <1>2, <1>7, <2>1 DEF ClientRead, NetTypeOK, Wake
<1>8. CASE PeerReset(c)
  BY <1>2, <1>8 DEF PeerReset, NetTypeOK, Wake
<1> QED
  BY <1>1, <1>2, <1>3, <1>4, <1>5, <1>6, <1>7, <1>8

----------------------------------------------------------------------------
(* What the threads know of the descriptor they work on.                    *)

LEMMA InitOpenInv == Init => OpenInv
<1> SUFFICES ASSUME Init PROVE OpenInv
  OBVIOUS
<1>1. NetTypeOK
  BY CapAssumption DEF Init, NetInit, NetTypeOK
<1>2. RpcTypeOK
  <2>1. sbuf \in [Fds -> [1..BufCells -> Cell]] /\ slen \in [Fds -> Length]
    BY DEF Init, Nul, Cell, Length
  <2> QED
    BY <1>1, <2>1 DEF Init, NetInit, RpcTypeOK, Length
<1> QED
  BY <1>2 DEF Init, NetInit, OpenInv, ServedIsOpen, AcceptedIsOpen, CommitIsLast, PoolKnows,
     EventsAreLive, Serving

(* A client's step changes no descriptor.                                   *)
LEMMA ClientOpen ==
    ASSUME OpenInv, NEW c \in Clients, ClientStep(c)
    PROVE  OpenInv'
<1>1. NetTypeOK /\ echo[c] \in Seq(Cell)
  BY DEF OpenInv, RpcTypeOK
<1>2. NetTypeOK' /\ UNCHANGED <<interest, fdConn, taken, echo, rpcVars>>
  BY <1>1, ClientTyped
<1> QED
  BY <1>2 DEF OpenInv, RpcTypeOK, ServedIsOpen, AcceptedIsOpen, CommitIsLast, PoolKnows,
     EventsAreLive, Serving, Target

(* The listen thread opens a descriptor nobody uses, and then registers it. *)
LEMMA ListenOpen ==
    ASSUME OpenInv, ListenThread
    PROVE  OpenInv'
<1>1. RpcTypeOK /\ NetTypeOK
  BY DEF OpenInv, RpcTypeOK
<1>2. CASE Accept
  <2>1. PICK fd \in FreeFds : fdConn' = [fdConn EXCEPT ![fd] = Head(queued)] /\ lfd' = fd
    BY <1>2 DEF Accept
  <2>2. Head(queued) \in Clients /\ Tail(queued) \in Seq(Clients)
    BY <1>1, <1>2 DEF Accept, NetTypeOK
  <2>3. /\ fd \in Fds /\ fdConn[fd] = NoConn /\ fdConn'[fd] # NoConn
        /\ \A f \in Fds \ {fd} : fdConn'[f] = fdConn[f]
        /\ fdConn' \in [Fds -> Clients \cup {NoConn}]
    BY <1>1, <2>1, <2>2, ClientsAssumption DEF FreeFds, NetTypeOK
  <2>4. UNCHANGED <<clientVars, sockVars, epollVars, workVars, poolVars, reqs, bufVars, fault>>
    BY <1>2 DEF Accept
  <2>5. RpcTypeOK'
    <3>1. /\ NetTypeOK' /\ lfd' \in Fds /\ lpc' = "ctl"
      BY <1>1, <1>2, <2>1, <2>2, <2>3, <2>4 DEF Accept, NetTypeOK
    <3> QED
      BY <1>1, <2>4, <3>1 DEF RpcTypeOK
  <2>6. EventsAreLive' /\ ServedIsOpen'
    BY <1>1, <2>3, <2>4 DEF OpenInv, RpcTypeOK, EventsAreLive, ServedIsOpen, Serving
  <2>7. AcceptedIsOpen'
    BY <1>1, <2>1, <2>3, <2>4 DEF OpenInv, RpcTypeOK, AcceptedIsOpen, EventsAreLive, ServedIsOpen,
       Serving
  <2>8. CommitIsLast' /\ PoolKnows'
    <3>1. wpc = "register" => wfd # fd
      BY <2>3 DEF OpenInv, ServedIsOpen, Serving
    <3> QED
      BY <1>1, <2>3, <2>4, <3>1 DEF OpenInv, RpcTypeOK, CommitIsLast, PoolKnows, Target
  <2> QED
    BY <2>5, <2>6, <2>7, <2>8 DEF OpenInv
<1>3. CASE AcceptCtl
  <2>1. /\ UNCHANGED <<clientVars, queued, sockVars, fdConn, lfd, workVars, poolVars, reqs, bufVars, fault>>
        /\ lfd \in Fds /\ lpc' = "wait" /\ fdConn[lfd] # NoConn
        /\ interest' = [interest EXCEPT ![lfd] = "in"] /\ ready' \in SUBSET Fds
    BY <1>1, <1>3 DEF AcceptCtl, Register, RpcTypeOK, NetTypeOK, OpenInv, AcceptedIsOpen
  <2>2. RpcTypeOK'
    BY <1>1, <2>1 DEF RpcTypeOK, NetTypeOK
  <2>3. ServedIsOpen' /\ AcceptedIsOpen' /\ EventsAreLive'
    BY <1>1, <2>1 DEF OpenInv, NetTypeOK, ServedIsOpen, AcceptedIsOpen, EventsAreLive, Serving
  <2>4. CommitIsLast' /\ PoolKnows'
    BY <2>1 DEF OpenInv, CommitIsLast, PoolKnows, Target
  <2> QED
    BY <2>2, <2>3, <2>4 DEF OpenInv
<1> QED
  BY <1>2, <1>3 DEF ListenThread

(* The work thread closes only the descriptor it serves.                    *)
LEMMA WorkOpen ==
    ASSUME OpenInv, WorkThread
    PROVE  OpenInv'
<1>1. RpcTypeOK /\ NetTypeOK /\ wfd \in Fds
  BY DEF OpenInv, RpcTypeOK
<1>2. Serving => fdConn[wfd] \in Clients
  BY <1>1 DEF OpenInv, ServedIsOpen, NetTypeOK
<1>3. UNCHANGED <<listenVars, poolVars>>
  BY DEF WorkThread, WorkWait, WorkPick, WorkRecv, WorkCommit, WorkRegister, WorkRecvEof,
     WorkRecvFault, Stop, WorkDel, WorkClose, WorkSendNothing, WorkSendBegin, WorkLoad,
     WorkSendPast, WorkResult, WorkCheck, WorkSend, WorkSendReset,
     WorkSendFault, WorkSent, WorkRearm
\* Steps that leave the table, the registrations, the requests and the buffers.
<1>4. ASSUME RpcTypeOK', UNCHANGED <<fdConn, interest, batch, wfd, reqs, bufVars>>,
             Serving' => Serving, wpc' # "register"
      PROVE  OpenInv'
  BY <1>3, <1>4 DEF OpenInv, ServedIsOpen, AcceptedIsOpen, CommitIsLast, PoolKnows, EventsAreLive,
     Serving, Target
<1>5. CASE WorkWait
  <2>1. /\ UNCHANGED <<clientVars, queued, sockVars, fdConn, interest, wfd, wlen, reqs, bufVars, fault>>
        /\ batch' = {<<fd, interest[fd]>> : fd \in {f \in ready : HasEvent(f)}}
        /\ ready' = {} /\ wpc' = "pick"
    BY <1>5 DEF WorkWait
  <2>2. ASSUME NEW e \in batch'
        PROVE  /\ e \in Fds \X {"in", "out"} /\ e = <<e[1], interest[e[1]]>>
               /\ interest[e[1]] # "none" /\ fdConn[e[1]] # NoConn
    <3>1. PICK fd \in ready : HasEvent(fd) /\ e = <<fd, interest[fd]>>
      BY <2>1, <2>2
    <3>2. fd \in Fds /\ interest[fd] \in {"in", "out"}
      BY <1>1, <3>1 DEF HasEvent, NetTypeOK
    <3> QED
      BY <3>1, <3>2 DEF OpenInv, EventsAreLive
  <2>3. RpcTypeOK'
    BY <1>1, <1>3, <2>1, <2>2 DEF RpcTypeOK, NetTypeOK
  <2>4. ServedIsOpen' /\ EventsAreLive'
    <3>1. \A e, f \in batch' : e[1] = f[1] => e = f
      BY <2>2
    <3> QED
      BY <2>1, <2>2, <3>1 DEF OpenInv, ServedIsOpen, EventsAreLive, Serving
  <2>5. AcceptedIsOpen' /\ CommitIsLast' /\ PoolKnows'
    BY <1>3, <2>1 DEF OpenInv, AcceptedIsOpen, CommitIsLast, PoolKnows, Serving, Target
  <2> QED
    BY <2>3, <2>4, <2>5 DEF OpenInv
<1>6. CASE WorkPick
  <2>1. PICK e \in batch : /\ wfd' = e[1] /\ wpc' \in {"recv", "send"} /\ batch' = batch \ {e}
    BY <1>6 DEF WorkPick
  <2>2. UNCHANGED <<netVars, wlen, reqs, bufVars, fault>>
    BY <1>6 DEF WorkPick
  <2>3. RpcTypeOK'
    BY <1>1, <1>3, <2>1, <2>2 DEF RpcTypeOK, NetTypeOK
  <2>4. ServedIsOpen' /\ EventsAreLive' /\ AcceptedIsOpen'
    BY <1>3, <2>1, <2>2 DEF OpenInv, ServedIsOpen, EventsAreLive, AcceptedIsOpen
  <2>5. CommitIsLast' /\ PoolKnows'
    BY <1>3, <2>1, <2>2 DEF OpenInv, CommitIsLast, PoolKnows, Target
  <2> QED
    BY <2>3, <2>4, <2>5 DEF OpenInv
<1>7. CASE WorkRecv
  <2>1. RpcTypeOK'
    <3>1. sent[fdConn[wfd]] \in Nat
      BY <1>1, <1>2, <1>7, CapAssumption DEF WorkRecv, Serving, NetTypeOK
    <3> QED
      BY <1>1, <1>3, <1>7, <3>1 DEF WorkRecv, RpcTypeOK, NetTypeOK
  <2> QED
    BY <1>4, <1>7, <2>1 DEF WorkRecv, Serving
<1>8. CASE WorkCommit
  <2>1. fdConn[wfd] \in Clients
    BY <1>2, <1>8 DEF WorkCommit, Serving
  <2>2. /\ reqs' \in Seq(Request) /\ Len(reqs') \in DOMAIN reqs' /\ DOMAIN reqs \subseteq DOMAIN reqs'
        /\ \A r \in DOMAIN reqs : reqs'[r] = reqs[r]
        /\ LET r == reqs'[Len(reqs')]
           IN  r.fd = wfd /\ r.who = fdConn[wfd] /\ ~r.reg /\ r.st = "asked"
    BY <1>1, <1>8, <2>1, CommitAdds
  <2>3. UNCHANGED <<netVars, wfd, batch, wlen, bufVars, fault>> /\ wpc = "commit" /\ wpc' = "register"
    BY <1>8 DEF WorkCommit
  <2>4. RpcTypeOK'
    BY <1>1, <1>3, <2>2, <2>3 DEF RpcTypeOK, NetTypeOK
  <2>5. ServedIsOpen' /\ EventsAreLive' /\ AcceptedIsOpen'
    BY <1>3, <2>3 DEF OpenInv, ServedIsOpen, EventsAreLive, AcceptedIsOpen, Serving
  <2>6. CommitIsLast'
    BY <2>2, <2>3 DEF CommitIsLast
  <2>7. PoolKnows'
    BY <1>1, <1>3, <2>2, <2>3 DEF OpenInv, RpcTypeOK, PoolKnows, Target
  <2> QED
    BY <2>4, <2>5, <2>6, <2>7 DEF OpenInv
<1>9. CASE WorkRegister
  <2>1. /\ reqs' \in Seq(Request) /\ DOMAIN reqs' = DOMAIN reqs
        /\ \A r \in DOMAIN reqs : /\ reqs'[r].fd = reqs[r].fd /\ reqs'[r].st = reqs[r].st
                                  /\ reqs[r].reg => reqs'[r].reg
    BY <1>9, RegisterChanges
  <2>2. /\ UNCHANGED <<netVars, wfd, batch, wlen, bufVars, fault>>
        /\ wpc' \in {"wait", "pick"}
    BY <1>9 DEF WorkRegister, LoopPc
  <2>3. RpcTypeOK'
    BY <1>1, <1>3, <2>1, <2>2 DEF RpcTypeOK, NetTypeOK
  <2>4. ServedIsOpen' /\ EventsAreLive' /\ AcceptedIsOpen' /\ CommitIsLast'
    BY <1>3, <2>2 DEF OpenInv, ServedIsOpen, EventsAreLive, AcceptedIsOpen, CommitIsLast, Serving
  <2>5. PoolKnows'
    BY <1>1, <1>3, <2>1, <2>2 DEF OpenInv, RpcTypeOK, PoolKnows, Target
  <2> QED
    BY <2>3, <2>4, <2>5 DEF OpenInv
<1>10. CASE WorkDel \/ WorkClose
  <2>1. /\ UNCHANGED <<clientVars, queued, sockVars, wfd, batch, wlen, reqs, bufVars, fault>>
        /\ Serving /\ wpc' \in {"close", "wait", "pick"}
        /\ interest' = [interest EXCEPT ![wfd] = "none"] /\ ready' \in SUBSET Fds
        /\ \/ fdConn' = fdConn
           \/ fdConn' = [fdConn EXCEPT ![wfd] = NoConn] /\ wpc' # "close"
    BY <1>1, <1>10 DEF WorkDel, WorkClose, Deregister, LoopPc, Serving, NetTypeOK
  <2>2. RpcTypeOK'
    BY <1>1, <1>3, <2>1 DEF RpcTypeOK, NetTypeOK
  <2>3. ServedIsOpen' /\ EventsAreLive' /\ AcceptedIsOpen'
    BY <1>1, <1>3, <2>1 DEF OpenInv, RpcTypeOK, NetTypeOK, ServedIsOpen, EventsAreLive,
       AcceptedIsOpen, Serving
  <2>4. CommitIsLast' /\ PoolKnows'
    BY <1>3, <2>1 DEF OpenInv, CommitIsLast, PoolKnows, Target
  <2> QED
    BY <2>2, <2>3, <2>4 DEF OpenInv
<1>11. CASE WorkSend
  <2>1. RpcTypeOK'
    <3>1. fdConn[wfd] \in Clients /\ wlen \in 0..BufCells /\ sbuf[wfd] \in [1..BufCells -> Cell]
      BY <1>1, <1>2, <1>11 DEF WorkSend, Serving, RpcTypeOK, Inside
    <3>2. wlen \in Int /\ \A i \in 1..wlen : sbuf[wfd][i] \in Cell
      BY <3>1, RpcAssumption
    <3>3. SubSeq(sbuf[wfd], 1, wlen) \in Seq(Cell)
      BY <3>2, SubSeqProperties
    <3>4. echo[fdConn[wfd]] \o SubSeq(sbuf[wfd], 1, wlen) \in Seq(Cell)
      BY <1>1, <3>1, <3>3 DEF RpcTypeOK
    <3> QED
      BY <1>1, <1>3, <1>11, <3>4 DEF WorkSend, RpcTypeOK, NetTypeOK
  <2> QED
    BY <1>4, <1>11, <2>1 DEF WorkSend, Serving
<1>12. CASE WorkSendReset
  <2>1. RpcTypeOK'
    BY <1>1, <1>3, <1>12 DEF WorkSendReset, RpcTypeOK, NetTypeOK, Length
  <2> QED
    BY <1>4, <1>12, <2>1 DEF WorkSendReset, Serving
<1>13. CASE WorkSent \/ WorkResult
  <2>1. /\ UNCHANGED <<netVars, wfd, batch, reqs, sbuf, fault>>
        /\ Serving /\ wpc' \in {"check", "rearm"}
        /\ wlen' \in Length /\ slen' \in [Fds -> Length]
    BY <1>1, <1>13 DEF WorkSent, WorkResult, Serving, RpcTypeOK, Length
  <2>2. RpcTypeOK'
    BY <1>1, <1>3, <2>1 DEF RpcTypeOK, NetTypeOK
  <2>3. ServedIsOpen' /\ EventsAreLive' /\ AcceptedIsOpen' /\ CommitIsLast' /\ PoolKnows'
    BY <1>3, <2>1 DEF OpenInv, ServedIsOpen, EventsAreLive, AcceptedIsOpen, CommitIsLast,
       PoolKnows, Serving
  <2> QED
    BY <2>2, <2>3 DEF OpenInv
<1>14. CASE WorkRearm
  <2>1. /\ UNCHANGED <<clientVars, queued, sockVars, fdConn, wfd, batch, wlen, reqs, bufVars, fault>>
        /\ Serving /\ wpc' \in {"wait", "pick"}
        /\ interest' = [interest EXCEPT ![wfd] = "in"] /\ ready' \in SUBSET Fds
    BY <1>1, <1>14 DEF WorkRearm, Register, LoopPc, Serving, NetTypeOK
  <2>2. RpcTypeOK'
    BY <1>1, <1>3, <2>1 DEF RpcTypeOK, NetTypeOK
  <2>3. ServedIsOpen' /\ EventsAreLive' /\ AcceptedIsOpen'
    BY <1>1, <1>3, <2>1 DEF OpenInv, RpcTypeOK, NetTypeOK, ServedIsOpen, EventsAreLive,
       AcceptedIsOpen, Serving
  <2>4. CommitIsLast' /\ PoolKnows'
    BY <1>3, <2>1 DEF OpenInv, CommitIsLast, PoolKnows, Target
  <2> QED
    BY <2>2, <2>3, <2>4 DEF OpenInv
<1>15. CASE \/ WorkRecvEof \/ WorkSendNothing \/ WorkRecvFault \/ WorkSendFault
            \/ WorkSendBegin \/ WorkLoad \/ WorkSendPast \/ WorkCheck
  <2>1. /\ UNCHANGED <<netVars, wfd, batch, reqs, bufVars>> /\ Serving
        /\ wpc' \in {"del", "wait", "pick", "recv", "load", "write", "sent"}
        /\ fault' \in {fault, "recv", "pipe", "past"} /\ wlen' \in Length
    BY <1>1, <1>15 DEF WorkRecvEof, WorkSendNothing, WorkRecvFault, WorkSendFault, WorkSendBegin,
       WorkLoad, WorkSendPast, WorkCheck, Stop, LoopPc, Serving, RpcTypeOK
  <2>2. RpcTypeOK'
    BY <1>1, <1>3, <2>1 DEF RpcTypeOK, NetTypeOK
  <2> QED
    BY <1>4, <2>1, <2>2
<1> QED
  BY <1>5, <1>6, <1>7, <1>8, <1>9, <1>10, <1>11, <1>12, <1>13, <1>14, <1>15 DEF WorkThread

\* A request names a descriptor number.
LEMMA RequestFields ==
    ASSUME RpcTypeOK, NEW r \in DOMAIN reqs
    PROVE  /\ reqs[r].fd \in Fds /\ reqs[r].who \in Clients
           /\ reqs[r].st \in {"asked", "answered", "lost", "done"}
<1>1. reqs[r] \in Request
  BY DEF RpcTypeOK
<1> QED
  BY <1>1 DEF Request

\* What a fill does to a buffer, and what the suffix does to one cell of it.
LEMMA BufferTyped ==
    ASSUME NEW b \in [1..BufCells -> Cell], NEW x \in Cell, NEW n, NEW i
    PROVE  /\ [j \in 1..BufCells |-> IF j <= n THEN x ELSE b[j]] \in [1..BufCells -> Cell]
           /\ [b EXCEPT ![i] = x] \in [1..BufCells -> Cell]
OBVIOUS

LEMMA Filled ==
    ASSUME sbuf \in [Fds -> [1..BufCells -> Cell]], NEW fd \in Fds, NEW n, NEW x \in Cell, Fill(fd, n, x)
    PROVE  /\ sbuf' \in [Fds -> [1..BufCells -> Cell]]
           /\ \A f \in Fds : f # fd => sbuf'[f] = sbuf[f]
           /\ \A i \in 1..BufCells : sbuf'[fd][i] = IF i <= n THEN x ELSE sbuf[fd][i]
<1>1. sbuf' = [sbuf EXCEPT ![fd] = [i \in 1..BufCells |-> IF i <= n THEN x ELSE sbuf[fd][i]]]
  BY DEF Fill
<1>2. sbuf[fd] \in [1..BufCells -> Cell]
  OBVIOUS
<1>3. [i \in 1..BufCells |-> IF i <= n THEN x ELSE sbuf[fd][i]] \in [1..BufCells -> Cell]
  BY <1>2, BufferTyped
<1> QED
  BY <1>1, <1>3

\* A length with the suffix, and what recvfrom returns.
LEMMA LengthsGrow ==
    ASSUME RpcTypeOK, Target \in Fds
    PROVE  /\ Wrapped(slen[Target]) \in Nat /\ Wrapped(slen[Target]) + 1 \in Nat \ {0}
           /\ \A n \in 0..MaxReply : Received(n) \in Nat
<1>1. slen[Target] \in Nat \cup {-1} /\ MaxReply \in Nat
  BY RpcAssumption DEF RpcTypeOK, Length, Huge
<1> QED
  BY <1>1 DEF Wrapped, Received, Huge

(* The pool's thread touches no descriptor but through epoll_ctl MOD, which *)
(* registers nothing that was not registered.                               *)
LEMMA PoolOpen ==
    ASSUME OpenInv, PoolThread
    PROVE  OpenInv'
<1>1. RpcTypeOK /\ NetTypeOK /\ Nul \in Cell
  BY DEF OpenInv, RpcTypeOK, Nul, Cell
<1>2. UNCHANGED <<clientVars, queued, sockVars, fdConn, listenVars, workVars>> /\ fault' \in {fault, "past"}
  BY DEF PoolThread, PoolWait, PoolPick, PoolClear, PoolRecv, PoolStore, PoolSuffix, PoolAdd, PoolGrow,
     PoolMod, PoolPast, Stop
<1>3. rpc \notin {"wait", "pick"} => rcur \in DOMAIN reqs /\ rcur \in Nat /\ Target \in Fds
  BY <1>1, RequestFields DEF RpcTypeOK, Target
\* Steps that leave the registrations and what the requests say of descriptors.
<1>4. ASSUME UNCHANGED <<interest, reqs>>
      PROVE  ServedIsOpen' /\ EventsAreLive' /\ AcceptedIsOpen' /\ CommitIsLast'
  BY <1>2, <1>4 DEF OpenInv, ServedIsOpen, EventsAreLive, AcceptedIsOpen, CommitIsLast, Serving
<1>5. CASE PoolWait
  <2>1. /\ rbatch' = {r \in DOMAIN reqs : reqs[r].reg /\ reqs[r].st = "answered"} /\ rpc' = "pick"
        /\ UNCHANGED <<interest, ready, rcur, rlen, reqs, bufVars>>
    BY <1>5 DEF PoolWait
  <2>2. RpcTypeOK' /\ PoolKnows'
    BY <1>1, <1>2, <2>1 DEF RpcTypeOK, NetTypeOK, PoolKnows
  <2> QED
    BY <1>4, <2>1, <2>2 DEF OpenInv
<1>6. CASE PoolPick
  <2>1. PICK r \in rbatch :
          rcur' = r /\ rbatch' = rbatch \ {r} /\ Fill(reqs[r].fd, slen[reqs[r].fd], Nul)
    BY <1>6 DEF PoolPick
  <2>2. UNCHANGED <<interest, ready, rlen, reqs, slen>> /\ rpc' = "clear"
    BY <1>6 DEF PoolPick
  <2>3. r \in DOMAIN reqs /\ reqs[r].fd \in Fds
    BY <1>1, RequestFields DEF RpcTypeOK
  <2>4. sbuf' \in [Fds -> [1..BufCells -> Cell]]
    BY <1>1, <2>1, <2>3, Filled DEF RpcTypeOK
  <2>5. RpcTypeOK'
    BY <1>1, <1>2, <2>1, <2>2, <2>3, <2>4 DEF RpcTypeOK, NetTypeOK
  <2>6. PoolKnows'
    BY <2>1, <2>2 DEF OpenInv, PoolKnows
  <2> QED
    BY <1>4, <2>2, <2>5, <2>6 DEF OpenInv
<1>7. CASE PoolClear \/ PoolRecv
  <2>1. /\ rpc \in {"clear", "recv"} /\ rpc' \in {"recv", "store"} /\ (rpc' = "store" => rpc = "recv")
        /\ UNCHANGED <<interest, ready, rcur, rbatch, reqs, slen>>
    BY <1>7 DEF PoolClear, PoolRecv
  <2>2. sbuf' \in [Fds -> [1..BufCells -> Cell]]
    <3>1. <<"ans", rcur>> \in Cell
      BY <1>3, <2>1 DEF Cell
    <3> QED
      BY <1>1, <1>3, <1>7, <2>1, <3>1, Filled DEF RpcTypeOK, PoolClear, PoolRecv
  <2>3. rlen' \in Nat
    BY <1>1, <1>3, <1>7, <2>1, LengthsGrow DEF PoolClear, PoolRecv, RpcTypeOK
  <2>4. RpcTypeOK'
    BY <1>1, <1>2, <2>1, <2>2, <2>3 DEF RpcTypeOK, NetTypeOK
  <2>5. PoolKnows'
    BY <2>1 DEF OpenInv, PoolKnows
  <2> QED
    BY <1>4, <2>1, <2>4, <2>5 DEF OpenInv
<1>8. CASE PoolStore
  <2>1. /\ slen' = [slen EXCEPT ![Target] = rlen] /\ rpc' = "suffix" /\ rpc = "store"
        /\ UNCHANGED <<interest, ready, rcur, rbatch, rlen, sbuf>>
    BY <1>8 DEF PoolStore
  <2>2. /\ reqs' \in Seq(Request) /\ DOMAIN reqs' = DOMAIN reqs /\ Len(reqs') = Len(reqs)
        /\ rcur \in DOMAIN reqs /\ reqs'[rcur].st = "done"
        /\ \A r \in DOMAIN reqs : /\ reqs'[r].fd = reqs[r].fd /\ reqs'[r].who = reqs[r].who
                                  /\ r # rcur => reqs'[r] = reqs[r]
    BY <1>8, StoreChanges
  <2>3. Target \in Fds /\ Target' = Target
    BY <1>1, <1>3, <2>1, <2>2 DEF Target, RpcTypeOK
  <2>4. RpcTypeOK'
    BY <1>1, <1>2, <2>1, <2>2 DEF RpcTypeOK, NetTypeOK, Length
  <2>5. ServedIsOpen' /\ EventsAreLive' /\ AcceptedIsOpen'
    BY <1>2, <2>1 DEF OpenInv, ServedIsOpen, EventsAreLive, AcceptedIsOpen, Serving
  <2>6. CommitIsLast'
    <3>1. wpc = "register" => Len(reqs) # rcur
      BY <2>1 DEF OpenInv, CommitIsLast, PoolKnows
    <3> QED
      BY <1>2, <2>2, <3>1 DEF OpenInv, CommitIsLast
  <2>7. PoolKnows'
    <3>1. \A r \in rbatch : r \in DOMAIN reqs /\ r # rcur
      BY <1>1, <2>1 DEF RpcTypeOK, OpenInv, PoolKnows
    <3>2. \A r \in rbatch' : reqs'[r].reg /\ reqs'[r].st = "answered"
      BY <2>1, <2>2, <3>1 DEF OpenInv, PoolKnows
    <3> QED
      BY <2>1, <2>2, <2>3, <3>2 DEF OpenInv, PoolKnows
  <2> QED
    BY <2>4, <2>5, <2>6, <2>7 DEF OpenInv
<1>9. CASE PoolSuffix \/ PoolAdd
  <2>1. /\ rpc \in {"suffix", "add"} /\ rpc' \in {"add", "grow"}
        /\ UNCHANGED <<interest, ready, rcur, rbatch, reqs, slen>>
    BY <1>9 DEF PoolSuffix, PoolAdd
  <2>2. rlen' \in Nat /\ (rpc' = "grow" => rlen' >= 1)
    BY <1>1, <1>3, <1>9, <2>1, LengthsGrow DEF PoolSuffix, PoolAdd, RpcTypeOK
  <2>3. sbuf' \in [Fds -> [1..BufCells -> Cell]]
    <3>1. <<"sfx", rcur>> \in Cell /\ sbuf[Target] \in [1..BufCells -> Cell]
      BY <1>1, <1>3, <2>1 DEF RpcTypeOK, Cell
    <3>2. CASE PoolSuffix
      <4> DEFINE b == [sbuf[Target] EXCEPT ![Wrapped(slen[Target]) + 1] = <<"sfx", rcur>>]
      <4>1. sbuf' = [sbuf EXCEPT ![Target] = b]
        BY <3>2 DEF PoolSuffix
      <4>2. b \in [1..BufCells -> Cell]
        BY <3>1, BufferTyped
      <4> HIDE DEF b
      <4> QED
        BY <1>1, <4>1, <4>2 DEF RpcTypeOK
    <3>3. CASE PoolAdd
      BY <1>1, <3>3 DEF PoolAdd, RpcTypeOK
    <3> QED
      BY <1>9, <3>2, <3>3
  <2>4. RpcTypeOK'
    BY <1>1, <1>2, <2>1, <2>2, <2>3 DEF RpcTypeOK, NetTypeOK
  <2>5. PoolKnows'
    BY <2>1, <2>2 DEF OpenInv, PoolKnows
  <2> QED
    BY <1>4, <2>1, <2>4, <2>5 DEF OpenInv
<1>10. CASE PoolGrow
  <2>1. /\ slen' = [slen EXCEPT ![Target] = rlen] /\ rpc' = "mod" /\ rpc = "grow"
        /\ UNCHANGED <<interest, ready, rcur, rbatch, rlen, reqs, sbuf>>
    BY <1>10 DEF PoolGrow
  <2>2. RpcTypeOK' /\ PoolKnows'
    BY <1>1, <1>2, <2>1 DEF RpcTypeOK, NetTypeOK, OpenInv, PoolKnows, Length
  <2> QED
    BY <1>4, <2>1, <2>2 DEF OpenInv
<1>11. CASE PoolMod
  <2>1. /\ rpc' \in {"wait", "pick"} /\ rpc = "mod" /\ Target \in Fds
        /\ UNCHANGED <<rcur, rbatch, rlen, reqs, bufVars>>
        /\ ready' \in SUBSET Fds
        /\ \/ interest' = interest
           \/ interest[Target] # "none" /\ interest' = [interest EXCEPT ![Target] = "out"]
    BY <1>1, <1>3, <1>11 DEF PoolMod, Register, PoolLoopPc, NetTypeOK
  <2>2. RpcTypeOK' /\ PoolKnows'
    <3>1. interest' \in [Fds -> {"none", "in", "out"}]
      BY <1>1, <2>1 DEF NetTypeOK
    <3>2. NetTypeOK'
      BY <1>1, <1>2, <2>1, <3>1 DEF NetTypeOK
    <3>3. RpcTypeOK'
      BY <1>1, <1>2, <2>1, <3>2 DEF RpcTypeOK
    <3>4. PoolKnows'
      BY <1>2, <2>1 DEF OpenInv, PoolKnows
    <3> QED
      BY <3>3, <3>4
  <2>3. \A fd \in Fds : interest'[fd] = "none" <=> interest[fd] = "none"
    BY <1>1, <2>1 DEF NetTypeOK
  <2>4. ServedIsOpen' /\ EventsAreLive' /\ AcceptedIsOpen'
    BY <1>1, <1>2, <2>3 DEF OpenInv, RpcTypeOK, ServedIsOpen, EventsAreLive, AcceptedIsOpen, Serving
  <2>5. CommitIsLast'
    BY <1>2, <2>1 DEF OpenInv, CommitIsLast
  <2> QED
    BY <2>2, <2>4, <2>5 DEF OpenInv
<1>12. CASE PoolPast
  <2>1. UNCHANGED <<interest, ready, poolVars, reqs, bufVars>>
    BY <1>12 DEF PoolPast, Stop
  <2>2. RpcTypeOK' /\ PoolKnows'
    BY <1>1, <1>2, <2>1 DEF RpcTypeOK, NetTypeOK, OpenInv, PoolKnows, Target
  <2> QED
    BY <1>4, <2>1, <2>2 DEF OpenInv
<1> QED
  BY <1>5, <1>6, <1>7, <1>8, <1>9, <1>10, <1>11, <1>12 DEF PoolThread

LEMMA UpstreamOpen ==
    ASSUME OpenInv, Upstream
    PROVE  OpenInv'
<1>1. /\ reqs' \in Seq(Request) /\ DOMAIN reqs' = DOMAIN reqs /\ Len(reqs') = Len(reqs)
      /\ \A r \in DOMAIN reqs : /\ reqs'[r].fd = reqs[r].fd /\ reqs'[r].who = reqs[r].who
                                /\ reqs'[r].reg = reqs[r].reg
                                /\ \/ reqs'[r].st = reqs[r].st
                                   \/ reqs[r].st = "asked" /\ reqs'[r].st \in {"answered", "lost"}
  BY UpstreamChanges DEF OpenInv
<1>2. UNCHANGED <<netVars, listenVars, workVars, poolVars, bufVars, fault>>
  BY DEF Upstream
<1>3. RpcTypeOK'
  BY <1>1, <1>2 DEF OpenInv, RpcTypeOK, NetTypeOK
<1>4. ServedIsOpen' /\ EventsAreLive' /\ AcceptedIsOpen' /\ CommitIsLast'
  BY <1>1, <1>2 DEF OpenInv, ServedIsOpen, EventsAreLive, AcceptedIsOpen, CommitIsLast, Serving
<1>5. PoolKnows'
  <2>1. rpc \notin {"wait", "pick"} => rcur \in DOMAIN reqs
    BY DEF OpenInv, RpcTypeOK
  <2>2. \A r \in rbatch : r \in DOMAIN reqs
    BY DEF OpenInv, RpcTypeOK
  <2> QED
    BY <1>1, <1>2, <2>1, <2>2 DEF OpenInv, PoolKnows, Target
<1> QED
  BY <1>3, <1>4, <1>5 DEF OpenInv

THEOREM NextOpenInv == OpenInv /\ [Next]_vars => OpenInv'
<1> SUFFICES ASSUME OpenInv, [Next]_vars PROVE OpenInv'
  OBVIOUS
<1>1. CASE UNCHANGED vars
  BY <1>1 DEF vars, OpenInv, RpcTypeOK, NetTypeOK, ServedIsOpen, AcceptedIsOpen, CommitIsLast,
     PoolKnows, EventsAreLive, Serving, Target
<1> QED
  BY <1>1, ClientOpen, ListenOpen, WorkOpen, PoolOpen, UpstreamOpen DEF Next

LEMMA AlwaysOpen == Spec => []OpenInv
BY InitOpenInv, NextOpenInv, PTL DEF Spec

(* Whatever the three threads interleave, only an open descriptor is        *)
(* registered or reported: the late epoll_ctl MOD of reqpool_parser_cb      *)
(* registers no closed number.                                              *)
THEOREM EventsSafe == Spec => []EventsAreLive
<1>1. OpenInv => EventsAreLive
  BY DEF OpenInv
<1> QED
  BY <1>1, AlwaysOpen, PTL

----------------------------------------------------------------------------
(* Whose requests and replies are whose.                                    *)

\* A client is behind one number at a time, and once its connection is closed it
\* stays so.
LEMMA NumbersKept ==
    ASSUME OpenInv, OneNumber, Next
    PROVE  /\ OneNumber'
           /\ \A d \in Clients : Finished(d) => Finished(d)'
           /\ \A fd \in Fds, d \in Clients : fdConn[fd] = d => fdConn'[fd] = d \/ Finished(d)'
<1>1. NetTypeOK /\ wfd \in Fds /\ \A i \in 1..Len(queued) : queued[i] \in Clients
  BY DEF OpenInv, RpcTypeOK, NetTypeOK
<1>2. ASSUME UNCHANGED <<queued, fdConn>>, \A d \in Clients : cl'[d] = "new" <=> cl[d] = "new"
      PROVE  /\ OneNumber'
             /\ \A d \in Clients : Finished(d) => Finished(d)'
             /\ \A fd \in Fds, d \in Clients : fdConn[fd] = d => fdConn'[fd] = d \/ Finished(d)'
  BY <1>1, <1>2 DEF OneNumber, Finished, NetTypeOK
<1>3. ASSUME NEW c \in Clients, Connect(c)
      PROVE  /\ OneNumber'
             /\ \A d \in Clients : Finished(d) => Finished(d)'
             /\ fdConn' = fdConn
  <2>1. /\ Len(queued') = Len(queued) + 1 /\ Len(queued) \in Nat /\ queued'[Len(queued) + 1] = c
        /\ \A i \in 1..Len(queued) : queued'[i] = queued[i]
    BY <1>1, <1>3 DEF Connect, NetTypeOK
  <2>2. /\ cl[c] = "new" /\ cl'[c] # "new" /\ (\A d \in Clients \ {c} : cl'[d] = cl[d])
        /\ fdConn' = fdConn
    BY <1>1, <1>3 DEF Connect, NetTypeOK
  <2>3. \A i \in 1..Len(queued) : queued[i] # c
    BY <2>2 DEF OneNumber
  <2>4. \A fd \in Fds : fdConn[fd] # c
    BY <2>2, ClientsAssumption DEF OneNumber
  <2>5. \A fd \in Fds : fdConn[fd] \in Clients \cup {NoConn}
    BY <1>1 DEF NetTypeOK
  <2>6. OneNumber'
    BY <1>1, <2>1, <2>2, <2>3, <2>4, <2>5 DEF OneNumber
  <2> QED
    BY <2>1, <2>2, <2>6 DEF Finished
<1>4. CASE \E c \in Clients : ClientStep(c)
  <2>1. PICK c \in Clients : ClientStep(c)
    BY <1>4
  <2>2. CASE Connect(c)
    BY <1>3, <2>2
  <2>3. CASE ~Connect(c)
    <3>1. UNCHANGED <<queued, fdConn>> /\ \A d \in Clients : cl'[d] = "new" <=> cl[d] = "new"
      BY <1>1, <2>1, <2>3 DEF ClientStep, ClientSend, ClientShutdown, ClientClose, ClientRead,
         PeerReset, NetTypeOK
    <3> QED
      BY <1>2, <3>1
  <2> QED
    BY <2>2, <2>3
<1>5. CASE Accept
  <2> DEFINE c == Head(queued)
  <2>1. PICK fd \in FreeFds : fdConn' = [fdConn EXCEPT ![fd] = c]
    BY <1>5 DEF Accept
  <2>2. /\ fd \in Fds /\ fdConn[fd] = NoConn /\ fdConn'[fd] = c /\ cl' = cl
        /\ \A f \in Fds \ {fd} : fdConn'[f] = fdConn[f]
    BY <1>1, <1>5, <2>1 DEF Accept, FreeFds, NetTypeOK
  <2>3. /\ Len(queued) \in Nat \ {0} /\ Len(queued') = Len(queued) - 1
        /\ c = queued[1] /\ c \in Clients
        /\ \A i \in 1..Len(queued') : queued'[i] = queued[i + 1]
    BY <1>1, <1>5 DEF Accept, NetTypeOK
  <2> HIDE DEF c
  <2>4. OneNumber'
    <3>1. \A f \in Fds : fdConn[f] # c
      BY <2>3 DEF OneNumber
    <3>2. \A i \in 1..Len(queued') : queued'[i] # c
      BY <2>3 DEF OneNumber
    <3>3. \A i, j \in 1..Len(queued') : queued'[i] = queued'[j] => i = j
      BY <2>3 DEF OneNumber
    <3>4. \A f \in Fds : \A i \in 1..Len(queued') : fdConn'[f] # queued'[i]
      BY <2>2, <2>3, <3>2 DEF OneNumber
    <3>5. \A i \in 1..Len(queued') : cl'[queued'[i]] # "new"
      BY <2>2, <2>3 DEF OneNumber
    <3>6. \A f \in Fds : fdConn'[f] # NoConn => cl'[fdConn'[f]] # "new"
      BY <2>2, <2>3 DEF OneNumber
    <3> QED
      BY <2>2, <3>1, <3>3, <3>4, <3>5, <3>6 DEF OneNumber
  <2>5. ASSUME NEW d \in Clients, Finished(d) PROVE Finished(d)'
    <3>1. cl[d] # "new" /\ (\A i \in 1..Len(queued) : queued[i] # d) /\ \A f \in Fds : fdConn[f] # d
      BY <2>5 DEF Finished
    <3>2. d # c
      BY <2>3, <3>1
    <3>3. \A i \in 1..Len(queued') : queued'[i] # d
      BY <2>3, <3>1
    <3>4. \A f \in Fds : fdConn'[f] # d
      BY <2>2, <3>1, <3>2
    <3> QED
      BY <2>2, <3>1, <3>3, <3>4 DEF Finished
  <2>6. \A f \in Fds, d \in Clients : fdConn[f] = d => fdConn'[f] = d
    BY <2>2, ClientsAssumption
  <2> QED
    BY <2>4, <2>5, <2>6
<1>6. CASE WorkClose
  <2>1. /\ UNCHANGED <<cl, queued>> /\ fdConn'[wfd] = NoConn /\ Serving
        /\ \A f \in Fds \ {wfd} : fdConn'[f] = fdConn[f]
    BY <1>1, <1>6 DEF WorkClose, Serving, NetTypeOK
  <2>2. fdConn[wfd] \in Clients /\ fdConn[wfd] # NoConn
    BY <1>1, <2>1, ClientsAssumption DEF OpenInv, ServedIsOpen, NetTypeOK
  <2>3. OneNumber'
    BY <1>1, <2>1, ClientsAssumption DEF OneNumber
  <2>4. \A d \in Clients : Finished(d) => Finished(d)'
    BY <2>1, ClientsAssumption DEF Finished
  <2>5. ASSUME NEW d \in Clients, fdConn[wfd] = d PROVE Finished(d)'
    <3>1. cl[d] # "new" /\ (\A i \in 1..Len(queued) : queued[i] # d) /\ \A f \in Fds \ {wfd} : fdConn[f] # d
      BY <1>1, <2>2, <2>5 DEF OneNumber
    <3> QED
      BY <2>1, <3>1, ClientsAssumption DEF Finished
  <2> QED
    BY <2>1, <2>3, <2>4, <2>5
<1>7. CASE AcceptCtl \/ (WorkThread /\ ~WorkClose) \/ PoolThread \/ Upstream
  <2>1. UNCHANGED <<queued, fdConn, cl>>
    BY <1>7 DEF AcceptCtl, Upstream, WorkThread, WorkWait, WorkPick, WorkRecv, WorkCommit, WorkRegister,
       WorkRecvEof, WorkRecvFault, Stop, WorkDel, WorkSendNothing, WorkSendBegin, WorkLoad,
       WorkSendPast, WorkResult, WorkCheck, WorkSend, WorkSendReset,
       WorkSendFault, WorkSent, WorkRearm, PoolThread, PoolWait, PoolPick, PoolClear, PoolRecv,
       PoolStore,
       PoolSuffix, PoolAdd, PoolGrow, PoolMod, PoolPast
  <2> QED
    BY <1>2, <2>1
<1> QED
  BY <1>4, <1>5, <1>6, <1>7 DEF Next, ListenThread

\* A request keeps its descriptor number and its client; a new one is made for
\* the connection behind the number.
LEMMA RequestsKept ==
    ASSUME OpenInv, Next
    PROVE  /\ DOMAIN reqs \subseteq DOMAIN reqs'
           /\ \A r \in DOMAIN reqs : /\ reqs'[r].fd = reqs[r].fd /\ reqs'[r].who = reqs[r].who
                                     /\ reqs'[r].lone = reqs[r].lone
           /\ \A r \in DOMAIN reqs' : r \notin DOMAIN reqs => fdConn'[reqs'[r].fd] = reqs'[r].who
<1>1. RpcTypeOK
  BY DEF OpenInv
<1>2. CASE WorkCommit
  <2>1. fdConn[wfd] \in Clients /\ fdConn' = fdConn
    BY <1>1, <1>2 DEF WorkCommit, OpenInv, RpcTypeOK, NetTypeOK, ServedIsOpen, Serving
  <2>2. /\ DOMAIN reqs' = DOMAIN reqs \cup {Len(reqs')} /\ \A r \in DOMAIN reqs : reqs'[r] = reqs[r]
        /\ reqs'[Len(reqs')].fd = wfd /\ reqs'[Len(reqs')].who = fdConn[wfd]
    BY <1>1, <1>2, <2>1, CommitAdds
  <2> QED
    BY <2>1, <2>2
<1>3. CASE WorkRegister
  BY <1>3, RegisterChanges
<1>4. CASE PoolStore
  BY <1>4, StoreChanges
<1>5. CASE Upstream
  BY <1>1, <1>5, UpstreamChanges
<1>6. CASE ~WorkCommit /\ ~WorkRegister /\ ~PoolStore /\ ~Upstream
  <2>1. reqs' = reqs
    BY <1>6 DEF Next, ListenThread, Accept, AcceptCtl, ClientStep, WorkThread, WorkWait, WorkPick,
       WorkRecv, WorkRecvEof, WorkRecvFault, Stop, WorkDel, WorkClose, WorkSendNothing,
       WorkSendBegin, WorkLoad, WorkSendPast, WorkResult, WorkCheck, WorkSend,
       WorkSendReset, WorkSendFault, WorkSent, WorkRearm, PoolThread, PoolWait, PoolPick,
       PoolClear, PoolRecv,
       PoolSuffix, PoolAdd, PoolGrow, PoolMod, PoolPast
  <2> QED
    BY <2>1
<1> QED
  BY <1>2, <1>3, <1>4, <1>5, <1>6

\* send_callback writes what the buffer of the number holds.
LEMMA EchoGrows ==
    ASSUME OpenInv, Next, NEW c \in Clients, NEW i \in 1..Len(echo'[c])
    PROVE  \/ i \in 1..Len(echo[c]) /\ echo'[c][i] = echo[c][i]
           \/ /\ wfd \in Fds /\ c = fdConn[wfd]
              /\ \E j \in 1..BufCells : echo'[c][i] = sbuf[wfd][j]
<1>1. RpcTypeOK
  BY DEF OpenInv
<1>2. CASE WorkSend /\ c = fdConn[wfd]
  <2> DEFINE b == SubSeq(sbuf[wfd], 1, wlen)
  <2>1. wfd \in Fds /\ wlen \in 0..BufCells /\ echo[c] \in Seq(Cell)
        /\ echo'[c] = echo[c] \o b /\ sbuf[wfd] \in [1..BufCells -> Cell]
    BY <1>1, <1>2 DEF WorkSend, RpcTypeOK, Inside
  <2>2. wlen \in Nat /\ wlen <= BufCells /\ BufCells \in Nat /\ Len(echo[c]) \in Nat
    BY <2>1, RpcAssumption, CapAssumption
  <2>3. b \in Seq(Cell) /\ Len(b) = wlen /\ \A j \in 1..wlen : b[j] = sbuf[wfd][j]
    <3>1. \A j \in 1..wlen : sbuf[wfd][j] \in Cell
      BY <2>1, <2>2
    <3>2. /\ b \in Seq(Cell)
          /\ Len(b) = IF 1 <= wlen THEN wlen - 1 + 1 ELSE 0
          /\ \A j \in 1..wlen - 1 + 1 : b[j] = sbuf[wfd][1 + j - 1]
      BY <2>2, <3>1, SubSeqProperties
    <3> HIDE DEF b
    <3>3. wlen - 1 + 1 = wlen /\ \A j \in 1..wlen : 1 + j - 1 = j
      BY <2>2
    <3> QED
      BY <2>2, <3>2, <3>3
  <2> HIDE DEF b
  <2>5. /\ Len(echo'[c]) = Len(echo[c]) + Len(b) /\ Len(b) \in Nat
        /\ \A k \in 1..Len(echo[c]) + Len(b) :
                echo'[c][k] = IF k <= Len(echo[c]) THEN echo[c][k] ELSE b[k - Len(echo[c])]
    <3>1. /\ Len(echo[c] \o b) = Len(echo[c]) + Len(b)
          /\ \A k \in 1..Len(echo[c]) + Len(b) :
                (echo[c] \o b)[k] = IF k <= Len(echo[c]) THEN echo[c][k] ELSE b[k - Len(echo[c])]
      BY <2>1, <2>3, ConcatProperties
    <3> QED
      BY <2>1, <2>2, <2>3, <3>1
  <2>6. CASE i <= Len(echo[c])
    BY <2>2, <2>3, <2>5, <2>6
  <2>7. CASE i > Len(echo[c])
    <3> DEFINE j == i - Len(echo[c])
    <3>1. i \in 1..Len(echo[c]) + Len(b)
      BY <2>5
    <3>2. j \in 1..wlen /\ j \in 1..BufCells
      BY <2>2, <2>3, <2>7, <3>1
    <3>3. echo'[c][i] = b[j]
      BY <2>2, <2>5, <2>7, <3>1
    <3>4. echo'[c][i] = sbuf[wfd][j]
      BY <2>3, <3>2, <3>3
    <3> HIDE DEF j
    <3> QED
      BY <1>2, <2>1, <3>2, <3>4
  <2> QED
    BY <2>2, <2>3, <2>5, <2>6, <2>7
<1>3. CASE ~(WorkSend /\ c = fdConn[wfd])
  <2>1. echo'[c] = echo[c]
    BY <1>1, <1>3 DEF Next, ListenThread, Accept, AcceptCtl, ClientStep, Connect, ClientSend,
       ClientShutdown, ClientClose, ClientRead, PeerReset, WorkThread, WorkWait, WorkPick,
       WorkRecv, WorkCommit, WorkRegister, WorkRecvEof, WorkRecvFault, Stop, WorkDel, WorkClose,
       WorkSendNothing, WorkSendBegin, WorkLoad, WorkSendPast, WorkResult, WorkCheck, WorkSend,
       WorkSendReset, WorkSendFault, WorkSent, WorkRearm, PoolThread,
       PoolWait, PoolPick, PoolClear, PoolRecv, PoolStore, PoolSuffix, PoolAdd, PoolGrow, PoolMod,
       PoolPast, Upstream, RpcTypeOK
  <2> QED
    BY <2>1
<1> QED
  BY <1>2, <1>3

\* What the pool's thread puts into a buffer is of the request it handles.
LEMMA BufferFilled ==
    ASSUME OpenInv, Next, NEW fd \in Fds, NEW i \in 1..BufCells
    PROVE  \/ sbuf'[fd][i] = sbuf[fd][i] \/ sbuf'[fd][i] = Nul
           \/ /\ rpc \notin {"wait", "pick"} /\ rcur \in DOMAIN reqs /\ fd = Target
              /\ sbuf'[fd][i][2] = rcur
<1>1. RpcTypeOK
  BY DEF OpenInv
<1>2. sbuf \in [Fds -> [1..BufCells -> Cell]] /\ Nul \in Cell
  BY <1>1 DEF RpcTypeOK, Nul, Cell
<1>3. rpc \notin {"wait", "pick"} => rcur \in DOMAIN reqs /\ rcur \in Nat /\ Target \in Fds
  BY <1>1, RequestFields DEF RpcTypeOK, Target
<1>4. CASE PoolPick
  <2>1. PICK r \in rbatch : Fill(reqs[r].fd, slen[reqs[r].fd], Nul)
    BY <1>4 DEF PoolPick
  <2>2. reqs[r].fd \in Fds
    BY <1>1, RequestFields DEF RpcTypeOK
  <2> QED
    BY <1>2, <2>1, <2>2, Filled
<1>5. CASE PoolClear
  BY <1>2, <1>3, <1>5, Filled DEF PoolClear
<1>6. CASE PoolRecv
  <2>1. <<"ans", rcur>> \in Cell
    BY <1>3, <1>6 DEF PoolRecv, Cell
  <2> QED
    BY <1>2, <1>3, <1>6, <2>1, Filled DEF PoolRecv
<1>7. CASE PoolSuffix
  BY <1>2, <1>3, <1>7 DEF PoolSuffix
<1>8. CASE ~PoolPick /\ ~PoolClear /\ ~PoolRecv /\ ~PoolSuffix
  <2>1. sbuf' = sbuf
    BY <1>8 DEF Next, ListenThread, Accept, AcceptCtl, ClientStep, WorkThread, WorkWait, WorkPick,
       WorkRecv, WorkCommit, WorkRegister, WorkRecvEof, WorkRecvFault, Stop, WorkDel, WorkClose,
       WorkSendNothing, WorkSendBegin, WorkLoad, WorkSendPast, WorkResult, WorkCheck,
       WorkSend, WorkSendReset, WorkSendFault, WorkSent, WorkRearm, PoolThread,
       PoolWait, PoolStore, PoolAdd, PoolGrow, PoolMod, PoolPast, Upstream
  <2> QED
    BY <2>1
<1> QED
  BY <1>4, <1>5, <1>6, <1>7, <1>8

THEOREM NextOwnerInv == OpenInv /\ OwnerInv /\ [Next]_vars => OwnerInv'
<1> SUFFICES ASSUME OpenInv, OwnerInv, [Next]_vars PROVE OwnerInv'
  OBVIOUS
<1>1. CASE UNCHANGED vars
  BY <1>1 DEF vars, OwnerInv, OneNumber, AskerBehind, BufferOfNumber, EchoOfRequests,
     MisdeliveryNeedsReuse, Finished, Cells
<1>2. CASE Next
  <2>1. /\ OneNumber'
        /\ \A d \in Clients : Finished(d) => Finished(d)'
        /\ \A fd \in Fds, d \in Clients : fdConn[fd] = d => fdConn'[fd] = d \/ Finished(d)'
    BY <1>2, NumbersKept DEF OwnerInv
  <2>2. /\ DOMAIN reqs \subseteq DOMAIN reqs'
        /\ \A r \in DOMAIN reqs : reqs'[r].fd = reqs[r].fd /\ reqs'[r].who = reqs[r].who
        /\ \A r \in DOMAIN reqs' : r \notin DOMAIN reqs => fdConn'[reqs'[r].fd] = reqs'[r].who
    BY <1>2, RequestsKept
  <2>3. \A r \in DOMAIN reqs : reqs[r].fd \in Fds /\ reqs[r].who \in Clients
    BY RequestFields DEF OpenInv
  <2>4. AskerBehind'
    <3> SUFFICES ASSUME NEW r \in DOMAIN reqs'
                 PROVE  (fdConn[reqs[r].fd] = reqs[r].who \/ Finished(reqs[r].who))'
      BY DEF AskerBehind
    <3>1. CASE r \in DOMAIN reqs
      <4>1. PICK d \in Clients, fd \in Fds : d = reqs[r].who /\ fd = reqs[r].fd
        BY <2>3, <3>1
      <4>2. fdConn[fd] = d \/ Finished(d)
        BY <3>1, <4>1 DEF OwnerInv, AskerBehind
      <4>3. reqs'[r].who = d /\ reqs'[r].fd = fd
        BY <2>2, <3>1, <4>1
      <4>4. fdConn'[fd] = d \/ Finished(d)'
        BY <2>1, <4>2
      <4> QED
        BY <4>3, <4>4 DEF Finished
    <3>2. CASE r \notin DOMAIN reqs
      BY <2>2, <3>2
    <3> QED
      BY <3>1, <3>2
  <2>5. BufferOfNumber'
    <3> SUFFICES ASSUME NEW fd \in Fds, NEW i \in 1..BufCells, sbuf'[fd][i] # Nul
                 PROVE  sbuf'[fd][i][2] \in DOMAIN reqs' /\ reqs'[sbuf'[fd][i][2]].fd = fd
      BY DEF BufferOfNumber
    <3>1. sbuf'[fd][i][2] \in DOMAIN reqs /\ reqs[sbuf'[fd][i][2]].fd = fd
      BY <1>2, BufferFilled DEF OwnerInv, BufferOfNumber, Target
    <3> QED
      BY <2>2, <3>1
  \* A cell just written is of a request that came from the number.
  <2>6. ASSUME NEW c \in Clients, NEW i \in 1..Len(echo'[c]), echo'[c][i] # Nul
        PROVE  /\ echo'[c][i][2] \in DOMAIN reqs
               /\ reqs[echo'[c][i][2]].who = c \/ Finished(reqs[echo'[c][i][2]].who)
    <3>1. CASE i \in 1..Len(echo[c]) /\ echo'[c][i] = echo[c][i]
      BY <2>6, <3>1 DEF OwnerInv, EchoOfRequests, MisdeliveryNeedsReuse, Cells
    <3>2. CASE /\ wfd \in Fds /\ c = fdConn[wfd]
               /\ \E j \in 1..BufCells : echo'[c][i] = sbuf[wfd][j]
      <4>1. echo'[c][i][2] \in DOMAIN reqs /\ reqs[echo'[c][i][2]].fd = wfd
        BY <2>6, <3>2 DEF OwnerInv, BufferOfNumber
      <4> QED
        BY <3>2, <4>1 DEF OwnerInv, AskerBehind
    <3> QED
      BY <1>2, <3>1, <3>2, EchoGrows
  <2>7. EchoOfRequests'
    BY <2>2, <2>6 DEF EchoOfRequests
  <2>8. MisdeliveryNeedsReuse'
    <3> SUFFICES ASSUME NEW c \in Clients, NEW cell \in Cells(c)'
                 PROVE  (reqs[cell[2]].who = c \/ Finished(reqs[cell[2]].who))'
      BY DEF MisdeliveryNeedsReuse
    <3>1. PICK i \in 1..Len(echo'[c]) : echo'[c][i] = cell /\ cell # Nul
      BY DEF Cells
    <3>2. /\ cell[2] \in DOMAIN reqs
          /\ reqs[cell[2]].who = c \/ Finished(reqs[cell[2]].who)
      BY <2>6, <3>1
    <3>3. PICK d \in Clients : d = reqs[cell[2]].who /\ reqs'[cell[2]].who = d
      BY <2>2, <2>3, <3>2
    <3>4. d = c \/ Finished(d)'
      BY <2>1, <3>2, <3>3
    <3> QED
      BY <3>3, <3>4 DEF Finished
  <2> QED
    BY <2>1, <2>4, <2>5, <2>7, <2>8 DEF OwnerInv
<1> QED
  BY <1>1, <1>2

LEMMA AlwaysOwner == Spec => [](OpenInv /\ OwnerInv)
<1>1. Init => OwnerInv
  BY DEF Init, NetInit, OwnerInv, OneNumber, AskerBehind, BufferOfNumber, EchoOfRequests,
     MisdeliveryNeedsReuse, Cells
<1> QED
  BY <1>1, InitOpenInv, NextOpenInv, NextOwnerInv, PTL DEF Spec

(* A client is written another client's reply only if that one's connection *)
(* was closed with its request pending: whatever the three threads          *)
(* interleave, two open connections never get each other's replies.         *)
THEOREM MisdeliveryExplained == Spec => []MisdeliveryNeedsReuse
<1>1. OwnerInv => MisdeliveryNeedsReuse
  BY DEF OwnerInv
<1> QED
  BY <1>1, AlwaysOwner, PTL

----------------------------------------------------------------------------
(* What is left to report a condition that holds.                           *)

\* A request that overlapped another one stays on record.
LEMMA OverlapStays ==
    ASSUME OpenInv, Next, NEW fd \in Fds, Overlapped(fd)
    PROVE  Overlapped(fd)'
BY RequestsKept DEF Overlapped, OnFd

\* A reply still expected by the connection of fd stays so, except that the
\* pool's thread is done with the one it switches its descriptor to output for.
LEMMA ExpectedKept ==
    ASSUME OpenInv, Next, NEW fd \in Fds, Expected(fd), interest'[fd] = interest[fd],
           fdConn'[fd] = fdConn[fd], PoolMod => fd # Target
    PROVE  Expected(fd)'
<1>1. RpcTypeOK
  BY DEF OpenInv
<1>2. CASE interest[fd] = "out" /\ Overlapped(fd)
  BY <1>2, OverlapStays DEF Expected
<1>3. ASSUME NEW r \in Own(fd), Unanswered(r) PROVE Expected(fd)'
  <2>1. r \in DOMAIN reqs /\ reqs[r].fd = fd /\ reqs[r].who = fdConn[fd]
    BY DEF Own, OnFd
  <2>2. r \in Own(fd)'
    BY <2>1, RequestsKept DEF Own, OnFd
  <2>3. reqs[r].st \in {"asked", "answered", "lost", "done"}
    BY <1>1, <2>1, RequestFields
  <2>4. CASE PoolStore
    <3>1. r = rcur \/ reqs'[r] = reqs[r]
      BY <2>1, <2>4, StoreChanges
    <3>2. rpc = "store" /\ rpc' = "suffix" /\ rcur' = rcur
      BY <2>4 DEF PoolStore
    <3>3. Unanswered(r)'
      BY <1>3, <3>1, <3>2 DEF Unanswered, UnderWay
    <3> QED
      BY <2>2, <3>3 DEF Expected
  <2>5. CASE WorkCommit
    <3>1. fdConn[wfd] \in Clients
      BY <1>1, <2>5 DEF WorkCommit, OpenInv, RpcTypeOK, NetTypeOK, ServedIsOpen, Serving
    <3>2. reqs'[r] = reqs[r] /\ UNCHANGED <<rpc, rcur>>
      BY <1>1, <2>1, <2>5, <3>1, CommitAdds DEF WorkCommit
    <3>3. Unanswered(r)'
      BY <1>3, <3>2 DEF Unanswered, UnderWay
    <3> QED
      BY <2>2, <3>3 DEF Expected
  <2>6. CASE WorkRegister \/ Upstream
    <3>1. \/ reqs'[r].st = reqs[r].st
          \/ reqs[r].st = "asked" /\ reqs'[r].st \in {"answered", "lost"}
      BY <1>1, <2>1, <2>6, RegisterChanges, UpstreamChanges
    <3>2. UNCHANGED <<rpc, rcur>>
      BY <2>6 DEF WorkRegister, Upstream
    <3>3. Unanswered(r)'
      BY <1>3, <3>1, <3>2 DEF Unanswered, UnderWay
    <3> QED
      BY <2>2, <3>3 DEF Expected
  <2>8. CASE ~PoolStore /\ ~WorkCommit /\ ~WorkRegister /\ ~Upstream
    <3>1. reqs' = reqs
      BY <2>8 DEF Next, ListenThread, Accept, AcceptCtl, ClientStep, WorkThread, WorkWait,
         WorkPick, WorkRecv, WorkRecvEof, WorkRecvFault, Stop, WorkDel, WorkClose,
         WorkSendNothing, WorkSendBegin, WorkLoad, WorkSendPast, WorkResult, WorkCheck, WorkSend,
         WorkSendReset, WorkSendFault, WorkSent, WorkRearm, PoolThread, PoolWait, PoolPick,
         PoolClear, PoolRecv, PoolSuffix, PoolAdd, PoolGrow, PoolMod, PoolPast
    <3>2. \/ PoolMod
          \/ rpc \in {"suffix", "add", "grow", "mod"} =>
                rpc' \in {"suffix", "add", "grow", "mod"} /\ rcur' = rcur
      BY <2>8 DEF Next, ListenThread, Accept, AcceptCtl, ClientStep, WorkThread, WorkWait,
         WorkPick, WorkRecv, WorkRecvEof, WorkRecvFault, Stop, WorkDel, WorkClose,
         WorkSendNothing, WorkSendBegin, WorkLoad, WorkSendPast, WorkResult, WorkCheck, WorkSend,
         WorkSendReset, WorkSendFault, WorkSent, WorkRearm, PoolThread, PoolWait, PoolPick,
         PoolClear, PoolRecv, PoolSuffix, PoolAdd, PoolGrow, PoolPast
    <3>3. PoolMod => rcur # r
      BY <2>1 DEF Target
    <3>4. PoolMod => rpc' \notin {"suffix", "add", "grow", "mod"}
      BY DEF PoolMod, PoolLoopPc
    <3>5. Unanswered(r)'
      BY <1>3, <3>1, <3>2, <3>3, <3>4 DEF Unanswered, UnderWay
    <3> QED
      BY <2>2, <3>5 DEF Expected
  <2> QED
    BY <2>4, <2>5, <2>6, <2>8
<1> QED
  BY <1>2, <1>3 DEF Expected

LEMMA NextOutput ==
    ASSUME OpenInv, WorkOutput, Next
    PROVE  WorkOutput'
<1>1. RpcTypeOK /\ NetTypeOK /\ wfd \in Fds
  BY DEF OpenInv, RpcTypeOK
<1>2. ASSUME \A fd \in Fds : interest[fd] = "out" => interest'[fd] = "out",
             batch' \subseteq batch, wfd' = wfd, Sending' => Sending
      PROVE  WorkOutput'
  BY <1>1, <1>2 DEF WorkOutput, RpcTypeOK
<1>3. CASE Upstream \/ Accept \/ \E c \in Clients : ClientStep(c)
  <2>1. UNCHANGED <<interest, batch, wpc, wfd>>
    BY <1>3 DEF Upstream, Accept, ClientStep, Connect, ClientSend, ClientShutdown, ClientClose,
       ClientRead, PeerReset
  <2> QED
    BY <1>2, <2>1 DEF Sending
<1>4. CASE AcceptCtl
  <2>1. /\ UNCHANGED <<batch, wpc, wfd>> /\ lfd \in Fds
        /\ interest' = [interest EXCEPT ![lfd] = "in"] /\ interest[lfd] = "none"
    BY <1>1, <1>4 DEF AcceptCtl, Register, OpenInv, RpcTypeOK, AcceptedIsOpen
  <2> QED
    BY <1>1, <1>2, <2>1 DEF Sending, NetTypeOK
<1>5. CASE WorkWait
  <2>1. /\ UNCHANGED interest /\ wpc' = "pick"
        /\ \A e \in batch' : e[2] = interest[e[1]]
    BY <1>5 DEF WorkWait
  <2> QED
    BY <2>1 DEF WorkOutput, Sending
<1>6. CASE WorkPick
  <2>1. PICK e \in batch : /\ wfd' = e[1] /\ batch' = batch \ {e}
                           /\ wpc' = IF e[2] = "in" THEN "recv" ELSE "send"
    BY <1>6 DEF WorkPick
  <2>2. UNCHANGED interest /\ e[2] \in {"in", "out"}
    BY <1>1, <1>6 DEF WorkPick, RpcTypeOK
  <2> QED
    BY <2>1, <2>2 DEF WorkOutput, Sending
<1>7. CASE \/ WorkRecv \/ WorkCommit \/ WorkRegister \/ WorkRecvEof \/ WorkRecvFault
           \/ WorkSendNothing \/ WorkSendBegin \/ WorkLoad \/ WorkSend \/ WorkSendReset
           \/ WorkSendFault \/ WorkSendPast \/ WorkResult \/ WorkCheck \/ WorkSent
  <2>1. UNCHANGED <<interest, batch, wfd>> /\ (Sending' => Sending)
    BY <1>7 DEF WorkRecv, WorkCommit, WorkRegister, WorkRecvEof, WorkRecvFault, WorkSendNothing,
       WorkSendBegin, WorkLoad, WorkSendPast, WorkResult, WorkCheck, WorkSent,
       WorkSend, WorkSendReset, WorkSendFault, Stop, LoopPc, Sending
  <2> QED
    BY <1>2, <2>1
<1>8. CASE WorkDel \/ WorkClose \/ WorkRearm
  <2>1. /\ UNCHANGED <<batch, wfd>> /\ Serving /\ ~Sending'
        /\ \E k \in {"none", "in"} : interest' = [interest EXCEPT ![wfd] = k]
    BY <1>8 DEF WorkDel, WorkClose, WorkRearm, Register, Deregister, LoopPc, Serving, Sending
  <2>2. \A e \in batch : interest'[e[1]] = interest[e[1]]
    BY <1>1, <2>1 DEF OpenInv, ServedIsOpen, RpcTypeOK, NetTypeOK
  <2> QED
    BY <2>1, <2>2 DEF WorkOutput
<1>9. CASE PoolThread
  <2>1. /\ UNCHANGED <<batch, wpc, wfd>>
        /\ interest' = interest \/ interest' = [interest EXCEPT ![Target] = "out"]
    BY <1>9 DEF PoolThread, PoolWait, PoolPick, PoolClear, PoolRecv, PoolStore, PoolSuffix, PoolAdd,
       PoolGrow, PoolMod, PoolPast, Stop, Register
  <2>2. \A fd \in Fds : interest[fd] = "out" => interest'[fd] = "out"
    BY <1>1, <2>1 DEF NetTypeOK
  <2> QED
    BY <1>2, <2>1, <2>2 DEF Sending
<1> QED
  BY <1>3, <1>4, <1>5, <1>6, <1>7, <1>8, <1>9 DEF Next, ListenThread, WorkThread

\* What the network and the clients leave alone.
LEMMA ListenSteps ==
    ASSUME Accept \/ AcceptCtl \/ \E c \in Clients : ClientStep(c)
    PROVE  UNCHANGED <<workVars, poolVars, reqs, bufVars, fault>>
BY DEF Accept, AcceptCtl, ClientStep

\* Most steps are no business of a request under way.
LEMMA RequestsAlone ==
    ASSUME OpenInv, Next, NEW fd \in Fds, AloneRequests(fd), interest'[fd] = "out" => interest[fd] = "out",
           slen'[fd] = slen[fd],
           \A r \in OnFd(fd)' : r \in OnFd(fd) /\ (UnderWay(r)' => UnderWay(r)),
           UNCHANGED <<rpc, rcur, rlen>> \/ rpc' \notin {"store", "grow", "mod"}, rpc # "mod" \/ rpc' = rpc
    PROVE  AloneRequests(fd)'
BY DEF AloneRequests

\* The pool's thread works on a request under way.
LEMMA HandledIsUnderWay ==
    ASSUME OpenInv
    PROVE  /\ rpc \notin {"wait", "pick"} => Target \in Fds /\ rcur \in OnFd(Target) /\ UnderWay(rcur)
           /\ \A r \in rbatch : reqs[r].fd \in Fds /\ r \in OnFd(reqs[r].fd) /\ UnderWay(r)
BY RequestFields DEF OpenInv, RpcTypeOK, PoolKnows, Target, OnFd, UnderWay

LEMMA NextAloneRequests ==
    ASSUME OpenInv, AloneInv, WorkOutput, Next, NEW fd \in Fds, ~Overlapped(fd)'
    PROVE  AloneRequests(fd)'
<1>1. RpcTypeOK /\ NetTypeOK /\ wfd \in Fds
  BY DEF OpenInv, RpcTypeOK
<1>2. AloneRequests(fd) /\ AloneOutput(fd) /\ AloneWork(fd)
  BY OverlapStays DEF AloneInv
\* Steps that leave the requests, and the pool's thread, as they are.
<1>3. ASSUME UNCHANGED <<reqs, rpc, rcur, rlen>>, interest'[fd] = "out" => interest[fd] = "out",
             slen'[fd] = slen[fd]
      PROVE  AloneRequests(fd)'
  BY <1>2, <1>3 DEF AloneRequests, OnFd, UnderWay
<1>4. CASE Accept \/ AcceptCtl \/ \E c \in Clients : ClientStep(c)
  <2>1. interest'[fd] = "out" => interest[fd] = "out"
    BY <1>1, <1>4 DEF Accept, AcceptCtl, ClientStep, Connect, ClientSend, ClientShutdown,
       ClientClose, ClientRead, PeerReset, Register, NetTypeOK
  <2> QED
    BY <1>3, <1>4, <2>1, ListenSteps
<1>5. CASE \/ WorkWait \/ WorkPick \/ WorkRecv \/ WorkRecvEof \/ WorkRecvFault \/ WorkDel \/ WorkClose
           \/ WorkSendNothing \/ WorkSendBegin \/ WorkLoad \/ WorkSend \/ WorkSendReset
           \/ WorkSendFault \/ WorkSendPast \/ WorkCheck \/ WorkRearm
  <2>1. /\ UNCHANGED <<reqs, rpc, rcur, rlen, slen>>
        /\ interest' = interest \/ \E k \in {"in", "none"} : interest' = [interest EXCEPT ![wfd] = k]
    BY <1>5 DEF WorkWait, WorkPick, WorkRecv, WorkRecvEof, WorkRecvFault, WorkDel, WorkClose,
       WorkSendNothing, WorkSendBegin, WorkLoad, WorkSendPast, WorkCheck,
       WorkSend, WorkSendReset, WorkSendFault, WorkRearm, Stop, Register, Deregister
  <2>2. interest'[fd] = "out" => interest[fd] = "out"
    BY <1>1, <2>1 DEF NetTypeOK
  <2> QED
    BY <1>3, <2>1, <2>2
\* Sending is for a descriptor on output, where no request is under way.
<1>6. CASE WorkResult \/ WorkSent
  <2>1. /\ UNCHANGED <<reqs, rpc, rcur, rlen, interest>> /\ Sending
        /\ \E n \in Length : slen' = [slen EXCEPT ![wfd] = n]
    BY <1>1, <1>6 DEF WorkResult, WorkSent, Sending, RpcTypeOK, Length
  <2>2. CASE fd = wfd
    <3>1. \A r \in OnFd(fd) : ~UnderWay(r)
      BY <1>2, <2>1, <2>2 DEF WorkOutput, AloneRequests
    <3> QED
      BY <2>1, <3>1 DEF AloneRequests, OnFd, UnderWay
  <2>3. CASE fd # wfd
    <3>1. slen'[fd] = slen[fd]
      BY <1>1, <2>1, <2>3 DEF RpcTypeOK
    <3> QED
      BY <1>3, <2>1, <3>1
  <2> QED
    BY <2>2, <2>3
\* A request for a number that rests is the only one under way there.
<1>7. CASE WorkCommit
  <2>1. fdConn[wfd] \in Clients
    BY <1>1, <1>7 DEF WorkCommit, OpenInv, RpcTypeOK, NetTypeOK, ServedIsOpen, Serving
  <2>2. PICK n : n = Len(reqs')
    OBVIOUS
  <2>3. /\ DOMAIN reqs' = DOMAIN reqs \cup {n} /\ n \notin DOMAIN reqs
        /\ \A r \in DOMAIN reqs : reqs'[r] = reqs[r]
        /\ reqs'[n].fd = wfd /\ reqs'[n].lone = Rested(wfd)
    BY <1>1, <1>7, <2>1, <2>2, CommitAdds
  <2>4. UNCHANGED <<interest, slen, rpc, rcur, rlen, wfd>> /\ wpc = "commit"
    BY <1>7 DEF WorkCommit
  <2>5. \A r \in DOMAIN reqs : UnderWay(r)' <=> UnderWay(r)
    BY <2>3, <2>4 DEF UnderWay
  <2>6. CASE fd # wfd
    <3>1. OnFd(fd)' = OnFd(fd)
      BY <2>3, <2>6 DEF OnFd
    <3> QED
      BY <1>2, <2>4, <2>5, <3>1 DEF AloneRequests, OnFd
  <2>7. CASE fd = wfd
    <3>1. n \in OnFd(fd)' /\ OnFd(fd)' \subseteq OnFd(fd) \cup {n}
      BY <2>3, <2>7 DEF OnFd
    <3>2. Rested(fd)
      BY <2>3, <2>7, <3>1 DEF Overlapped
    <3>3. slen[fd] = 0 /\ interest[fd] # "out" /\ \A r \in OnFd(fd) : ~UnderWay(r)'
      BY <1>2, <2>4, <2>5, <3>2 DEF Rested, AloneOutput, OnFd
    <3>4. rcur = n => rpc \in {"wait", "pick"}
      BY <1>1, <2>3 DEF RpcTypeOK
    <3> QED
      BY <2>4, <3>1, <3>3, <3>4 DEF AloneRequests
  <2> QED
    BY <2>6, <2>7
<1>8. CASE WorkRegister \/ Upstream
  <2>1. /\ DOMAIN reqs' = DOMAIN reqs
        /\ \A r \in DOMAIN reqs : /\ reqs'[r].fd = reqs[r].fd
                                  /\ \/ reqs'[r].st = reqs[r].st
                                     \/ reqs[r].st = "asked" /\ reqs'[r].st \in {"answered", "lost"}
    BY <1>1, <1>8, RegisterChanges, UpstreamChanges
  <2>2. UNCHANGED <<interest, slen, rpc, rcur, rlen>>
    BY <1>8 DEF WorkRegister, Upstream
  <2>3. OnFd(fd)' = OnFd(fd)
    BY <2>1 DEF OnFd
  <2>4. \A r \in OnFd(fd) : UnderWay(r)' => UnderWay(r)
    BY <2>1, <2>2 DEF UnderWay, OnFd
  <2> QED
    BY <1>2, <2>2, <2>3, <2>4 DEF AloneRequests
<1>9. CASE PoolWait \/ PoolPick \/ PoolClear \/ PoolSuffix \/ PoolPast
  <2>1. /\ UNCHANGED <<interest, slen, reqs>>
        /\ UNCHANGED <<rpc, rcur, rlen>> \/ rpc' \notin {"store", "grow", "mod"}
        /\ rpc' \in {"suffix", "add", "grow", "mod"} => rpc \in {"suffix", "add", "grow", "mod"} /\ rcur' = rcur
        /\ rpc # "mod" \/ rpc' = rpc
    BY <1>9 DEF PoolWait, PoolPick, PoolClear, PoolSuffix, PoolPast, Stop
  <2>2. \A r \in OnFd(fd)' : r \in OnFd(fd) /\ (UnderWay(r)' => UnderWay(r))
    BY <2>1 DEF OnFd, UnderWay
  <2> QED
    BY <1>2, <2>1, <2>2, RequestsAlone
<1>10. CASE PoolRecv
  <2>1. /\ UNCHANGED <<interest, slen, reqs, rcur>> /\ rpc = "recv" /\ rpc' = "store"
        /\ \E n \in 0..MaxReply : rlen' = Received(n)
    BY <1>10 DEF PoolRecv
  <2>2. OnFd(fd)' = OnFd(fd) /\ \A r \in OnFd(fd) : UnderWay(r)' => UnderWay(r)
    BY <2>1 DEF OnFd, UnderWay
  <2>3. rcur \in OnFd(fd) => rlen' = 0
    <3> SUFFICES ASSUME rcur \in OnFd(fd) PROVE rlen' = 0
      OBVIOUS
    <3>1. Target = fd /\ UnderWay(rcur)
      BY <2>1, HandledIsUnderWay DEF OnFd, Target
    <3>2. slen[Target] = 0
      BY <1>2, <2>1, <3>1 DEF AloneRequests
    <3> QED
      BY <2>1, <3>2, RpcAssumption DEF Received, Huge
  <2> QED
    BY <1>2, <2>1, <2>2, <2>3 DEF AloneRequests
<1>11. CASE PoolStore
  <2>1. /\ UNCHANGED <<interest, rcur, rlen>> /\ rpc = "store" /\ rpc' = "suffix"
        /\ slen' = [slen EXCEPT ![Target] = rlen]
    BY <1>11 DEF PoolStore
  <2>2. /\ DOMAIN reqs' = DOMAIN reqs
        /\ \A r \in DOMAIN reqs : reqs'[r].fd = reqs[r].fd /\ (r # rcur => reqs'[r] = reqs[r])
    BY <1>11, StoreChanges
  <2>3. Target \in Fds /\ rcur \in OnFd(Target) /\ UnderWay(rcur)
    BY <2>1, HandledIsUnderWay
  <2>4. OnFd(fd)' = OnFd(fd) /\ \A r \in OnFd(fd) : UnderWay(r)' => UnderWay(r)
    BY <2>1, <2>2, <2>3 DEF OnFd, UnderWay
  <2>5. CASE fd = Target
    <3>1. rlen = 0
      BY <1>2, <2>1, <2>3, <2>5 DEF AloneRequests
    <3>2. slen'[fd] = 0
      BY <1>1, <2>1, <2>5, <3>1 DEF RpcTypeOK
    <3> QED
      BY <1>2, <2>1, <2>4, <3>2 DEF AloneRequests
  <2>6. CASE fd # Target
    <3>1. slen'[fd] = slen[fd]
      BY <1>1, <2>1, <2>6 DEF RpcTypeOK
    <3> QED
      BY <1>2, <2>1, <2>4, <3>1 DEF AloneRequests
  <2> QED
    BY <2>5, <2>6
<1>12. CASE PoolAdd
  <2>1. /\ UNCHANGED <<interest, slen, reqs, rcur>> /\ rpc = "add" /\ rpc' = "grow"
        /\ rlen' = Wrapped(slen[Target]) + 1
    BY <1>12 DEF PoolAdd
  <2>2. OnFd(fd)' = OnFd(fd) /\ \A r \in OnFd(fd) : UnderWay(r)' => UnderWay(r)
    BY <2>1 DEF OnFd, UnderWay
  <2>3. rcur \in OnFd(fd) => rlen' = 1
    <3> SUFFICES ASSUME rcur \in OnFd(fd) PROVE rlen' = 1
      OBVIOUS
    <3>1. Target = fd /\ UnderWay(rcur)
      BY <2>1, HandledIsUnderWay DEF OnFd, Target
    <3>2. slen[Target] = 0
      BY <1>2, <2>1, <3>1 DEF AloneRequests
    <3> QED
      BY <2>1, <3>2 DEF Wrapped, Huge
  <2> QED
    BY <1>2, <2>1, <2>2, <2>3 DEF AloneRequests
<1>13. CASE PoolGrow
  <2>1. /\ UNCHANGED <<interest, reqs, rcur, rlen>> /\ rpc = "grow" /\ rpc' = "mod"
        /\ slen' = [slen EXCEPT ![Target] = rlen]
    BY <1>13 DEF PoolGrow
  <2>2. OnFd(fd)' = OnFd(fd) /\ \A r \in OnFd(fd) : UnderWay(r)' => UnderWay(r)
    BY <2>1 DEF OnFd, UnderWay
  <2>3. Target \in Fds /\ rcur \in OnFd(Target) /\ UnderWay(rcur)
    BY <2>1, HandledIsUnderWay
  <2>4. CASE fd = Target
    <3>1. rlen = 1
      BY <1>2, <2>1, <2>3, <2>4 DEF AloneRequests
    <3>2. slen'[fd] = 1
      BY <1>1, <2>1, <2>4, <3>1 DEF RpcTypeOK
    <3>3. \A r \in OnFd(fd) : UnderWay(r)' => r = rcur
      BY <1>2, <2>2, <2>3, <2>4 DEF AloneRequests
    <3> QED
      BY <1>2, <2>1, <2>2, <3>2, <3>3 DEF AloneRequests
  <2>5. CASE fd # Target
    <3>1. slen'[fd] = slen[fd] /\ rcur \notin OnFd(fd)
      BY <1>1, <2>1, <2>5 DEF RpcTypeOK, OnFd, Target
    <3> QED
      BY <1>2, <2>1, <2>2, <3>1 DEF AloneRequests
  <2> QED
    BY <2>4, <2>5
<1>14. CASE PoolMod
  <2>1. /\ UNCHANGED <<slen, reqs, rcur, rlen>> /\ rpc = "mod" /\ rpc' \in {"wait", "pick"}
        /\ interest' = interest \/ interest' = [interest EXCEPT ![Target] = "out"]
    BY <1>14 DEF PoolMod, PoolLoopPc, Register
  <2>2. OnFd(fd)' = OnFd(fd) /\ \A r \in OnFd(fd) : UnderWay(r)' => UnderWay(r)
    BY <2>1 DEF OnFd, UnderWay
  <2>3. Target \in Fds /\ rcur \in OnFd(Target) /\ UnderWay(rcur) /\ ~UnderWay(rcur)'
    BY <2>1, HandledIsUnderWay DEF OpenInv, PoolKnows, UnderWay
  <2>4. CASE fd = Target
    <3>1. \A r \in OnFd(fd) : ~UnderWay(r)'
      <4> SUFFICES ASSUME NEW r \in OnFd(fd), UnderWay(r)' PROVE FALSE
        OBVIOUS
      <4>1. UnderWay(r) /\ UnderWay(rcur) /\ rcur \in OnFd(fd)
        BY <2>2, <2>3, <2>4
      <4>2. r = rcur
        BY <1>2, <4>1 DEF AloneRequests
      <4> QED
        BY <2>1, <4>2 DEF UnderWay, OpenInv, PoolKnows
    <3> QED
      BY <2>2, <3>1 DEF AloneRequests
  <2>5. CASE fd # Target
    <3>1. interest'[fd] = interest[fd] /\ rcur \notin OnFd(fd)
      BY <1>1, <2>1, <2>5 DEF NetTypeOK, OnFd, Target
    <3> QED
      BY <1>2, <2>1, <2>2, <3>1 DEF AloneRequests
  <2> QED
    BY <2>4, <2>5
<1> QED
  BY <1>4, <1>5, <1>6, <1>7, <1>8, <1>9, <1>10, <1>11, <1>12, <1>13, <1>14
  DEF Next, ListenThread, WorkThread, PoolThread

LEMMA NextAloneOutput ==
    ASSUME OpenInv, AloneInv, WorkOutput, Next, NEW fd \in Fds, ~Overlapped(fd)'
    PROVE  AloneOutput(fd)'
<1>1. RpcTypeOK /\ NetTypeOK /\ wfd \in Fds
  BY DEF OpenInv, RpcTypeOK
<1>2. AloneRequests(fd) /\ AloneOutput(fd) /\ AloneWork(fd)
  BY OverlapStays DEF AloneInv
<1>3. ASSUME interest'[fd] = "out" => interest[fd] = "out", slen'[fd] = slen[fd],
             \/ UNCHANGED <<wpc, wfd>>
             \/ wpc \notin {"check", "sent", "rearm"}
      PROVE  AloneOutput(fd)'
  BY <1>2, <1>3 DEF AloneOutput
<1>4. CASE Accept \/ AcceptCtl \/ \E c \in Clients : ClientStep(c)
  <2>1. interest'[fd] = "out" => interest[fd] = "out"
    BY <1>1, <1>4 DEF Accept, AcceptCtl, ClientStep, Connect, ClientSend, ClientShutdown,
       ClientClose, ClientRead, PeerReset, Register, NetTypeOK
  <2> QED
    BY <1>3, <1>4, <2>1, ListenSteps
<1>5. CASE \/ WorkWait \/ WorkPick \/ WorkRecv \/ WorkCommit \/ WorkRegister \/ WorkRecvEof
           \/ WorkRecvFault \/ WorkSendNothing \/ WorkSendBegin \/ WorkLoad \/ WorkSend
           \/ WorkSendReset \/ WorkSendFault \/ WorkSendPast
  <2>1. UNCHANGED <<slen, interest>> /\ wpc \notin {"check", "sent", "rearm"}
    BY <1>5 DEF WorkWait, WorkPick, WorkRecv, WorkCommit, WorkRegister, WorkRecvEof, WorkRecvFault,
       WorkSendNothing, WorkSendBegin, WorkLoad, WorkSendPast,
       WorkSend, WorkSendReset, WorkSendFault, Stop
  <2> QED
    BY <1>3, <2>1
<1>6. CASE WorkDel \/ WorkClose \/ WorkRearm
  <2>1. /\ UNCHANGED <<slen, wfd>> /\ wpc \notin {"check", "sent"}
        /\ \E k \in {"in", "none"} : interest' = [interest EXCEPT ![wfd] = k]
    BY <1>6 DEF WorkDel, WorkClose, WorkRearm, Register, Deregister
  <2>2. /\ interest'[wfd] # "out"
        /\ fd # wfd => interest'[fd] = interest[fd]
    BY <1>1, <2>1 DEF NetTypeOK
  <2> QED
    BY <1>2, <2>1, <2>2 DEF AloneOutput
<1>7. CASE WorkResult \/ WorkSent
  <2>1. /\ UNCHANGED <<interest, wfd>>
        /\ \/ wpc = "result" /\ wpc' = "check" /\ slen' = [slen EXCEPT ![wfd] = wlen]
           \/ wpc = "sent" /\ wpc' = "rearm" /\ slen' = [slen EXCEPT ![wfd] = 0]
    BY <1>7 DEF WorkResult, WorkSent
  <2>2. CASE fd = wfd
    <3>1. \/ wpc' = "check" /\ slen'[fd] \in {Huge, 1}
          \/ wpc' = "rearm"
      BY <1>1, <1>2, <2>1, <2>2 DEF AloneWork, RpcTypeOK
    <3> QED
      BY <2>1, <2>2, <3>1 DEF AloneOutput, Huge
  <2>3. CASE fd # wfd
    <3>1. slen'[fd] = slen[fd]
      BY <1>1, <2>1, <2>3 DEF RpcTypeOK
    <3> QED
      BY <1>2, <2>1, <2>3, <3>1 DEF AloneOutput
  <2> QED
    BY <2>2, <2>3
<1>8. CASE WorkCheck
  <2>1. /\ UNCHANGED <<interest, wfd, slen>> /\ wpc = "check"
        /\ wpc' = IF slen[wfd] = 0 THEN "del" ELSE "sent"
    BY <1>8 DEF WorkCheck
  <2> QED
    BY <1>2, <2>1 DEF AloneOutput
<1>9. CASE Upstream \/ PoolWait \/ PoolPick \/ PoolClear \/ PoolRecv \/ PoolSuffix \/ PoolAdd \/ PoolPast
  <2>1. UNCHANGED <<slen, interest, wpc, wfd>>
    BY <1>9 DEF Upstream, PoolWait, PoolPick, PoolClear, PoolRecv, PoolSuffix, PoolAdd, PoolPast, Stop
  <2> QED
    BY <1>3, <2>1
<1>10. CASE PoolStore \/ PoolGrow
  <2>1. /\ UNCHANGED <<interest, wpc, wfd>> /\ rpc \in {"store", "grow"}
        /\ slen' = [slen EXCEPT ![Target] = rlen]
    BY <1>10 DEF PoolStore, PoolGrow
  <2>2. Target \in Fds /\ rcur \in OnFd(Target) /\ UnderWay(rcur)
    BY <2>1, HandledIsUnderWay
  <2>3. CASE fd = Target
    BY <1>2, <2>1, <2>2, <2>3 DEF AloneRequests, AloneOutput
  <2>4. CASE fd # Target
    <3>1. slen'[fd] = slen[fd]
      BY <1>1, <2>1, <2>4 DEF RpcTypeOK
    <3> QED
      BY <1>3, <2>1, <3>1
  <2> QED
    BY <2>3, <2>4
<1>11. CASE PoolMod
  <2>1. /\ UNCHANGED <<slen, wpc, wfd>> /\ rpc = "mod"
        /\ interest' = interest \/ interest' = [interest EXCEPT ![Target] = "out"]
    BY <1>11 DEF PoolMod, Register
  <2>2. Target \in Fds /\ rcur \in OnFd(Target) /\ UnderWay(rcur)
    BY <2>1, HandledIsUnderWay
  <2>3. CASE fd = Target
    <3>1. slen[fd] = 1
      BY <1>2, <2>1, <2>2, <2>3 DEF AloneRequests
    <3> QED
      BY <2>1, <3>1 DEF AloneOutput
  <2>4. CASE fd # Target
    <3>1. interest'[fd] = interest[fd]
      BY <1>1, <2>1, <2>4 DEF NetTypeOK
    <3> QED
      BY <1>3, <2>1, <3>1
  <2> QED
    BY <2>3, <2>4
<1> QED
  BY <1>4, <1>5, <1>6, <1>7, <1>8, <1>9, <1>10, <1>11
  DEF Next, ListenThread, WorkThread, PoolThread

LEMMA NextAloneWork ==
    ASSUME OpenInv, AloneInv, WorkOutput, Next, NEW fd \in Fds, ~Overlapped(fd)'
    PROVE  AloneWork(fd)'
<1>1. RpcTypeOK /\ NetTypeOK /\ wfd \in Fds
  BY DEF OpenInv, RpcTypeOK
<1>2. AloneRequests(fd) /\ AloneOutput(fd) /\ AloneWork(fd)
  BY OverlapStays DEF AloneInv
\* The client's end stays as it is once the client has left.
<1>3. CASE Accept \/ AcceptCtl \/ \E c \in Clients : ClientStep(c)
  <2>1. UNCHANGED <<wpc, wfd, wlen>>
    BY <1>3, ListenSteps
  <2>2. \A c \in Clients : (eof[c] => eof'[c]) /\ (rst[c] = "done" => rst'[c] = "done")
    <3>1. CASE Accept \/ AcceptCtl
      BY <3>1 DEF Accept, AcceptCtl
    <3>2. CASE \E c \in Clients : ClientStep(c)
      <4>1. PICK d \in Clients : ClientStep(d)
        BY <3>2
      <4>2. /\ eof' = eof \/ eof' = [eof EXCEPT ![d] = TRUE]
            /\ rst' = rst \/ (rst[d] # "done" /\ rst' = [rst EXCEPT ![d] = "pending"])
                          \/ rst' = [rst EXCEPT ![d] = "done"]
        BY <1>1, <4>1 DEF ClientStep, Connect, ClientSend, ClientShutdown, ClientClose,
           ClientRead, PeerReset, NetTypeOK
      <4>3. \A c \in Clients : eof[c] => eof'[c]
        BY <1>1, <4>2, Zenon DEF NetTypeOK
      <4>4. \A c \in Clients : rst[c] = "done" => rst'[c] = "done"
        BY <1>1, <4>2 DEF NetTypeOK
      <4> QED
        BY <4>3, <4>4
    <3> QED
      BY <1>3, <3>1, <3>2
  <2>3. Serving => fdConn[wfd] \in Clients /\ fdConn'[wfd] = fdConn[wfd]
    <3>1. Serving => fdConn[wfd] \in Clients
      BY <1>1 DEF OpenInv, ServedIsOpen, NetTypeOK
    <3>2. CASE Accept
      <4>1. PICK f \in FreeFds : fdConn' = [fdConn EXCEPT ![f] = Head(queued)]
        BY <3>2 DEF Accept
      <4>2. Serving => f # wfd
        BY <1>1, <3>1, <4>1, ClientsAssumption DEF FreeFds
      <4> QED
        BY <1>1, <3>1, <4>1, <4>2 DEF NetTypeOK
    <3>3. CASE ~Accept
      BY <1>3, <3>1, <3>3 DEF AcceptCtl, ClientStep, Connect, ClientSend, ClientShutdown,
         ClientClose, ClientRead, PeerReset
    <3> QED
      BY <3>2, <3>3
  <2> QED
    BY <1>2, <2>1, <2>2, <2>3 DEF AloneWork, Serving
<1>4. CASE \/ WorkWait \/ WorkPick \/ WorkRecv \/ WorkCommit \/ WorkRegister \/ WorkClose
           \/ WorkSendNothing \/ WorkSendBegin \/ WorkResult \/ WorkSent \/ WorkRearm
  <2>1. wpc' \notin {"write", "result", "del", "close"}
    BY <1>4 DEF WorkWait, WorkPick, WorkRecv, WorkCommit, WorkRegister, WorkClose,
       WorkSendNothing, WorkSendBegin, WorkResult, WorkSent, WorkRearm, LoopPc
  <2> QED
    BY <2>1 DEF AloneWork
<1>5. CASE WorkRecvFault \/ WorkSendFault \/ WorkSendPast \/ Upstream \/ PoolThread
  <2>1. UNCHANGED <<wpc, wfd, wlen, fdConn, eof, rst>>
    BY <1>5 DEF WorkRecvFault, WorkSendFault, WorkSendPast, Stop, Upstream, PoolThread, PoolWait,
       PoolPick, PoolClear, PoolRecv, PoolStore, PoolSuffix, PoolAdd, PoolGrow, PoolMod, PoolPast
  <2> QED
    BY <1>2, <2>1 DEF AloneWork
<1>6. CASE WorkRecvEof \/ WorkDel
  <2>1. /\ UNCHANGED <<wfd, fdConn, eof, rst>> /\ wpc' \in {"del", "close"}
        /\ \/ wpc = "del"
           \/ eof[fdConn[wfd]] \/ rst[fdConn[wfd]] = "done"
    BY <1>6 DEF WorkRecvEof, WorkDel
  <2> QED
    BY <1>2, <2>1 DEF AloneWork
<1>7. CASE WorkLoad
  <2>1. UNCHANGED wfd /\ wpc = "load" /\ wpc' = "write" /\ wlen' = slen[wfd]
    BY <1>7 DEF WorkLoad
  <2>2. interest[wfd] = "out"
    <3>1. Sending
      BY <2>1 DEF Sending
    <3> QED
      BY <3>1 DEF WorkOutput
  <2> QED
    BY <1>2, <2>1, <2>2 DEF AloneWork, AloneOutput
<1>8. CASE WorkSend \/ WorkSendReset
  <2>1. UNCHANGED wfd /\ wpc = "write" /\ wpc' = "result" /\ wlen' \in {wlen, Huge}
    BY <1>8 DEF WorkSend, WorkSendReset
  <2> QED
    BY <1>2, <2>1 DEF AloneWork
<1>9. CASE WorkCheck
  <2>1. /\ UNCHANGED wfd /\ wpc = "check"
        /\ slen[wfd] # 0 => wpc' = "sent"
    BY <1>9 DEF WorkCheck
  <2>2. interest[wfd] = "out"
    <3>1. Sending
      BY <2>1 DEF Sending
    <3> QED
      BY <3>1 DEF WorkOutput
  <2>3. fd = wfd => slen[wfd] # 0
    BY <1>2, <2>1, <2>2 DEF AloneOutput
  <2> QED
    BY <2>1, <2>3 DEF AloneWork
<1> QED
  BY <1>3, <1>4, <1>5, <1>6, <1>7, <1>8, <1>9 DEF Next, ListenThread, WorkThread

\* An access behind sbuffer is to a number where requests overlapped.
LEMMA NextPast ==
    ASSUME OpenInv, AloneInv, WorkOutput, Next, PastNeedsOverlap
    PROVE  PastNeedsOverlap'
<1>1. RpcTypeOK /\ NetTypeOK /\ wfd \in Fds
  BY DEF OpenInv, RpcTypeOK
<1>2. Inside(0) /\ Inside(1)
  BY RpcAssumption, CapAssumption DEF Inside
<1>3. CASE WorkSendPast
  <2>1. wpc = "write" /\ ~Inside(wlen)
    BY <1>3 DEF WorkSendPast
  <2>2. Overlapped(wfd)
    BY <1>1, <1>2, <2>1 DEF AloneInv, AloneWork
  <2> QED
    BY <1>1, <2>2, OverlapStays DEF PastNeedsOverlap
<1>4. CASE PoolPast
  <2>1. \A r \in rbatch : ~Inside(slen[reqs[r].fd]) /\ rpc = "pick" => Overlapped(reqs[r].fd)
    BY <1>2, HandledIsUnderWay DEF AloneInv, AloneRequests
  <2>2. rpc \in {"clear", "recv", "suffix"} => slen[Target] = 0 \/ Overlapped(Target)
    BY HandledIsUnderWay DEF AloneInv, AloneRequests
  <2>3. slen[Target] = 0 => /\ Inside(slen[Target]) /\ Inside(Wrapped(slen[Target]) + 1)
                            /\ \A n \in 0..MaxReply : Inside(Received(n))
    BY <1>2, RpcAssumption DEF Wrapped, Received, Huge
  <2>4. \/ rpc = "pick" /\ \E r \in rbatch : ~Inside(slen[reqs[r].fd])
        \/ /\ rpc \in {"clear", "recv", "suffix"}
           /\ \/ ~Inside(slen[Target]) \/ ~Inside(Wrapped(slen[Target]) + 1)
              \/ \E n \in 0..MaxReply : ~Inside(Received(n))
    BY <1>4 DEF PoolPast
  <2>5. \E fd \in Fds : Overlapped(fd)
    BY <2>1, <2>2, <2>3, <2>4, HandledIsUnderWay
  <2> QED
    BY <2>5, OverlapStays DEF PastNeedsOverlap
<1>5. CASE ~WorkSendPast /\ ~PoolPast
  <2>1. fault' # "past"
    BY <1>5 DEF Next, ListenThread, Accept, AcceptCtl, ClientStep, WorkThread, WorkWait,
       WorkPick, WorkRecv, WorkCommit, WorkRegister, WorkRecvEof, WorkRecvFault, Stop, WorkDel,
       WorkClose, WorkSendNothing, WorkSendBegin, WorkLoad, WorkResult, WorkCheck, WorkSend,
       WorkSendReset, WorkSendFault, WorkSent, WorkRearm, PoolThread, PoolWait, PoolPick,
       PoolClear, PoolRecv, PoolStore, PoolSuffix, PoolAdd, PoolGrow, PoolMod, Upstream
  <2> QED
    BY <2>1 DEF PastNeedsOverlap
<1> QED
  BY <1>3, <1>4, <1>5

\* No step but the pool's epoll_ctl loses sight of a descriptor whose condition
\* held before; what is new is on the ready list.
LEMMA NextReported ==
    ASSUME OpenInv, OneNumber, AloneInv, WorkOutput, BatchAtRest, Reported, Next, fault' = "none"
    PROVE  Reported'
<1>1. RpcTypeOK /\ NetTypeOK /\ wfd \in Fds
  BY DEF OpenInv, RpcTypeOK
\* Steps after which an old condition is as well reported as before.
<1>2. ASSUME NEW fd \in Fds, PoolMod => fd # Target, interest'[fd] = interest[fd], interest[fd] # "none",
             fdConn'[fd] = fdConn[fd], HasEvent(fd),
             fd \in ready => fd \in ready' \/ \E k \in {"in", "out"} : <<fd, k>> \in batch',
             \A k \in {"in", "out"} : <<fd, k>> \in batch => <<fd, k>> \in batch' \/ (Serving' /\ wfd' = fd),
             Serving /\ wfd = fd => Serving' /\ wfd' = fd
      PROVE  \/ fd \in ready'
             \/ \E k \in {"in", "out"} : <<fd, k>> \in batch'
             \/ Serving' /\ wfd' = fd
             \/ Expected(fd)'
  BY <1>2, ExpectedKept DEF Reported
\* As <1>2, for all descriptors at once.
<1>3. ASSUME ~PoolMod, UNCHANGED <<fdConn, interest, batch, wfd, sent, taken, echo, nread, eof, rst>>,
             ready \subseteq ready', Serving => Serving'
      PROVE  Reported'
  <2> SUFFICES ASSUME NEW fd \in Fds, interest'[fd] # "none", HasEvent(fd)'
               PROVE  \/ fd \in ready'
                      \/ \E k \in {"in", "out"} : <<fd, k>> \in batch'
                      \/ Serving' /\ wfd' = fd
                      \/ Expected(fd)'
    BY DEF Reported
  <2>1. HasEvent(fd)
    BY <1>3 DEF HasEvent, Readable, Writable, Avail, Unread
  <2> QED
    BY <1>2, <1>3, <2>1
<1>4. CASE \E c \in Clients : ClientStep(c)
  <2>1. PICK c \in Clients : ClientStep(c)
    BY <1>4
  <2>2. /\ UNCHANGED <<interest, fdConn, taken, echo, rpcVars>> /\ ready \subseteq ready'
        /\ \A d \in Clients \ {c} : /\ sent'[d] = sent[d] /\ nread'[d] = nread[d]
                                    /\ eof'[d] = eof[d] /\ rst'[d] = rst[d]
    BY <1>1, <2>1 DEF NetTypeOK, ClientStep, Connect, ClientSend, ClientShutdown, ClientClose,
       ClientRead, PeerReset, Wake
  <2> SUFFICES ASSUME NEW fd \in Fds, interest'[fd] # "none", HasEvent(fd)'
               PROVE  \/ fd \in ready'
                      \/ \E k \in {"in", "out"} : <<fd, k>> \in batch'
                      \/ Serving' /\ wfd' = fd
                      \/ Expected(fd)'
    BY DEF Reported
  <2>3. CASE HasEvent(fd)
    <3>1. ~PoolMod
      BY <2>2 DEF PoolMod, PoolLoopPc
    <3> QED
      BY <1>2, <2>2, <2>3, <3>1 DEF Serving
  <2>4. CASE ~HasEvent(fd)
    <3>1. fdConn[fd] \in Clients
      BY <1>1, <2>2 DEF OpenInv, EventsAreLive, NetTypeOK
    <3>2. fdConn[fd] = c
      BY <2>2, <2>4, <3>1 DEF HasEvent, Readable, Writable, Avail, Unread
    <3>3. CASE Connect(c) \/ ClientSend(c) \/ ClientShutdown(c) \/ ClientClose(c)
      <4>1. Readable(c)' => Readable(c) \/ ready' = ready \cup {f \in Fds : fdConn[f] = c /\ interest[f] \in {"in"}}
        BY <2>2, <3>3 DEF Connect, ClientSend, ClientShutdown, ClientClose, Wake, Readable, Avail
      <4>2. Writable(c)' => Writable(c)
        BY <2>2, <3>3 DEF Connect, ClientSend, ClientShutdown, ClientClose, Writable, Unread
      <4> QED
        BY <2>2, <2>4, <3>2, <4>1, <4>2 DEF HasEvent
    <3>4. CASE ClientRead(c)
      <4>1. Readable(c)' => Readable(c)
        BY <2>2, <3>4 DEF ClientRead, Readable, Avail
      <4>2. ready' = ready \cup {f \in Fds : fdConn[f] = c /\ interest[f] \in {"out"}}
        BY <3>4 DEF ClientRead, Wake
      <4> QED
        BY <2>2, <2>4, <3>2, <4>1, <4>2 DEF HasEvent
    <3>5. CASE PeerReset(c)
      BY <1>1, <2>2, <3>2, <3>5 DEF PeerReset, Wake, NetTypeOK
    <3> QED
      BY <2>1, <3>3, <3>4, <3>5 DEF ClientStep
  <2> QED
    BY <2>3, <2>4
<1>5. CASE Accept
  <2>1. PICK fd \in FreeFds : fdConn' = [fdConn EXCEPT ![fd] = Head(queued)]
    BY <1>5 DEF Accept
  <2>2. interest[fd] = "none" /\ \A f \in Fds : f # fd => fdConn'[f] = fdConn[f]
    BY <1>1, <2>1 DEF FreeFds, OpenInv, EventsAreLive, NetTypeOK
  <2>3. UNCHANGED <<interest, ready, batch, wpc, wfd, rpc, sent, taken, echo, nread, eof, rst>>
    BY <1>5 DEF Accept
  <2>4. ~PoolMod
    BY <2>3 DEF PoolMod, PoolLoopPc
  <2>5. \A f \in Fds : interest[f] # "none" /\ HasEvent(f)' => HasEvent(f)
    BY <2>2, <2>3 DEF HasEvent, Readable, Writable, Avail, Unread
  <2>6. \A f \in Fds : interest'[f] # "none" => fdConn'[f] = fdConn[f]
    BY <2>2, <2>3
  <2>7. Serving' <=> Serving
    BY <2>3 DEF Serving
  <2> QED
    BY <1>2, <2>3, <2>4, <2>5, <2>6, <2>7 DEF Reported
\* Registering a descriptor looks at its condition.
<1>6. CASE AcceptCtl \/ WorkRearm \/ PoolMod
  <2>1. /\ UNCHANGED <<fdConn, batch, wfd, sent, taken, echo, nread, eof, rst>>
        /\ Serving /\ ~PoolMod => WorkRearm \/ Serving'
        /\ WorkRearm => Serving /\ ~PoolMod
        /\ Serving /\ ~WorkRearm => Serving'
    BY <1>6 DEF AcceptCtl, WorkRearm, PoolMod, PoolLoopPc, Register, Serving
  <2>2. PICK t \in Fds, k \in {"none", "in", "out"} :
          /\ IF k = "none" THEN UNCHANGED <<interest, ready>> /\ interest[t] = "none" ELSE Register(t, k)
          /\ PoolMod => t = Target
          /\ WorkRearm => t = wfd
    <3>1. CASE AcceptCtl
      BY <1>1, <3>1 DEF AcceptCtl, WorkRearm, PoolMod, PoolLoopPc, RpcTypeOK
    <3>2. CASE WorkRearm
      BY <1>1, <2>1, <3>2 DEF WorkRearm, PoolMod, PoolLoopPc, RpcTypeOK
    <3>3. CASE PoolMod
      <4>1. Target \in Fds
        BY <1>1, <3>3, RequestFields DEF PoolMod, RpcTypeOK, Target
      <4> QED
        BY <2>1, <3>3, <4>1 DEF PoolMod
    <3> QED
      BY <1>6, <3>1, <3>2, <3>3
  <2>3. /\ ready \subseteq ready'
        /\ \A fd \in Fds : fd # t => interest'[fd] = interest[fd]
        /\ interest'[t] # "none" /\ HasEvent(t)' => t \in ready'
    BY <1>1, <2>1, <2>2 DEF Register, HasEvent, Readable, Writable, Avail, Unread, NetTypeOK
  <2> SUFFICES ASSUME NEW fd \in Fds, interest'[fd] # "none", HasEvent(fd)', fd # t
               PROVE  \/ fd \in ready'
                      \/ \E m \in {"in", "out"} : <<fd, m>> \in batch'
                      \/ Serving' /\ wfd' = fd
                      \/ Expected(fd)'
    BY <2>3 DEF Reported
  <2>4. HasEvent(fd) /\ interest'[fd] = interest[fd]
    BY <2>1, <2>3 DEF HasEvent, Readable, Writable, Avail, Unread
  <2>5. Serving /\ wfd = fd => Serving' /\ wfd' = fd
    BY <2>1, <2>2
  <2> QED
    BY <1>2, <2>1, <2>2, <2>3, <2>4, <2>5
<1>7. CASE WorkWait
  <2>1. /\ UNCHANGED <<fdConn, interest, wfd, sent, taken, echo, nread, eof, rst, rpc>> /\ ~Serving
        /\ batch' = {<<f, interest[f]>> : f \in {g \in ready : HasEvent(g)}} /\ wpc = "wait"
    BY <1>7 DEF WorkWait, Serving
  <2>2. ~PoolMod
    BY <2>1 DEF PoolMod, PoolLoopPc
  <2> SUFFICES ASSUME NEW fd \in Fds, interest'[fd] # "none", HasEvent(fd)'
               PROVE  \/ fd \in ready'
                      \/ \E m \in {"in", "out"} : <<fd, m>> \in batch'
                      \/ Serving' /\ wfd' = fd
                      \/ Expected(fd)'
    BY DEF Reported
  <2>3. HasEvent(fd)
    BY <2>1 DEF HasEvent, Readable, Writable, Avail, Unread
  <2>4. fd \in ready => \E m \in {"in", "out"} : <<fd, m>> \in batch'
    BY <2>1, <2>3 DEF HasEvent
  <2>5. batch = {}
    BY <2>1 DEF BatchAtRest
  <2> QED
    BY <1>2, <2>1, <2>2, <2>3, <2>4, <2>5
<1>8. CASE WorkPick
  <2>1. PICK e \in batch : /\ wfd' = e[1] /\ batch' = batch \ {e} /\ wpc' \in {"recv", "send"}
    BY <1>8 DEF WorkPick
  <2>2. UNCHANGED <<fdConn, interest, ready, sent, taken, echo, nread, eof, rst, rpc>> /\ ~Serving /\ Serving'
    BY <1>8 DEF WorkPick, Serving
  <2>3. ~PoolMod
    BY <2>2 DEF PoolMod, PoolLoopPc
  <2>4. \A f \in Fds : HasEvent(f)' => HasEvent(f)
    BY <2>2 DEF HasEvent, Readable, Writable, Avail, Unread
  <2> QED
    BY <1>2, <2>1, <2>2, <2>3, <2>4 DEF Reported
\* What the work thread does to the connection it serves is no other's business.
<1>9. ASSUME Serving, UNCHANGED <<batch, wfd, rpc>>,
             \A f \in Fds : f # wfd => /\ interest'[f] = interest[f] /\ (f \in ready => f \in ready')
                                       /\ interest[f] # "none" => fdConn'[f] = fdConn[f]
                                       /\ interest[f] # "none" /\ HasEvent(f)' => HasEvent(f)
      PROVE  \A fd \in Fds :
                fd # wfd /\ interest'[fd] # "none" /\ HasEvent(fd)' =>
                    \/ fd \in ready'
                    \/ \E k \in {"in", "out"} : <<fd, k>> \in batch'
                    \/ Expected(fd)'
  <2>1. ~PoolMod
    BY <1>9 DEF PoolMod, PoolLoopPc
  <2> QED
    BY <1>2, <1>9, <2>1
<1>10. CASE WorkRecv \/ WorkSend \/ WorkSendReset
  <2>1. /\ UNCHANGED <<fdConn, interest, ready, batch, wfd, rpc, sent, nread, eof>> /\ Serving /\ Serving'
        /\ \A d \in Clients : d # fdConn[wfd] => taken'[d] = taken[d] /\ echo'[d] = echo[d] /\ rst'[d] = rst[d]
    BY <1>1, <1>10 DEF WorkRecv, WorkSend, WorkSendReset, Serving, RpcTypeOK, NetTypeOK
  <2>2. \A f \in Fds : f # wfd /\ interest[f] # "none" => fdConn[f] \in Clients /\ fdConn[f] # fdConn[wfd]
    BY <1>1 DEF OneNumber, OpenInv, EventsAreLive, NetTypeOK
  <2>3. \A f \in Fds : f # wfd /\ interest[f] # "none" /\ HasEvent(f)' => HasEvent(f)
    BY <2>1, <2>2 DEF HasEvent, Readable, Writable, Avail, Unread
  <2> QED
    BY <1>9, <2>1, <2>3 DEF Reported
<1>11. CASE \/ WorkCommit \/ WorkRecvEof \/ WorkDel \/ WorkSendBegin \/ WorkLoad \/ WorkResult
            \/ WorkCheck \/ WorkSent
  <2>1. /\ UNCHANGED <<fdConn, batch, wfd, rpc, sent, taken, echo, nread, eof, rst>> /\ Serving /\ Serving'
        /\ \A f \in Fds : f # wfd => /\ interest'[f] = interest[f] /\ (f \in ready => f \in ready')
    BY <1>1, <1>11 DEF WorkCommit, WorkRecvEof, WorkSent, WorkDel, WorkSendBegin, WorkLoad, WorkResult,
       WorkCheck, Deregister, Serving, NetTypeOK
  <2>2. \A f \in Fds : f # wfd /\ HasEvent(f)' => HasEvent(f)
    BY <2>1 DEF HasEvent, Readable, Writable, Avail, Unread
  <2> QED
    BY <1>9, <2>1, <2>2 DEF Reported
<1>12. CASE WorkClose
  <2>1. /\ UNCHANGED <<batch, wfd, rpc, sent, taken, echo, nread, eof, rst>> /\ Serving
        /\ interest'[wfd] = "none"
        /\ \A f \in Fds : f # wfd => /\ interest'[f] = interest[f] /\ (f \in ready => f \in ready')
                                  /\ fdConn'[f] = fdConn[f]
    BY <1>1, <1>12 DEF WorkClose, Deregister, Serving, NetTypeOK
  <2>2. \A f \in Fds : f # wfd /\ HasEvent(f)' => HasEvent(f)
    BY <2>1 DEF HasEvent, Readable, Writable, Avail, Unread
  <2> QED
    BY <1>9, <2>1, <2>2 DEF Reported
\* The request just committed will re-arm the descriptor.
<1>13. CASE WorkRegister
  <2>1. UNCHANGED <<netVars, batch, wfd, rpc>> /\ Serving /\ wpc = "register"
    BY <1>13 DEF WorkRegister, Serving
  <2>2. \A f \in Fds : HasEvent(f)' => HasEvent(f)
    BY <2>1 DEF HasEvent, Readable, Writable, Avail, Unread
  <2>3. /\ Len(reqs) \in DOMAIN reqs /\ reqs[Len(reqs)].fd = wfd /\ reqs[Len(reqs)].st # "done"
        /\ reqs[Len(reqs)].who = fdConn[wfd]
    BY <2>1 DEF OpenInv, CommitIsLast
  <2>4. PICK r \in DOMAIN reqs' : reqs'[r].fd = wfd /\ reqs'[r].who = fdConn[wfd] /\ reqs'[r].st # "done"
    BY <1>13, <2>3, RegisterChanges
  <2>5. /\ reqs' \in Seq(Request)
        /\ fdConn'[wfd] = fdConn[wfd]
    BY <1>13, <2>1, RegisterChanges
  <2>6. reqs'[r].st \in {"asked", "answered", "lost"}
    <3>1. reqs'[r] \in Request
      BY <2>4, <2>5
    <3> QED
      BY <2>4, <3>1 DEF Request
  <2>7. r \in Own(wfd)' /\ Unanswered(r)'
    BY <2>1, <2>4, <2>5, <2>6 DEF Own, OnFd, Unanswered, UnderWay
  <2>8. ASSUME NEW fd \in Fds, fd = wfd PROVE Expected(fd)'
    BY <2>1, <2>7, <2>8 DEF Expected
  <2> QED
    BY <1>9, <2>1, <2>2, <2>8 DEF Reported
\* send_callback finds nothing to send only when a second request emptied slen.
<1>14. CASE WorkSendNothing
  <2>1. UNCHANGED <<netVars, batch, wfd, reqs, rpc>> /\ Serving /\ wpc = "send" /\ slen[wfd] = 0
    BY <1>14 DEF WorkSendNothing, Serving
  <2>2. \A f \in Fds : HasEvent(f)' => HasEvent(f)
    BY <2>1 DEF HasEvent, Readable, Writable, Avail, Unread
  <2>3. interest[wfd] = "out" /\ Overlapped(wfd)
    BY <1>1, <2>1 DEF WorkOutput, Sending, AloneInv, AloneOutput
  <2>4. ASSUME NEW fd \in Fds, fd = wfd PROVE Expected(fd)'
    BY <2>1, <2>3, <2>4 DEF Expected, Overlapped, OnFd
  <2> QED
    BY <1>9, <2>1, <2>2, <2>4 DEF Reported
<1>15. CASE \/ Upstream \/ PoolWait \/ PoolPick \/ PoolClear \/ PoolRecv \/ PoolStore \/ PoolSuffix
            \/ PoolAdd \/ PoolGrow
  <2>1. UNCHANGED <<netVars, batch, wpc, wfd>> /\ (rpc' \in {"wait", "pick"} => rpc # "mod")
    BY <1>15 DEF Upstream, PoolWait, PoolPick, PoolClear, PoolRecv, PoolStore, PoolSuffix, PoolAdd,
       PoolGrow
  <2>2. ~PoolMod
    BY <2>1 DEF PoolMod, PoolLoopPc
  <2> QED
    BY <1>3, <2>1, <2>2 DEF Serving
<1>16. CASE WorkRecvFault \/ WorkSendFault \/ WorkSendPast \/ PoolPast
  BY <1>16 DEF WorkRecvFault, WorkSendFault, WorkSendPast, PoolPast, Stop
<1> QED
  BY <1>4, <1>5, <1>6, <1>7, <1>8, <1>10, <1>11, <1>12, <1>13, <1>14, <1>15, <1>16
  DEF Next, ListenThread, WorkThread, PoolThread

THEOREM NextNeglectInv == OpenInv /\ OneNumber /\ NeglectInv /\ [Next]_vars => NeglectInv'
<1> SUFFICES ASSUME OpenInv, OneNumber, NeglectInv, [Next]_vars PROVE NeglectInv'
  OBVIOUS
<1>1. CASE Next
  <2>1. AloneInv /\ WorkOutput /\ BatchAtRest /\ PastNeedsOverlap
    BY DEF NeglectInv
  <2>2. WorkOutput' /\ PastNeedsOverlap'
    BY <1>1, <2>1, NextOutput, NextPast
  <2>3. AloneInv'
    BY <1>1, <2>1, NextAloneRequests, NextAloneOutput, NextAloneWork DEF AloneInv
  <2>4. BatchAtRest'
    BY <1>1, <2>1 DEF BatchAtRest, Next, ListenThread, Accept, AcceptCtl, ClientStep, WorkThread,
       WorkWait, WorkPick, WorkRecv, WorkCommit, WorkRegister, WorkRecvEof, WorkRecvFault, Stop,
       WorkDel, WorkClose, WorkSendNothing, WorkSendBegin, WorkLoad, WorkSendPast, WorkResult,
       WorkCheck, WorkSend, WorkSendReset, WorkSendFault, WorkSent, WorkRearm, PoolThread, PoolWait,
       PoolPick, PoolClear, PoolRecv, PoolStore, PoolSuffix, PoolAdd, PoolGrow, PoolMod, PoolPast,
       Upstream, LoopPc
  <2>5. fault' = "none" => Reported'
    BY <1>1, <2>1, NextReported DEF NeglectInv, Next
  <2> QED
    BY <2>2, <2>3, <2>4, <2>5 DEF NeglectInv
<1>2. CASE UNCHANGED vars
  BY <1>2 DEF vars, NeglectInv, AloneInv, AloneRequests, AloneOutput, AloneWork, WorkOutput, Sending,
     BatchAtRest, PastNeedsOverlap, Reported, Expected, Own, Unanswered, UnderWay, Overlapped,
     OnFd, HasEvent, Readable, Writable, Avail, Unread, Serving
<1> QED
  BY <1>1, <1>2

(* Whatever the three threads and the clients interleave, a connection is   *)
(* left without an event, closed under its client or written behind its     *)
(* buffer only while a reply it asked for itself has not come, or after a   *)
(* request was committed for its number on top of another one.              *)
THEOREM NeglectExplained == Spec => []NeglectNeedsLossOrOverlap
<1>1. Init => NeglectInv
  <2> SUFFICES ASSUME Init PROVE NeglectInv
    OBVIOUS
  <2>1. \A fd \in Fds : interest[fd] = "none"
    BY DEF Init, NetInit
  <2>2. reqs = <<>> /\ wpc = "wait" /\ batch = {} /\ fault = "none"
    BY DEF Init
  <2>3. \A fd \in Fds : OnFd(fd) = {}
    BY <2>2 DEF OnFd
  <2>4. AloneInv /\ WorkOutput
    BY <2>1, <2>2, <2>3 DEF AloneInv, AloneRequests, AloneOutput, AloneWork, WorkOutput, Sending
  <2> QED
    BY <2>1, <2>2, <2>4 DEF NeglectInv, BatchAtRest, PastNeedsOverlap, Reported
<1>2. OpenInv /\ NeglectInv => NeglectNeedsLossOrOverlap
  <2> SUFFICES ASSUME OpenInv, NeglectInv PROVE NeglectNeedsLossOrOverlap
    OBVIOUS
  <2>1. fault = "none" =>
            \A fd \in Fds : Deaf(fd) =>
                (\E r \in Own(fd) : Unanswered(r)) \/ (interest[fd] = "out" /\ Overlapped(fd))
    BY DEF NeglectInv, Reported, Expected, Deaf
  <2>2. wpc \in {"del", "close"} => eof[fdConn[wfd]] \/ rst[fdConn[wfd]] = "done" \/ Overlapped(wfd)
    BY DEF OpenInv, RpcTypeOK, NeglectInv, AloneInv, AloneWork
  <2> QED
    BY <2>1, <2>2 DEF NeglectInv, PastNeedsOverlap, NeglectNeedsLossOrOverlap
<1> QED
  BY <1>1, <1>2, AlwaysOwner, NextNeglectInv, PTL DEF Spec, OwnerInv

----------------------------------------------------------------------------
(* One call at a time.                                                      *)

USE DEF Pending

\* What is known of the connection behind a descriptor that is open.
LEMMA ConnFacts ==
    ASSUME OpenInv, OneCall, NEW c \in Clients
    PROVE  /\ echo[c] \in Seq(Cell) /\ Len(echo[c]) \in Nat
           /\ taken[c] \in Nat /\ sent[c] \in Nat /\ nread[c] \in Nat
           /\ Len(echo[c]) <= taken[c] /\ taken[c] <= sent[c] /\ sent[c] <= Len(echo[c]) + 1
           /\ nread[c] <= Len(echo[c]) /\ rst[c] = "no"
           /\ eof[c] => sent[c] = Len(echo[c]) /\ cl[c] \in {"shut", "gone"}
           /\ cl[c] = "gone" => nread[c] = Len(echo[c]) /\ eof[c]
<1>1. /\ echo[c] \in Seq(Cell) /\ taken[c] \in Nat /\ sent[c] \in 0..MaxBytes /\ nread[c] \in Nat
      /\ MaxBytes \in Nat
  BY CapAssumption DEF OpenInv, RpcTypeOK, NetTypeOK
<1>2. Len(echo[c]) \in Nat
  BY <1>1
<1> QED
  BY <1>1, <1>2 DEF OneCall

(* Who waits for an answer neither sends nor leaves.                        *)
LEMMA ClientCall ==
    ASSUME ~Pipelining, ~Leaving, OpenInv, CallInv, NEW c \in Clients, ClientStep(c)
    PROVE  CallInv'
<1>1. NetTypeOK /\ echo[c] \in Seq(Cell) /\ wfd \in Fds
  BY DEF OpenInv, RpcTypeOK
<1>2. NetTypeOK' /\ UNCHANGED <<interest, fdConn, taken, echo, rpcVars>>
  BY <1>1, ClientTyped
<1>3. PendingWaits' /\ ReplyWaits' /\ AnswersAreOwn'
  <2>1. UNCHANGED <<interest, fdConn, taken, echo, batch, wfd, wpc, rpc, rcur, rlen, reqs, sbuf, slen>>
    BY <1>2
  <2>2. PendingWaits'
    BY <2>1 DEF CallInv, PendingWaits, Waits, Progress, Unsent, Handled, OnFd, Serving
  <2>3. ReplyWaits'
    BY <2>1 DEF CallInv, ReplyWaits, ReplyFits, Unsent, Handled, OnFd
  <2> QED
    BY <2>1, <2>2, <2>3 DEF CallInv, AnswersAreOwn
<1>4. /\ echo[c] \in Seq(Cell) /\ Len(echo[c]) \in Nat
      /\ taken[c] \in Nat /\ sent[c] \in Nat /\ nread[c] \in Nat
      /\ Len(echo[c]) <= taken[c] /\ taken[c] <= sent[c] /\ sent[c] <= Len(echo[c]) + 1
      /\ nread[c] <= Len(echo[c]) /\ rst[c] = "no"
      /\ eof[c] => sent[c] = Len(echo[c]) /\ cl[c] \in {"shut", "gone"}
      /\ cl[c] = "gone" => nread[c] = Len(echo[c]) /\ eof[c]
  BY ConnFacts DEF CallInv
<1>5. \A d \in Clients \ {c} : /\ sent'[d] = sent[d] /\ nread'[d] = nread[d] /\ cl'[d] = cl[d]
                               /\ eof'[d] = eof[d] /\ rst'[d] = rst[d]
  BY <1>1 DEF NetTypeOK, ClientStep, Connect, ClientSend, ClientShutdown, ClientClose, ClientRead,
     PeerReset
<1>6. /\ taken[c] <= sent'[c] /\ sent'[c] <= Len(echo[c]) + 1
      /\ nread'[c] <= Len(echo[c]) /\ rst'[c] = "no" /\ (eof[c] => eof'[c])
      /\ eof'[c] => sent'[c] = Len(echo[c]) /\ cl'[c] \in {"shut", "gone"}
      /\ cl'[c] = "gone" => nread'[c] = Len(echo[c]) /\ eof'[c]
  <2>1. CASE Connect(c)
    BY <1>1, <1>4, <2>1 DEF Connect, NetTypeOK
  <2>2. CASE ClientSend(c) /\ Settled(c)
    BY <1>1, <1>4, <2>2 DEF ClientSend, Settled, NetTypeOK
  <2>3. CASE ClientShutdown(c) /\ Settled(c)
    BY <1>1, <1>4, <2>3 DEF ClientShutdown, Settled, NetTypeOK
  <2>4. CASE ClientClose(c) /\ Settled(c)
    BY <1>1, <1>4, <2>4 DEF ClientClose, Settled, Unread, NetTypeOK
  <2>5. CASE ClientRead(c)
    BY <1>1, <1>4, <2>5 DEF ClientRead, NetTypeOK
  <2>6. CASE PeerReset(c)
    BY <1>4, <2>6 DEF PeerReset, Unread
  <2> QED
    BY <2>1, <2>2, <2>3, <2>4, <2>5, <2>6 DEF ClientStep
<1>7. OneCall'
  BY <1>2, <1>4, <1>5, <1>6 DEF CallInv, OneCall
<1>8. WorkKnows'
  <2>1. \A d \in Clients : eof[d] => eof'[d]
    BY <1>5, <1>6
  <2>2. wpc \in {"del", "close"} => fdConn[wfd] \in Clients
    BY <1>1 DEF OpenInv, ServedIsOpen, Serving, NetTypeOK
  <2> QED
    BY <1>2, <2>1, <2>2 DEF CallInv, WorkKnows
<1> QED
  BY <1>3, <1>7, <1>8 DEF CallInv

(* A new connection is under no number that waits for anything.             *)
LEMMA ListenCall ==
    ASSUME OpenInv, CallInv, ListenThread
    PROVE  CallInv'
<1>1. RpcTypeOK /\ NetTypeOK /\ wfd \in Fds
  BY DEF OpenInv, RpcTypeOK
<1>2. \A r \in DOMAIN reqs : reqs[r].fd \in Fds /\ reqs[r].who \in Clients
  BY <1>1, RequestFields
<1>3. \E t \in Fds : /\ interest[t] = "none"
                     /\ (\A f \in Fds : f # t => fdConn'[f] = fdConn[f] /\ interest'[f] = interest[f])
                     /\ interest'[t] # "out" /\ (\A e \in batch : e[1] # t) /\ (Serving => wfd # t)
  <2>1. CASE Accept
    <3>1. PICK fd \in FreeFds : fdConn' = [fdConn EXCEPT ![fd] = Head(queued)]
      BY <2>1 DEF Accept
    <3> QED
      BY <1>1, <2>1, <3>1 DEF Accept, FreeFds, OpenInv, EventsAreLive, ServedIsOpen, NetTypeOK
  <2>2. CASE AcceptCtl
    BY <1>1, <2>2 DEF AcceptCtl, Register, OpenInv, AcceptedIsOpen, ServedIsOpen, RpcTypeOK, NetTypeOK
  <2> QED
    BY <2>1, <2>2 DEF ListenThread
<1>4. PICK t \in Fds : /\ interest[t] = "none"
                       /\ (\A f \in Fds : f # t => fdConn'[f] = fdConn[f] /\ interest'[f] = interest[f])
                       /\ interest'[t] # "out" /\ (\A e \in batch : e[1] # t) /\ (Serving => wfd # t)
  BY <1>3
<1>5. UNCHANGED <<cl, sent, nread, sockVars, workVars, poolVars, reqs, bufVars, fault>>
  BY DEF ListenThread, Accept, AcceptCtl
<1>6. OneCall' /\ AnswersAreOwn'
  BY <1>5 DEF CallInv, OneCall, AnswersAreOwn
<1>7. PendingWaits'
  <2> SUFFICES ASSUME NEW r \in DOMAIN reqs, Pending(r) PROVE Waits(r)' /\ Progress(r)'
    BY <1>5 DEF PendingWaits, Handled
  <2>1. Waits(r) /\ Progress(r)
    BY DEF CallInv, PendingWaits
  <2>2. reqs[r].fd # t /\ reqs[r].fd \in Fds
    BY <1>2, <1>4, <2>1 DEF Waits
  <2> QED
    BY <1>4, <1>5, <2>1, <2>2 DEF Waits, Progress, Unsent, Handled, OnFd, Serving
<1>8. ReplyWaits'
  BY <1>4, <1>5 DEF CallInv, ReplyWaits, ReplyFits, Unsent, Handled, OnFd
<1>9. WorkKnows'
  BY <1>1, <1>4, <1>5 DEF CallInv, WorkKnows, Serving, RpcTypeOK
<1> QED
  BY <1>6, <1>7, <1>8, <1>9 DEF CallInv

\* Where the work thread serves a descriptor, no request of it is pending but the
\* one being committed; so what it does to that descriptor disturbs no other.
LEMMA ServedIsIdle ==
    ASSUME OpenInv, OneNumber, CallInv, Serving, wpc # "register"
    PROVE  /\ wfd \in Fds /\ fdConn[wfd] \in Clients
           /\ \A r \in DOMAIN reqs : Pending(r) => reqs[r].fd # wfd /\ reqs[r].who # fdConn[wfd]
           /\ \A fd \in Fds : fd # wfd => fdConn[fd] # fdConn[wfd]
           /\ interest[wfd] # "out" => slen[wfd] = 0
<1>1. RpcTypeOK /\ NetTypeOK /\ wfd \in Fds
  BY DEF OpenInv, RpcTypeOK
<1>2. fdConn[wfd] \in Clients /\ fdConn[wfd] # NoConn
  BY <1>1 DEF OpenInv, ServedIsOpen, NetTypeOK
<1>3. \A fd \in Fds : fd # wfd => fdConn[fd] # fdConn[wfd]
  BY <1>1, <1>2 DEF OneNumber
<1>4. ASSUME NEW r \in DOMAIN reqs, Pending(r) PROVE reqs[r].fd # wfd /\ reqs[r].who # fdConn[wfd]
  <2>1. reqs[r].fd \in Fds /\ fdConn[reqs[r].fd] = reqs[r].who
    BY <1>1, <1>4, RequestFields DEF CallInv, PendingWaits, Waits
  <2>2. reqs[r].fd # wfd
    BY <1>4 DEF CallInv, PendingWaits, Waits
  <2> QED
    BY <1>3, <2>1, <2>2
<1>5. interest[wfd] # "out" => slen[wfd] = 0
  BY <1>1, <1>4 DEF CallInv, ReplyWaits, ReplyFits, OnFd
<1> QED
  BY <1>1, <1>2, <1>3, <1>4, <1>5

\* A descriptor on output has exactly one answer to send.
LEMMA AnswerOwed ==
    ASSUME OpenInv, OneNumber, CallInv, wpc \in {"send", "load", "write"}
    PROVE  /\ fdConn[wfd] \in Clients /\ slen[wfd] = 1
           /\ taken[fdConn[wfd]] = Len(echo[fdConn[wfd]]) + 1 /\ rst[fdConn[wfd]] = "no"
           /\ \E r \in DOMAIN reqs :
                Handled(r) /\ Unsent(r) /\ reqs[r].who = fdConn[wfd] /\ sbuf[wfd][1] = <<"sfx", r>>
<1>1. wfd \in Fds /\ Serving
  BY DEF OpenInv, RpcTypeOK, Serving
<1>2. interest[wfd] = "out" /\ ReplyFits(wfd) /\ fdConn[wfd] \in Clients
  BY <1>1, ServedIsIdle DEF CallInv, WorkKnows, ReplyWaits
<1> QED
  BY <1>2 DEF CallInv, ReplyFits, OneCall

\* What send() then adds to the echo.
LEMMA SendAppends ==
    ASSUME OpenInv, OneNumber, CallInv, WorkSend
    PROVE  LET c == fdConn[wfd]
           IN  /\ Len(echo'[c]) = Len(echo[c]) + 1 /\ echo'[c][Len(echo[c]) + 1] = sbuf[wfd][1]
               /\ \A i \in 1..Len(echo[c]) : echo'[c][i] = echo[c][i]
               /\ \A d \in Clients : d # c => echo'[d] = echo[d]
<1> DEFINE c == fdConn[wfd]
           x == sbuf[wfd][1]
           t == SubSeq(sbuf[wfd], 1, 1)
<1>1. RpcTypeOK /\ wfd \in Fds
  BY DEF OpenInv, RpcTypeOK
<1>2. c \in Clients /\ wlen = 1
  BY AnswerOwed DEF WorkSend, CallInv, WorkKnows
<1>3. echo[c] \in Seq(Cell) /\ x \in Cell
  BY <1>1, <1>2, RpcAssumption, CapAssumption DEF RpcTypeOK
<1>4. t = <<x>>
  <2>1. \A j \in 1..1 : sbuf[wfd][j] \in Cell
    BY <1>3
  <2>2. /\ t \in Seq(Cell) /\ Len(t) = IF 1 <= 1 THEN 1 - 1 + 1 ELSE 0
        /\ \A j \in 1..1 - 1 + 1 : t[j] = sbuf[wfd][1 + j - 1]
    BY <2>1, SubSeqProperties
  <2> HIDE DEF t
  <2> QED
    BY <2>2
<1>5. echo' = [echo EXCEPT ![c] = echo[c] \o <<x>>]
  BY <1>2, <1>4 DEF WorkSend
<1>6. echo'[c] = echo[c] \o <<x>> /\ \A d \in Clients : d # c => echo'[d] = echo[d]
  BY <1>1, <1>2, <1>5 DEF RpcTypeOK
<1> HIDE DEF c, x
<1>7. Append(echo[c], x) = echo[c] \o <<x>>
  BY <1>3, AppendIsConcat
<1>8. /\ Len(echo'[c]) = Len(echo[c]) + 1 /\ echo'[c][Len(echo[c]) + 1] = x
      /\ \A i \in 1..Len(echo[c]) : echo'[c][i] = echo[c][i]
  BY <1>3, <1>6, <1>7
<1> QED
  BY <1>6, <1>8 DEF c, x

(* The work thread writes the one answer a connection is owed, and touches  *)
(* no other connection.                                                     *)
LEMMA WorkCall ==
    ASSUME OpenInv, OneNumber, EchoOfRequests, CallInv, Next, WorkThread
    PROVE  CallInv'
<1> DEFINE c == fdConn[wfd]
<1>1. RpcTypeOK /\ NetTypeOK /\ wfd \in Fds
  BY DEF OpenInv, RpcTypeOK
<1>2. OneCall /\ PendingWaits /\ ReplyWaits /\ WorkKnows /\ AnswersAreOwn /\ fault = "none"
  BY DEF CallInv, OneCall
<1>3. Serving /\ wpc # "register" =>
        /\ c \in Clients
        /\ \A r \in DOMAIN reqs : Pending(r) => reqs[r].fd # wfd /\ reqs[r].who # c
        /\ \A fd \in Fds : fd # wfd => fdConn[fd] # c
        /\ interest[wfd] # "out" => slen[wfd] = 0
  BY ServedIsIdle
<1>4. UNCHANGED <<cl, sent, nread, eof, poolVars, sbuf>>
  BY DEF WorkThread, WorkWait, WorkPick, WorkRecv, WorkCommit, WorkRegister, WorkRecvEof,
     WorkRecvFault, Stop, WorkDel, WorkClose, WorkSendNothing, WorkSendBegin, WorkLoad,
     WorkSendPast, WorkResult, WorkCheck, WorkSend, WorkSendReset,
     WorkSendFault, WorkSent, WorkRearm
\* What happens to the connection being served is no other's business.
<1>5. ASSUME Serving, wpc # "register", UNCHANGED <<reqs, batch, wfd>>,
             \A fd \in Fds : fd # wfd =>
                fdConn'[fd] = fdConn[fd] /\ interest'[fd] = interest[fd] /\ slen'[fd] = slen[fd],
             \A d \in Clients : d # c => taken'[d] = taken[d] /\ echo'[d] = echo[d],
             \A r \in DOMAIN reqs : Unsent(r) /\ reqs[r].who # c => Unsent(r)'
      PROVE  PendingWaits' /\ \A fd \in Fds : fd # wfd => ReplyFits(fd)'
  <2> HIDE DEF c
  <2>1. PendingWaits'
    <3> SUFFICES ASSUME NEW r \in DOMAIN reqs, Pending(r) PROVE Waits(r)' /\ Progress(r)'
      BY <1>4, <1>5 DEF PendingWaits, Handled
    <3>1. Waits(r) /\ Progress(r) /\ reqs[r].fd # wfd /\ reqs[r].who # c
      BY <1>2, <1>3, <1>5 DEF PendingWaits
    <3>2. reqs[r].fd \in Fds /\ reqs[r].who \in Clients
      BY <1>1, RequestFields
    <3>3. Unsent(r)'
      BY <1>5, <3>1 DEF Waits
    <3>4. \A s \in OnFd(reqs[r].fd)' : Pending(s)' => s = r
      BY <1>4, <1>5, <3>1 DEF Waits, OnFd, Handled
    <3>5. Waits(r)'
      BY <1>5, <3>1, <3>2, <3>3, <3>4 DEF Waits
    <3>6. Progress(r)'
      BY <1>4, <1>5, <3>1, <3>2 DEF Progress
    <3> QED
      BY <3>5, <3>6
  <2>2. ASSUME NEW fd \in Fds, fd # wfd PROVE ReplyFits(fd)'
    <3>1. ReplyFits(fd) /\ fdConn[fd] # c
      BY <1>2, <1>3, <1>5, <2>2 DEF ReplyWaits
    <3>2. interest'[fd] # "out" /\ (\A r \in OnFd(fd)' : ~Pending(r)') => slen'[fd] = 0
      BY <1>4, <1>5, <2>2, <3>1 DEF ReplyFits, OnFd, Handled
    <3>3. CASE interest[fd] = "out"
      <4>1. slen[fd] = 1 /\ taken[fdConn[fd]] = Len(echo[fdConn[fd]]) + 1
        BY <2>2, <3>1, <3>3 DEF ReplyFits
      <4>2. PICK r \in DOMAIN reqs : /\ Handled(r) /\ Unsent(r)
                                     /\ reqs[r].who = fdConn[fd] /\ sbuf[fd][1] = <<"sfx", r>>
        BY <2>2, <3>1, <3>3 DEF ReplyFits
      <4>3. fdConn[fd] \in Clients
        BY <1>1, <3>3 DEF OpenInv, EventsAreLive, NetTypeOK
      <4>4. Unsent(r)' /\ Handled(r)'
        BY <1>4, <1>5, <3>1, <4>2 DEF Handled
      <4> QED
        BY <1>4, <1>5, <2>2, <3>1, <3>2, <4>1, <4>2, <4>3, <4>4 DEF ReplyFits
    <3> QED
      BY <1>5, <2>2, <3>2, <3>3 DEF ReplyFits
  <2> QED
    BY <2>1, <2>2
\* Most of these steps write nothing.
<1>6. ASSUME UNCHANGED <<taken, echo, rst, reqs, fault>>
      PROVE  OneCall' /\ AnswersAreOwn' /\ \A r \in DOMAIN reqs : Unsent(r) => Unsent(r)'
  BY <1>2, <1>4, <1>6 DEF OneCall, AnswersAreOwn, Unsent
<1>7. CASE WorkWait
  <2>1. /\ UNCHANGED <<taken, echo, rst, reqs, fault, fdConn, interest, slen, wfd>>
        /\ wpc = "wait" /\ wpc' = "pick"
        /\ batch' = {<<fd, interest[fd]>> : fd \in {f \in ready : HasEvent(f)}}
    BY <1>7 DEF WorkWait
  <2>2. ASSUME NEW r \in DOMAIN reqs, Pending(r) PROVE Waits(r)' /\ Progress(r)'
    <3> DEFINE fd == reqs[r].fd
    <3>1. Waits(r) /\ Progress(r)
      BY <1>2, <2>2 DEF PendingWaits
    <3>2. fd \in Fds /\ reqs[r].who \in Clients
      BY <1>1, RequestFields
    <3>3. ~HasEvent(fd)
      <4>1. PICK d \in Clients : d = reqs[r].who
        BY <3>2
      <4>2. fdConn[fd] = d /\ interest[fd] = "in" /\ taken[d] = Len(echo[d]) + 1
        BY <3>1, <4>1 DEF Waits
      <4>3. ~(Avail(d) > 0) /\ ~eof[d] /\ rst[d] = "no"
        BY <1>2, <4>2, ConnFacts DEF Avail
      <4> QED
        BY <4>2, <4>3 DEF HasEvent, Readable
    <3>4. \A e \in batch' : e[1] # fd
      BY <2>1, <3>3
    <3> HIDE DEF fd
    <3>5. Waits(r)'
      BY <1>4, <2>1, <3>1, <3>4 DEF Waits, Unsent, OnFd, Handled, Serving, fd
    <3>6. Progress(r)'
      BY <1>4, <2>1, <3>1 DEF Progress
    <3> QED
      BY <3>5, <3>6
  <2>3. PendingWaits'
    BY <1>4, <2>1, <2>2 DEF PendingWaits, Handled
  <2>4. ReplyWaits'
    BY <1>2, <1>4, <2>1 DEF ReplyWaits, ReplyFits, Handled, Unsent, OnFd
  <2>5. WorkKnows'
    BY <2>1 DEF WorkKnows
  <2> QED
    BY <1>6, <2>1, <2>3, <2>4, <2>5 DEF CallInv
<1>8. CASE WorkPick
  <2>1. PICK e \in batch : /\ wfd' = e[1] /\ batch' = batch \ {e}
                           /\ wpc' = IF e[2] = "in" THEN "recv" ELSE "send"
    BY <1>8 DEF WorkPick
  <2>2. /\ UNCHANGED <<taken, echo, rst, reqs, fault, fdConn, interest, slen>> /\ wpc = "pick"
        /\ e[2] \in {"in", "out"} /\ wpc' \in {"recv", "send"}
    BY <1>1, <1>8, <2>1 DEF WorkPick, RpcTypeOK
  <2>3. PendingWaits'
    <3> SUFFICES ASSUME NEW r \in DOMAIN reqs, Pending(r) PROVE Waits(r)' /\ Progress(r)'
      BY <1>4, <2>2 DEF PendingWaits, Handled
    <3>1. Waits(r) /\ Progress(r)
      BY <1>2 DEF PendingWaits
    <3>2. wfd' # reqs[r].fd
      BY <2>1, <3>1 DEF Waits
    <3>3. Waits(r)'
      BY <1>4, <2>1, <2>2, <3>1, <3>2 DEF Waits, Unsent, OnFd, Handled
    <3>4. Progress(r)'
      BY <1>4, <2>2, <3>1 DEF Progress
    <3> QED
      BY <3>3, <3>4
  <2>4. ReplyWaits'
    BY <1>2, <1>4, <2>2 DEF ReplyWaits, ReplyFits, Handled, Unsent, OnFd
  <2>5. WorkKnows'
    BY <1>2, <2>1, <2>2 DEF WorkKnows
  <2> QED
    BY <1>6, <2>2, <2>3, <2>4, <2>5 DEF CallInv
<1>9. CASE WorkRecv
  <2>1. /\ UNCHANGED <<echo, rst, reqs, fault, fdConn, interest, slen, batch, wfd>>
        /\ wpc = "recv" /\ wpc' = "commit" /\ Serving /\ taken' = [taken EXCEPT ![c] = sent[c]] /\ Avail(c) > 0
    BY <1>9 DEF WorkRecv, Serving
  <2>2. c \in Clients /\ taken'[c] = sent[c] /\ \A d \in Clients : d # c => taken'[d] = taken[d]
    BY <1>1, <1>3, <2>1 DEF NetTypeOK
  <2>3. sent[c] = Len(echo[c]) + 1
    <3>1. /\ Len(echo[c]) \in Nat /\ taken[c] \in Nat /\ sent[c] \in Nat
          /\ Len(echo[c]) <= taken[c] /\ sent[c] <= Len(echo[c]) + 1
      BY <1>2, <2>2, ConnFacts
    <3>2. sent[c] - taken[c] > 0
      BY <2>1 DEF Avail
    <3> QED
      BY <3>1, <3>2
  <2>4. OneCall' /\ AnswersAreOwn'
    <3>1. \A d \in Clients : Len(echo[d]) <= taken'[d] /\ taken'[d] <= sent[d]
      <4> SUFFICES ASSUME NEW d \in Clients PROVE Len(echo[d]) <= taken'[d] /\ taken'[d] <= sent[d]
        OBVIOUS
      <4>1. CASE d = c
        BY <1>2, <2>2, <2>3, <4>1, ConnFacts
      <4>2. CASE d # c
        BY <1>2, <2>2, <4>2, ConnFacts
      <4> QED
        BY <4>1, <4>2
    <3> QED
      BY <1>2, <1>4, <2>1, <3>1 DEF OneCall, AnswersAreOwn
  <2>5. PendingWaits' /\ \A fd \in Fds : fd # wfd => ReplyFits(fd)'
    <3>1. \A r \in DOMAIN reqs : Unsent(r) => Unsent(r)'
      BY <2>1 DEF Unsent
    <3> QED
      BY <1>5, <2>1, <2>2, <3>1
  <2>6. interest[wfd] = "in" /\ slen[wfd] = 0
    BY <1>2, <1>3, <2>1 DEF WorkKnows
  <2>7. ReplyWaits'
    BY <2>1, <2>5, <2>6 DEF ReplyWaits, ReplyFits
  <2>8. WorkKnows'
    BY <1>2, <2>1, <2>2, <2>3 DEF WorkKnows
  <2> QED
    BY <2>4, <2>5, <2>7, <2>8 DEF CallInv
<1>10. CASE WorkCommit
  <2>1. /\ UNCHANGED <<taken, echo, rst, fault, fdConn, interest, slen, batch, wfd>>
        /\ wpc = "commit" /\ wpc' = "register" /\ Serving
    BY <1>10 DEF WorkCommit, Serving
  <2>2. c \in Clients
    BY <1>3, <2>1
  <2>n. PICK n : n = Len(reqs')
    OBVIOUS
  <2>3. /\ DOMAIN reqs' = DOMAIN reqs \cup {n} /\ n \notin DOMAIN reqs
        /\ \A r \in DOMAIN reqs : reqs'[r] = reqs[r]
        /\ reqs'[n].fd = wfd /\ reqs'[n].who = c /\ reqs'[n].st = "asked"
    BY <1>1, <1>10, <2>2, <2>n, CommitAdds
  <2>4. /\ reqs'[n].fd = wfd /\ reqs'[n].who = c /\ reqs'[n].st = "asked"
    BY <2>3
  <2>5. /\ \A r \in DOMAIN reqs : Pending(r)' <=> Pending(r)
        /\ \A fd \in Fds : fd # wfd => OnFd(fd)' = OnFd(fd)
    <3>1. \A r \in DOMAIN reqs : Pending(r)' <=> Pending(r)
      BY <1>4, <2>3 DEF Handled
    <3>2. \A fd \in Fds : fd # wfd => OnFd(fd)' = OnFd(fd)
      BY <2>3, <2>4 DEF OnFd
    <3> QED
      BY <3>1, <3>2
  <2>6. OneCall' /\ AnswersAreOwn'
    <3>1. \A d \in Clients : \A i \in 1..Len(echo[d]) : echo[d][i] # Nul => echo[d][i][2] \in DOMAIN reqs
      BY DEF EchoOfRequests
    <3>2. \A d \in Clients : \A i \in 1..Len(echo[d]) : echo[d][i][1] = "sfx"
      BY <1>2 DEF AnswersAreOwn
    <3>3. \A d \in Clients : \A i \in 1..Len(echo[d]) : echo[d][i][2] \in DOMAIN reqs
      BY <3>1, <3>2 DEF Nul
    <3> QED
      BY <1>2, <1>4, <2>1, <2>3, <3>3 DEF OneCall, AnswersAreOwn
  <2>7. Unsent(n)'
    <3>1. \A d \in Clients : \A i \in 1..Len(echo[d]) :
             echo[d][i][1] = "sfx" => echo[d][i][2] \in DOMAIN reqs
      BY DEF EchoOfRequests, Nul
    <3>2. \A d \in Clients : \A i \in 1..Len(echo[d]) : echo[d][i] # <<"sfx", n>>
      BY <2>3, <3>1
    <3> QED
      BY <2>1, <3>2 DEF Unsent
  <2>8. PendingWaits'
    <3> SUFFICES ASSUME NEW r \in DOMAIN reqs', Pending(r)' PROVE Waits(r)' /\ Progress(r)'
      BY DEF PendingWaits
    <3>1. CASE r \in DOMAIN reqs
      <4>1. Waits(r) /\ Progress(r) /\ reqs[r].fd # wfd
        BY <1>2, <1>3, <2>1, <2>5, <3>1 DEF PendingWaits
      <4>2. reqs'[r] = reqs[r] /\ reqs[r].fd \in Fds
        BY <1>1, <2>3, <3>1, RequestFields
      <4>3. \A s \in OnFd(reqs[r].fd)' : Pending(s)' => s = r
        <5>1. PICK fd \in Fds : fd = reqs[r].fd
          BY <4>2
        <5>2. \A s \in OnFd(fd)' : s \in OnFd(fd)
          BY <2>5, <4>1, <5>1
        <5>3. \A s \in OnFd(fd)' : Pending(s)' => s = r
          BY <2>5, <4>1, <5>1, <5>2 DEF Waits, OnFd
        <5> QED
          BY <4>2, <5>1, <5>3 DEF OnFd
      <4>4. Waits(r)'
        BY <2>1, <4>1, <4>2, <4>3 DEF Waits, Unsent, Serving
      <4>5. Progress(r)'
        BY <1>4, <2>1, <4>1, <4>2 DEF Progress
      <4> QED
        BY <4>4, <4>5
    <3>2. CASE r = n
      <4>1. interest[wfd] = "in" /\ slen[wfd] = 0 /\ taken[c] = Len(echo[c]) + 1
        BY <1>2, <1>3, <2>1 DEF WorkKnows
      <4>2. \A e \in batch : e[1] # wfd
        BY <2>1 DEF OpenInv, ServedIsOpen
      <4>3. \A s \in DOMAIN reqs' : reqs'[s].fd = wfd /\ Pending(s)' => s = n
        BY <1>3, <2>1, <2>3, <2>5
      <4>4. Waits(r)'
        BY <2>1, <2>4, <2>7, <3>2, <2>n, <4>1, <4>2, <4>3 DEF Waits, OnFd, Unsent
      <4>5. rpc \notin {"wait", "pick"} => rcur # r
        BY <1>1, <2>3, <3>2 DEF RpcTypeOK
      <4>6. Progress(r)'
        BY <1>4, <2>1, <2>4, <3>2, <4>1, <4>5 DEF Progress
      <4> QED
        BY <4>4, <4>6
    <3> QED
      BY <2>3, <3>1, <3>2
  <2>9. ReplyWaits'
    <3> SUFFICES ASSUME NEW fd \in Fds PROVE ReplyFits(fd)'
      BY DEF ReplyWaits
    <3>1. CASE fd = wfd
      <4>1. interest'[fd] = "in" /\ slen'[fd] = 0
        BY <1>2, <1>3, <2>1, <3>1 DEF WorkKnows
      <4> QED
        BY <4>1 DEF ReplyFits
    <3>2. CASE fd # wfd
      <4>1. ReplyFits(fd) /\ OnFd(fd)' = OnFd(fd)
        BY <1>2, <2>5, <3>2 DEF ReplyWaits
      <4>2. \A r \in DOMAIN reqs : reqs'[r] = reqs[r] /\ (Handled(r)' <=> Handled(r)) /\ (Unsent(r) => Unsent(r)')
        BY <1>4, <2>1, <2>3 DEF Handled, Unsent
      <4>3. \A r \in OnFd(fd) : r \in DOMAIN reqs
        BY DEF OnFd
      <4>4. interest'[fd] # "out" /\ (\A r \in OnFd(fd)' : ~Pending(r)') => slen'[fd] = 0
        BY <2>1, <2>5, <4>1, <4>3 DEF ReplyFits
      <4> QED
        BY <1>4, <2>1, <2>3, <4>1, <4>2, <4>4 DEF ReplyFits
    <3> QED
      BY <3>1, <3>2
  <2>10. WorkKnows'
    BY <1>2, <2>1 DEF WorkKnows
  <2> QED
    BY <2>6, <2>8, <2>9, <2>10 DEF CallInv
<1>11. CASE WorkRegister
  <2>1. /\ UNCHANGED <<taken, echo, rst, fault, fdConn, interest, slen, batch, wfd>>
        /\ wpc = "register" /\ wpc' \in {"wait", "pick"}
    BY <1>11 DEF WorkRegister, LoopPc
  <2>2. /\ DOMAIN reqs' = DOMAIN reqs /\ Len(reqs') = Len(reqs)
        /\ \A r \in DOMAIN reqs : /\ reqs'[r].fd = reqs[r].fd /\ reqs'[r].who = reqs[r].who
                                  /\ reqs'[r].st = reqs[r].st
    BY <1>11, RegisterChanges
  <2>3. /\ \A r \in DOMAIN reqs : (Handled(r)' <=> Handled(r)) /\ (Unsent(r) => Unsent(r)')
        /\ \A fd \in Fds : OnFd(fd)' = OnFd(fd)
    BY <1>4, <2>1, <2>2 DEF Handled, OnFd, Unsent
  <2>4. OneCall' /\ AnswersAreOwn'
    <3>1. OneCall'
      BY <1>2, <1>4, <2>1 DEF OneCall
    <3>2. \A d \in Clients : \A i \in 1..Len(echo[d]) :
             echo[d][i][1] = "sfx" /\ echo[d][i][2] \in DOMAIN reqs
      BY <1>2 DEF EchoOfRequests, AnswersAreOwn, Nul
    <3>3. \A d \in Clients : \A i \in 1..Len(echo[d]) :
             reqs'[echo[d][i][2]].who = reqs[echo[d][i][2]].who
      BY <2>2, <3>2
    <3>4. AnswersAreOwn'
      BY <1>2, <2>1, <3>3 DEF AnswersAreOwn
    <3> QED
      BY <3>1, <3>4
  <2>5. PendingWaits'
    <3> SUFFICES ASSUME NEW r \in DOMAIN reqs, Pending(r) PROVE Waits(r)' /\ Progress(r)'
      BY <2>2, <2>3 DEF PendingWaits
    <3>1. Waits(r) /\ Progress(r) /\ reqs[r].fd \in Fds
      BY <1>1, <1>2, RequestFields DEF PendingWaits
    <3>2. \A s \in OnFd(reqs[r].fd)' : Pending(s)' => s = r
      BY <2>2, <2>3, <3>1 DEF Waits, OnFd
    <3>3. Waits(r)'
      BY <2>1, <2>2, <2>3, <3>1, <3>2 DEF Waits, Serving
    <3>4. Progress(r)'
      BY <1>4, <2>1, <2>2, <3>1 DEF Progress
    <3> QED
      BY <3>3, <3>4
  <2>6. ReplyWaits'
    <3> SUFFICES ASSUME NEW fd \in Fds PROVE ReplyFits(fd)'
      BY DEF ReplyWaits
    <3>1. ReplyFits(fd) /\ ~(wfd = fd /\ wpc \in {"sent", "rearm"})
      BY <1>2, <2>1 DEF ReplyWaits
    <3>2. \A r \in OnFd(fd) : r \in DOMAIN reqs
      BY DEF OnFd
    <3> QED
      BY <1>4, <2>1, <2>2, <2>3, <3>1, <3>2 DEF ReplyFits
  <2>7. WorkKnows'
    BY <1>2, <2>1 DEF WorkKnows
  <2> QED
    BY <2>4, <2>5, <2>6, <2>7 DEF CallInv
<1>12. CASE WorkRecvEof
  <2>1. /\ UNCHANGED <<taken, echo, rst, reqs, fault, fdConn, interest, slen, batch, wfd>>
        /\ wpc = "recv" /\ wpc' = "del" /\ Serving /\ (eof[c] \/ rst[c] = "done")
    BY <1>12 DEF WorkRecvEof, Serving
  <2>2. eof[c] /\ interest[wfd] = "in" /\ slen[wfd] = 0
    BY <1>2, <1>3, <2>1 DEF WorkKnows, OneCall
  <2>3. PendingWaits' /\ \A fd \in Fds : fd # wfd => ReplyFits(fd)'
    BY <1>5, <1>6, <2>1
  <2>4. ReplyWaits' /\ WorkKnows'
    BY <1>2, <1>4, <2>1, <2>2, <2>3 DEF ReplyWaits, ReplyFits, WorkKnows
  <2> QED
    BY <1>6, <2>1, <2>3, <2>4 DEF CallInv
\* A connection that is torn down is owed nothing, so its buffer is empty.
<1>13. CASE WorkDel \/ WorkClose
  <2>1. /\ UNCHANGED <<taken, echo, rst, reqs, fault, slen, batch, wfd>>
        /\ wpc \in {"del", "close"} /\ wpc' \in {"close", "wait", "pick"} /\ Serving
        /\ (wpc' = "close" => fdConn' = fdConn)
        /\ interest'[wfd] = "none"
        /\ \A fd \in Fds : fd # wfd => interest'[fd] = interest[fd] /\ fdConn'[fd] = fdConn[fd]
    BY <1>1, <1>13 DEF WorkDel, WorkClose, Deregister, LoopPc, Serving, NetTypeOK
  <2>2. c \in Clients /\ eof[c]
    BY <1>2, <1>3, <2>1 DEF WorkKnows
  <2>3. slen[wfd] = 0
    <3>1. taken[c] # Len(echo[c]) + 1
      BY <1>2, <2>2, ConnFacts
    <3>2. interest[wfd] # "out"
      BY <1>1, <1>2, <2>1, <3>1 DEF ReplyWaits, ReplyFits
    <3> QED
      BY <1>3, <2>1, <3>2
  <2>4. PendingWaits' /\ \A fd \in Fds : fd # wfd => ReplyFits(fd)'
    BY <1>5, <1>6, <2>1
  <2>5. ReplyWaits'
    BY <2>1, <2>3, <2>4 DEF ReplyWaits, ReplyFits
  <2>6. WorkKnows'
    <3>1. \A e \in batch : e[1] # wfd /\ e[1] \in Fds
      BY <1>1, <2>1 DEF OpenInv, ServedIsOpen, RpcTypeOK
    <3> QED
      BY <1>2, <1>4, <2>1, <2>2, <3>1 DEF WorkKnows
  <2> QED
    BY <1>6, <2>1, <2>4, <2>5, <2>6 DEF CallInv
<1>14. wpc \in {"send", "load", "write"} =>
         /\ c \in Clients /\ slen[wfd] = 1 /\ taken[c] = Len(echo[c]) + 1 /\ rst[c] = "no"
         /\ \E r \in DOMAIN reqs :
              Handled(r) /\ Unsent(r) /\ reqs[r].who = c /\ sbuf[wfd][1] = <<"sfx", r>>
  BY AnswerOwed
<1>15. CASE WorkSend
  <2>1. /\ UNCHANGED <<taken, rst, reqs, fault, fdConn, interest, slen, batch, wfd, wlen>>
        /\ wpc = "write" /\ wpc' = "result" /\ Serving
    BY <1>15 DEF WorkSend, Serving
  <2>2. PICK r \in DOMAIN reqs :
            Handled(r) /\ Unsent(r) /\ reqs[r].who = c /\ sbuf[wfd][1] = <<"sfx", r>>
    BY <1>14, <2>1
  <2>3. c \in Clients /\ slen[wfd] = 1 /\ taken[c] = Len(echo[c]) + 1
    BY <1>14, <2>1
  <2>4. /\ Len(echo'[c]) = Len(echo[c]) + 1 /\ echo'[c][Len(echo[c]) + 1] = <<"sfx", r>>
        /\ \A i \in 1..Len(echo[c]) : echo'[c][i] = echo[c][i]
        /\ \A d \in Clients : d # c => echo'[d] = echo[d]
    BY <1>15, <2>2, SendAppends
  <2> HIDE DEF c
  <2>5. OneCall'
    <3>1. \A d \in Clients :
            /\ Len(echo'[d]) <= taken[d] /\ sent[d] <= Len(echo'[d]) + 1 /\ nread[d] <= Len(echo'[d])
            /\ eof[d] => sent[d] = Len(echo'[d])
            /\ cl[d] = "gone" => nread[d] = Len(echo'[d])
      <4> SUFFICES ASSUME NEW d \in Clients
                   PROVE  /\ Len(echo'[d]) <= taken[d] /\ sent[d] <= Len(echo'[d]) + 1
                          /\ nread[d] <= Len(echo'[d])
                          /\ eof[d] => sent[d] = Len(echo'[d])
                          /\ cl[d] = "gone" => nread[d] = Len(echo'[d])
        OBVIOUS
      <4>1. CASE d = c
        BY <1>2, <2>3, <2>4, <4>1, ConnFacts
      <4>2. CASE d # c
        BY <1>2, <2>4, <4>2, ConnFacts
      <4> QED
        BY <4>1, <4>2
    <3> QED
      BY <1>2, <1>4, <2>1, <3>1 DEF OneCall
  <2>6. ASSUME NEW s \in DOMAIN reqs, Unsent(s), s # r PROVE Unsent(s)'
    <3>1. ASSUME NEW d \in Clients, NEW i \in 1..Len(echo'[d]) PROVE echo'[d][i] # <<"sfx", s>>
      <4>1. CASE d # c
        BY <2>4, <2>6, <4>1 DEF Unsent
      <4>2. CASE d = c /\ i = Len(echo[c]) + 1
        BY <2>4, <2>6, <4>2
      <4>3. CASE d = c /\ i # Len(echo[c]) + 1
        <5>1. i \in 1..Len(echo[c])
          BY <1>2, <2>3, <2>4, <4>3, ConnFacts
        <5> QED
          BY <2>4, <2>6, <4>3, <5>1 DEF Unsent
      <4> QED
        BY <4>1, <4>2, <4>3
    <3> QED
      BY <3>1 DEF Unsent
  <2>7. PendingWaits' /\ \A fd \in Fds : fd # wfd => ReplyFits(fd)'
    <3>1. \A s \in DOMAIN reqs : Unsent(s) /\ reqs[s].who # c => Unsent(s)'
      BY <2>2, <2>6
    <3> QED
      BY <1>5, <2>1, <2>4, <3>1 DEF c
  <2>8. interest[wfd] = "out"
    BY <1>2, <2>1 DEF WorkKnows
  <2>9. ReplyWaits' /\ WorkKnows'
    BY <1>2, <1>4, <2>1, <2>7, <2>8 DEF ReplyWaits, ReplyFits, WorkKnows
  <2>10. AnswersAreOwn'
    <3> SUFFICES ASSUME NEW d \in Clients, NEW i \in 1..Len(echo'[d])
                 PROVE  /\ echo'[d][i][1] = "sfx" /\ reqs[echo'[d][i][2]].who = d
                        /\ \A j \in 1..Len(echo'[d]) : echo'[d][j] = echo'[d][i] => i = j
      BY <2>1 DEF AnswersAreOwn
    <3>1. CASE d # c
      BY <1>2, <2>4, <3>1 DEF AnswersAreOwn
    <3>2. CASE d = c
      <4>1. \A j \in 1..Len(echo'[d]) : j \in 1..Len(echo[c]) \/ j = Len(echo[c]) + 1
        BY <1>2, <2>3, <2>4, <3>2, ConnFacts
      <4>2. \A j \in 1..Len(echo[c]) : echo'[c][j] = echo[c][j] /\ echo[c][j] # <<"sfx", r>>
        BY <2>2, <2>3, <2>4 DEF Unsent
      <4>3. \A j \in 1..Len(echo[c]) : /\ echo[c][j][1] = "sfx" /\ reqs[echo[c][j][2]].who = c
                                      /\ \A k \in 1..Len(echo[c]) : echo[c][k] = echo[c][j] => j = k
        BY <1>2, <2>3 DEF AnswersAreOwn
      <4>4. CASE i \in 1..Len(echo[c])
        <5>1. echo'[d][i] = echo[c][i] /\ echo[c][i] # <<"sfx", r>>
          BY <3>2, <4>2, <4>4
        <5>2. echo'[d][i][1] = "sfx" /\ reqs[echo'[d][i][2]].who = d
          BY <3>2, <4>3, <4>4, <5>1
        <5>3. ASSUME NEW j \in 1..Len(echo'[d]), echo'[d][j] = echo'[d][i] PROVE i = j
          <6>1. j \in 1..Len(echo[c])
            BY <2>4, <3>2, <4>1, <5>1, <5>3
          <6>2. echo[c][j] = echo[c][i]
            BY <3>2, <4>2, <5>1, <5>3, <6>1
          <6> QED
            BY <4>3, <4>4, <6>1, <6>2
        <5> QED
          BY <5>2, <5>3
      <4>5. CASE i = Len(echo[c]) + 1
        <5>1. echo'[d][i] = <<"sfx", r>> /\ echo'[d][i][1] = "sfx" /\ echo'[d][i][2] = r
          BY <2>4, <3>2, <4>5
        <5>2. \A j \in 1..Len(echo'[d]) : echo'[d][j] = echo'[d][i] => i = j
          BY <3>2, <4>1, <4>2, <4>5, <5>1
        <5> QED
          BY <2>2, <3>2, <5>1, <5>2
      <4> QED
        BY <3>2, <4>1, <4>4, <4>5
    <3> QED
      BY <3>1, <3>2
  <2> QED
    BY <2>5, <2>7, <2>9, <2>10 DEF CallInv
<1>16. CASE WorkSendBegin \/ WorkLoad \/ WorkResult \/ WorkCheck
  <2>1. /\ UNCHANGED <<taken, echo, rst, reqs, fault, fdConn, interest, batch, wfd>> /\ Serving
        /\ \/ wpc = "send" /\ wpc' = "load" /\ slen' = slen
           \/ wpc = "load" /\ wpc' = "write" /\ slen' = slen /\ wlen' = slen[wfd]
           \/ wpc = "result" /\ wpc' = "check" /\ slen' = [slen EXCEPT ![wfd] = wlen]
           \/ wpc = "check" /\ wpc' = (IF slen[wfd] = 0 THEN "del" ELSE "sent") /\ slen' = slen
    BY <1>16 DEF WorkSendBegin, WorkLoad, WorkResult, WorkCheck, Serving
  <2>2. \A fd \in Fds : fd # wfd => slen'[fd] = slen[fd]
    BY <1>1, <2>1 DEF RpcTypeOK
  <2>3. /\ wpc' \in {"load", "write", "check", "sent"} /\ wpc # "register"
        /\ wpc' = "write" => wlen' = 1
        /\ wpc' = "check" => slen'[wfd] = 1
        /\ wpc' \in {"load", "write"} => wpc \in {"send", "load"} /\ slen' = slen
    BY <1>1, <1>2, <1>14, <2>1 DEF WorkKnows, RpcTypeOK
  <2>4. interest[wfd] = "out"
    BY <1>2, <2>1 DEF WorkKnows
  <2>5. PendingWaits' /\ \A fd \in Fds : fd # wfd => ReplyFits(fd)'
    BY <1>5, <1>6, <2>1, <2>2, <2>3
  <2>6. ReplyFits(wfd)'
    <3>1. CASE wpc' \in {"check", "sent"}
      BY <2>1, <2>4, <3>1 DEF ReplyFits
    <3>2. CASE wpc' \in {"load", "write"}
      BY <1>1, <1>2, <1>4, <1>6, <2>1, <2>3, <2>4, <3>2 DEF ReplyWaits, ReplyFits, Handled
    <3> QED
      BY <2>3, <3>1, <3>2
  <2>7. ReplyWaits'
    BY <2>1, <2>5, <2>6 DEF ReplyWaits
  <2>8. WorkKnows'
    BY <1>2, <2>1, <2>3, <2>4 DEF WorkKnows
  <2> QED
    BY <1>6, <2>1, <2>5, <2>7, <2>8 DEF CallInv
<1>17. CASE WorkSent
  <2>1. /\ UNCHANGED <<taken, echo, rst, reqs, fault, fdConn, interest, batch, wfd>>
        /\ wpc = "sent" /\ wpc' = "rearm" /\ Serving
        /\ slen'[wfd] = 0 /\ \A fd \in Fds : fd # wfd => slen'[fd] = slen[fd]
    BY <1>1, <1>17 DEF WorkSent, Serving, RpcTypeOK
  <2>2. PendingWaits' /\ \A fd \in Fds : fd # wfd => ReplyFits(fd)'
    BY <1>5, <1>6, <2>1
  <2>3. ReplyWaits' /\ WorkKnows'
    BY <1>2, <1>4, <2>1, <2>2 DEF ReplyWaits, ReplyFits, WorkKnows
  <2> QED
    BY <1>6, <2>1, <2>2, <2>3 DEF CallInv
<1>18. CASE WorkRearm
  <2>1. /\ UNCHANGED <<taken, echo, rst, reqs, fault, fdConn, slen, batch, wfd>>
        /\ wpc = "rearm" /\ wpc' \in {"wait", "pick"} /\ Serving
        /\ interest'[wfd] = "in" /\ \A fd \in Fds : fd # wfd => interest'[fd] = interest[fd]
    BY <1>1, <1>18 DEF WorkRearm, Register, LoopPc, Serving, NetTypeOK
  <2>2. PendingWaits' /\ \A fd \in Fds : fd # wfd => ReplyFits(fd)'
    BY <1>5, <1>6, <2>1
  <2>3. ReplyWaits'
    BY <1>2, <2>1, <2>2 DEF ReplyWaits, ReplyFits, WorkKnows
  <2>4. WorkKnows'
    <3>1. \A e \in batch : e[1] # wfd /\ e[1] \in Fds
      BY <1>1, <2>1 DEF OpenInv, ServedIsOpen, RpcTypeOK
    <3> QED
      BY <1>2, <2>1, <3>1 DEF WorkKnows
  <2> QED
    BY <1>6, <2>1, <2>2, <2>3, <2>4 DEF CallInv
\* Nobody resets a connection, and nothing is sent from an empty buffer.
<1>19. ~WorkSendNothing /\ ~WorkSendReset /\ ~WorkSendFault /\ ~WorkRecvFault /\ ~WorkSendPast
  <2>1. wpc = "recv" => rst[c] = "no"
    BY <1>2, <1>3 DEF OneCall, Serving
  <2> QED
    BY <1>2, <1>14, <2>1, RpcAssumption, CapAssumption
    DEF WorkSendNothing, WorkSendReset, WorkSendFault, WorkRecvFault, WorkSendPast, Inside, WorkKnows
<1> QED
  BY <1>7, <1>8, <1>9, <1>10, <1>11, <1>12, <1>13, <1>15, <1>17, <1>18, <1>19, <1>16
  DEF WorkThread

(* The pool's thread only touches descriptors whose one pending request it  *)
(* handles, and hands them over with that request's suffix in the buffer.   *)
LEMMA PoolCall ==
    ASSUME OpenInv, EchoOfRequests, CallInv, PoolThread
    PROVE  CallInv'
<1>1. RpcTypeOK /\ NetTypeOK /\ wfd \in Fds
  BY DEF OpenInv, RpcTypeOK
<1>2. OneCall /\ PendingWaits /\ ReplyWaits /\ WorkKnows /\ AnswersAreOwn
  BY DEF CallInv
<1>3. ~PoolPast => UNCHANGED <<clientVars, sockVars, fdConn, workVars, fault>>
  BY DEF PoolThread, PoolWait, PoolPick, PoolClear, PoolRecv, PoolStore, PoolSuffix, PoolAdd,
     PoolGrow, PoolMod
<1>4. \A r \in DOMAIN reqs : reqs[r].fd \in Fds /\ reqs[r].who \in Clients
  BY <1>1, RequestFields
<1>5. rpc \notin {"wait", "pick"} =>
        /\ rcur \in DOMAIN reqs /\ Target \in Fds /\ Pending(rcur) /\ Waits(rcur) /\ Progress(rcur)
        /\ Serving => wfd # Target
  <2> SUFFICES ASSUME rpc \notin {"wait", "pick"}
               PROVE  /\ rcur \in DOMAIN reqs /\ Target \in Fds
                      /\ Pending(rcur) /\ Waits(rcur) /\ Progress(rcur)
                      /\ Serving => wfd # Target
    OBVIOUS
  <2>1. rcur \in DOMAIN reqs /\ Target \in Fds
    BY <1>1, <1>4 DEF RpcTypeOK, Target
  <2>2. Pending(rcur)
    BY <1>1, <2>1 DEF Handled, OpenInv, PoolKnows, RpcTypeOK
  <2>3. Waits(rcur) /\ Progress(rcur)
    BY <1>2, <2>1, <2>2 DEF PendingWaits
  <2>4. Serving => wfd # Target \/ (wpc = "register" /\ rcur = Len(reqs))
    BY <2>3 DEF Waits, Target
  <2>5. wpc = "register" /\ rcur = Len(reqs) => ~reqs[rcur].reg /\ reqs[rcur].st # "done"
    BY DEF OpenInv, CommitIsLast
  <2>6. reqs[rcur].st = "done" \/ reqs[rcur].reg
    BY <1>1 DEF OpenInv, PoolKnows, RpcTypeOK
  <2> QED
    BY <2>1, <2>2, <2>3, <2>4, <2>5, <2>6
<1>6. /\ reqs' \in Seq(Request) /\ DOMAIN reqs' = DOMAIN reqs /\ Len(reqs') = Len(reqs)
      /\ \A r \in DOMAIN reqs : reqs'[r].fd = reqs[r].fd /\ reqs'[r].who = reqs[r].who
  <2>1. CASE PoolStore
    BY <2>1, StoreChanges
  <2>2. CASE ~PoolStore
    BY <1>1, <2>2 DEF PoolThread, PoolWait, PoolPick, PoolClear, PoolRecv, PoolSuffix, PoolAdd,
       PoolGrow, PoolMod, PoolPast, Stop, RpcTypeOK
  <2> QED
    BY <2>1, <2>2
\* Lengths of pending requests are 0, or 1 in the end: no access is out of range.
<1>7. ~PoolPast
  <2>1. Inside(0) /\ Inside(1) /\ Wrapped(0) = 0
    BY RpcAssumption, CapAssumption DEF Inside, Wrapped, Huge
  <2>2. rpc \in {"clear", "recv", "suffix"} => slen[Target] = 0
    BY <1>5 DEF Progress, Target
  <2>3. \A r \in rbatch : rpc = "pick" => slen[reqs[r].fd] = 0
    <3>1. \A r \in rbatch : r \in DOMAIN reqs /\ Pending(r)
      BY <1>1 DEF OpenInv, PoolKnows, RpcTypeOK, Handled
    <3> QED
      BY <1>2, <3>1 DEF PendingWaits, Progress
  <2>4. rpc = "recv" => \A n \in 0..MaxReply : Received(n) = 0
    BY <2>2, RpcAssumption DEF Received, Huge
  <2> QED
    BY <2>1, <2>2, <2>3, <2>4 DEF PoolPast
<1>8. UNCHANGED <<clientVars, sockVars, fdConn, workVars, fault>>
  BY <1>3, <1>7
<1>9. OneCall' /\ AnswersAreOwn'
  <2>1. OneCall'
    BY <1>2, <1>8 DEF OneCall
  <2>2. \A d \in Clients : \A i \in 1..Len(echo[d]) :
           echo[d][i][1] = "sfx" => reqs'[echo[d][i][2]].who = reqs[echo[d][i][2]].who
    BY <1>6 DEF EchoOfRequests, Nul
  <2> QED
    BY <1>2, <1>8, <2>1, <2>2 DEF AnswersAreOwn
\* Until the answer is handed over, the steps touch the descriptor of one pending
\* request only, and nobody else's wait ends.
<1>10. ASSUME UNCHANGED <<interest, batch>>,
             \A r \in DOMAIN reqs : Handled(r)' <=> Handled(r),
             \A fd \in Fds : \/ slen'[fd] = slen[fd] /\ sbuf'[fd] = sbuf[fd]
                             \/ \E t \in OnFd(fd) : Pending(t),
             \A r \in DOMAIN reqs : Pending(r) /\ Progress(r) => Progress(r)'
      PROVE  CallInv'
  <2>1. \A fd \in Fds : OnFd(fd)' = OnFd(fd)
    BY <1>6 DEF OnFd
  <2>2. PendingWaits'
    <3> SUFFICES ASSUME NEW r \in DOMAIN reqs, Pending(r) PROVE Waits(r)' /\ Progress(r)'
      BY <1>6, <1>10 DEF PendingWaits
    <3>1. Waits(r) /\ Progress(r) /\ reqs[r].fd \in Fds
      BY <1>2, <1>4 DEF PendingWaits
    <3>2. \A s \in OnFd(reqs[r].fd)' : Pending(s)' => s = r
      BY <1>6, <1>10, <3>1 DEF Waits, OnFd
    <3>3. Waits(r)'
      BY <1>8, <1>6, <1>10, <3>1, <3>2 DEF Waits, Serving, Unsent
    <3> QED
      BY <1>10, <3>1, <3>3
  <2>3. ReplyWaits'
    <3> SUFFICES ASSUME NEW fd \in Fds PROVE ReplyFits(fd)'
      BY DEF ReplyWaits
    <3>1. ReplyFits(fd)
      BY <1>2 DEF ReplyWaits
    <3>2. CASE \E t \in OnFd(fd) : Pending(t)
      <4>1. interest'[fd] = "in"
        BY <1>2, <1>10, <3>2 DEF PendingWaits, Waits, OnFd
      <4>2. \E t \in OnFd(fd)' : Pending(t)'
        BY <1>6, <1>10, <2>1, <3>2 DEF OnFd
      <4> QED
        BY <4>1, <4>2 DEF ReplyFits
    <3>3. CASE slen'[fd] = slen[fd] /\ sbuf'[fd] = sbuf[fd]
      <4>1. interest'[fd] # "out" /\ (\A r \in OnFd(fd)' : ~Pending(r)') => slen'[fd] = 0
        BY <1>6, <1>10, <2>1, <3>1, <3>3 DEF ReplyFits, OnFd
      <4>2. \A r \in DOMAIN reqs : Handled(r) /\ Unsent(r) => Handled(r)' /\ Unsent(r)'
        BY <1>8, <1>10 DEF Unsent
      <4> QED
        BY <1>8, <1>6, <1>10, <3>1, <3>3, <4>1, <4>2 DEF ReplyFits
    <3> QED
      BY <1>10, <3>2, <3>3
  <2>4. WorkKnows'
    <3>1. wpc \in {"check", "rearm"} => slen'[wfd] = slen[wfd]
      <4>1. wpc \in {"check", "rearm"} => \A t \in OnFd(wfd) : ~Pending(t)
        BY <1>2 DEF PendingWaits, Waits, OnFd, Serving
      <4> QED
        BY <1>1, <1>2, <1>10, <4>1 DEF WorkKnows
    <3> QED
      BY <1>2, <1>8, <1>10, <3>1 DEF WorkKnows
  <2> QED
    BY <1>9, <2>2, <2>3, <2>4 DEF CallInv
<1>11. CASE PoolWait
  <2>1. \A r \in DOMAIN reqs : Handled(r)' <=> Handled(r)
    BY <1>11 DEF PoolWait, Handled
  <2>2. \A r \in DOMAIN reqs : Pending(r) /\ Progress(r) => Progress(r)'
    BY <1>11 DEF PoolWait, Progress
  <2> QED
    BY <1>10, <1>11, <2>1, <2>2 DEF PoolWait
<1>12. CASE PoolPick
  <2>1. PICK t \in rbatch :
           sbuf' = [sbuf EXCEPT ![reqs[t].fd] =
                       [i \in 1..BufCells |-> IF i <= slen[reqs[t].fd] THEN Nul ELSE sbuf[reqs[t].fd][i]]]
    BY <1>12 DEF PoolPick, Fill
  <2>2. /\ UNCHANGED <<interest, batch, slen, reqs>> /\ rpc = "pick" /\ rpc' = "clear"
    BY <1>12 DEF PoolPick
  <2>3. t \in DOMAIN reqs /\ Pending(t)
    BY <1>1 DEF OpenInv, PoolKnows, RpcTypeOK, Handled
  <2>4. \A r \in DOMAIN reqs : Handled(r)' <=> Handled(r)
    BY <2>2 DEF Handled
  <2>5. \A fd \in Fds : sbuf'[fd] = sbuf[fd] \/ \E s \in OnFd(fd) : Pending(s)
    BY <1>1, <2>1, <2>3 DEF RpcTypeOK, OnFd
  <2>6. \A r \in DOMAIN reqs : Pending(r) /\ Progress(r) => Progress(r)'
    BY <2>2 DEF Progress
  <2> QED
    BY <1>10, <2>2, <2>4, <2>5, <2>6
<1>13. CASE PoolClear
  <2>1. /\ UNCHANGED <<interest, batch, slen, reqs, rcur>> /\ rpc = "clear" /\ rpc' = "recv"
        /\ \A fd \in Fds : fd # Target => sbuf'[fd] = sbuf[fd]
    BY <1>1, <1>13 DEF PoolClear, Fill, RpcTypeOK
  <2>2. rcur \in OnFd(Target) /\ Pending(rcur)
    BY <1>5, <2>1 DEF Target, OnFd
  <2>3. \A r \in DOMAIN reqs : Handled(r)' <=> Handled(r)
    BY <2>1 DEF Handled
  <2>4. \A r \in DOMAIN reqs : Pending(r) /\ Progress(r) => Progress(r)'
    BY <2>1 DEF Progress
  <2> QED
    BY <1>10, <2>1, <2>2, <2>3, <2>4
\* An empty buffer has no room for the reply ...
<1>14. CASE PoolRecv
  <2>1. /\ UNCHANGED <<interest, batch, slen, reqs, rcur>> /\ rpc = "recv" /\ rpc' = "store"
        /\ \E n \in 0..MaxReply : rlen' = Received(n)
        /\ \A fd \in Fds : fd # Target => sbuf'[fd] = sbuf[fd]
    BY <1>1, <1>14 DEF PoolRecv, Fill, RpcTypeOK
  <2>2. slen[Target] = 0 /\ rcur \in OnFd(Target) /\ Pending(rcur)
    BY <1>5, <2>1 DEF Progress, Target, OnFd
  <2>3. \A r \in DOMAIN reqs : Handled(r)' <=> Handled(r)
    BY <2>1 DEF Handled
  <2>5. rlen' = 0
    BY <2>1, <2>2, RpcAssumption DEF Received, Huge
  <2>4. \A r \in DOMAIN reqs : Pending(r) /\ Progress(r) => Progress(r)'
    BY <2>1, <2>5 DEF Progress
  <2> QED
    BY <1>10, <2>1, <2>2, <2>3, <2>4
\* ... so slen stays 0 ...
<1>15. CASE PoolStore
  <2>1. /\ UNCHANGED <<interest, batch, sbuf, rcur>> /\ rpc = "store" /\ rpc' = "suffix"
        /\ slen'[Target] = rlen
        /\ \A fd \in Fds : fd # Target => slen'[fd] = slen[fd]
    BY <1>1, <1>5, <1>15 DEF PoolStore, RpcTypeOK
  <2>2. rlen = 0 /\ slen[Target] = 0
    BY <1>5, <2>1 DEF Progress, Target
  <2>3. \A r \in DOMAIN reqs : Handled(r)' <=> Handled(r)
    <3>1. /\ \A r \in DOMAIN reqs : r # rcur => reqs'[r] = reqs[r]
          /\ ~Handled(rcur)
      BY <1>5, <1>15, <2>1, StoreChanges
    <3>2. \A r \in DOMAIN reqs : r # rcur => (Handled(r)' <=> Handled(r))
      BY <2>1, <3>1 DEF Handled
    <3>3. ASSUME NEW r \in DOMAIN reqs PROVE Handled(r)' <=> Handled(r)
      <4>1. CASE r = rcur
        <5>1. ~Handled(r)'
          BY <2>1, <4>1 DEF Handled
        <5> QED
          BY <3>1, <4>1, <5>1
      <4> QED
        BY <3>2, <4>1
    <3> QED
      BY <3>3
  <2>4. \A fd \in Fds : slen'[fd] = slen[fd]
    BY <2>1, <2>2
  <2>5. \A r \in DOMAIN reqs : Pending(r) /\ Progress(r) => Progress(r)'
    BY <1>4, <1>6, <2>1, <2>4 DEF Progress
  <2> QED
    BY <1>10, <2>1, <2>3, <2>4, <2>5
\* ... and the suffix is the whole answer.
<1>16. CASE PoolSuffix
  <2>1. /\ UNCHANGED <<interest, batch, slen, reqs, rcur>> /\ rpc = "suffix" /\ rpc' = "add"
        /\ sbuf' = [sbuf EXCEPT ![Target][Wrapped(slen[Target]) + 1] = <<"sfx", rcur>>]
    BY <1>16 DEF PoolSuffix
  <2>2. slen[Target] = 0 /\ rcur \in OnFd(Target) /\ Pending(rcur) /\ Target \in Fds
    BY <1>5, <2>1 DEF Progress, Target, OnFd
  <2>3. /\ sbuf'[Target][1] = <<"sfx", rcur>>
        /\ \A fd \in Fds : fd # Target => sbuf'[fd] = sbuf[fd]
    BY <1>1, <2>1, <2>2, RpcAssumption, CapAssumption DEF RpcTypeOK, Wrapped, Huge
  <2>4. \A r \in DOMAIN reqs : Handled(r)' <=> Handled(r)
    BY <2>1 DEF Handled
  <2>5. \A r \in DOMAIN reqs : Pending(r) /\ Progress(r) => Progress(r)'
    BY <2>1, <2>3 DEF Progress, Target
  <2> QED
    BY <1>10, <2>1, <2>2, <2>3, <2>4, <2>5
<1>17. CASE PoolAdd
  <2>1. /\ UNCHANGED <<interest, batch, slen, sbuf, reqs, rcur>> /\ rpc = "add" /\ rpc' = "grow"
        /\ rlen' = Wrapped(slen[Target]) + 1
    BY <1>17 DEF PoolAdd
  <2>2. rlen' = 1
    BY <1>5, <2>1 DEF Progress, Target, Wrapped, Huge
  <2>3. \A r \in DOMAIN reqs : Handled(r)' <=> Handled(r)
    BY <2>1 DEF Handled
  <2>4. \A r \in DOMAIN reqs : Pending(r) /\ Progress(r) => Progress(r)'
    BY <2>1, <2>2 DEF Progress
  <2> QED
    BY <1>10, <2>1, <2>3, <2>4
<1>18. CASE PoolGrow
  <2>1. /\ UNCHANGED <<interest, batch, sbuf, reqs, rcur, rlen>> /\ rpc = "grow" /\ rpc' = "mod"
        /\ slen'[Target] = rlen
        /\ \A fd \in Fds : fd # Target => slen'[fd] = slen[fd]
    BY <1>1, <1>5, <1>18 DEF PoolGrow, RpcTypeOK
  <2>2. rlen = 1 /\ sbuf[Target][1] = <<"sfx", rcur>>
        /\ rcur \in OnFd(Target) /\ Pending(rcur)
        /\ \A s \in OnFd(Target) : Pending(s) => s = rcur
    BY <1>5, <2>1 DEF Progress, Waits, Target, OnFd
  <2>3. \A r \in DOMAIN reqs : Handled(r)' <=> Handled(r)
    BY <2>1 DEF Handled
  <2>4. \A r \in DOMAIN reqs : Pending(r) /\ Progress(r) => Progress(r)'
    <3> SUFFICES ASSUME NEW r \in DOMAIN reqs, Pending(r), Progress(r) PROVE Progress(r)'
      OBVIOUS
    <3>1. CASE r = rcur
      BY <2>1, <2>2, <3>1 DEF Progress, Target
    <3>2. CASE r # rcur
      <4>1. reqs[r].fd # Target /\ reqs[r].fd \in Fds
        BY <1>4, <2>2, <3>2 DEF OnFd
      <4> QED
        BY <2>1, <3>2, <4>1 DEF Progress
    <3> QED
      BY <3>1, <3>2
  <2> QED
    BY <1>10, <2>1, <2>2, <2>3, <2>4
\* epoll_ctl hands the descriptor, with its one answer, to the work thread.
<1>19. CASE PoolMod
  <2> DEFINE t == rcur
             tfd == Target
  <2>1. /\ UNCHANGED <<batch, slen, sbuf, reqs, rcur>> /\ rpc = "mod" /\ rpc' \in {"wait", "pick"}
        /\ t \in DOMAIN reqs /\ tfd \in Fds /\ reqs[t].fd = tfd /\ Pending(t) /\ Waits(t) /\ Progress(t)
        /\ (Serving => wfd # tfd) /\ reqs[t].st = "done"
    BY <1>5, <1>19 DEF PoolMod, PoolLoopPc, Target, OpenInv, PoolKnows
  <2>2. interest[tfd] = "in"
    BY <2>1 DEF Waits
  <2>3. interest'[tfd] = "out" /\ \A fd \in Fds : fd # tfd => interest'[fd] = interest[fd]
    BY <1>1, <1>19, <2>1, <2>2 DEF PoolMod, Register, NetTypeOK
  <2>4. \A r \in DOMAIN reqs : Handled(r)' <=> Handled(r) \/ r = t
    BY <2>1 DEF Handled
  <2>5. PICK u \in DOMAIN reqs, f \in Fds : u = t /\ f = tfd
    BY <2>1
  <2> HIDE DEF t, tfd
  <2>6. \A s \in OnFd(f) : Pending(s) => s = u
    BY <2>1, <2>5 DEF Waits
  <2>7. PendingWaits'
    <3> SUFFICES ASSUME NEW r \in DOMAIN reqs, Pending(r), r # u PROVE Waits(r)' /\ Progress(r)'
      BY <2>1, <2>4, <2>5 DEF PendingWaits
    <3>1. Waits(r) /\ Progress(r) /\ reqs[r].fd \in Fds /\ reqs[r].fd # f
      BY <1>2, <1>4, <2>6 DEF PendingWaits, OnFd
    <3>2. \A s \in OnFd(reqs[r].fd)' : Pending(s)' => s = r
      BY <2>1, <2>4, <3>1 DEF Waits, OnFd
    <3>3. Waits(r)'
      BY <1>8, <2>1, <2>3, <2>5, <3>1, <3>2 DEF Waits, Serving, Unsent
    <3>4. Progress(r)'
      BY <2>1, <2>5, <3>1 DEF Progress, t
    <3> QED
      BY <3>3, <3>4
  <2>8. ReplyWaits'
    <3> SUFFICES ASSUME NEW fd \in Fds PROVE ReplyFits(fd)'
      BY DEF ReplyWaits
    <3>1. CASE fd = f
      <4>1. slen'[f] = 1 /\ sbuf'[f][1] = <<"sfx", u>>
        BY <2>1, <2>5 DEF Progress, t
      <4>2. /\ fdConn'[f] = reqs'[u].who /\ taken'[fdConn'[f]] = Len(echo'[fdConn'[f]]) + 1
            /\ Unsent(u)'
        BY <1>8, <2>1, <2>5 DEF Waits, Unsent
      <4>3. Handled(u)' /\ u \in DOMAIN reqs'
        BY <2>1, <2>4, <2>5
      <4> QED
        BY <2>3, <2>5, <3>1, <4>1, <4>2, <4>3 DEF ReplyFits
    <3>2. CASE fd # f
      <4>1. ReplyFits(fd) /\ interest'[fd] = interest[fd]
        BY <1>2, <2>3, <2>5, <3>2 DEF ReplyWaits
      <4>2. \A r \in DOMAIN reqs : Handled(r) /\ Unsent(r) => Handled(r)' /\ Unsent(r)'
        BY <1>8, <2>4 DEF Unsent
      <4>3. \A r \in OnFd(fd) : r \in DOMAIN reqs /\ r # u
        BY <2>1, <2>5, <3>2 DEF OnFd
      <4>4. interest'[fd] # "out" /\ (\A r \in OnFd(fd)' : ~Pending(r)') => slen'[fd] = 0
        BY <2>1, <2>4, <2>5, <4>1, <4>3 DEF ReplyFits, OnFd
      <4> QED
        BY <1>8, <2>1, <4>1, <4>2, <4>4 DEF ReplyFits
    <3> QED
      BY <3>1, <3>2
  <2>9. WorkKnows'
    <3>1. \A e \in batch : e[1] # f /\ e[1] \in Fds
      BY <1>1, <2>1, <2>5 DEF Waits, RpcTypeOK
    <3> QED
      BY <1>1, <1>2, <1>8, <2>1, <2>3, <2>5, <3>1 DEF WorkKnows, Serving
  <2> QED
    BY <1>9, <2>7, <2>8, <2>9 DEF CallInv
<1> QED
  BY <1>11, <1>12, <1>14, <1>15, <1>16, <1>18, <1>19, <1>13, <1>7, <1>17 DEF PoolThread

LEMMA UpstreamCall ==
    ASSUME OpenInv, EchoOfRequests, CallInv, Upstream
    PROVE  CallInv'
<1>1. OneCall /\ PendingWaits /\ ReplyWaits /\ WorkKnows /\ AnswersAreOwn
  BY DEF CallInv
<1>2. UNCHANGED <<netVars, workVars, poolVars, bufVars, fault>>
  BY DEF Upstream
<1>3. /\ DOMAIN reqs' = DOMAIN reqs /\ Len(reqs') = Len(reqs)
      /\ \A r \in DOMAIN reqs : /\ reqs'[r].fd = reqs[r].fd /\ reqs'[r].who = reqs[r].who
                                /\ reqs'[r].st = "done" <=> reqs[r].st = "done"
  BY UpstreamChanges DEF OpenInv
<1>4. OneCall' /\ WorkKnows'
  BY <1>1, <1>2 DEF OneCall, WorkKnows
<1>5. AnswersAreOwn'
  <2>1. \A d \in Clients : \A i \in 1..Len(echo[d]) :
           echo[d][i][1] = "sfx" => reqs'[echo[d][i][2]].who = reqs[echo[d][i][2]].who
    BY <1>3 DEF EchoOfRequests, Nul
  <2> QED
    BY <1>1, <1>2, <2>1 DEF AnswersAreOwn
<1>6. \A r \in DOMAIN reqs : Handled(r)' <=> Handled(r)
  BY <1>2, <1>3 DEF Handled
<1>7. PendingWaits'
  <2> SUFFICES ASSUME NEW r \in DOMAIN reqs, Pending(r) PROVE Waits(r)' /\ Progress(r)'
    BY <1>3, <1>6 DEF PendingWaits
  <2>1. Waits(r) /\ Progress(r)
    BY <1>1 DEF PendingWaits
  <2>2. \A s \in OnFd(reqs[r].fd)' : Pending(s)' => s = r
    BY <1>3, <1>6, <2>1 DEF Waits, OnFd
  <2>3. Waits(r)'
    BY <1>2, <1>3, <2>1, <2>2 DEF Waits, Serving, Unsent
  <2>4. Progress(r)'
    BY <1>2, <1>3, <2>1 DEF Progress
  <2> QED
    BY <2>3, <2>4
<1>8. ReplyWaits'
  <2> SUFFICES ASSUME NEW fd \in Fds PROVE ReplyFits(fd)'
    BY DEF ReplyWaits
  <2>1. ReplyFits(fd)
    BY <1>1 DEF ReplyWaits
  <2>2. \A r \in DOMAIN reqs : Unsent(r)' <=> Unsent(r)
    BY <1>2 DEF Unsent
  <2>3. OnFd(fd)' = OnFd(fd) /\ \A r \in OnFd(fd) : Pending(r)' <=> Pending(r)
    BY <1>3, <1>6 DEF OnFd
  <2>4. interest'[fd] # "out" /\ (\A r \in OnFd(fd)' : ~Pending(r)') => slen'[fd] = 0
    BY <1>2, <2>1, <2>3 DEF ReplyFits
  <2> QED
    BY <1>2, <1>3, <1>6, <2>1, <2>2, <2>4 DEF ReplyFits
<1> QED
  BY <1>4, <1>5, <1>7, <1>8 DEF CallInv

LEMMA InitCallInv == Init => CallInv
<1> SUFFICES ASSUME Init PROVE CallInv
  OBVIOUS
<1>1. DOMAIN reqs = {} /\ \A c \in Clients : echo[c] = <<>> /\ Len(echo[c]) = 0
  BY DEF Init, NetInit
<1>2. OneCall /\ AnswersAreOwn
  BY <1>1 DEF Init, NetInit, OneCall, AnswersAreOwn
<1>3. PendingWaits /\ ReplyWaits /\ WorkKnows
  BY <1>1 DEF Init, NetInit, PendingWaits, ReplyWaits, ReplyFits, WorkKnows
<1> QED
  BY <1>2, <1>3 DEF CallInv

LEMMA NextCallInv ==
    ASSUME ~Pipelining, ~Leaving
    PROVE  OpenInv /\ OwnerInv /\ CallInv /\ [Next]_vars => CallInv'
<1> SUFFICES ASSUME OpenInv, OwnerInv, CallInv, [Next]_vars PROVE CallInv'
  OBVIOUS
<1>1. OneNumber /\ EchoOfRequests
  BY DEF OwnerInv
<1>2. CASE Next
  <2>1. CASE ListenThread
    BY <2>1, ListenCall
  <2>2. CASE WorkThread
    BY <1>1, <1>2, <2>2, WorkCall
  <2>3. CASE PoolThread
    BY <1>1, <2>3, PoolCall
  <2>4. CASE Upstream
    BY <1>1, <2>4, UpstreamCall
  <2>5. ASSUME NEW c \in Clients, ClientStep(c) PROVE CallInv'
    BY <2>5, ClientCall
  <2> QED
    BY <1>2, <2>1, <2>2, <2>3, <2>4, <2>5 DEF Next
<1>3. CASE UNCHANGED vars
  BY <1>3 DEF vars, CallInv, OneCall, PendingWaits, Waits, Progress, ReplyWaits, ReplyFits, WorkKnows,
     AnswersAreOwn, Unsent, Handled, OnFd, Serving
<1> QED
  BY <1>2, <1>3

LEMMA AlwaysCall ==
    ASSUME ~Pipelining, ~Leaving
    PROVE  Spec => [](OpenInv /\ OwnerInv /\ CallInv)
BY InitCallInv, NextCallInv, AlwaysOwner, PTL DEF Spec

(* Clients that call one at a time, and stay until they are answered, get   *)
(* their own answers, each ending with the suffix of its own request,       *)
(* although the buffer's two writers take no lock and requests may be lost. *)
THEOREM CallersGetTheirOwn ==
    ASSUME ~Pipelining, ~Leaving
    PROVE  Spec => []AnswersAreOwn
BY AlwaysCall, PTL DEF CallInv

----------------------------------------------------------------------------
(* The three threads take the steps of the abstract service.                *)

LEMMA ServiceStep ==
    ASSUME ~Pipelining, OpenInv, OwnerInv, CallInv, [Next]_vars
    PROVE  [Service!Next]_Service!vars
<1> DEFINE answers == [c \in Clients |-> Len(echo[c])]
<1>1. NetTypeOK /\ OneNumber /\ \A c \in Clients : echo[c] \in Seq(Cell) /\ Len(echo[c]) \in Nat
  BY DEF OpenInv, OwnerInv, RpcTypeOK
<1>2. ASSUME UNCHANGED <<sent, echo>> PROVE UNCHANGED Service!vars
  BY <1>2 DEF Service!vars
\* A client calls when it has been answered.
<1>3. ASSUME NEW c \in Clients, ClientSend(c), Settled(c) PROVE Service!Call(c)
  <2>1. sent[c] = Len(echo[c]) /\ sent[c] < MaxBytes
    BY <1>3, ConnFacts DEF CallInv, Settled, ClientSend
  <2>2. sent' = [sent EXCEPT ![c] = sent[c] + 1] /\ echo' = echo
    BY <1>3 DEF ClientSend
  <2> QED
    BY <2>1, <2>2 DEF Service!Call
\* send() writes the one answer that is owed.
<1>4. CASE WorkSend
  <2>1. wpc = "write" /\ sent' = sent
    BY <1>4 DEF WorkSend
  <2>2. fdConn[wfd] \in Clients /\ taken[fdConn[wfd]] = Len(echo[fdConn[wfd]]) + 1
    BY <1>1, <2>1, AnswerOwed
  <2>3. PICK c \in Clients : c = fdConn[wfd]
    BY <2>2
  <2>4. Len(echo[c]) < sent[c]
    BY <2>2, <2>3, ConnFacts DEF CallInv
  <2>5. Len(echo'[c]) = Len(echo[c]) + 1 /\ \A d \in Clients : d # c => echo'[d] = echo[d]
    BY <1>1, <1>4, <2>3, SendAppends
  <2>6. answers' = [answers EXCEPT ![c] = answers[c] + 1]
    BY <2>5
  <2>7. Service!Answer(c)
    BY <2>1, <2>4, <2>6 DEF Service!Answer
  <2> QED
    BY <2>7 DEF Service!Next
<1>5. CASE Next /\ ~WorkSend
  <2>1. CASE \E c \in Clients : ClientSend(c) /\ Settled(c)
    BY <1>3, <2>1 DEF Service!Next
  <2>2. CASE ~\E c \in Clients : ClientSend(c) /\ Settled(c)
    <3>1. UNCHANGED <<sent, echo>>
      BY <1>5, <2>2 DEF Next, ListenThread, Accept, AcceptCtl, WorkThread, WorkWait, WorkPick, WorkRecv,
         WorkCommit, WorkRegister, WorkRecvEof, WorkRecvFault, Stop, WorkDel, WorkClose,
         WorkSendNothing, WorkSendBegin, WorkLoad, WorkSendPast, WorkResult, WorkCheck,
         WorkSendReset, WorkSendFault, WorkSent, WorkRearm, PoolThread, PoolWait,
         PoolPick, PoolClear, PoolRecv, PoolStore, PoolSuffix, PoolAdd, PoolGrow, PoolMod, PoolPast,
         Upstream, ClientStep, Connect,
         ClientShutdown, ClientClose, ClientRead, PeerReset
    <3> QED
      BY <1>2, <3>1
  <2> QED
    BY <2>1, <2>2
<1>6. CASE UNCHANGED vars
  BY <1>2, <1>6 DEF vars
<1> QED
  BY <1>4, <1>5, <1>6

(* Clients that call one at a time see the abstract service: each call is   *)
(* answered once, on the connection it came from, whatever the threads      *)
(* interleave.  This is the safety half of ImplementsService.               *)
THEOREM StepsOfService ==
    ASSUME ~Pipelining, ~Leaving
    PROVE  Spec => Service!Init /\ [][Service!Next]_Service!vars
<1>1. Init => Service!Init
  BY DEF Init, NetInit, Service!Init
<1>2. OpenInv /\ OwnerInv /\ CallInv /\ [Next]_vars => [Service!Next]_Service!vars
  BY ServiceStep
<1> QED
  BY <1>1, <1>2, AlwaysCall, PTL DEF Spec
=============================================================================
