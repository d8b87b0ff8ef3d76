--------------------------- MODULE Reactor_proofs ---------------------------
(***************************************************************************)
(* Theorems about module Reactor, for every value of its constants.        *)
(*                                                                         *)
(* None of the safety invariants is inductive by itself.  IInv adds what   *)
(* they rest on: whose connection a descriptor number stands for at each   *)
(* step of the two threads.  EInv adds that one connection never has two   *)
(* numbers and that sbuffer holds the received bytes not yet echoed;       *)
(* EdgeInv, that a batch is handled to its end and that who waits for      *)
(* output has something to send; EndInv, what a closed connection and a    *)
(* reset one say of their clients.                                         *)
(***************************************************************************)
EXTENDS Reactor, SequenceTheorems, TLAPS

----------------------------------------------------------------------------
(* The inductive invariant. *)

\* Only a client that is done, or gone, has sent a FIN or a reset.
ClientsEnd ==
    /\ \A c \in Clients : eof[c] => cl[c] \in {"shut", "gone"}
    /\ \A c \in Clients : rst[c] # "no" => cl[c] = "gone"

\* The descriptor the work thread serves is open, has no other event in the
\* batch, and is registered for the event being handled.
ServedIsOpen ==
    Serving =>
        /\ fdConn[wfd] # NoConn
        /\ \A e \in batch : e[1] # wfd
        /\ wpc \in {"recv", "arm"} => interest[wfd] = "in"
        /\ wpc \in {"send", "sent"} => interest[wfd] = "out"

\* The descriptor on its way into work_epfd is not the one being served.
AcceptedIsOpen ==
    lpc = "ctl" =>
        /\ fdConn[lfd] # NoConn
        /\ interest[lfd] = "none"
        /\ Serving => wfd # lfd

\* A connection is queued once, or has one descriptor, or neither.
OneNumber ==
    /\ \A i, j \in 1..Len(queued) : queued[i] = queued[j] => i = j
    /\ \A fd \in Fds : \A i \in 1..Len(queued) : fdConn[fd] # queued[i]
    /\ \A f, g \in Fds : fdConn[f] = fdConn[g] /\ fdConn[f] # NoConn => f = g

\* A connection not accepted yet has not been read from or written to.
Untouched ==
    /\ \A i \in 1..Len(queued) : cl[queued[i]] # "new"
    /\ \A fd \in Fds : fdConn[fd] # NoConn => cl[fdConn[fd]] # "new"
    /\ \A c \in Clients :
        cl[c] = "new" \/ (\E i \in 1..Len(queued) : queued[i] = c)
            => taken[c] = 0 /\ echo[c] = <<>>

\* sbuffer holds something only on the way from recv() to send().
HeldOnlyForOutput ==
    /\ \A fd \in Fds :
        sbuf[fd] # <<>> => interest[fd] = "out" \/ (wpc = "arm" /\ wfd = fd)
    /\ wpc = "rearm" \/ TearingDown => sbuf[wfd] = <<>>

\* What a descriptor holds is what its connection sent behind what was echoed.
HeldIsNext ==
    \A fd \in Fds :
        fdConn[fd] # NoConn /\ rst[fdConn[fd]] # "done" =>
            LET c == fdConn[fd]
            IN  IF wpc = "sent" /\ wfd = fd
                THEN Len(echo[c]) = taken[c]
                ELSE /\ taken[c] = Len(echo[c]) + Len(sbuf[fd])
                     /\ \A i \in 1..Len(sbuf[fd]) : sbuf[fd][i] = <<c, Len(echo[c]) + i>>

IInv ==
    /\ TypeOK /\ ClientsEnd /\ ServedIsOpen /\ AcceptedIsOpen
    /\ EventsAreLive /\ TeardownOwn

EInv ==
    /\ IInv /\ OneNumber /\ Untouched /\ HeldOnlyForOutput /\ HeldIsNext
    /\ EchoInOrder

----------------------------------------------------------------------------
(* Facts about the operators of the model. *)

\* nfd stays a size_t.
LEMMA ModRange ==
    ASSUME NEW a \in Int, NEW m \in Nat \ {0}
    PROVE  a % m \in 0..m-1
BY SMT

\* recv() returns bytes of the connection: at most BufLen, the next ones.
LEMMA RecvBytesFact ==
    ASSUME TypeOK, NEW c \in Clients, Avail(c) > 0
    PROVE  /\ RecvBytes(c) \in Seq(Byte)
           /\ Len(RecvBytes(c)) \in 1..Avail(c)
           /\ \A i \in 1..Len(RecvBytes(c)) : RecvBytes(c)[i] = <<c, taken[c] + i>>
<1> DEFINE n == IF Avail(c) < BufLen THEN Avail(c) ELSE BufLen
<1>1. taken[c] \in Nat /\ Avail(c) \in Int
  BY DEF TypeOK, NetTypeOK, Avail
<1>2. n \in Nat /\ n \in 1..Avail(c)
  BY <1>1, BufLenAssumption
<1>3. \A i \in 1..n : <<c, taken[c] + i>> \in Byte
  BY <1>1, <1>2 DEF Byte
<1>4. RecvBytes(c) = [i \in 1..n |-> <<c, taken[c] + i>>]
  BY DEF RecvBytes
<1> HIDE DEF n
<1> QED
  BY <1>2, <1>3, <1>4

\* Bytes that continue a numbered sequence leave it numbered.
LEMMA NumberedConcat ==
    ASSUME NEW c, NEW e \in Seq(Byte), NEW s \in Seq(Byte),
           \A i \in 1..Len(e) : e[i] = <<c, i>>,
           \A i \in 1..Len(s) : s[i] = <<c, Len(e) + i>>
    PROVE  /\ Len(e \o s) = Len(e) + Len(s)
           /\ \A i \in 1..Len(e \o s) : (e \o s)[i] = <<c, i>>
<1>1. Len(e) \in Nat /\ Len(s) \in Nat
  OBVIOUS
<1>2. /\ Len(e \o s) = Len(e) + Len(s)
      /\ \A i \in 1..Len(e) + Len(s) : (e \o s)[i] = IF i <= Len(e) THEN e[i] ELSE s[i - Len(e)]
  BY ConcatProperties
<1>3. ASSUME NEW i \in 1..Len(e) + Len(s) PROVE (e \o s)[i] = <<c, i>>
  <2>1. CASE i <= Len(e)
    BY <1>1, <1>2, <2>1
  <2>2. CASE i > Len(e)
    <3> DEFINE j == i - Len(e)
    <3>1. j \in 1..Len(s) /\ Len(e) + j = i
      BY <1>1, <2>2
    <3>2. (e \o s)[i] = s[j]
      BY <1>1, <1>2, <2>2
    <3> HIDE DEF j
    <3> QED
      BY <3>1, <3>2
  <2> QED
    BY <1>1, <2>1, <2>2
<1> QED
  BY <1>2, <1>3

THEOREM InitIInv == Init => IInv
<1> SUFFICES ASSUME Init PROVE IInv
  OBVIOUS
<1>1. 1 % NfdMod \in 0..NfdMod-1
  BY ModRange, BlockAssumption
<1>2. 0 \in 0..NfdMod-1
  BY BlockAssumption
<1>3. NetTypeOK
  BY CapAssumption DEF Init, FreshTable, NetInit, NetTypeOK
<1>4. TypeOK
  BY <1>1, <1>2, <1>3 DEF Init, FreshTable, NetInit, TypeOK
<1> QED
  BY <1>4 DEF Init, FreshTable, NetInit, IInv, ClientsEnd, ServedIsOpen, AcceptedIsOpen,
     EventsAreLive, TeardownOwn, Serving, TearingDown

----------------------------------------------------------------------------
(* Every step preserves IInv.  The tuples of variables are expanded in all  *)
(* that follows.                                                            *)

USE DEF netVars, clientVars, sockVars, epollVars, listenVars, workVars, tableVars,
        reactorVars

(* A client's step changes no descriptor; a FIN or a reset is its own.      *)
LEMMA ClientIInv ==
    ASSUME IInv, NEW c \in Clients, UNCHANGED reactorVars,
           \/ Connect(c) \/ ClientSend(c) \/ ClientShutdown(c)
           \/ ClientClose(c) \/ ClientRead(c) \/ PeerReset(c)
    PROVE  IInv'
<1>1. TypeOK /\ NetTypeOK
  BY DEF IInv, TypeOK
<1>2. echo' = echo /\ batch' = batch /\ interest' = interest /\ fdConn' = fdConn /\ taken' = taken
  BY DEF Connect, ClientSend, ClientShutdown, ClientClose, ClientRead, PeerReset
<1>3. ServedIsOpen' /\ AcceptedIsOpen' /\ EventsAreLive'
  BY <1>2 DEF IInv, ServedIsOpen, AcceptedIsOpen, EventsAreLive, Serving
<1>4. CASE Connect(c)
  <2>1. Append(queued, c) \in Seq(Clients)
    BY <1>1 DEF NetTypeOK
  <2>2. NetTypeOK'
    BY <1>1, <1>4, <2>1 DEF Connect, NetTypeOK
  <2>3. TypeOK'
    BY <1>1, <1>2, <2>2 DEF TypeOK
  <2>4. ClientsEnd'
    BY <1>1, <1>4 DEF Connect, IInv, ClientsEnd, NetTypeOK
  <2>5. TeardownOwn'
    BY <1>1, <1>2, <1>4 DEF Connect, IInv, TeardownOwn, TearingDown, ClientsEnd, TypeOK,
       NetTypeOK, Avail
  <2> QED
    BY <1>3, <2>3, <2>4, <2>5 DEF IInv
<1>5. CASE ClientSend(c)
  <2>1. sent[c] + 1 \in 0..MaxBytes
    BY <1>1, <1>5, CapAssumption DEF ClientSend, NetTypeOK
  <2>2. NetTypeOK'
    BY <1>1, <1>5, <2>1 DEF ClientSend, NetTypeOK, Wake
  <2>3. TypeOK'
    BY <1>1, <1>2, <2>2 DEF TypeOK
  <2>4. ClientsEnd'
    BY <1>1, <1>5 DEF ClientSend, IInv, ClientsEnd, NetTypeOK
  <2>5. TeardownOwn'
    BY <1>1, <1>2, <1>5 DEF ClientSend, IInv, TeardownOwn, TearingDown, ClientsEnd, TypeOK,
       NetTypeOK, Avail
  <2> QED
    BY <1>3, <2>3, <2>4, <2>5 DEF IInv
<1>6. CASE ClientShutdown(c)
  <2>2. NetTypeOK'
    BY <1>1, <1>6 DEF ClientShutdown, NetTypeOK, Wake
  <2>3. TypeOK'
    BY <1>1, <1>2, <2>2 DEF TypeOK
  <2>4. ClientsEnd'
    BY <1>1, <1>6 DEF ClientShutdown, IInv, ClientsEnd, NetTypeOK
  <2>5. TeardownOwn'
    BY <1>1, <1>2, <1>6 DEF ClientShutdown, IInv, TeardownOwn, TearingDown, ClientsEnd, TypeOK,
       NetTypeOK, Avail
  <2> QED
    BY <1>3, <2>3, <2>4, <2>5 DEF IInv
<1>7. CASE ClientClose(c)
  <2>2. NetTypeOK'
    BY <1>1, <1>7 DEF ClientClose, NetTypeOK, Wake
  <2>3. TypeOK'
    BY <1>1, <1>2, <2>2 DEF TypeOK
  <2>4. ClientsEnd'
    BY <1>1, <1>7 DEF ClientClose, IInv, ClientsEnd, NetTypeOK
  <2>5. TeardownOwn'
    BY <1>1, <1>2, <1>7 DEF ClientClose, IInv, TeardownOwn, TearingDown, ClientsEnd, TypeOK,
       NetTypeOK, Avail
  <2> QED
    BY <1>3, <2>3, <2>4, <2>5 DEF IInv
<1>8. CASE ClientRead(c)
  <2>1. Len(echo[c]) \in Nat
    BY <1>1 DEF TypeOK
  <2>2. NetTypeOK'
    BY <1>1, <1>8, <2>1 DEF ClientRead, NetTypeOK, Wake
  <2>3. TypeOK'
    BY <1>1, <1>2, <2>2 DEF TypeOK
  <2>4. ClientsEnd'
    BY <1>1, <1>8 DEF ClientRead, IInv, ClientsEnd, NetTypeOK
  <2>5. TeardownOwn'
    BY <1>1, <1>2, <1>8 DEF ClientRead, IInv, TeardownOwn, TearingDown, ClientsEnd, TypeOK,
       NetTypeOK, Avail
  <2> QED
    BY <1>3, <2>3, <2>4, <2>5 DEF IInv
<1>9. CASE PeerReset(c)
  <2>2. NetTypeOK'
    BY <1>1, <1>9 DEF PeerReset, NetTypeOK, Wake
  <2>3. TypeOK'
    BY <1>1, <1>2, <2>2 DEF TypeOK
  <2>4. ClientsEnd'
    BY <1>1, <1>9 DEF PeerReset, IInv, ClientsEnd, NetTypeOK
  <2>5. TeardownOwn'
    BY <1>1, <1>2, <1>9 DEF PeerReset, IInv, TeardownOwn, TearingDown, ClientsEnd, TypeOK,
       NetTypeOK, Avail
  <2> QED
    BY <1>3, <2>3, <2>4, <2>5 DEF IInv
<1> QED
  BY <1>4, <1>5, <1>6, <1>7, <1>8, <1>9

(* The listen thread opens a descriptor nobody uses, and then registers it. *)
LEMMA ListenIInv ==
    ASSUME IInv, ListenThread
    PROVE  IInv'
<1>1. TypeOK /\ NetTypeOK
  BY DEF IInv, TypeOK
<1>2. CASE Accept
  <2>1. Head(queued) \in Clients /\ Tail(queued) \in Seq(Clients)
    BY <1>1, <1>2 DEF Accept, NetTypeOK
  <2>2. PICK fd \in FreeFds : fdConn' = [fdConn EXCEPT ![fd] = Head(queued)] /\ lfd' = fd
    BY <1>2 DEF Accept
  <2>3. fd \in Fds /\ fdConn[fd] = NoConn /\ interest[fd] = "none"
    BY <2>2 DEF FreeFds, IInv, EventsAreLive
  <2>4. TypeOK'
    BY <1>1, <1>2, <2>1, <2>2, <2>3 DEF Accept, TypeOK, NetTypeOK
  <2>5. \A f \in Fds : fdConn[f] # NoConn => f # fd /\ fdConn'[f] = fdConn[f]
    BY <1>1, <2>2, <2>3 DEF NetTypeOK
  <2>6. ServedIsOpen'
    BY <1>1, <1>2, <2>5 DEF Accept, IInv, TypeOK, ServedIsOpen, Serving
  <2>7. AcceptedIsOpen'
    BY <1>1, <1>2, <2>1, <2>2, <2>3, ClientsAssumption
    DEF Accept, IInv, NetTypeOK, TypeOK, AcceptedIsOpen, ServedIsOpen, Serving
  <2>8. EventsAreLive'
    BY <1>1, <1>2, <2>5 DEF Accept, IInv, TypeOK, NetTypeOK, EventsAreLive
  <2>9. TeardownOwn' /\ ClientsEnd'
    BY <1>1, <1>2, <2>5 DEF Accept, IInv, TypeOK, TeardownOwn, TearingDown, Avail, ClientsEnd
  <2> QED
    BY <2>4, <2>6, <2>7, <2>8, <2>9 DEF IInv
<1>3. CASE AcceptCtl
  BY <1>3 DEF AcceptCtl, Register, Readable, Avail, IInv, TypeOK, NetTypeOK, ClientsEnd,
     ServedIsOpen, AcceptedIsOpen, EventsAreLive, TeardownOwn, Serving, TearingDown
<1>4. CASE AddFdStore
  <2>1. nfd' \in 0..NfdMod-1
    BY <1>1, <1>4, ModRange, BlockAssumption DEF AddFdStore, TypeOK
  <2> QED
    BY <1>4, <2>1 DEF AddFdStore, Avail, IInv, TypeOK, NetTypeOK, ClientsEnd, ServedIsOpen,
       AcceptedIsOpen, EventsAreLive, TeardownOwn, Serving, TearingDown
<1>5. CASE AddFdGrow
  <2>1. nblocks' \in Nat \ {0}
    BY <1>1, <1>5 DEF AddFdGrow, TypeOK
  <2> QED
    BY <1>5, <2>1 DEF AddFdGrow, Avail, IInv, TypeOK, NetTypeOK, ClientsEnd, ServedIsOpen,
       AcceptedIsOpen, EventsAreLive, TeardownOwn, Serving, TearingDown
<1>6. CASE AddFdMark
  BY <1>6 DEF AddFdMark, Avail, IInv, TypeOK, NetTypeOK, ClientsEnd, ServedIsOpen,
     AcceptedIsOpen, EventsAreLive, TeardownOwn, Serving, TearingDown
<1>7. CASE AcceptFails
  BY <1>7 DEF AcceptFails, Stop, Avail, IInv, TypeOK, NetTypeOK, ClientsEnd,
     ServedIsOpen, AcceptedIsOpen, EventsAreLive, TeardownOwn, Serving, TearingDown
<1>8. CASE AddFdLoad
  BY <1>8 DEF AddFdLoad, Avail, IInv, TypeOK, NetTypeOK, ClientsEnd,
     ServedIsOpen, AcceptedIsOpen, EventsAreLive, TeardownOwn, Serving, TearingDown
<1>9. CASE ListenExit
  BY <1>9 DEF ListenExit, Avail, IInv, TypeOK, NetTypeOK, ClientsEnd,
     ServedIsOpen, AcceptedIsOpen, EventsAreLive, TeardownOwn, Serving, TearingDown
<1> QED
  BY <1>2, <1>3, <1>4, <1>5, <1>6, <1>7, <1>8, <1>9 DEF ListenThread

(* The work thread serves a descriptor only while it is open, and closes it *)
(* after it has left both work_epfd and the batch.                          *)
LEMMA WorkIInv ==
    ASSUME IInv, WorkThread
    PROVE  IInv'
<1>1. TypeOK /\ NetTypeOK
  BY DEF IInv, TypeOK
<1>2. CASE WorkWait
  <2>1. \A e \in batch' : e[1] \in Fds /\ e[2] = interest[e[1]] /\ interest[e[1]] # "none"
    <3> SUFFICES ASSUME NEW e \in batch'
                 PROVE  e[1] \in Fds /\ e[2] = interest[e[1]] /\ interest[e[1]] # "none"
      OBVIOUS
    <3>1. PICK fd \in ready : HasEvent(fd) /\ e = <<fd, interest[fd]>>
      BY <1>2 DEF WorkWait
    <3> QED
      BY <1>1, <3>1 DEF HasEvent, NetTypeOK
  <2>2. batch' \in SUBSET (Fds \X {"in", "out"})
    BY <1>1, <1>2 DEF WorkWait, HasEvent, NetTypeOK
  <2>3. TypeOK'
    BY <1>1, <1>2, <2>2 DEF WorkWait, TypeOK, NetTypeOK
  <2>4. EventsAreLive'
    BY <1>2, <2>1 DEF WorkWait, IInv, EventsAreLive
  <2> QED
    BY <1>2, <2>3, <2>4 DEF WorkWait, IInv, ClientsEnd, ServedIsOpen, AcceptedIsOpen,
       TeardownOwn, Serving, TearingDown
<1>3. CASE WorkPick
  <2>1. PICK e \in batch : /\ wfd' = e[1]
                           /\ wpc' = IF e[2] = "in" THEN "recv" ELSE "send"
                           /\ batch' = batch \ {e}
    BY <1>3 DEF WorkPick
  <2>2. e \in Fds \X {"in", "out"} /\ e[2] = interest[e[1]] /\ fdConn[e[1]] # NoConn
    BY <1>1, <2>1 DEF IInv, EventsAreLive, TypeOK
  <2>3. \A d \in batch' : d[1] # wfd'
    BY <1>1, <2>1, <2>2 DEF IInv, EventsAreLive, TypeOK
  <2>4. TypeOK'
    BY <1>1, <1>3, <2>1, <2>2 DEF WorkPick, TypeOK, NetTypeOK
  <2>5. ServedIsOpen' /\ AcceptedIsOpen' /\ EventsAreLive'
    BY <1>3, <2>1, <2>2, <2>3 DEF WorkPick, IInv, ServedIsOpen, AcceptedIsOpen, EventsAreLive,
       Serving
  <2> QED
    BY <1>3, <2>1, <2>4, <2>5 DEF WorkPick, IInv, ClientsEnd, TeardownOwn, TearingDown
<1>4. CASE WorkRecv
  <2> DEFINE c == fdConn[wfd]
  <2>1. c \in Clients /\ Avail(c) > 0
    BY <1>1, <1>4 DEF WorkRecv, IInv, ServedIsOpen, Serving, TypeOK, NetTypeOK
  <2>2. RecvBytes(c) \in Seq(Byte) /\ Len(RecvBytes(c)) \in Nat
    BY <1>1, <2>1, RecvBytesFact
  <2>3. TypeOK'
    <3>1. /\ taken' = [taken EXCEPT ![c] = @ + Len(RecvBytes(c))] /\ wpc' = "arm"
          /\ sbuf' = [sbuf EXCEPT ![wfd] = RecvBytes(c)]
          /\ UNCHANGED <<cl, sent, nread, queued, echo, eof, rst, fdConn, interest, ready, lpc,
                         lfd, lreg, wfd, wreg, batch, used, nblocks, nfd, fault>>
      BY <1>4 DEF WorkRecv
    <3>2. taken' \in [Clients -> Nat]
      BY <1>1, <2>1, <2>2, <3>1 DEF NetTypeOK
    <3>3. sbuf' \in [Fds -> Seq(Byte)]
      BY <1>1, <2>2, <3>1 DEF TypeOK
    <3>4. NetTypeOK'
      BY <1>1, <3>1, <3>2 DEF NetTypeOK
    <3> QED
      BY <1>1, <3>1, <3>3, <3>4 DEF TypeOK
  <2> QED
    BY <1>1, <1>4, <2>3 DEF WorkRecv, IInv, ClientsEnd, ServedIsOpen, AcceptedIsOpen,
       EventsAreLive, TeardownOwn, Serving, TearingDown
<1>5. CASE WorkSend
  <2>1. sbuf[wfd] \in Seq(Byte)
    BY <1>1 DEF TypeOK
  <2>2. \A c \in Clients : echo[c] \o sbuf[wfd] \in Seq(Byte)
    BY <1>1, <2>1 DEF TypeOK
  <2>3. echo' \in [Clients -> Seq(Byte)]
    BY <1>1, <1>5, <2>2 DEF WorkSend, TypeOK
  <2>4. TypeOK'
    BY <1>1, <1>5, <2>3 DEF WorkSend, LoopPc, TypeOK, NetTypeOK
  <2> QED
    BY <1>1, <1>5, <2>4 DEF WorkSend, LoopPc, IInv, ClientsEnd, ServedIsOpen, AcceptedIsOpen,
       EventsAreLive, TeardownOwn, Serving, TearingDown
<1>6. CASE WorkSendReset
  BY <1>6 DEF WorkSendReset, Avail, IInv, TypeOK, NetTypeOK, ClientsEnd, ServedIsOpen,
     AcceptedIsOpen, EventsAreLive, TeardownOwn, Serving, TearingDown
<1>7. CASE WorkSent
  BY <1>7 DEF WorkSent, Avail, IInv, TypeOK, NetTypeOK, ClientsEnd, ServedIsOpen,
     AcceptedIsOpen, EventsAreLive, TeardownOwn, Serving, TearingDown
<1>8. CASE WorkArm
  BY <1>8 DEF WorkArm, Register, LoopPc, Readable, Writable, Avail, Unread, IInv, TypeOK,
     NetTypeOK, ClientsEnd, ServedIsOpen, AcceptedIsOpen, EventsAreLive, TeardownOwn, Serving,
     TearingDown
<1>9. CASE WorkRearm
  BY <1>9 DEF WorkRearm, Register, LoopPc, Readable, Writable, Avail, Unread, IInv, TypeOK,
     NetTypeOK, ClientsEnd, ServedIsOpen, AcceptedIsOpen, EventsAreLive, TeardownOwn, Serving,
     TearingDown
<1>10. CASE WorkRecvEof
  BY <1>10 DEF WorkRecvEof, Avail, IInv, TypeOK, NetTypeOK, ClientsEnd, ServedIsOpen,
     AcceptedIsOpen, EventsAreLive, TeardownOwn, Serving, TearingDown
<1>11. CASE WorkDel
  BY <1>11 DEF WorkDel, Deregister, Avail, IInv, TypeOK, NetTypeOK, ClientsEnd, ServedIsOpen,
     AcceptedIsOpen, EventsAreLive, TeardownOwn, Serving, TearingDown
<1>12. CASE DelFdStore
  <2>1. nfd' \in 0..NfdMod-1
    BY <1>1, <1>12, ModRange, BlockAssumption DEF DelFdStore, TypeOK
  <2> QED
    BY <1>12, <2>1 DEF DelFdStore, Avail, IInv, TypeOK, NetTypeOK, ClientsEnd, ServedIsOpen,
       AcceptedIsOpen, EventsAreLive, TeardownOwn, Serving, TearingDown
<1>13. CASE WorkClose
  BY <1>13 DEF WorkClose, Deregister, LoopPc, Avail, IInv, TypeOK, NetTypeOK, ClientsEnd,
     ServedIsOpen, AcceptedIsOpen, EventsAreLive, TeardownOwn, Serving, TearingDown
<1>14. CASE DelFdClear
  BY <1>14 DEF DelFdClear, Avail, IInv, TypeOK, NetTypeOK, ClientsEnd, ServedIsOpen,
     AcceptedIsOpen, EventsAreLive, TeardownOwn, Serving, TearingDown
<1>15. CASE DelFdLoad
  BY <1>15 DEF DelFdLoad, Avail, IInv, TypeOK, NetTypeOK, ClientsEnd,
     ServedIsOpen, AcceptedIsOpen, EventsAreLive, TeardownOwn, Serving, TearingDown
<1>16. CASE WorkExit
  BY <1>16 DEF WorkExit, Avail, IInv, TypeOK, NetTypeOK, ClientsEnd,
     ServedIsOpen, AcceptedIsOpen, EventsAreLive, TeardownOwn, Serving, TearingDown
<1>17. CASE WorkPickFault
  BY <1>17 DEF WorkPickFault, Stop, Avail, IInv, TypeOK, NetTypeOK, ClientsEnd,
     ServedIsOpen, AcceptedIsOpen, EventsAreLive, TeardownOwn, Serving, TearingDown
<1>18. CASE WorkRecvFault
  BY <1>18 DEF WorkRecvFault, Stop, Avail, IInv, TypeOK, NetTypeOK, ClientsEnd,
     ServedIsOpen, AcceptedIsOpen, EventsAreLive, TeardownOwn, Serving, TearingDown
<1>19. CASE WorkSendFault
  BY <1>19 DEF WorkSendFault, Stop, Avail, IInv, TypeOK, NetTypeOK, ClientsEnd,
     ServedIsOpen, AcceptedIsOpen, EventsAreLive, TeardownOwn, Serving, TearingDown
<1> QED
  BY <1>2, <1>3, <1>4, <1>5, <1>6, <1>7, <1>8, <1>9, <1>10, <1>11, <1>12, <1>13, <1>14,
     <1>15, <1>16, <1>17, <1>18, <1>19
  DEF WorkThread

THEOREM NextIInv == IInv /\ [Next]_vars => IInv'
<1> SUFFICES ASSUME IInv, [Next]_vars PROVE IInv'
  OBVIOUS
<1>1. CASE ListenThread
  BY <1>1, ListenIInv
<1>2. CASE WorkThread
  BY <1>2, WorkIInv
<1>3. CASE ClientStep
  BY <1>3, ClientIInv DEF ClientStep, NetStep
<1>4. CASE UNCHANGED vars
  BY <1>4 DEF vars, Avail, IInv, TypeOK, NetTypeOK, ClientsEnd, ServedIsOpen,
     AcceptedIsOpen, EventsAreLive, TeardownOwn, Serving, TearingDown
<1> QED
  BY <1>1, <1>2, <1>3, <1>4 DEF Next

(* Every variable keeps its type whatever the two threads, the clients and  *)
(* the network do: nfd stays a size_t, the batch holds events of known      *)
(* descriptors, what is echoed is bytes that clients sent.                  *)
THEOREM TypeCorrect == Spec => []TypeOK
<1>1. IInv => TypeOK
  BY DEF IInv
<1> QED
  BY <1>1, InitIInv, NextIInv, PTL DEF Spec

(* recv_callback tears down the connection whose end it saw.                *)
THEOREM TeardownSafe == Spec => []TeardownOwn
<1>1. IInv => TeardownOwn
  BY DEF IInv
<1> QED
  BY <1>1, InitIInv, NextIInv, PTL DEF Spec

(* No callback of work_loop runs on a descriptor that was closed.           *)
THEOREM EventsSafe == Spec => []EventsAreLive
<1>1. IInv => EventsAreLive
  BY DEF IInv
<1> QED
  BY <1>1, InitIInv, NextIInv, PTL DEF Spec

----------------------------------------------------------------------------
(* The echo is the client's own bytes in order.                             *)

THEOREM InitEInv == Init => EInv
<1> SUFFICES ASSUME Init PROVE EInv
  OBVIOUS
<1>1. IInv
  BY InitIInv
<1> QED
  BY <1>1 DEF EInv, Init, FreshTable, NetInit, OneNumber, Untouched, HeldOnlyForOutput, HeldIsNext,
     EchoInOrder, TearingDown

LEMMA ClientEInv ==
    ASSUME EInv, IInv', NEW c \in Clients, UNCHANGED reactorVars,
           \/ Connect(c) \/ ClientSend(c) \/ ClientShutdown(c)
           \/ ClientClose(c) \/ ClientRead(c) \/ PeerReset(c)
    PROVE  EInv'
<1>1. TypeOK /\ NetTypeOK
  BY DEF EInv, IInv, TypeOK
<1>2. /\ echo' = echo /\ taken' = taken /\ interest' = interest /\ fdConn' = fdConn
  BY DEF Connect, ClientSend, ClientShutdown, ClientClose, ClientRead, PeerReset
<1>3. HeldOnlyForOutput' /\ EchoInOrder'
  BY <1>2 DEF EInv, HeldOnlyForOutput, EchoInOrder, TearingDown
<1>4. \A d \in Clients : rst[d] = "done" => rst'[d] = "done"
  BY <1>1 DEF NetTypeOK, Connect, ClientSend, ClientShutdown, ClientClose, ClientRead, PeerReset
<1>5. HeldIsNext'
  BY <1>1, <1>2, <1>4 DEF EInv, HeldIsNext, NetTypeOK
<1>6. CASE Connect(c)
  <2>1. /\ queued' = Append(queued, c) /\ Len(queued') = Len(queued) + 1
        /\ Len(queued) \in Nat
        /\ queued'[Len(queued) + 1] = c
        /\ \A i \in 1..Len(queued) : queued'[i] = queued[i]
    BY <1>1, <1>6 DEF Connect, NetTypeOK
  <2>2. cl[c] = "new" /\ cl'[c] # "new" /\ \A d \in Clients \ {c} : cl'[d] = cl[d]
    BY <1>1, <1>6 DEF Connect, NetTypeOK
  <2>3. \A i \in 1..Len(queued) : queued[i] # c
    BY <2>2 DEF EInv, Untouched
  <2>4. \A fd \in Fds : fdConn[fd] # c
    BY <2>2, ClientsAssumption DEF EInv, Untouched
  <2>5. OneNumber'
    BY <1>2, <2>1, <2>3, <2>4 DEF EInv, OneNumber
  <2>6. \A i \in 1..Len(queued) : queued[i] \in Clients
    BY <1>1 DEF NetTypeOK
  <2>7. Untouched'
    BY <1>1, <1>2, <2>1, <2>2, <2>6 DEF EInv, Untouched, NetTypeOK
  <2> QED
    BY <1>3, <1>5, <2>5, <2>7 DEF EInv
<1>7. CASE ~Connect(c)
  <2>1. queued' = queued
    BY <1>7 DEF ClientSend, ClientShutdown, ClientClose, ClientRead, PeerReset
  <2>2. OneNumber'
    BY <1>2, <2>1 DEF EInv, OneNumber
  <2>3. \A d \in Clients : cl'[d] = "new" <=> cl[d] = "new"
    BY <1>1, <1>7 DEF NetTypeOK, ClientSend, ClientShutdown, ClientClose, ClientRead, PeerReset
  <2>4. \A i \in 1..Len(queued) : queued[i] \in Clients
    BY <1>1 DEF NetTypeOK
  <2>5. Untouched'
    BY <1>1, <1>2, <2>1, <2>3, <2>4 DEF EInv, Untouched, NetTypeOK
  <2> QED
    BY <1>3, <1>5, <2>2, <2>5 DEF EInv
<1> QED
  BY <1>6, <1>7

LEMMA ListenEInv ==
    ASSUME EInv, IInv', ListenThread
    PROVE  EInv'
<1>1. TypeOK /\ NetTypeOK
  BY DEF EInv, IInv, TypeOK
<1>2. CASE Accept
  <2> DEFINE c == Head(queued)
  <2>1. PICK fd \in FreeFds : fdConn' = [fdConn EXCEPT ![fd] = c] /\ lfd' = fd
    BY <1>2 DEF Accept
  <2>2. /\ fd \in Fds /\ fdConn[fd] = NoConn /\ interest[fd] = "none"
        /\ fdConn'[fd] = c /\ \A f \in Fds \ {fd} : fdConn'[f] = fdConn[f]
    BY <1>1, <2>1 DEF FreeFds, EInv, IInv, EventsAreLive, NetTypeOK
  <2>3. /\ Len(queued) \in Nat \ {0} /\ Len(queued') = Len(queued) - 1
        /\ c = queued[1] /\ c \in Clients
        /\ \A i \in 1..Len(queued') : queued'[i] = queued[i + 1]
    BY <1>1, <1>2 DEF Accept, NetTypeOK
  <2>4. UNCHANGED <<cl, taken, echo, rst, interest, sbuf, wpc, wfd>>
    BY <1>2 DEF Accept
  <2>5. OneNumber'
    <3>1. \A f \in Fds : fdConn[f] # c
      BY <2>3 DEF EInv, OneNumber
    <3>2. \A i \in 1..Len(queued') : queued'[i] # c
      BY <2>3 DEF EInv, OneNumber
    <3>3. \A i, j \in 1..Len(queued') : queued'[i] = queued'[j] => i = j
      BY <2>3 DEF EInv, OneNumber
    <3>4. \A f \in Fds : \A i \in 1..Len(queued') : fdConn'[f] # queued'[i]
      BY <2>2, <2>3, <3>2 DEF EInv, OneNumber
    <3> QED
      BY <2>2, <3>1, <3>3, <3>4 DEF EInv, OneNumber
  <2>6. Untouched'
    <3>1. cl[c] # "new" /\ taken[c] = 0 /\ echo[c] = <<>>
      BY <2>3 DEF EInv, Untouched
    <3> QED
      BY <2>2, <2>3, <2>4, <3>1 DEF EInv, Untouched
  <2>7. HeldOnlyForOutput' /\ EchoInOrder'
    BY <2>4 DEF EInv, HeldOnlyForOutput, EchoInOrder, TearingDown
  <2>8. HeldIsNext'
    <3>1. taken[c] = 0 /\ echo[c] = <<>>
      BY <2>3 DEF EInv, Untouched
    <3>2. Serving => wfd # fd
      BY <2>2 DEF EInv, IInv, ServedIsOpen
    <3>3. sbuf[fd] = <<>> /\ ~(wpc = "sent" /\ wfd = fd)
      BY <2>2, <3>2 DEF EInv, HeldOnlyForOutput, Serving
    <3> SUFFICES ASSUME NEW f \in Fds, fdConn'[f] # NoConn, rst'[fdConn'[f]] # "done"
                 PROVE  LET d == fdConn'[f]
                        IN  IF wpc' = "sent" /\ wfd' = f
                            THEN Len(echo'[d]) = taken'[d]
                            ELSE /\ taken'[d] = Len(echo'[d]) + Len(sbuf'[f])
                                 /\ \A i \in 1..Len(sbuf'[f]) :
                                        sbuf'[f][i] = <<d, Len(echo'[d]) + i>>
      BY DEF HeldIsNext
    <3>4. CASE f = fd
      <4> HIDE DEF c
      <4>1. fdConn'[f] = c /\ taken'[c] = 0 /\ echo'[c] = <<>> /\ sbuf'[f] = <<>>
        BY <2>2, <2>4, <3>1, <3>3, <3>4
      <4>2. ~(wpc' = "sent" /\ wfd' = f)
        BY <2>4, <3>3, <3>4
      <4> QED
        BY <4>1, <4>2
    <3>5. CASE f # fd
      BY <2>2, <2>4, <3>5 DEF EInv, HeldIsNext
    <3> QED
      BY <3>4, <3>5
  <2> QED
    BY <2>5, <2>6, <2>7, <2>8 DEF EInv
<1>3. CASE AcceptCtl
  <2>1. sbuf[lfd] = <<>>
    BY <1>1, <1>3 DEF AcceptCtl, EInv, IInv, HeldOnlyForOutput, AcceptedIsOpen, Serving, TypeOK
  <2>2. HeldOnlyForOutput'
    BY <1>1, <1>3, <2>1 DEF AcceptCtl, Register, EInv, HeldOnlyForOutput, TearingDown, NetTypeOK
  <2>3. OneNumber' /\ Untouched' /\ HeldIsNext' /\ EchoInOrder'
    BY <1>3 DEF AcceptCtl, EInv, OneNumber, Untouched, HeldIsNext, EchoInOrder
  <2> QED
    BY <2>2, <2>3 DEF EInv
<1>4. CASE ~Accept /\ ~AcceptCtl
  <2>1. UNCHANGED <<cl, queued, taken, echo, rst, fdConn, interest, sbuf, wpc, wfd>>
    BY <1>4 DEF ListenThread, AcceptFails, Stop, AddFdGrow, AddFdMark, AddFdLoad, AddFdStore,
       ListenExit
  <2> QED
    BY <2>1 DEF EInv, OneNumber, Untouched, HeldOnlyForOutput, HeldIsNext, EchoInOrder,
       TearingDown
<1> QED
  BY <1>2, <1>3, <1>4

LEMMA WorkEInv ==
    ASSUME EInv, IInv', WorkThread
    PROVE  EInv'
<1> DEFINE c == fdConn[wfd]
<1>1. TypeOK /\ NetTypeOK
  BY DEF EInv, IInv, TypeOK
<1>2. Serving => c \in Clients
  BY <1>1 DEF EInv, IInv, ServedIsOpen, TypeOK, NetTypeOK
<1>3. Serving => \A i \in 1..Len(queued) : queued[i] # c
  BY <1>1 DEF EInv, OneNumber, TypeOK
<1>4. Serving => \A f \in Fds \ {wfd} : fdConn[f] # c
  BY <1>1, <1>2, ClientsAssumption DEF EInv, OneNumber, TypeOK
<1>5. Serving => cl[c] # "new"
  BY <1>1, <1>2, ClientsAssumption DEF EInv, Untouched, TypeOK
<1>6. CASE WorkRecv
  <2> DEFINE bytes == RecvBytes(c)
  <2>1. Serving /\ c \in Clients /\ Avail(c) > 0
    BY <1>2, <1>6 DEF WorkRecv, Serving
  <2>2. /\ bytes \in Seq(Byte) /\ Len(bytes) \in Nat /\ taken[c] \in Nat
        /\ \A i \in 1..Len(bytes) : bytes[i] = <<c, taken[c] + i>>
    BY <1>1, <2>1, RecvBytesFact DEF NetTypeOK
  <2>3. sbuf[wfd] = <<>>
    BY <1>1, <1>6, <2>1 DEF WorkRecv, EInv, IInv, ServedIsOpen, HeldOnlyForOutput, TypeOK
  <2>4. /\ taken'[c] = taken[c] + Len(bytes) /\ \A d \in Clients \ {c} : taken'[d] = taken[d]
        /\ sbuf'[wfd] = bytes /\ \A f \in Fds \ {wfd} : sbuf'[f] = sbuf[f]
        /\ wpc' = "arm" /\ wpc = "recv"
        /\ UNCHANGED <<cl, queued, echo, rst, fdConn, interest, wfd>>
    <3> HIDE DEF bytes
    <3>1. /\ taken' = [taken EXCEPT ![c] = @ + Len(bytes)]
          /\ sbuf' = [sbuf EXCEPT ![wfd] = bytes]
      BY <1>6 DEF WorkRecv, bytes
    <3> QED
      BY <1>1, <1>6, <2>1, <3>1 DEF WorkRecv, TypeOK, NetTypeOK
  <2> HIDE DEF bytes
  <2>5. OneNumber' /\ EchoInOrder'
    BY <2>4 DEF EInv, OneNumber, EchoInOrder
  <2>6. Untouched'
    BY <1>3, <1>5, <2>1, <2>4 DEF EInv, Untouched
  <2>7. HeldOnlyForOutput'
    BY <2>4 DEF EInv, HeldOnlyForOutput, TearingDown
  <2>8. HeldIsNext'
    <3> SUFFICES ASSUME NEW f \in Fds, fdConn[f] # NoConn, rst[fdConn[f]] # "done"
                 PROVE  LET d == fdConn[f]
                        IN  /\ taken'[d] = Len(echo[d]) + Len(sbuf'[f])
                            /\ \A i \in 1..Len(sbuf'[f]) :
                                   sbuf'[f][i] = <<d, Len(echo[d]) + i>>
      BY <2>4 DEF HeldIsNext
    <3>1. CASE f = wfd
      <4>1. taken[c] = Len(echo[c])
        <5>1. taken[c] = Len(echo[c]) + Len(sbuf[wfd])
          BY <2>4, <3>1 DEF EInv, HeldIsNext
        <5>2. echo[c] \in Seq(Byte)
          BY <1>1, <2>1 DEF TypeOK
        <5> QED
          BY <2>3, <5>1, <5>2
      <4> QED
        BY <2>2, <2>4, <3>1, <4>1
    <3>2. CASE f # wfd
      <4>1. fdConn[f] # c /\ fdConn[f] \in Clients
        BY <1>1, <1>4, <2>1, <3>2 DEF NetTypeOK
      <4>2. /\ taken[fdConn[f]] = Len(echo[fdConn[f]]) + Len(sbuf[f])
            /\ \A i \in 1..Len(sbuf[f]) : sbuf[f][i] = <<fdConn[f], Len(echo[fdConn[f]]) + i>>
        BY <3>2 DEF EInv, HeldIsNext
      <4>3. taken'[fdConn[f]] = taken[fdConn[f]] /\ sbuf'[f] = sbuf[f]
        BY <2>4, <3>2, <4>1
      <4> QED
        BY <4>2, <4>3
    <3> QED
      BY <3>1, <3>2
  <2> QED
    BY <2>5, <2>6, <2>7, <2>8 DEF EInv
<1>7. CASE WorkSend
  <2>1. Serving /\ c \in Clients /\ wfd \in Fds /\ c # NoConn
    BY <1>1, <1>2, <1>7, ClientsAssumption DEF WorkSend, Serving, TypeOK
  <2>2. /\ UNCHANGED <<cl, queued, taken, rst, fdConn, interest, sbuf, wfd>>
        /\ echo'[c] = echo[c] \o sbuf[wfd]
        /\ \A d \in Clients \ {c} : echo'[d] = echo[d]
        /\ wpc = "send" /\ wpc' \in {"sent", "wait", "pick"}
        /\ wpc' = "sent" <=> sbuf[wfd] # <<>>
        /\ sbuf[wfd] # <<>> => rst[c] = "no"
    BY <1>1, <1>7, <2>1 DEF WorkSend, LoopPc, TypeOK
  <2>3. echo[c] \in Seq(Byte) /\ sbuf[wfd] \in Seq(Byte)
    BY <1>1, <2>1 DEF TypeOK
  <2>4. OneNumber' /\ HeldOnlyForOutput'
    BY <2>2 DEF EInv, OneNumber, HeldOnlyForOutput, TearingDown
  <2>5. Untouched'
    BY <1>3, <1>5, <2>1, <2>2 DEF EInv, Untouched
  <2>6. CASE sbuf[wfd] = <<>>
    <3>1. echo'[c] = echo[c]
      BY <2>2, <2>3, <2>6
    <3>2. \A d \in Clients : echo'[d] = echo[d]
      BY <2>2, <3>1
    <3>3. EchoInOrder'
      BY <3>2 DEF EInv, EchoInOrder
    <3>4. \A f \in Fds : fdConn[f] # NoConn => fdConn[f] \in Clients
      BY <1>1 DEF NetTypeOK
    <3>5. HeldIsNext'
      BY <2>2, <2>6, <3>2, <3>4 DEF EInv, HeldIsNext
    <3> QED
      BY <2>4, <2>5, <3>3, <3>5 DEF EInv
  <2>7. CASE sbuf[wfd] # <<>>
    <3>1. /\ taken[c] = Len(echo[c]) + Len(sbuf[wfd])
          /\ \A i \in 1..Len(sbuf[wfd]) : sbuf[wfd][i] = <<c, Len(echo[c]) + i>>
      BY <2>1, <2>2, <2>7 DEF EInv, HeldIsNext
    <3>2. \A i \in 1..Len(echo[c]) : echo[c][i] = <<c, i>>
      BY <2>1 DEF EInv, EchoInOrder
    <3>3. /\ Len(echo'[c]) = Len(echo[c]) + Len(sbuf[wfd])
          /\ \A i \in 1..Len(echo'[c]) : echo'[c][i] = <<c, i>>
      <4>1. echo'[c] = echo[c] \o sbuf[wfd]
        BY <2>2
      <4> DEFINE e == echo[c]
                 s == sbuf[wfd]
      <4>2. /\ e \in Seq(Byte) /\ s \in Seq(Byte)
            /\ \A i \in 1..Len(e) : e[i] = <<c, i>>
            /\ \A i \in 1..Len(s) : s[i] = <<c, Len(e) + i>>
        BY <2>3, <3>1, <3>2
      <4>3. echo'[c] = e \o s
        BY <4>1
      <4> HIDE DEF c, e, s
      <4>4. Len(e \o s) = Len(e) + Len(s) /\ \A i \in 1..Len(e \o s) : (e \o s)[i] = <<c, i>>
        BY <4>2, NumberedConcat
      <4>5. Len(echo'[c]) = Len(e) + Len(s) /\ \A i \in 1..Len(echo'[c]) : echo'[c][i] = <<c, i>>
        BY <4>3, <4>4
      <4> QED
        BY <4>5 DEF e, s
    <3>4. EchoInOrder'
      BY <2>1, <2>2, <3>3 DEF EInv, EchoInOrder
    <3>5. HeldIsNext'
      <4>1. Len(echo'[c]) = taken[c]
        BY <3>1, <3>3
      <4>2. \A f \in Fds \ {wfd} : fdConn[f] # NoConn => echo'[fdConn[f]] = echo[fdConn[f]]
        BY <1>1, <1>4, <2>1, <2>2 DEF NetTypeOK
      <4> QED
        BY <2>1, <2>2, <2>7, <4>1, <4>2 DEF EInv, HeldIsNext
    <3> QED
      BY <2>4, <2>5, <3>4, <3>5 DEF EInv
  <2> QED
    BY <2>6, <2>7
<1>8. CASE WorkSendReset
  <2>1. /\ UNCHANGED <<cl, queued, taken, echo, fdConn, interest, sbuf, wfd>>
        /\ wpc = "send" /\ wpc' = "sent" /\ Serving /\ c \in Clients
        /\ rst'[c] = "done" /\ \A d \in Clients \ {c} : rst'[d] = rst[d]
    BY <1>1, <1>2, <1>8 DEF WorkSendReset, Serving, NetTypeOK
  <2>2. OneNumber' /\ Untouched' /\ HeldOnlyForOutput' /\ EchoInOrder'
    BY <2>1 DEF EInv, OneNumber, Untouched, HeldOnlyForOutput, EchoInOrder, TearingDown
  <2>3. \A f \in Fds : fdConn[f] # NoConn => fdConn[f] \in Clients
    BY <1>1 DEF NetTypeOK
  <2>4. HeldIsNext'
    BY <2>1, <2>3 DEF EInv, HeldIsNext
  <2> QED
    BY <2>2, <2>4 DEF EInv
<1>9. CASE WorkSent
  <2>1. /\ UNCHANGED <<cl, queued, taken, echo, rst, fdConn, interest, wfd>>
        /\ wpc = "sent" /\ wpc' = "rearm" /\ Serving /\ wfd \in Fds
        /\ sbuf'[wfd] = <<>> /\ \A f \in Fds \ {wfd} : sbuf'[f] = sbuf[f]
    BY <1>1, <1>9 DEF WorkSent, Serving, TypeOK
  <2>2. OneNumber' /\ Untouched' /\ HeldOnlyForOutput' /\ EchoInOrder'
    BY <2>1 DEF EInv, OneNumber, Untouched, HeldOnlyForOutput, EchoInOrder, TearingDown
  <2>3. echo[c] \in Seq(Byte)
    BY <1>1, <1>2, <2>1 DEF TypeOK
  <2>4. fdConn[wfd] # NoConn /\ rst[c] # "done"
            => taken[c] = Len(echo[c])
    BY <2>1 DEF EInv, HeldIsNext
  <2>5. HeldIsNext'
    <3> SUFFICES ASSUME NEW f \in Fds, fdConn[f] # NoConn, rst[fdConn[f]] # "done"
                 PROVE  LET d == fdConn[f]
                        IN  /\ taken[d] = Len(echo[d]) + Len(sbuf'[f])
                            /\ \A i \in 1..Len(sbuf'[f]) :
                                   sbuf'[f][i] = <<d, Len(echo[d]) + i>>
      BY <2>1 DEF HeldIsNext
    <3>1. CASE f = wfd
      <4>1. taken[c] = Len(echo[c]) /\ Len(echo[c]) \in Nat /\ sbuf'[wfd] = <<>>
        BY <2>1, <2>3, <2>4, <3>1
      <4> QED
        BY <3>1, <4>1
    <3>2. CASE f # wfd
      BY <2>1, <3>2 DEF EInv, HeldIsNext
    <3> QED
      BY <3>1, <3>2
  <2> QED
    BY <2>2, <2>5 DEF EInv
<1>10. CASE WorkArm
  <2>1. /\ UNCHANGED <<cl, queued, taken, echo, rst, fdConn, sbuf, wfd>>
        /\ wpc = "arm" /\ wpc' \in {"wait", "pick"}
        /\ interest'[wfd] = "out" /\ \A f \in Fds \ {wfd} : interest'[f] = interest[f]
    BY <1>1, <1>10 DEF WorkArm, Register, LoopPc, TypeOK, NetTypeOK
  <2> QED
    BY <2>1 DEF EInv, OneNumber, Untouched, HeldOnlyForOutput, HeldIsNext, EchoInOrder,
       TearingDown
<1>11. CASE WorkRearm
  <2>1. /\ UNCHANGED <<cl, queued, taken, echo, rst, fdConn, sbuf, wfd>>
        /\ wpc = "rearm" /\ wpc' \in {"wait", "pick"}
        /\ \A f \in Fds \ {wfd} : interest'[f] = interest[f]
    BY <1>1, <1>11 DEF WorkRearm, Register, LoopPc, TypeOK, NetTypeOK
  <2> QED
    BY <2>1 DEF EInv, OneNumber, Untouched, HeldOnlyForOutput, HeldIsNext, EchoInOrder,
       TearingDown
<1>12. CASE WorkDel
  <2>1. /\ UNCHANGED <<cl, queued, taken, echo, rst, fdConn, sbuf, wfd>>
        /\ wpc = "del" /\ wpc' = "clear"
        /\ \A f \in Fds \ {wfd} : interest'[f] = interest[f]
    BY <1>1, <1>12 DEF WorkDel, Deregister, TypeOK, NetTypeOK
  <2> QED
    BY <2>1 DEF EInv, OneNumber, Untouched, HeldOnlyForOutput, HeldIsNext, EchoInOrder,
       TearingDown
<1>13. CASE WorkClose
  <2>1. /\ UNCHANGED <<cl, queued, taken, echo, rst, sbuf, wfd>>
        /\ wpc = "close" /\ wpc' \in {"wait", "pick"} /\ fdConn'[wfd] = NoConn
        /\ \A f \in Fds \ {wfd} : interest'[f] = interest[f] /\ fdConn'[f] = fdConn[f]
    BY <1>1, <1>13 DEF WorkClose, Deregister, LoopPc, TypeOK, NetTypeOK
  <2>2. \A i \in 1..Len(queued) : queued[i] # NoConn
    BY <1>1, ClientsAssumption DEF NetTypeOK
  <2>3. OneNumber'
    <3>1. \A f \in Fds : fdConn'[f] # NoConn => f # wfd /\ fdConn'[f] = fdConn[f]
      BY <2>1
    <3>2. \A f \in Fds : \A i \in 1..Len(queued) : fdConn'[f] # queued[i]
      BY <2>2, <3>1 DEF EInv, OneNumber
    <3> QED
      BY <2>1, <3>1, <3>2 DEF EInv, OneNumber
  <2>4. Untouched' /\ EchoInOrder'
    BY <2>1 DEF EInv, Untouched, EchoInOrder
  <2>5. HeldOnlyForOutput'
    BY <2>1 DEF EInv, HeldOnlyForOutput, TearingDown
  <2>6. HeldIsNext'
    BY <2>1 DEF EInv, HeldIsNext
  <2> QED
    BY <2>3, <2>4, <2>5, <2>6 DEF EInv
<1>14. CASE WorkWait
  <2>1. /\ UNCHANGED <<cl, queued, taken, echo, rst, fdConn, interest, sbuf, wfd>>
        /\ wpc = "wait" /\ wpc' = "pick"
    BY <1>14 DEF WorkWait
  <2> QED
    BY <2>1 DEF EInv, OneNumber, Untouched, HeldOnlyForOutput, HeldIsNext, EchoInOrder,
       TearingDown
<1>15. CASE WorkPick
  <2>1. /\ UNCHANGED <<cl, queued, taken, echo, rst, fdConn, interest, sbuf>>
        /\ wpc = "pick" /\ wpc' \in {"recv", "send"}
    BY <1>15 DEF WorkPick
  <2> QED
    BY <2>1 DEF EInv, OneNumber, Untouched, HeldOnlyForOutput, HeldIsNext, EchoInOrder,
       TearingDown
<1>16. CASE WorkRecvEof
  <2>1. /\ UNCHANGED <<cl, queued, taken, echo, rst, fdConn, interest, sbuf, wfd>>
        /\ wpc = "recv" /\ wpc' = "del"
    BY <1>16 DEF WorkRecvEof
  <2>2. sbuf[wfd] = <<>>
    BY <1>1, <2>1 DEF EInv, IInv, ServedIsOpen, HeldOnlyForOutput, Serving, TypeOK
  <2> QED
    BY <2>1, <2>2 DEF EInv, OneNumber, Untouched, HeldOnlyForOutput, HeldIsNext, EchoInOrder,
       TearingDown
<1>17. CASE DelFdClear \/ DelFdLoad \/ DelFdStore
  <2>1. /\ UNCHANGED <<cl, queued, taken, echo, rst, fdConn, interest, sbuf, wfd>>
        /\ wpc \in {"clear", "load", "store"} /\ wpc' \in {"load", "store", "close"}
    BY <1>17 DEF DelFdClear, DelFdLoad, DelFdStore
  <2> QED
    BY <2>1 DEF EInv, OneNumber, Untouched, HeldOnlyForOutput, HeldIsNext, EchoInOrder,
       TearingDown
<1>18. CASE WorkExit
  <2>1. /\ UNCHANGED <<cl, queued, taken, echo, rst, fdConn, interest, sbuf, wfd>>
        /\ wpc = "wait" /\ wpc' = "exit"
    BY <1>18 DEF WorkExit
  <2> QED
    BY <2>1 DEF EInv, OneNumber, Untouched, HeldOnlyForOutput, HeldIsNext, EchoInOrder,
       TearingDown
<1>19. CASE WorkPickFault \/ WorkRecvFault \/ WorkSendFault
  <2>1. UNCHANGED <<cl, queued, taken, echo, rst, fdConn, interest, sbuf, wfd, wpc>>
    BY <1>19 DEF WorkPickFault, WorkRecvFault, WorkSendFault, Stop
  <2> QED
    BY <2>1 DEF EInv, OneNumber, Untouched, HeldOnlyForOutput, HeldIsNext, EchoInOrder,
       TearingDown
<1> QED
  BY <1>6, <1>7, <1>8, <1>9, <1>10, <1>11, <1>12, <1>13, <1>14, <1>15, <1>16, <1>17, <1>18,
     <1>19
  DEF WorkThread

THEOREM NextEInv == EInv /\ [Next]_vars => EInv'
<1> SUFFICES ASSUME EInv, [Next]_vars PROVE EInv'
  OBVIOUS
<1>1. IInv'
  BY NextIInv DEF EInv
<1>2. CASE ListenThread
  BY <1>1, <1>2, ListenEInv
<1>3. CASE WorkThread
  BY <1>1, <1>3, WorkEInv
<1>4. CASE ClientStep
  BY <1>1, <1>4, ClientEInv DEF ClientStep, NetStep
<1>5. CASE UNCHANGED vars
  BY <1>1, <1>5 DEF vars, EInv, OneNumber, Untouched, HeldOnlyForOutput, HeldIsNext,
     EchoInOrder, TearingDown
<1> QED
  BY <1>2, <1>3, <1>4, <1>5 DEF Next

(* What the server writes to a connection is what its client sent, in order *)
(* and nothing else, for any number of clients and descriptors, any reuse   *)
(* of descriptor numbers and any interleaving of the two threads.           *)
THEOREM EchoCorrect == Spec => []EchoInOrder
<1>1. EInv => EchoInOrder
  BY DEF EInv
<1> QED
  BY <1>1, InitEInv, NextEInv, PTL DEF Spec

----------------------------------------------------------------------------
(* No edge is lost, no descriptor leaks.                                    *)

\* A batch is handled to its end before the thread waits again.
BatchEmptyAtRest == wpc \in {"wait", "exit"} => batch = {}

\* Nobody waits for output who has nothing to send: send_callback, which would
\* not re-arm such a descriptor, is never called for one.
OutputHolds ==
    /\ \A fd \in Fds :
        interest[fd] = "out" => sbuf[fd] # <<>> \/ (wpc = "rearm" /\ wfd = fd)
    /\ wpc = "arm" => sbuf[wfd] # <<>>

EdgeInv == BatchEmptyAtRest /\ OutputHolds /\ NoDescriptorLeak /\ NoLostEdge

(* Whatever makes a connection readable or writable wakes its descriptor.   *)
LEMMA ClientEdges ==
    ASSUME IInv, EdgeInv, NEW c \in Clients, UNCHANGED reactorVars,
           \/ Connect(c) \/ ClientSend(c) \/ ClientShutdown(c)
           \/ ClientClose(c) \/ ClientRead(c) \/ PeerReset(c)
    PROVE  EdgeInv'
<1>1. TypeOK /\ NetTypeOK
  BY DEF IInv, TypeOK
<1>2. /\ UNCHANGED <<interest, fdConn, taken, echo>> /\ ready \subseteq ready'
      /\ \A d \in Clients \ {c} : /\ sent'[d] = sent[d] /\ nread'[d] = nread[d]
                                  /\ eof'[d] = eof[d] /\ rst'[d] = rst[d]
  BY <1>1 DEF NetTypeOK, Connect, ClientSend, ClientShutdown, ClientClose, ClientRead, PeerReset,
     Wake
<1>3. BatchEmptyAtRest' /\ OutputHolds' /\ NoDescriptorLeak'
  BY <1>2 DEF EdgeInv, BatchEmptyAtRest, OutputHolds, NoDescriptorLeak, TearingDown
<1>4. NoLostEdge'
  <2> SUFFICES ASSUME fault = "none", NEW fd \in Fds, interest[fd] # "none", HasEvent(fd)'
               PROVE  \/ fd \in ready'
                      \/ <<fd, interest[fd]>> \in batch
                      \/ Serving /\ wfd = fd
    BY <1>2 DEF NoLostEdge, Serving
  <2>1. CASE HasEvent(fd)
    BY <1>2, <2>1 DEF EdgeInv, NoLostEdge
  <2>2. CASE ~HasEvent(fd)
    <3>1. fdConn[fd] \in Clients
      BY <1>1 DEF IInv, EventsAreLive, NetTypeOK
    <3>2. fdConn[fd] = c
      BY <1>2, <2>2, <3>1 DEF HasEvent, Readable, Writable, Avail, Unread
    <3>3. CASE Connect(c) \/ ClientSend(c) \/ ClientShutdown(c) \/ ClientClose(c)
      <4>1. Readable(c)' => Readable(c) \/ ready' = ready \cup {f \in Fds : fdConn[f] = c /\ interest[f] \in {"in"}}
        BY <1>2, <3>3 DEF Connect, ClientSend, ClientShutdown, ClientClose, Wake, Readable, Avail
      <4>2. Writable(c)' => Writable(c)
        BY <1>2, <3>3 DEF Connect, ClientSend, ClientShutdown, ClientClose, Writable, Unread
      <4> QED
        BY <1>2, <2>2, <3>2, <4>1, <4>2 DEF HasEvent
    <3>4. CASE ClientRead(c)
      <4>1. Readable(c)' => Readable(c)
        BY <1>2, <3>4 DEF ClientRead, Readable, Avail
      <4>2. ready' = ready \cup {f \in Fds : fdConn[f] = c /\ interest[f] \in {"out"}}
        BY <3>4 DEF ClientRead, Wake
      <4> QED
        BY <1>2, <2>2, <3>2, <4>1, <4>2 DEF HasEvent
    <3>5. CASE PeerReset(c)
      BY <1>1, <3>2, <3>5 DEF PeerReset, Wake, NetTypeOK
    <3> QED
      BY <3>3, <3>4, <3>5
  <2> QED
    BY <2>1, <2>2
<1> QED
  BY <1>3, <1>4 DEF EdgeInv

(* accept_callback registers what it accepts, and epoll_ctl looks at the    *)
(* condition once more.                                                     *)
LEMMA ListenEdges ==
    ASSUME EInv, EdgeInv, fault = "none", ListenThread
    PROVE  EdgeInv'
<1>1. TypeOK /\ NetTypeOK
  BY DEF EInv, IInv, TypeOK
<1>2. CASE Accept
  <2>1. PICK fd \in FreeFds : fdConn' = [fdConn EXCEPT ![fd] = Head(queued)] /\ lfd' = fd
    BY <1>2 DEF Accept
  <2>2. /\ fd \in Fds /\ interest[fd] = "none" /\ fdConn' \in [Fds -> Clients \cup {NoConn}]
        /\ \A f \in Fds \ {fd} : fdConn'[f] = fdConn[f]
    BY <1>1, <1>2, <2>1 DEF Accept, FreeFds, EInv, IInv, EventsAreLive, NetTypeOK
  <2>3. /\ UNCHANGED <<interest, ready, batch, wpc, wfd, sbuf, sent, taken, echo, nread, eof, rst, fault>>
        /\ lpc = "wait" /\ lpc' = "ctl"
    BY <1>2 DEF Accept
  <2>4. BatchEmptyAtRest' /\ OutputHolds'
    BY <2>3 DEF EdgeInv, BatchEmptyAtRest, OutputHolds
  <2>5. NoDescriptorLeak'
    BY <2>1, <2>2, <2>3 DEF EdgeInv, NoDescriptorLeak, TearingDown
  <2>6. NoLostEdge'
    BY <2>2, <2>3 DEF EdgeInv, NoLostEdge, HasEvent, Readable, Writable, Avail, Unread, Serving
  <2> QED
    BY <2>4, <2>5, <2>6 DEF EdgeInv
<1>3. CASE AcceptCtl
  <2>1. /\ UNCHANGED <<fdConn, batch, wpc, wfd, sbuf, sent, taken, echo, nread, eof, rst, lfd, fault>>
        /\ lfd \in Fds /\ interest'[lfd] = "in" /\ \A f \in Fds \ {lfd} : interest'[f] = interest[f]
        /\ ready \subseteq ready' /\ (Readable(fdConn[lfd]) => lfd \in ready')
    BY <1>1, <1>3 DEF AcceptCtl, Register, TypeOK, NetTypeOK
  <2>2. BatchEmptyAtRest' /\ OutputHolds'
    BY <2>1 DEF EdgeInv, BatchEmptyAtRest, OutputHolds
  <2>3. NoDescriptorLeak'
    BY <1>3, <2>1 DEF AcceptCtl, EdgeInv, NoDescriptorLeak, TearingDown
  <2>4. NoLostEdge'
    BY <2>1 DEF EdgeInv, NoLostEdge, HasEvent, Readable, Writable, Avail, Unread, Serving
  <2> QED
    BY <2>2, <2>3, <2>4 DEF EdgeInv
<1>4. CASE ~Accept /\ ~AcceptCtl
  <2>1. /\ UNCHANGED <<interest, ready, fdConn, batch, wpc, wfd, sbuf, sent, taken, echo, nread, eof, rst>>
        /\ lpc # "ctl" /\ (fault' = fault \/ fault' # "none")
    BY <1>4 DEF ListenThread, AcceptFails, Stop, AddFdGrow, AddFdMark, AddFdLoad, AddFdStore,
       ListenExit
  <2> QED
    BY <2>1 DEF EdgeInv, BatchEmptyAtRest, OutputHolds, NoDescriptorLeak, NoLostEdge, HasEvent,
       Readable, Writable, Avail, Unread, Serving, TearingDown
<1> QED
  BY <1>2, <1>3, <1>4

(* A callback re-arms the descriptor it was called for, or closes it.       *)
LEMMA WorkEdges ==
    ASSUME EInv, IInv', EdgeInv, fault = "none", WorkThread
    PROVE  EdgeInv'
<1> DEFINE c == fdConn[wfd]
<1>1. TypeOK /\ NetTypeOK /\ wfd \in Fds /\ IInv
  BY DEF EInv, IInv, TypeOK
<1>2. Serving => c \in Clients
  BY <1>1 DEF IInv, ServedIsOpen, NetTypeOK
\* While the thread goes on serving its descriptor the others keep their events,
\* if nothing becomes readable or writable.
<1>3. ASSUME Serving, Serving', wfd' = wfd, ready' = ready, batch' = batch,
             UNCHANGED <<fdConn, sent, nread>>,
             \A f \in Fds \ {wfd} : interest'[f] = interest[f],
             \A d \in Clients \ {c} : /\ taken'[d] = taken[d] /\ echo'[d] = echo[d]
                                      /\ eof'[d] = eof[d] /\ rst'[d] = rst[d]
      PROVE  NoLostEdge'
  <2> SUFFICES ASSUME NEW fd \in Fds \ {wfd}, interest'[fd] # "none", HasEvent(fd)'
               PROVE  fd \in ready \/ <<fd, interest[fd]>> \in batch
    BY <1>3 DEF NoLostEdge
  <2>1. fdConn[fd] # c /\ fdConn[fd] \in Clients
    BY <1>1, <1>3 DEF EInv, OneNumber, IInv, EventsAreLive, ServedIsOpen, NetTypeOK
  <2>2. HasEvent(fd)
    BY <1>3, <2>1 DEF HasEvent, Readable, Writable, Avail, Unread
  <2> QED
    BY <1>3, <2>2 DEF EdgeInv, NoLostEdge
\* When it is done with it, epoll_ctl has looked at the condition.
<1>4. ASSUME Serving, wpc' = LoopPc, UNCHANGED <<batch, fdConn, sent, taken, echo, nread, eof, rst>>,
             \A f \in Fds \ {wfd} : interest'[f] = interest[f],
             ready \subseteq ready', interest'[wfd] \in {"in", "out"},
             interest'[wfd] = "in" /\ Readable(c) => wfd \in ready',
             interest'[wfd] = "out" /\ Writable(c) => wfd \in ready'
      PROVE  NoLostEdge'
  BY <1>1, <1>4 DEF EdgeInv, NoLostEdge, HasEvent, Readable, Writable, Avail, Unread, Serving, LoopPc
<1>5. CASE WorkWait
  <2>1. /\ UNCHANGED <<interest, fdConn, sbuf, sent, taken, echo, nread, eof, rst, lpc, lfd>>
        /\ batch' = {<<fd, interest[fd]>> : fd \in {f \in ready : HasEvent(f)}}
        /\ wpc = "wait" /\ wpc' = "pick"
    BY <1>5 DEF WorkWait
  <2>2. batch = {} /\ ~Serving
    BY <2>1 DEF EdgeInv, BatchEmptyAtRest, Serving
  <2>3. NoLostEdge'
    BY <2>1, <2>2 DEF EdgeInv, NoLostEdge, HasEvent, Readable, Writable, Avail, Unread
  <2> QED
    BY <2>1, <2>3 DEF EdgeInv, BatchEmptyAtRest, OutputHolds, NoDescriptorLeak, TearingDown
<1>6. CASE WorkPick
  <2>1. PICK e \in batch : wfd' = e[1] /\ batch' = batch \ {e} /\ wpc' \in {"recv", "send"}
    BY <1>6 DEF WorkPick
  <2>2. e = <<wfd', interest[wfd']>> /\ wpc = "pick"
    BY <1>1, <1>6, <2>1 DEF WorkPick, IInv, EventsAreLive, TypeOK
  <2>3. UNCHANGED <<interest, ready, fdConn, sbuf, sent, taken, echo, nread, eof, rst, lpc, lfd>>
    BY <1>6 DEF WorkPick
  <2>4. NoLostEdge'
    BY <2>1, <2>2, <2>3 DEF EdgeInv, NoLostEdge, HasEvent, Readable, Writable, Avail, Unread, Serving
  <2> QED
    BY <2>1, <2>2, <2>3, <2>4 DEF EdgeInv, BatchEmptyAtRest, OutputHolds, NoDescriptorLeak, TearingDown
<1>7. CASE WorkRecv
  <2>1. /\ UNCHANGED <<interest, ready, batch, fdConn, sent, nread, echo, eof, rst, wfd, lpc, lfd>>
        /\ wpc = "recv" /\ wpc' = "arm" /\ Serving /\ Serving'
        /\ \A d \in Clients \ {c} : taken'[d] = taken[d]
    BY <1>1, <1>7 DEF WorkRecv, Serving, NetTypeOK
  <2>2. RecvBytes(c) # <<>>
    <3>1. c \in Clients /\ Avail(c) > 0
      BY <1>2, <1>7, <2>1 DEF WorkRecv
    <3>2. RecvBytes(c) \in Seq(Byte) /\ Len(RecvBytes(c)) \in 1..Avail(c)
      BY <1>1, <3>1, RecvBytesFact
    <3> QED
      BY <3>2
  <2>3. sbuf'[wfd] # <<>> /\ \A f \in Fds \ {wfd} : sbuf'[f] = sbuf[f]
    BY <1>1, <1>7, <2>2 DEF WorkRecv, TypeOK
  <2>4. NoLostEdge'
    BY <1>3, <2>1
  <2> QED
    BY <2>1, <2>3, <2>4 DEF EdgeInv, BatchEmptyAtRest, OutputHolds, NoDescriptorLeak, TearingDown
<1>8. CASE WorkSend
  <2>1. sbuf[wfd] # <<>>
    BY <1>1, <1>8 DEF WorkSend, IInv, ServedIsOpen, Serving, EdgeInv, OutputHolds
  <2>2. /\ UNCHANGED <<interest, ready, batch, fdConn, sbuf, sent, taken, nread, eof, rst, wfd, lpc, lfd>>
        /\ wpc = "send" /\ wpc' = "sent" /\ Serving /\ Serving'
        /\ \A d \in Clients \ {c} : echo'[d] = echo[d]
    BY <1>1, <1>8, <2>1 DEF WorkSend, Serving, TypeOK
  <2>3. NoLostEdge'
    BY <1>3, <2>2
  <2> QED
    BY <2>2, <2>3 DEF EdgeInv, BatchEmptyAtRest, OutputHolds, NoDescriptorLeak, TearingDown
<1>9. CASE WorkSendReset
  <2>1. /\ UNCHANGED <<interest, ready, batch, fdConn, sbuf, sent, taken, echo, nread, eof, wfd, lpc, lfd>>
        /\ wpc = "send" /\ wpc' = "sent" /\ Serving /\ Serving'
        /\ \A d \in Clients \ {c} : rst'[d] = rst[d]
    BY <1>1, <1>9 DEF WorkSendReset, Serving, NetTypeOK
  <2>2. NoLostEdge'
    BY <1>3, <2>1
  <2> QED
    BY <2>1, <2>2 DEF EdgeInv, BatchEmptyAtRest, OutputHolds, NoDescriptorLeak, TearingDown
<1>10. CASE WorkSent
  <2>1. /\ UNCHANGED <<interest, ready, batch, fdConn, sent, taken, echo, nread, eof, rst, wfd, lpc, lfd>>
        /\ wpc = "sent" /\ wpc' = "rearm" /\ Serving /\ Serving'
        /\ \A f \in Fds \ {wfd} : sbuf'[f] = sbuf[f]
    BY <1>1, <1>10 DEF WorkSent, Serving, TypeOK
  <2>2. NoLostEdge'
    BY <1>3, <2>1
  <2> QED
    BY <2>1, <2>2 DEF EdgeInv, BatchEmptyAtRest, OutputHolds, NoDescriptorLeak, TearingDown
<1>11. CASE WorkArm \/ WorkRearm
  <2>1. /\ UNCHANGED <<batch, fdConn, sbuf, sent, taken, echo, nread, eof, rst, wfd, lpc, lfd>>
        /\ wpc \in {"arm", "rearm"} /\ wpc' = LoopPc /\ Serving
        /\ interest'[wfd] = (IF wpc = "arm" THEN "out" ELSE "in")
        /\ \A f \in Fds \ {wfd} : interest'[f] = interest[f]
        /\ ready \subseteq ready'
        /\ (interest'[wfd] = "in" /\ Readable(c) => wfd \in ready')
        /\ (interest'[wfd] = "out" /\ Writable(c) => wfd \in ready')
    BY <1>1, <1>11 DEF WorkArm, WorkRearm, Register, Serving, NetTypeOK
  <2>2. NoLostEdge'
    BY <1>4, <2>1
  <2> QED
    BY <2>1, <2>2 DEF EdgeInv, BatchEmptyAtRest, OutputHolds, NoDescriptorLeak, TearingDown, LoopPc
<1>12. CASE WorkRecvEof \/ DelFdClear \/ DelFdLoad \/ DelFdStore
  <2>1. /\ UNCHANGED <<interest, ready, batch, fdConn, sbuf, sent, taken, echo, nread, eof, rst, wfd, lpc, lfd>>
        /\ wpc \in {"recv", "clear", "load", "store"} /\ wpc' \in {"del", "load", "store", "close"}
        /\ Serving /\ Serving'
    BY <1>12 DEF WorkRecvEof, DelFdClear, DelFdLoad, DelFdStore, Serving
  <2>2. NoLostEdge'
    BY <1>3, <2>1
  <2> QED
    BY <2>1, <2>2 DEF EdgeInv, BatchEmptyAtRest, OutputHolds, NoDescriptorLeak, TearingDown
<1>13. CASE WorkDel
  <2>1. /\ UNCHANGED <<batch, fdConn, sbuf, sent, taken, echo, nread, eof, rst, wfd, lpc, lfd>>
        /\ wpc = "del" /\ wpc' = "clear" /\ Serving /\ Serving'
        /\ interest'[wfd] = "none" /\ \A f \in Fds \ {wfd} : interest'[f] = interest[f]
        /\ ready' = ready \ {wfd}
    BY <1>1, <1>13 DEF WorkDel, Deregister, Serving, NetTypeOK
  <2>2. NoLostEdge'
    BY <2>1 DEF EdgeInv, NoLostEdge, HasEvent, Readable, Writable, Avail, Unread
  <2> QED
    BY <2>1, <2>2 DEF EdgeInv, BatchEmptyAtRest, OutputHolds, NoDescriptorLeak, TearingDown
<1>14. CASE WorkClose
  <2>1. /\ UNCHANGED <<batch, sbuf, sent, taken, echo, nread, eof, rst, wfd, lpc, lfd>>
        /\ wpc = "close" /\ wpc' = LoopPc
        /\ interest'[wfd] = "none" /\ fdConn'[wfd] = NoConn
        /\ \A f \in Fds \ {wfd} : interest'[f] = interest[f] /\ fdConn'[f] = fdConn[f]
        /\ ready' = ready \ {wfd}
    BY <1>1, <1>14 DEF WorkClose, Deregister, NetTypeOK
  <2>2. NoLostEdge'
    BY <2>1 DEF EdgeInv, NoLostEdge, HasEvent, Readable, Writable, Avail, Unread
  <2> QED
    BY <2>1, <2>2 DEF EdgeInv, BatchEmptyAtRest, OutputHolds, NoDescriptorLeak, TearingDown, LoopPc
<1>15. CASE WorkExit
  <2>1. /\ UNCHANGED <<netVars, batch, sbuf, wfd, lpc, lfd>> /\ wpc = "wait" /\ wpc' = "exit"
    BY <1>15 DEF WorkExit
  <2> QED
    BY <2>1 DEF EdgeInv, BatchEmptyAtRest, OutputHolds, NoDescriptorLeak, NoLostEdge, HasEvent,
       Readable, Writable, Avail, Unread, Serving, TearingDown
<1>16. CASE WorkPickFault \/ WorkRecvFault \/ WorkSendFault
  <2>1. UNCHANGED <<netVars, batch, sbuf, wpc, wfd, lpc, lfd>> /\ fault' # "none"
    BY <1>16 DEF WorkPickFault, WorkRecvFault, WorkSendFault, Stop
  <2> QED
    BY <2>1 DEF EdgeInv, BatchEmptyAtRest, OutputHolds, NoDescriptorLeak, NoLostEdge, TearingDown
<1> QED
  BY <1>5, <1>6, <1>7, <1>8, <1>9, <1>10, <1>11, <1>12, <1>13, <1>14, <1>15, <1>16
  DEF WorkThread

THEOREM NextEdgeInv == EInv /\ EdgeInv /\ [Next]_vars => EdgeInv'
<1> SUFFICES ASSUME EInv, EdgeInv, [Next]_vars PROVE EdgeInv'
  OBVIOUS
<1>1. IInv /\ IInv'
  BY NextIInv DEF EInv
<1>2. CASE Next
  <2>1. fault = "none"
    BY <1>2 DEF Next
  <2> QED
    BY <1>1, <1>2, <2>1, ClientEdges, ListenEdges, WorkEdges DEF Next, ClientStep, NetStep
<1>3. CASE UNCHANGED vars
  BY <1>3 DEF vars, EdgeInv, BatchEmptyAtRest, OutputHolds, NoDescriptorLeak, NoLostEdge, HasEvent,
     Readable, Writable, Avail, Unread, Serving, TearingDown
<1> QED
  BY <1>2, <1>3

LEMMA AlwaysEdges == Spec => [](EInv /\ EdgeInv)
<1>1. Init => EInv /\ EdgeInv
  BY InitEInv DEF Init, FreshTable, NetInit, EdgeInv, BatchEmptyAtRest, OutputHolds, NoDescriptorLeak,
     NoLostEdge
<1> QED
  BY <1>1, NextEInv, NextEdgeInv, PTL DEF Spec

(* An open descriptor is registered or on its way in or out, whatever the   *)
(* order of accept_callback and recv_callback.                              *)
THEOREM DescriptorsKept == Spec => []NoDescriptorLeak
<1>1. EInv /\ EdgeInv => NoDescriptorLeak
  BY DEF EdgeInv
<1> QED
  BY <1>1, AlwaysEdges, PTL

(* No interleaving of the two threads and the network loses an edge.        *)
THEOREM EdgesKept == Spec => []NoLostEdge
<1>1. EInv /\ EdgeInv => NoLostEdge
  BY DEF EdgeInv
<1> QED
  BY <1>1, AlwaysEdges, PTL

----------------------------------------------------------------------------
(* How connections and the process end.                                     *)

\* The server closes a connection when its client is done.
FinishedIsDone == \A c \in Clients : Finished(c) => eof[c] \/ rst[c] = "done"

\* A reset comes from a client that left some of its echo unread, and once it is
\* reported the bytes it cost are never echoed.
ResetIsDesertion ==
    \A c \in Clients :
        /\ rst[c] # "no" => Unread(c) > 0
        /\ rst[c] = "done" => taken[c] > Len(echo[c])

EndInv == FinishedIsDone /\ NothingDropped /\ ResetIsDesertion /\ DeathNeedsDesertion

(* A client that is done sends nothing more, and one that is gone reads     *)
(* nothing more.                                                            *)
LEMMA ClientEnds ==
    ASSUME EInv, EndInv, fault = "none", NEW c \in Clients, UNCHANGED reactorVars,
           \/ Connect(c) \/ ClientSend(c) \/ ClientShutdown(c)
           \/ ClientClose(c) \/ ClientRead(c) \/ PeerReset(c)
    PROVE  EndInv'
<1>1. TypeOK /\ NetTypeOK /\ ClientsEnd
  BY DEF EInv, IInv, TypeOK
<1>2. /\ UNCHANGED <<fdConn, taken, echo, fault>>
      /\ \A d \in Clients \ {c} : /\ sent'[d] = sent[d] /\ nread'[d] = nread[d] /\ cl'[d] = cl[d]
                                  /\ eof'[d] = eof[d] /\ rst'[d] = rst[d]
  BY <1>1 DEF NetTypeOK, Connect, ClientSend, ClientShutdown, ClientClose, ClientRead, PeerReset
<1>3. ASSUME NEW d \in Clients, Finished(d)' PROVE Finished(d)
  <2>1. CASE Connect(c)
    <3>1. /\ Len(queued) \in Nat /\ Len(queued') = Len(queued) + 1 /\ queued'[Len(queued) + 1] = c
          /\ \A i \in 1..Len(queued) : queued'[i] = queued[i]
      BY <1>1, <2>1 DEF Connect, NetTypeOK
    <3>2. d # c
      BY <1>3, <3>1 DEF Finished
    <3> QED
      BY <1>2, <1>3, <3>1, <3>2 DEF Finished
  <2>2. CASE ~Connect(c)
    <3>1. queued' = queued /\ cl[c] # "new"
      BY <2>2 DEF ClientSend, ClientShutdown, ClientClose, ClientRead, PeerReset
    <3> QED
      BY <1>2, <1>3, <3>1 DEF Finished
  <2> QED
    BY <2>1, <2>2
<1>4. /\ eof[c] => eof'[c]
      /\ rst'[c] \in {rst[c], "pending"} /\ (rst[c] # "no" => rst'[c] = rst[c])
      /\ (eof[c] \/ rst[c] = "done") => sent'[c] = sent[c]
  BY <1>1 DEF ClientsEnd, NetTypeOK, Connect, ClientSend, ClientShutdown, ClientClose, ClientRead, PeerReset
<1>5. FinishedIsDone'
  BY <1>2, <1>3, <1>4 DEF EndInv, FinishedIsDone
<1>6. NothingDropped'
  BY <1>2, <1>3, <1>4 DEF EndInv, FinishedIsDone, NothingDropped
<1>7. rst'[c] # "no" => Unread(c)' > 0
  <2>1. CASE PeerReset(c)
    BY <1>2, <2>1 DEF PeerReset, Unread
  <2>2. CASE ~PeerReset(c)
    <3>1. rst' = rst
      BY <2>2 DEF Connect, ClientSend, ClientShutdown, ClientClose, ClientRead
    <3>2. rst[c] # "no" => nread' = nread
      BY <1>1, <2>2 DEF ClientsEnd, Connect, ClientSend, ClientShutdown, ClientClose, ClientRead
    <3> QED
      BY <1>2, <3>1, <3>2 DEF EndInv, ResetIsDesertion, Unread
  <2> QED
    BY <2>1, <2>2
<1>8. ResetIsDesertion'
  BY <1>2, <1>4, <1>7 DEF EndInv, ResetIsDesertion, Unread
<1>9. DeathNeedsDesertion'
  BY <1>2 DEF DeathNeedsDesertion
<1> QED
  BY <1>5, <1>6, <1>8, <1>9 DEF EndInv

(* The server closes a connection only when its end was seen and all of it  *)
(* was echoed, and dies only of a reset.                                    *)
LEMMA ServerEnds ==
    ASSUME EInv, EdgeInv, EndInv, fault = "none", ListenThread \/ WorkThread
    PROVE  EndInv'
<1> DEFINE c == fdConn[wfd]
<1>1. TypeOK /\ NetTypeOK /\ ClientsEnd /\ wfd \in Fds /\ IInv
  BY DEF EInv, IInv, TypeOK
<1>2. Serving => c \in Clients /\ c # NoConn
  BY <1>1, ClientsAssumption DEF IInv, ServedIsOpen, NetTypeOK
\* Most steps leave the connections alone.
<1>3. ASSUME UNCHANGED <<sent, taken, echo, nread, eof, rst>>, fault' = "none",
             \A d \in Clients : Finished(d)' => Finished(d)
      PROVE  EndInv'
  BY <1>3 DEF EndInv, FinishedIsDone, NothingDropped, ResetIsDesertion, DeathNeedsDesertion, Unread
<1>4. CASE Accept
  <2>1. PICK fd \in FreeFds : fdConn' = [fdConn EXCEPT ![fd] = Head(queued)]
    BY <1>4 DEF Accept
  <2>2. /\ fd \in Fds /\ fdConn[fd] = NoConn /\ fdConn'[fd] = Head(queued)
        /\ \A f \in Fds \ {fd} : fdConn'[f] = fdConn[f]
    BY <1>1, <2>1 DEF FreeFds, NetTypeOK
  <2>3. /\ Len(queued) \in Nat \ {0} /\ Len(queued') = Len(queued) - 1 /\ Head(queued) = queued[1]
        /\ \A i \in 1..Len(queued') : queued'[i] = queued[i + 1]
    BY <1>1, <1>4 DEF Accept, NetTypeOK
  <2>4. ASSUME NEW d \in Clients, Finished(d)' PROVE Finished(d)
    <3>1. cl[d] # "new" /\ (\A i \in 1..Len(queued') : queued'[i] # d) /\ \A f \in Fds : fdConn'[f] # d
      BY <1>4, <2>4 DEF Accept, Finished
    <3>2. \A f \in Fds : fdConn[f] # d
      BY <2>2, <3>1, ClientsAssumption
    <3>3. \A i \in 1..Len(queued) : queued[i] # d
      <4> SUFFICES ASSUME NEW i \in 1..Len(queued), queued[i] = d PROVE FALSE
        OBVIOUS
      <4>1. i # 1
        BY <2>2, <2>3, <3>1
      <4>2. i - 1 \in 1..Len(queued') /\ queued'[i - 1] = queued[i]
        BY <2>3, <4>1
      <4> QED
        BY <3>1, <4>2
    <3> QED
      BY <3>1, <3>2, <3>3 DEF Finished
  <2> QED
    BY <1>3, <1>4, <2>4 DEF Accept
<1>5. CASE WorkClose
  <2>1. /\ UNCHANGED <<sent, taken, echo, nread, eof, rst, cl, queued, fault>>
        /\ \A f \in Fds \ {wfd} : fdConn'[f] = fdConn[f]
        /\ TearingDown /\ Serving /\ ~(wpc = "sent")
    BY <1>1, <1>5 DEF WorkClose, NetTypeOK, TearingDown, Serving
  <2>2. \A d \in Clients \ {c} : Finished(d)' => Finished(d)
    BY <2>1 DEF Finished
  <2>3. c \in Clients /\ Avail(c) = 0 /\ (eof[c] \/ rst[c] = "done")
    BY <1>2, <2>1 DEF IInv, EInv, TeardownOwn
  <2>4. rst[c] # "done" => taken[c] = Len(echo[c]) + Len(sbuf[wfd])
    BY <1>1, <1>2, <2>1 DEF EInv, HeldIsNext
  <2>5. rst[c] = "no" => Len(echo[c]) = sent[c]
    <3>1. sbuf[wfd] = <<>>
      BY <2>1 DEF EInv, HeldOnlyForOutput
    <3>2. taken[c] \in Nat /\ sent[c] \in Nat /\ Len(echo[c]) \in Nat
      BY <1>1, <2>3, CapAssumption DEF TypeOK, NetTypeOK
    <3> QED
      BY <2>3, <2>4, <3>1, <3>2 DEF Avail
  <2>6. FinishedIsDone' /\ NothingDropped'
    BY <2>1, <2>2, <2>3, <2>5 DEF EndInv, FinishedIsDone, NothingDropped
  <2>7. ResetIsDesertion' /\ DeathNeedsDesertion'
    BY <2>1 DEF EndInv, ResetIsDesertion, DeathNeedsDesertion, Unread
  <2> QED
    BY <2>6, <2>7 DEF EndInv
<1>6. CASE WorkRecv
  <2>1. /\ UNCHANGED <<sent, echo, nread, eof, rst, cl, queued, fdConn, fault>>
        /\ Serving /\ taken[c] \in Nat /\ taken'[c] \in Nat /\ taken'[c] >= taken[c]
        /\ \A d \in Clients \ {c} : taken'[d] = taken[d]
    <3>1. Serving /\ c \in Clients /\ Avail(c) > 0
      BY <1>2, <1>6 DEF WorkRecv, Serving
    <3>2. Len(RecvBytes(c)) \in Nat
      BY <1>1, <3>1, RecvBytesFact
    <3> QED
      BY <1>1, <1>6, <3>1, <3>2 DEF WorkRecv, NetTypeOK
  <2>2. \A d \in Clients : Finished(d)' <=> Finished(d)
    BY <2>1 DEF Finished
  <2>3. \A d \in Clients : /\ echo[d] \in Seq(Byte) /\ taken[d] \in Nat
                            /\ taken'[d] \in Int /\ taken'[d] >= taken[d]
    <3>1. \A d \in Clients : echo[d] \in Seq(Byte) /\ taken[d] \in Nat
      BY <1>1 DEF TypeOK, NetTypeOK
    <3>2. \A d \in Clients \ {c} : taken'[d] \in Int /\ taken'[d] >= taken[d]
      BY <2>1, <3>1
    <3> QED
      BY <2>1, <3>1, <3>2
  <2>4. ASSUME NEW d \in Clients, taken[d] > Len(echo[d]) PROVE taken'[d] > Len(echo[d])
    <3>1. Len(echo[d]) \in Nat
      BY <2>3
    <3> QED
      BY <2>3, <2>4, <3>1
  <2>5. ResetIsDesertion'
    BY <2>1, <2>4 DEF EndInv, ResetIsDesertion, Unread
  <2> QED
    BY <1>2, <2>1, <2>2, <2>5
    DEF EndInv, FinishedIsDone, NothingDropped, DeathNeedsDesertion, Unread
<1>7. CASE WorkSend
  <2>1. sbuf[wfd] # <<>> /\ Serving
    BY <1>1, <1>7 DEF WorkSend, IInv, ServedIsOpen, Serving, EdgeInv, OutputHolds
  <2>2. /\ UNCHANGED <<sent, taken, nread, eof, rst, cl, queued, fdConn, fault>> /\ rst[c] = "no"
        /\ \A d \in Clients \ {c} : echo'[d] = echo[d]
    BY <1>1, <1>7, <2>1 DEF WorkSend, TypeOK
  <2>3. \A d \in Clients : Finished(d)' <=> Finished(d)
    BY <2>2 DEF Finished
  <2>4. ~Finished(c)
    BY <1>1 DEF Finished
  <2> QED
    BY <1>2, <2>1, <2>2, <2>3, <2>4
    DEF EndInv, FinishedIsDone, NothingDropped, ResetIsDesertion, DeathNeedsDesertion, Unread
<1>8. CASE WorkSendReset
  <2>1. /\ UNCHANGED <<sent, taken, echo, nread, eof, cl, queued, fdConn, fault>>
        /\ Serving /\ rst[c] = "pending" /\ sbuf[wfd] # <<>> /\ wpc = "send"
        /\ \A d \in Clients \ {c} : rst'[d] = rst[d]
    BY <1>1, <1>8 DEF WorkSendReset, Serving, NetTypeOK
  <2>2. \A d \in Clients : Finished(d)' <=> Finished(d)
    BY <2>1 DEF Finished
  <2>3. ~Finished(c)
    BY <1>1 DEF Finished
  <2>4. taken[c] > Len(echo[c])
    <3>1. taken[c] = Len(echo[c]) + Len(sbuf[wfd])
      BY <1>1, <1>2, <2>1 DEF EInv, HeldIsNext
    <3>2. sbuf[wfd] \in Seq(Byte) /\ echo[c] \in Seq(Byte)
      BY <1>1, <1>2, <2>1 DEF TypeOK
    <3>3. Len(sbuf[wfd]) \in Nat \ {0} /\ Len(echo[c]) \in Nat
      BY <2>1, <3>2
    <3>4. \A x \in Nat, y \in Nat \ {0} : x + y > x
      OBVIOUS
    <3> QED
      BY <3>1, <3>3, <3>4, Zenon
  <2> QED
    BY <1>2, <2>1, <2>2, <2>3, <2>4
    DEF EndInv, FinishedIsDone, NothingDropped, ResetIsDesertion, DeathNeedsDesertion, Unread
<1>9. CASE WorkRecvFault
  <2>1. /\ UNCHANGED <<netVars, wfd>> /\ fault' = "recv" /\ Serving /\ rst[c] = "pending"
    BY <1>9 DEF WorkRecvFault, Stop, Serving
  <2>2. cl[c] = "gone" /\ Unread(c) > 0
    BY <1>1, <1>2, <2>1 DEF ClientsEnd, EndInv, ResetIsDesertion
  <2> QED
    BY <2>1, <2>2
    DEF EndInv, FinishedIsDone, NothingDropped, ResetIsDesertion, DeathNeedsDesertion, Unread, Finished
<1>10. CASE WorkSendFault
  <2>1. /\ UNCHANGED <<netVars, wfd>> /\ fault' = "pipe" /\ Serving /\ rst[c] # "no"
        /\ wpc = "send" /\ sbuf[wfd] # <<>>
    BY <1>10 DEF WorkSendFault, Stop, Serving
  <2>2. cl[c] = "gone" /\ Unread(c) > 0
    BY <1>1, <1>2, <2>1 DEF ClientsEnd, EndInv, ResetIsDesertion
  <2>3. taken[c] > Len(echo[c])
    <3>1. CASE rst[c] = "done"
      BY <1>2, <2>1, <3>1 DEF EndInv, ResetIsDesertion
    <3>2. CASE rst[c] # "done"
      <4>1. taken[c] = Len(echo[c]) + Len(sbuf[wfd])
        BY <1>1, <1>2, <2>1, <3>2 DEF EInv, HeldIsNext
      <4>2. sbuf[wfd] \in Seq(Byte) /\ echo[c] \in Seq(Byte)
        BY <1>1, <1>2, <2>1 DEF TypeOK
      <4>3. Len(sbuf[wfd]) \in Nat \ {0} /\ Len(echo[c]) \in Nat
        BY <2>1, <4>2
      <4>4. \A x \in Nat, y \in Nat \ {0} : x + y > x
        OBVIOUS
      <4> QED
        BY <4>1, <4>3, <4>4, Zenon
    <3> QED
      BY <3>1, <3>2
  <2> QED
    BY <2>1, <2>2, <2>3
    DEF EndInv, FinishedIsDone, NothingDropped, ResetIsDesertion, DeathNeedsDesertion, Unread, Finished
<1>11. CASE AcceptFails \/ WorkPickFault
  <2>1. UNCHANGED netVars /\ fault' \in {"wild", "block"}
    BY <1>11 DEF AcceptFails, WorkPickFault, Stop
  <2> QED
    BY <2>1
    DEF EndInv, FinishedIsDone, NothingDropped, ResetIsDesertion, DeathNeedsDesertion, Unread, Finished
<1>12. CASE \/ AcceptCtl \/ AddFdGrow \/ AddFdMark \/ AddFdLoad \/ AddFdStore \/ ListenExit
            \/ WorkWait \/ WorkPick \/ WorkRecvEof \/ WorkArm \/ WorkDel \/ DelFdClear \/ DelFdLoad
            \/ DelFdStore \/ WorkSent \/ WorkRearm \/ WorkExit
  <2>1. /\ UNCHANGED <<sent, taken, echo, nread, eof, rst, cl, queued, fdConn>> /\ fault' = fault
    BY <1>12 DEF AcceptCtl, AddFdGrow, AddFdMark, AddFdLoad, AddFdStore, ListenExit, WorkWait,
       WorkPick, WorkRecvEof, WorkArm, WorkDel, DelFdClear, DelFdLoad, DelFdStore, WorkSent,
       WorkRearm, WorkExit
  <2> QED
    BY <1>3, <2>1 DEF Finished
<1> QED
  BY <1>4, <1>5, <1>6, <1>7, <1>8, <1>9, <1>10, <1>11, <1>12 DEF ListenThread, WorkThread

THEOREM NextEndInv == EInv /\ EdgeInv /\ EndInv /\ [Next]_vars => EndInv'
<1> SUFFICES ASSUME EInv, EdgeInv, EndInv, [Next]_vars PROVE EndInv'
  OBVIOUS
<1>1. CASE Next
  <2>1. fault = "none"
    BY <1>1 DEF Next
  <2> QED
    BY <1>1, <2>1, ClientEnds, ServerEnds DEF Next, ClientStep, NetStep
<1>2. CASE UNCHANGED vars
  BY <1>2 DEF vars, EndInv, FinishedIsDone, NothingDropped, ResetIsDesertion, DeathNeedsDesertion,
     Unread, Finished
<1> QED
  BY <1>1, <1>2

LEMMA AlwaysEnds == Spec => []EndInv
<1>1. Init => EndInv
  BY DEF Init, FreshTable, NetInit, EndInv, FinishedIsDone, NothingDropped, ResetIsDesertion,
     DeathNeedsDesertion, Finished
<1> QED
  BY <1>1, AlwaysEdges, NextEndInv, PTL DEF Spec

(* A connection that was not reset is closed only when all of it was echoed *)
(* (recv_callback does not drop what came with the FIN).                    *)
THEOREM EchoComplete == Spec => []NothingDropped
<1>1. EndInv => NothingDropped
  BY DEF EndInv
<1> QED
  BY <1>1, AlwaysEnds, PTL

(* Only a client that leaves bytes of its echo unread brings the server     *)
(* down in Socket::recv's error handler or by SIGPIPE.                      *)
THEOREM DeathExplained == Spec => []DeathNeedsDesertion
<1>1. EndInv => DeathNeedsDesertion
  BY DEF EndInv
<1> QED
  BY <1>1, AlwaysEnds, PTL
=============================================================================
