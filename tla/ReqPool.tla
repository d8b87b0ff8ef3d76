------------------------------ MODULE ReqPool ------------------------------
(***************************************************************************)
(* The request pool of lsylar/src/reqpool.cc as test_reqpool.cc uses it:   *)
(* requests over UDP or TCP, each with a result buffer of the caller's,    *)
(* which several requests may share; the pool's thread; and the end of the *)
(* pool.  (RpcApi composes asynreq_commit_udp and this thread with the     *)
(* front end, which never ends them and never uses TCP.)                   *)
(*                                                                         *)
(* A buffer is a sequence of cells, each tagged with the request it came   *)
(* from, and the length variable the request refers to.                    *)
(***************************************************************************)
EXTENDS Integers, Sequences

CONSTANTS
    Requests,       \* requests, each committed once
    Buffers,        \* result buffers
    BufferSize      \* cells of a buffer

ASSUME ReqPoolAssumption == BufferSize \in Nat \ {0}

VARIABLES
    request,        \* the eparg_t of each, and how far it is
    inbox,          \* what its socket has received: numbers of cells, or how it ended
    events,         \* edges that epoll has not reported
    buffer, len,    \* the result buffers, and the lengths referred to
    thread,         \* the pool's thread: where it is, its batch, its request, what recv returned
    ending,         \* asynreq_context_destory: "no", "closed", "cancelled"
    seen            \* history: what each callback was given

reqPoolVars == <<request, inbox, events, buffer, len, thread, ending, seen>>

ERROR == -1         \* SOCKET_ERROR, which as a size_t is the largest of all; a reset
CLOSED == -2        \* the other side closed
NoData == {}
NoRequest == [pc |-> "new", tcp |-> FALSE, buf |-> CHOOSE b \in Buffers : TRUE, server |-> "silent"]
Smaller(m, n) == IF m < n THEN m ELSE n

\* asynreq_context_init; its failures are in UdpFront.
PoolInit ==
    /\ request = [r \in Requests |-> NoRequest]
    /\ inbox = [r \in Requests |-> <<>>] /\ events = {}
    /\ buffer = [b \in Buffers |-> [i \in 1..BufferSize |-> NoData]]
    /\ len = [b \in Buffers |-> BufferSize]
    /\ thread = [pc |-> "wait", batch |-> {}, cur |-> {}, got |-> 0]
    /\ ending = "no" /\ seen = [r \in Requests |-> <<>>]

Lives == thread.pc # "fault"
Armed(r) == request[r].pc = "armed"
BufferOf(r) == request[r].buf

-----------------------------------------------------------------------------
(* The callers. *)

\* The caller sets the length, asynreq_commit connects, and both commits send.
\* A failed send is no reason to give up, a failed connect is.
CommitSend(r) ==
    /\ Lives /\ request[r].pc = "new"
    /\ \E b \in Buffers, tcp \in BOOLEAN, end \in {"sent", "failed", "gone"} :
        /\ end # "sent" => tcp
        /\ request' = [request EXCEPT ![r] =
                [pc |-> IF end = "gone" THEN "gone" ELSE "sent",
                 tcp |-> tcp, buf |-> b,
                 server |-> IF end = "sent" THEN "silent" ELSE "ended"]]
        /\ len' = [len EXCEPT ![b] = BufferSize]
        /\ inbox' = [inbox EXCEPT ![r] = IF end = "failed" THEN <<CLOSED>> ELSE @]
    /\ UNCHANGED <<events, buffer, thread, ending, seen>>

\* epoll_ctl ADD, which may be refused: then nobody holds the eparg.
CommitArm(r) ==
    /\ Lives /\ request[r].pc = "sent"
    /\ \/ /\ ending = "no"
          /\ request' = [request EXCEPT ![r].pc = "armed"]
          /\ events' = IF inbox[r] # <<>> THEN events \cup {r} ELSE events
       \/ /\ request' = [request EXCEPT ![r].pc = "refused"]
          /\ UNCHANGED events
    /\ UNCHANGED <<inbox, buffer, len, thread, ending, seen>>

\* asynreq_context_destory: close(), then pthread_cancel(); nobody joins.
DestoryClose ==
    /\ Lives /\ ending = "no" /\ ending' = "closed"
    /\ UNCHANGED <<request, inbox, events, buffer, len, thread, seen>>

DestoryCancel ==
    /\ Lives /\ ending = "closed" /\ ending' = "cancelled"
    /\ UNCHANGED <<request, inbox, events, buffer, len, thread, seen>>

-----------------------------------------------------------------------------
\* The server answers, closes a connection or resets it.
ServerAnswers(r) ==
    /\ Lives /\ request[r].pc \in {"sent", "armed"}
    /\ \/ /\ request[r].server = "silent"
          /\ \E n \in 0..BufferSize + 1 :
                (n = 0 => ~request[r].tcp) /\ inbox' = [inbox EXCEPT ![r] = <<n>>]
          /\ request' = [request EXCEPT ![r].server = "answered"]
       \/ /\ request[r].tcp /\ request[r].server # "ended"
          /\ \E end \in {CLOSED, ERROR} : inbox' = [inbox EXCEPT ![r] = Append(@, end)]
          /\ request' = [request EXCEPT ![r].server = "ended"]
    /\ events' = IF Armed(r) THEN events \cup {r} ELSE events
    /\ UNCHANGED <<buffer, len, thread, ending, seen>>

-----------------------------------------------------------------------------
(* The pool's thread, asynreq_callback. *)

Loop(t) == [t EXCEPT !.pc = IF t.batch = {} THEN "wait" ELSE "pick", !.cur = {}]

\* epoll_wait, also when the set was closed under it.
PoolWaits ==
    /\ thread.pc = "wait" /\ ending # "cancelled" /\ events # {}
    /\ thread' = [thread EXCEPT !.pc = "pick", !.batch = events]
    /\ events' = {}
    /\ UNCHANGED <<request, inbox, buffer, len, ending, seen>>

\* epoll_wait fails on a closed descriptor, and at any time when a signal
\* interrupts it; it and recv are where a cancelled thread ends.
PoolEnds ==
    /\ \/ thread.pc = "wait"
       \/ thread.pc = "recv" /\ ending = "cancelled"
    /\ thread' = [thread EXCEPT !.pc = "ended"]
    /\ UNCHANGED <<request, inbox, events, buffer, len, ending, seen>>

\* memset clears as much as the length says.
PoolPicks ==
    /\ thread.pc = "pick"
    /\ \E r \in thread.batch :
        LET b == BufferOf(r) IN
        IF len[b] = ERROR
        THEN thread' = [thread EXCEPT !.pc = "fault"] /\ UNCHANGED buffer
        ELSE /\ thread' = [thread EXCEPT !.pc = "recv", !.batch = @ \ {r}, !.cur = {r}]
             /\ buffer' = [buffer EXCEPT ![b] =
                            [i \in 1..BufferSize |-> IF i <= len[b] THEN NoData ELSE @[i]]]
    /\ UNCHANGED <<request, inbox, events, len, ending, seen>>

\* recv: the length is the room there is.  A receive queue is never empty here.
PoolRecvs ==
    /\ thread.pc = "recv" /\ ending # "cancelled"
    /\ \E r \in thread.cur :
        LET what == Head(inbox[r])
            b == BufferOf(r)
            got == CASE what = ERROR -> ERROR
                     [] what = CLOSED -> 0
                     [] OTHER -> Smaller(what, len[b])
        IN  /\ thread' = [thread EXCEPT !.pc = "store", !.got = got]
            /\ buffer' = [buffer EXCEPT ![b] =
                            [i \in 1..BufferSize |-> IF i <= got THEN {r} ELSE @[i]]]
            /\ inbox' = [inbox EXCEPT ![r] = Tail(@)]
    /\ UNCHANGED <<request, events, len, ending, seen>>

\* The result is the new length.  After an error reconnect() is tried on the
\* socket, which is connected already, and the loop goes on to the next event.
PoolStores ==
    /\ thread.pc = "store"
    /\ \E r \in thread.cur :
        /\ len' = [len EXCEPT ![BufferOf(r)] = thread.got]
        /\ IF thread.got = ERROR
           THEN thread' = Loop(thread) /\ request' = [request EXCEPT ![r].pc = "stranded"]
           ELSE thread' = [thread EXCEPT !.pc = "call"] /\ UNCHANGED request
    /\ UNCHANGED <<inbox, events, buffer, ending, seen>>

Seen(r) == [len |-> len[BufferOf(r)], got |-> thread.got, cells |-> buffer[BufferOf(r)],
            late |-> ending = "cancelled"]

\* Mutant: the eparg is kept, and with it the socket.
PoolCallsKeeps ==
    /\ thread.pc = "call"
    /\ \E r \in thread.cur : seen' = [seen EXCEPT ![r] = Append(@, Seen(r))]
    /\ thread' = Loop(thread)
    /\ UNCHANGED <<request, inbox, events, buffer, len, ending>>

\* epoll_ctl DEL, the callback on the length as it is now, and the eparg is
\* deleted: its socket closes.
PoolCalls ==
    /\ thread.pc = "call"
    /\ \E r \in thread.cur :
        /\ seen' = [seen EXCEPT ![r] = Append(@, Seen(r))]
        /\ request' = [request EXCEPT ![r].pc = "gone"]
        /\ events' = events \ {r}
    /\ thread' = Loop(thread)
    /\ UNCHANGED <<inbox, buffer, len, ending>>

PoolNext ==
    \/ \E r \in Requests : CommitSend(r) \/ CommitArm(r) \/ ServerAnswers(r)
    \/ DestoryClose \/ DestoryCancel
    \/ PoolWaits \/ PoolEnds \/ PoolPicks \/ PoolRecvs \/ PoolStores \/ PoolCalls

ReqPoolSpec == PoolInit /\ [][PoolNext]_reqPoolVars

-----------------------------------------------------------------------------
Shares(r) == \E q \in Requests \ {r} : request[q].pc # "new" /\ BufferOf(q) = BufferOf(r)

\* A callback is called once for a request, and finds there the first cells of
\* the reply to it; if no other request was given the same buffer, the whole
\* reply as far as it fits, and nothing else.
AnswersFit ==
    \A r \in Requests :
        /\ Len(seen[r]) <= 1
        /\ \A i \in DOMAIN seen[r] :
            LET s == seen[r][i] IN
            /\ \A k \in 1..Smaller(s.len, s.got) : s.cells[k] = {r}
            /\ ~Shares(r) => s.len = s.got

\* A request is only forgotten for a reason: until its callback was called it is
\* in the pool's hands, unless epoll_ctl refused it, receiving failed or the
\* pool's thread has ended, and the process dies only of a failed receive.  After the end
\* one callback may still run, not more: the caller's buffers are in use that
\* long although asynreq_context_destory has returned.
NoneForgotten ==
    /\ \A r \in Requests :
        Armed(r) /\ inbox[r] # <<>> =>
            r \in events \cup thread.batch \cup thread.cur \/ thread.pc = "ended"
    /\ thread.pc = "fault" => \E r \in Requests : request[r].pc = "stranded" /\ Shares(r)
    /\ \A q, r \in Requests : q # r =>
        ~\E s \in {seen[q][i] : i \in DOMAIN seen[q]}, t \in {seen[r][i] : i \in DOMAIN seen[r]} :
            s.late /\ t.late

RequestsSettle == AnswersFit /\ NoneForgotten
=============================================================================
