-------------------------- MODULE UdpFront_proofs --------------------------
(* Theorems about UdpFront, for any descriptors and numbers of listeners. *)
EXTENDS UdpFront, TLAPS

\* Until the pool is made there is nothing to serve: no socket has been opened.
Quiet ==
    /\ step \in [at : 1..2, sub : {0}]
    /\ \A f \in FrontFds : fdKind[f] = "free"
    /\ edges = {} /\ asked = {} /\ serving = Nobody

IInv == rawUse = FALSE /\ (pool = "raw" => Quiet)

LEMMA CallerKeeps ==
    ASSUME IInv, StartThreads \/ StartPool \/ StartListener \/ StartUdp \/ StartUdpServes
    PROVE  IInv'
<1>1. CASE StartThreads
    <2> SUFFICES ASSUME pool = "raw" PROVE Quiet'
        BY <1>1 DEF StartThreads, IInv
    <2>1. step.at = 1
        BY <1>1 DEF StartThreads, AtStep, StartOrder, IInv, Quiet
    <2>2. step' = [at |-> 2, sub |-> 0]
        BY <1>1, <2>1 DEF StartThreads, StepDone
    <2> QED
        BY <1>1, <2>2 DEF StartThreads, tableVars, IInv, Quiet
<1>2. CASE StartPool
    BY <1>2 DEF StartPool, IInv
<1>3. CASE StartListener \/ StartUdp \/ StartUdpServes
    <2>1. step.at \in Nat => StartOrder[step.at] \in {"listen", "udp"}
        BY <1>3 DEF StartListener, StartUdp, StartUdpServes, AtStep
    <2>2. pool # "raw"
        BY <2>1 DEF IInv, Quiet, StartOrder
    <2> QED
        BY <1>3, <2>2 DEF StartListener, StartUdp, StartUdpServes, IInv
<1> QED
    BY <1>1, <1>2, <1>3

\* Nothing arrives where nothing is open, and the loops have nothing to do.
LEMMA LoopsKeep ==
    ASSUME IInv,
           \/ Arrives \/ FrontAccepts
           \/ ServeBegin \/ ServeRecv \/ ServeDel \/ ServeClose \/ ServeCommit \/ ServeSend
           \/ FrontAnswer \/ FrontAnswerCtl
    PROVE  IInv'
<1>1. pool # "raw"
    <2> SUFFICES ASSUME Quiet PROVE FALSE
        BY DEF IInv
    <2>1. serving.pc = "wait"
        BY DEF Quiet, Nobody
    <2> QED
        BY <2>1 DEF Quiet, Arrives, FrontAccepts, ServeBegin, Serve, ServeRecv, ServeDel,
                    ServeClose, ServeCommit, ServeSend, FrontAnswer, FrontAnswerCtl
<1> QED
    BY <1>1 DEF IInv, Arrives, FrontAccepts, ServeBegin, ServeRecv, ServeDel, ServeClose,
                ServeCommit, ServeSend, FrontAnswer, FrontAnswerCtl

\* run() makes the pool before it opens the first socket, so that no request is
\* given to a pool that is not there, however far the loops are.
THEOREM PoolIsThere == FrontSpec => []PoolBeforeRequests
<1>1. FrontInit => IInv
    BY DEF FrontInit, IInv, Quiet
<1>2. IInv /\ [FrontNext]_frontVars => IInv'
    <2> SUFFICES ASSUME IInv, [FrontNext]_frontVars PROVE IInv'
        OBVIOUS
    <2>1. CASE FrontNext
        BY <2>1, CallerKeeps, LoopsKeep DEF FrontNext
    <2>2. CASE UNCHANGED frontVars
        BY <2>2 DEF frontVars, IInv, Quiet
    <2> QED
        BY <2>1, <2>2
<1>3. IInv => PoolBeforeRequests
    BY DEF IInv, PoolBeforeRequests
<1> QED
    BY <1>1, <1>2, <1>3, PTL DEF FrontSpec

-----------------------------------------------------------------------------
FrontTypeOK ==
    /\ step \in [at : Nat \ {0}, sub : Nat]
    /\ fdKind \in [FrontFds -> {"free", "listener", "udp", "client"}]
    /\ callbacks \in [FrontFds -> {"tcp", "udp"}]
    /\ armed \in [FrontFds -> {"none", "in", "out"}]
    /\ edges \subseteq FrontFds /\ emptied \subseteq FrontFds
    /\ serving \in {Nobody} \cup [fd : FrontFds, pc : {"recv", "del", "close", "commit", "send"}]

\* What epoll knows is a client or the UDP server.
ArmedAreOpen == \A f \in FrontFds : armed[f] # "none" => fdKind[f] \in {"client", "udp"}
EdgesAreArmed == \A f \in edges : armed[f] # "none"

\* Only the work thread takes a descriptor from epoll, and it closes it next.
ServedIsArmed ==
    serving # Nobody =>
        /\ fdKind[serving.fd] \in {"client", "udp"}
        /\ armed[serving.fd] = "none" <=> serving.pc = "close"

\* While run() is at the UDP server nobody else sees it, and when it goes on to
\* epoll the callbacks are there.
UdpWaits ==
    \A f \in FrontFds : fdKind[f] = "udp" =>
        /\ step.at <= 4 => armed[f] = "none" /\ (serving = Nobody \/ serving.fd # f)
        /\ callbacks[f] = "udp" \/ (step.at = 4 /\ step.sub = 1)
        /\ step.at > 4 \/ (step.at = 4 /\ step.sub > 0)
        /\ \A g \in FrontFds : fdKind[g] = "udp" => g = f

\* The UDP callbacks stay behind in an entry only when an empty datagram ended it.
LeftBehind == \A f \in FrontFds : callbacks[f] = "udp" => fdKind[f] = "udp" \/ f \in emptied

CInv == FrontTypeOK /\ ArmedAreOpen /\ EdgesAreArmed /\ ServedIsArmed /\ UdpWaits /\ LeftBehind

LEMMA CallerKeepsC ==
    ASSUME CInv, StartThreads \/ StartPool \/ StartListener \/ StartUdp \/ StartUdpServes
    PROVE  CInv'
<1> USE DEF CInv
<1>1. CASE StartThreads \/ StartPool
    <2>1. step.at \in {1, 2} /\ step.sub = 0
        BY <1>1 DEF StartThreads, StartPool, AtStep, StartOrder, FrontTypeOK
    <2>2. step' = [at |-> step.at + 1, sub |-> 0]
        BY <1>1 DEF StartThreads, StartPool, StepDone
    <2>3. UNCHANGED <<tableVars, serving, emptied>>
        BY <1>1 DEF StartThreads, StartPool
    <2>4. FrontTypeOK'
        BY <2>1, <2>2, <2>3 DEF FrontTypeOK, tableVars
    <2>5. ArmedAreOpen' /\ EdgesAreArmed' /\ ServedIsArmed' /\ LeftBehind'
        BY <2>3 DEF tableVars, ArmedAreOpen, EdgesAreArmed, ServedIsArmed, LeftBehind
    <2>6. UdpWaits'
        BY <2>1, <2>2, <2>3 DEF tableVars, UdpWaits
    <2> QED
        BY <2>4, <2>5, <2>6
<1>2. CASE StartListener
    <2>1. PICK f \in FrontFds : fdKind[f] = "free" /\ fdKind' = [fdKind EXCEPT ![f] = "listener"]
        BY <1>2 DEF StartListener
    <2>2. step.at = 3 /\ step'.at \in {3, 4} /\ step' \in [at : Nat \ {0}, sub : Nat]
          /\ (step'.at = 4 => step'.sub = 0)
        BY <1>2 DEF StartListener, AtStep, StartOrder, StepDone, StepOn, FrontTypeOK
    <2>3. UNCHANGED <<callbacks, armed, edges, serving, emptied>>
        BY <1>2 DEF StartListener
    <2>4. FrontTypeOK'
        BY <2>1, <2>2, <2>3 DEF FrontTypeOK
    <2>5. ArmedAreOpen' /\ EdgesAreArmed' /\ ServedIsArmed'
        BY <2>1, <2>3 DEF FrontTypeOK, ArmedAreOpen, EdgesAreArmed, ServedIsArmed, Nobody
    <2>6. UdpWaits' /\ LeftBehind'
        BY <2>1, <2>2, <2>3 DEF FrontTypeOK, UdpWaits, LeftBehind
    <2> QED
        BY <2>4, <2>5, <2>6
<1>3. CASE StartUdp
    <2>1. PICK f \in FrontFds : fdKind[f] = "free" /\ fdKind' = [fdKind EXCEPT ![f] = "udp"]
        BY <1>3 DEF StartUdp
    <2>2. step.at = 4 /\ step.sub = 0 /\ step' = [at |-> 4, sub |-> 1]
        BY <1>3 DEF StartUdp, AtStep, StartOrder, StepOn, FrontTypeOK
    <2>3. UNCHANGED <<callbacks, armed, edges, serving, emptied>>
        BY <1>3 DEF StartUdp
    <2>4. FrontTypeOK'
        BY <2>1, <2>2, <2>3 DEF FrontTypeOK
    <2>5. ArmedAreOpen' /\ EdgesAreArmed' /\ ServedIsArmed'
        BY <2>1, <2>3 DEF FrontTypeOK, ArmedAreOpen, EdgesAreArmed, ServedIsArmed, Nobody
    <2>6. UdpWaits' /\ LeftBehind'
        BY <2>1, <2>2, <2>3 DEF FrontTypeOK, UdpWaits, LeftBehind, ArmedAreOpen, ServedIsArmed
    <2> QED
        BY <2>4, <2>5, <2>6
<1>4. CASE StartUdpServes
    <2>1. PICK f \in FrontFds :
            /\ fdKind[f] = "udp"
            /\ \/ AtStep("udp", 1) /\ StepOn /\ UdpEntry(f)
               \/ AtStep("udp", 2) /\ StepDone /\ UdpCtl(f)
        BY <1>4 DEF StartUdpServes
    <2>2. UNCHANGED <<fdKind, serving, emptied>>
        BY <1>4 DEF StartUdpServes
    <2>3. CASE AtStep("udp", 1) /\ StepOn /\ UdpEntry(f)
        <3>1. step.at = 4 /\ step.sub = 1 /\ step' = [at |-> 4, sub |-> 2]
            BY <2>3 DEF AtStep, StartOrder, StepOn, FrontTypeOK
        <3>2. callbacks' = [callbacks EXCEPT ![f] = "udp"] /\ UNCHANGED <<armed, edges>>
            BY <2>3 DEF UdpEntry
        <3>3. FrontTypeOK'
            BY <2>2, <3>1, <3>2 DEF FrontTypeOK
        <3>4. ArmedAreOpen' /\ EdgesAreArmed' /\ ServedIsArmed'
            BY <2>2, <3>2 DEF ArmedAreOpen, EdgesAreArmed, ServedIsArmed
        <3>5. UdpWaits' /\ LeftBehind'
            BY <2>1, <2>2, <3>1, <3>2 DEF FrontTypeOK, UdpWaits, LeftBehind
        <3> QED
            BY <3>3, <3>4, <3>5
    <2>4. CASE AtStep("udp", 2) /\ StepDone /\ UdpCtl(f)
        <3>1. step.at = 4 /\ step.sub = 2 /\ step' = [at |-> 5, sub |-> 0]
            BY <2>4 DEF AtStep, StartOrder, StepDone, FrontTypeOK
        <3>2. armed' = [armed EXCEPT ![f] = "in"] /\ edges' \in {edges \cup {f}, edges \ {f}}
              /\ UNCHANGED callbacks
            BY <2>4 DEF UdpCtl, Interest
        <3>3. FrontTypeOK'
            BY <2>2, <3>1, <3>2 DEF FrontTypeOK
        <3>4. ArmedAreOpen' /\ EdgesAreArmed'
            BY <2>1, <2>2, <3>2 DEF FrontTypeOK, ArmedAreOpen, EdgesAreArmed
        <3>5. ServedIsArmed'
            BY <2>1, <2>2, <3>1, <3>2 DEF FrontTypeOK, UdpWaits, ServedIsArmed
        <3>6. UdpWaits' /\ LeftBehind'
            BY <2>1, <2>2, <3>1, <3>2 DEF FrontTypeOK, UdpWaits, LeftBehind
        <3> QED
            BY <3>3, <3>4, <3>5, <3>6
    <2> QED
        BY <2>1, <2>3, <2>4
<1> QED
    BY <1>1, <1>2, <1>3, <1>4

\* A descriptor that epoll knows may change its interest at any time.
LEMMA InterestChanges ==
    ASSUME CInv, NEW f \in FrontFds, armed[f] # "none",
           UNCHANGED <<step, fdKind, callbacks, emptied>>, serving' \in {serving, Nobody},
           Interest(f, "in") \/ Interest(f, "out") \/ UNCHANGED <<armed, edges>>
    PROVE  CInv'
<1> USE DEF CInv
<1>1. PICK ev \in {"in", "out"} :
        \/ armed' = [armed EXCEPT ![f] = ev] /\ edges' \in {edges \cup {f}, edges \ {f}}
        \/ UNCHANGED <<armed, edges>>
    BY DEF Interest
<1>2. FrontTypeOK' /\ LeftBehind'
    BY <1>1 DEF FrontTypeOK, LeftBehind
<1>3. ArmedAreOpen' /\ EdgesAreArmed'
    BY <1>1 DEF FrontTypeOK, ArmedAreOpen, EdgesAreArmed
<1>4. ServedIsArmed' /\ UdpWaits'
    BY <1>1 DEF FrontTypeOK, ServedIsArmed, UdpWaits
<1> QED
    BY <1>2, <1>3, <1>4

LEMMA LoopsKeepC ==
    ASSUME CInv,
           \/ Arrives \/ FrontAccepts
           \/ ServeBegin \/ ServeRecv \/ ServeDel \/ ServeClose \/ ServeCommit \/ ServeSend
           \/ FrontAnswer \/ FrontAnswerCtl
    PROVE  CInv'
<1> USE DEF CInv
<1>1. CASE Arrives
    <2>1. UNCHANGED <<step, fdKind, callbacks, armed, serving, emptied>>
        BY <1>1 DEF Arrives
    <2>2. PICK f \in FrontFds : edges' = IF armed[f] = "in" THEN edges \cup {f} ELSE edges
        BY <1>1 DEF Arrives
    <2> QED
        BY <2>1, <2>2 DEF FrontTypeOK, ArmedAreOpen, EdgesAreArmed, ServedIsArmed, UdpWaits, LeftBehind
<1>2. CASE FrontAccepts
    <2>1. PICK f \in FrontFds :
            /\ fdKind[f] = "free" /\ fdKind' = [fdKind EXCEPT ![f] = "client"]
            /\ armed' = [armed EXCEPT ![f] = "in"] /\ edges' \in {edges \cup {f}, edges \ {f}}
        BY <1>2 DEF FrontAccepts, Interest
    <2>2. UNCHANGED <<step, callbacks, serving, emptied>>
        BY <1>2 DEF FrontAccepts
    <2>3. FrontTypeOK'
        BY <2>1, <2>2 DEF FrontTypeOK
    <2>4. ArmedAreOpen' /\ EdgesAreArmed' /\ ServedIsArmed'
        BY <2>1, <2>2 DEF FrontTypeOK, ArmedAreOpen, EdgesAreArmed, ServedIsArmed, Nobody
    <2>5. UdpWaits' /\ LeftBehind'
        BY <2>1, <2>2 DEF FrontTypeOK, UdpWaits, LeftBehind
    <2> QED
        BY <2>3, <2>4, <2>5
<1>3. CASE ServeBegin
    <2>1. PICK f \in edges :
            /\ serving' = [fd |-> f, pc |-> IF armed[f] = "in" THEN "recv" ELSE "send"]
            /\ edges' = edges \ {f}
        BY <1>3 DEF ServeBegin
    <2>2. UNCHANGED <<step, fdKind, callbacks, armed, emptied>>
        BY <1>3 DEF ServeBegin
    <2>3. f \in FrontFds /\ armed[f] # "none" /\ fdKind[f] \in {"client", "udp"}
        BY DEF FrontTypeOK, ArmedAreOpen, EdgesAreArmed
    <2>4. FrontTypeOK' /\ ArmedAreOpen' /\ EdgesAreArmed' /\ LeftBehind'
        BY <2>1, <2>2, <2>3 DEF FrontTypeOK, ArmedAreOpen, EdgesAreArmed, LeftBehind
    <2>5. ServedIsArmed'
        BY <2>1, <2>2, <2>3 DEF ServedIsArmed
    <2>6. UdpWaits'
        BY <2>1, <2>2, <2>3 DEF UdpWaits
    <2> QED
        BY <2>4, <2>5, <2>6
<1>4. CASE ServeRecv
    <2>1. PICK pc \in {"del", "commit"} : serving' = [serving EXCEPT !.pc = pc]
        BY <1>4 DEF ServeRecv, ServeOn
    <2>2. serving.pc = "recv" /\ UNCHANGED <<step, fdKind, callbacks, armed, edges, emptied>>
        BY <1>4 DEF ServeRecv
    <2>3. serving' = [fd |-> serving.fd, pc |-> pc] /\ serving.fd \in FrontFds /\ serving # Nobody
        BY <2>1, <2>2 DEF FrontTypeOK, Nobody
    <2> QED
        BY <2>2, <2>3 DEF FrontTypeOK, ArmedAreOpen, EdgesAreArmed, ServedIsArmed, UdpWaits, LeftBehind
<1>5. CASE ServeDel
    <2>1. PICK f \in FrontFds : f = serving.fd
        BY <1>5 DEF ServeDel, Serve, FrontTypeOK, Nobody
    <2>2. /\ serving.pc = "del" /\ serving' = [serving EXCEPT !.pc = "close"]
          /\ armed' = [armed EXCEPT ![f] = "none"] /\ edges' = edges \ {f}
          /\ UNCHANGED <<step, fdKind, callbacks, emptied>>
        BY <1>5, <2>1 DEF ServeDel, Serve, ServeOn
    <2>3. serving' = [fd |-> f, pc |-> "close"] /\ serving # Nobody
        BY <2>1, <2>2 DEF FrontTypeOK, Nobody
    <2>4. FrontTypeOK' /\ ArmedAreOpen' /\ EdgesAreArmed' /\ LeftBehind'
        BY <2>2, <2>3 DEF FrontTypeOK, ArmedAreOpen, EdgesAreArmed, LeftBehind
    <2>5. ServedIsArmed' /\ UdpWaits'
        BY <2>1, <2>2, <2>3 DEF FrontTypeOK, ServedIsArmed, UdpWaits
    <2> QED
        BY <2>4, <2>5
<1>6. CASE ServeClose
    <2>1. PICK f \in FrontFds : f = serving.fd
        BY <1>6 DEF ServeClose, Serve, FrontTypeOK, Nobody
    <2>2. /\ serving.pc = "close" /\ serving' = Nobody
          /\ emptied' = (IF callbacks[f] = "udp" THEN emptied \cup {f} ELSE emptied)
          /\ fdKind' = [fdKind EXCEPT ![f] = "free"]
          /\ UNCHANGED <<step, callbacks, armed, edges>>
        BY <1>6, <2>1 DEF ServeClose, Serve
    <2>3. armed[f] = "none"
        BY <2>1, <2>2 DEF ServedIsArmed, Nobody
    <2>4. FrontTypeOK' /\ ArmedAreOpen' /\ EdgesAreArmed' /\ ServedIsArmed'
        BY <2>2, <2>3 DEF FrontTypeOK, ArmedAreOpen, EdgesAreArmed, ServedIsArmed
    <2>5. UdpWaits' /\ LeftBehind'
        BY <2>2 DEF FrontTypeOK, UdpWaits, LeftBehind
    <2> QED
        BY <2>4, <2>5
<1>7. CASE ServeCommit
    <2>1. serving' = Nobody /\ UNCHANGED <<step, tableVars, emptied>>
        BY <1>7 DEF ServeCommit, Serve
    <2> QED
        BY <2>1 DEF tableVars, FrontTypeOK, ArmedAreOpen, EdgesAreArmed, ServedIsArmed, UdpWaits, LeftBehind
<1>8. CASE ServeSend
    <2>1. PICK f \in FrontFds : f = serving.fd
        BY <1>8 DEF ServeSend, Serve, FrontTypeOK, Nobody
    <2>2. armed[f] # "none"
        BY <1>8, <2>1 DEF ServeSend, Serve, ServedIsArmed, Nobody
    <2>3. serving' = Nobody /\ UNCHANGED <<step, fdKind, callbacks, emptied>>
        BY <1>8 DEF ServeSend, Serve
    <2>4. \/ Interest(f, "in")
          \/ UNCHANGED <<armed, edges>>
        BY <1>8, <2>1 DEF ServeSend
    <2> QED
        BY <2>2, <2>3, <2>4, InterestChanges DEF FrontTypeOK
<1>9. CASE FrontAnswer
    <2>1. UNCHANGED <<step, fdKind, callbacks, armed, edges, serving, emptied>>
        BY <1>9 DEF FrontAnswer
    <2> QED
        BY <2>1 DEF FrontTypeOK, ArmedAreOpen, EdgesAreArmed, ServedIsArmed, UdpWaits, LeftBehind
<1>10. CASE FrontAnswerCtl
    <2>1. PICK f \in FrontFds : IF armed[f] # "none" THEN Interest(f, "out") ELSE UNCHANGED <<armed, edges>>
        BY <1>10 DEF FrontAnswerCtl
    <2>2. UNCHANGED <<step, fdKind, callbacks, serving, emptied>>
        BY <1>10 DEF FrontAnswerCtl
    <2>3. CASE armed[f] # "none"
        BY <2>1, <2>2, <2>3, InterestChanges
    <2>4. CASE armed[f] = "none"
        <3>1. UNCHANGED <<armed, edges>>
            BY <2>1, <2>4
        <3> QED
            BY <2>2, <3>1
            DEF FrontTypeOK, ArmedAreOpen, EdgesAreArmed, ServedIsArmed, UdpWaits, LeftBehind
    <2> QED
        BY <2>3, <2>4
<1> QED
    BY <1>1, <1>2, <1>3, <1>4, <1>5, <1>6, <1>7, <1>8, <1>9, <1>10

\* What epoll reports of the UDP server finds the UDP callbacks, and a client finds
\* them only under a number that an empty datagram freed, in whatever order run(),
\* the listen thread, the work thread and the pool come.
THEOREM CallbacksAreRight == FrontSpec => []CallbacksFit
<1>1. FrontInit => CInv
    BY DEF FrontInit, FreshCallbacks, CInv, FrontTypeOK, ArmedAreOpen, EdgesAreArmed, ServedIsArmed, UdpWaits,
           LeftBehind
<1>2. CInv /\ [FrontNext]_frontVars => CInv'
    <2> SUFFICES ASSUME CInv, [FrontNext]_frontVars PROVE CInv'
        OBVIOUS
    <2>1. CASE FrontNext
        BY <2>1, CallerKeepsC, LoopsKeepC DEF FrontNext
    <2>2. CASE UNCHANGED frontVars
        BY <2>2 DEF frontVars, CInv, FrontTypeOK, ArmedAreOpen, EdgesAreArmed, ServedIsArmed, UdpWaits, LeftBehind
    <2> QED
        BY <2>1, <2>2
<1>3. CInv => CallbacksFit
    <2> SUFFICES ASSUME CInv, NEW f \in FrontFds
                 PROVE  /\ armed[f] # "none" /\ fdKind[f] = "udp" => callbacks[f] = "udp"
                        /\ fdKind[f] = "client" /\ callbacks[f] = "udp" => f \in emptied
        BY DEF CallbacksFit
    <2>1. step.at \in Nat
        BY DEF CInv, FrontTypeOK
    <2>2. CASE fdKind[f] = "udp"
        BY <2>1, <2>2 DEF CInv, UdpWaits
    <2>3. CASE fdKind[f] # "udp"
        BY <2>3 DEF CInv, LeftBehind
    <2> QED
        BY <2>2, <2>3
<1> QED
    BY <1>1, <1>2, <1>3, PTL DEF FrontSpec
=============================================================================
