--------------------------- MODULE Sockets_proofs ---------------------------
(* Theorems about Sockets, for any number of objects and descriptors. *)
EXTENDS Sockets, TLAPS

Fd == Numbers \cup {0, -1}
SockType == [Objects -> [api : Apis \cup {"none"}, fd : Fd, remote : BOOLEAN]]
TableType == [Numbers -> {"free", "idle", "listening", "linked"}]
FreeIn(t) == {f \in Numbers : t[f] = "free"}

\* Inductive: an object that does not exist holds nothing that its next
\* incarnation could close.
AbsentHoldNothing == \A o \in Objects : ~Live(o) => sock[o].fd = 0

IInv == SocketsTypeOK /\ DescriptorsOwned /\ AbsentHoldNothing

LEMMA NoNumbers == 0 \notin Numbers /\ -1 \notin Numbers
    BY SocketsAssumption

LEMMA Types ==
    ASSUME SocketsTypeOK
    PROVE  /\ sock \in SockType /\ table \in TableType
           /\ \A o \in Objects : sock[o].fd \in Fd /\ sock[o].remote \in BOOLEAN
                                 /\ (Live(o) => sock[o].api \in Apis)
    BY DEF SocketsTypeOK, SockType, TableType, Fd, Live

\* An object that changes its descriptor leaves the others theirs.
LEMMA OthersHold ==
    ASSUME sock \in SockType, NEW o \in Objects, NEW api \in Apis \cup {"none"},
           NEW fd \in Fd, NEW remote \in BOOLEAN, Becomes(o, api, fd, remote)
    PROVE  /\ sock' \in SockType
           /\ sock'[o] = [api |-> api, fd |-> fd, remote |-> remote]
           /\ \A p \in Objects \ {o} : sock'[p] = sock[p]
    BY DEF Becomes, SockType

\* Every step gives one object o a record, and moves o's old descriptor to one
\* of the other places or closes it.
LEMMA Move ==
    ASSUME IInv, NEW o \in Objects, NEW api \in Apis \cup {"none"}, NEW fd \in Fd,
           NEW remote \in BOOLEAN, Becomes(o, api, fd, remote),
           api = "none" => fd = 0,
           table' \in TableType, loose' \subseteq Numbers, lost' \subseteq Numbers,
           nullCall' = nullCall,
           ({fd} \cap Numbers) \cap (FreeIn(table') \cup loose' \cup lost') = {},
           loose' \cap (FreeIn(table') \cup lost') = {},
           lost' \cap FreeIn(table') = {},
           FreeIn(table') \cup loose' \cup lost' \cup ({fd} \cap Numbers)
               = Free \cup loose \cup lost \cup Held(o)
    PROVE  IInv'
<1>1. sock \in SockType /\ SocketsTypeOK /\ DescriptorsOwned /\ AbsentHoldNothing
    BY Types DEF IInv
<1>2. /\ sock' \in SockType
      /\ sock'[o] = [api |-> api, fd |-> fd, remote |-> remote]
      /\ \A p \in Objects \ {o} : sock'[p] = sock[p]
    BY <1>1, OthersHold
<1>3. SocketsTypeOK'
    BY <1>1, <1>2 DEF SocketsTypeOK, SockType, TableType, Fd
<1>4. AbsentHoldNothing'
    BY <1>1, <1>2 DEF AbsentHoldNothing, Live, Apis
<1>5. Held(o)' = {fd} \cap Numbers /\ \A p \in Objects \ {o} : Held(p)' = Held(p)
    BY <1>2 DEF Held
<1>6. Free' = FreeIn(table')
    BY DEF Free, FreeIn
<1>7. \A p \in Objects \ {o} : Held(p) \cap (Free \cup loose \cup lost \cup Held(o)) = {}
    BY <1>1 DEF DescriptorsOwned
<1>8. DescriptorsOwned'
    <2>1. \A p \in Objects : Held(p)' \cap (Free' \cup loose' \cup lost') = {}
        BY <1>5, <1>6, <1>7
    <2>2. \A p, q \in Objects : p # q => Held(p)' \cap Held(q)' = {}
        <3> SUFFICES ASSUME NEW p \in Objects, NEW q \in Objects, p # q
                     PROVE  Held(p)' \cap Held(q)' = {}
            OBVIOUS
        <3>1. CASE p # o /\ q # o
            BY <3>1, <1>1, <1>5 DEF DescriptorsOwned
        <3>2. CASE p = o
            BY <3>2, <1>5, <1>7
        <3>3. CASE q = o
            BY <3>3, <1>5, <1>7
        <3> QED
            BY <3>1, <3>2, <3>3
    <2>3. \A f \in Numbers \ (Free' \cup loose' \cup lost') : \E p \in Objects : f \in Held(p)'
        <3> SUFFICES ASSUME NEW f \in Numbers, f \notin Free' \cup loose' \cup lost'
                     PROVE  \E p \in Objects : f \in Held(p)'
            OBVIOUS
        <3>1. CASE f = fd
            BY <3>1, <1>5
        <3>2. CASE f # fd
            <4>1. f \notin Free \cup loose \cup lost \cup Held(o)
                BY <3>2, <1>6
            <4>2. PICK p \in Objects : f \in Held(p)
                BY <4>1, <1>1 DEF DescriptorsOwned
            <4> QED
                BY <4>1, <4>2, <1>5
        <3> QED
            BY <3>1, <3>2
    <2> QED
        BY <2>1, <2>2, <2>3, <1>6 DEF DescriptorsOwned
<1> QED
    BY <1>3, <1>4, <1>8 DEF IInv

LEMMA ClosedFrees ==
    ASSUME SocketsTypeOK, NEW fd \in Fd
    PROVE  Closed(fd) \in TableType /\ FreeIn(Closed(fd)) = Free \cup ({fd} \cap Numbers)
    BY DEF SocketsTypeOK, Closed, Free, FreeIn, TableType

\* What drops with the old API object is closed, or counted as lost.
LEMMA DropsAreHeld ==
    ASSUME SocketsTypeOK, NEW o \in Objects
    PROVE  /\ Drops(o) \in TableType
           /\ FreeIn(Drops(o)) = Free \cup (Held(o) \ LostWith(o))
           /\ LostWith(o) \subseteq Held(o)
<1>1. CASE sock[o].api = "udp"
    BY <1>1, ClosedFrees, Types DEF Drops, LostWith, Held
<1>2. CASE sock[o].api # "udp"
    BY <1>2, Types DEF Drops, LostWith, Held, Free, FreeIn
<1> QED
    BY <1>1, <1>2

\* A new descriptor comes from the free ones, and what o held before is free or lost.
LEMMA GivenKeeps ==
    ASSUME IInv, NEW o \in Objects, NEW api \in Apis, NEW t \in TableType,
           NEW st \in {"idle", "linked"}, NEW gone \in SUBSET Held(o),
           FreeIn(t) = Free \cup (Held(o) \ gone),
           Given(o, api, t, st),
           lost' = lost \cup gone, loose' = loose, nullCall' = nullCall
    PROVE  IInv'
<1>0. SocketsTypeOK /\ DescriptorsOwned /\ sock[o].remote \in BOOLEAN
    BY Types DEF IInv
<1>1. api \in Apis \cup {"none"} /\ (api = "none" => FALSE)
    BY DEF Apis
<1>2. Held(o) \cap (Free \cup loose \cup lost) = {} /\ Held(o) \subseteq Numbers
    BY <1>0 DEF DescriptorsOwned, Held
<1>3. loose \cap (Free \cup lost) = {} /\ lost \cap Free = {}
    BY <1>0 DEF DescriptorsOwned
<1>4. loose \subseteq Numbers /\ lost \subseteq Numbers
    BY <1>0 DEF SocketsTypeOK
<1>5. ASSUME NEW f \in Numbers, t[f] = "free", table' = [t EXCEPT ![f] = st],
             Becomes(o, api, f, sock[o].remote)
      PROVE  IInv'
    <2>1. f \in Fd /\ f # 0 /\ f \in FreeIn(t)
        BY <1>5, NoNumbers DEF Fd, FreeIn
    <2>2. table' \in TableType /\ FreeIn(table') = FreeIn(t) \ {f}
        BY <1>5 DEF TableType, FreeIn
    <2>3. {f} \cap Numbers = {f} /\ lost' \subseteq Numbers /\ loose' \subseteq Numbers
        BY <1>2, <1>4, <1>5
    <2>4. ({f} \cap Numbers) \cap (FreeIn(table') \cup loose' \cup lost') = {}
        BY <1>2, <1>3, <1>5, <2>1, <2>2
    <2>5. /\ loose' \cap (FreeIn(table') \cup lost') = {}
          /\ lost' \cap FreeIn(table') = {}
        BY <1>2, <1>3, <2>2
    <2>6. FreeIn(table') \cup loose' \cup lost' \cup ({f} \cap Numbers)
              = Free \cup loose \cup lost \cup Held(o)
        BY <1>5, <2>1, <2>2, <2>3
    <2> QED
        <3>1. /\ api \in Apis \cup {"none"} /\ (api = "none" => f = 0)
              /\ f \in Fd /\ table' \in TableType
              /\ Becomes(o, api, f, sock[o].remote) /\ sock[o].remote \in BOOLEAN
            BY <1>0, <1>1, <1>5, <2>1, <2>2
        <3>2. lost' \subseteq Numbers /\ loose' \subseteq Numbers /\ nullCall' = nullCall
            BY <2>3
        <3> QED
            BY <2>4, <2>5, <2>6, <3>1, <3>2, Move, SMTT(60)
<1>6. ASSUME table' = t, Becomes(o, api, -1, sock[o].remote)
      PROVE  IInv'
    <2>1. -1 \in Fd /\ {-1} \cap Numbers = {}
        BY NoNumbers DEF Fd
    <2> QED
        BY <1>0, <1>1, <1>2, <1>3, <1>4, <1>6, <2>1, Move
<1> QED
    BY <1>5, <1>6 DEF Given

LEMMA StepKeeps ==
    ASSUME IInv, NEW o \in Objects, SocketStep(o)
    PROVE  IInv'
<1>0. /\ SocketsTypeOK /\ DescriptorsOwned /\ AbsentHoldNothing
      /\ table \in TableType /\ sock[o].fd \in Fd /\ sock[o].remote \in BOOLEAN
      /\ Live(o) => sock[o].api \in Apis
    BY Types DEF IInv
<1>1. /\ loose \subseteq Numbers /\ lost \subseteq Numbers /\ Held(o) = {sock[o].fd} \cap Numbers
      /\ Held(o) \cap (Free \cup loose \cup lost) = {}
      /\ loose \cap (Free \cup lost) = {} /\ lost \cap Free = {}
      /\ Free = FreeIn(table)
    BY <1>0 DEF SocketsTypeOK, DescriptorsOwned, Held, Free, FreeIn
<1>2. 0 \in Fd /\ {0} \cap Numbers = {}
    BY NoNumbers DEF Fd
<1>3. ~Live(o) => Held(o) = {}
    BY <1>0, <1>1, <1>2 DEF AbsentHoldNothing
<1>4. CASE New(o)
    BY <1>0, <1>1, <1>2, <1>3, <1>4, Move DEF New, Apis
<1>5. CASE Adopt(o)
    <2>1. PICK f \in loose, api \in Apis, remote \in BOOLEAN :
              Becomes(o, api, f, remote) /\ loose' = loose \ {f}
        BY <1>5 DEF Adopt
    <2>2. f \in Fd /\ {f} \cap Numbers = {f} /\ api \in Apis \cup {"none"} /\ api # "none"
        BY <1>1 DEF Fd, Apis
    <2>3. table' = table /\ lost' = lost /\ nullCall' = nullCall /\ Held(o) = {}
        BY <1>3, <1>5 DEF Adopt
    <2>4. /\ api = "none" => f = 0
          /\ table' \in TableType /\ loose' \subseteq Numbers /\ lost' \subseteq Numbers
        BY <1>0, <1>1, <2>1, <2>2, <2>3
    <2>5. /\ ({f} \cap Numbers) \cap (FreeIn(table') \cup loose' \cup lost') = {}
          /\ loose' \cap (FreeIn(table') \cup lost') = {}
          /\ lost' \cap FreeIn(table') = {}
          /\ FreeIn(table') \cup loose' \cup lost' \cup ({f} \cap Numbers)
                 = Free \cup loose \cup lost \cup Held(o)
        BY <1>1, <2>1, <2>2, <2>3
    <2> QED
        BY <2>1, <2>2, <2>3, <2>4, <2>5, Move
<1>6. CASE Release(o)
    <2>1. /\ Becomes(o, sock[o].api, 0, sock[o].remote)
          /\ sock[o].api \in Apis \cup {"none"} /\ sock[o].api # "none"
          /\ table' = table /\ lost' = lost /\ nullCall' = nullCall
          /\ loose' = loose \cup Held(o)
        BY <1>0, <1>1, <1>6 DEF Release, On, Live, Apis
    <2> QED
        BY <1>0, <1>1, <1>2, <2>1, Move
<1>7. ASSUME On(o), table' = Closed(sock[o].fd), loose' = loose, lost' = lost, nullCall' = nullCall,
             NEW api \in Apis \cup {"none"}, NEW remote \in BOOLEAN, Becomes(o, api, 0, remote)
      PROVE  IInv'
    <2>1. table' \in TableType /\ FreeIn(table') = Free \cup Held(o)
        BY <1>0, <1>1, <1>7, ClosedFrees
    <2> QED
        BY <1>1, <1>2, <1>7, <2>1, Move
<1>8. CASE Close(o)
    BY <1>0, <1>7, <1>8 DEF Close, On, Live
<1>9. CASE Destroy(o)
    BY <1>7, <1>9 DEF Destroy, Becomes, Absent
<1>10. CASE InitSocket(o)
    <2>1. PICK api \in Apis : Given(o, api, Drops(o), "idle")
        BY <1>10 DEF InitSocket
    <2>2. lost' = lost \cup LostWith(o) /\ loose' = loose /\ nullCall' = nullCall
        BY <1>10 DEF InitSocket
    <2> QED
        BY <1>0, <2>1, <2>2, DropsAreHeld, GivenKeeps
<1>11. CASE SocketAgain(o)
    <2>1. Given(o, sock[o].api, table, "idle") /\ sock[o].api \in Apis
        BY <1>0, <1>11 DEF SocketAgain, On
    <2>2. lost' = lost \cup Held(o) /\ loose' = loose /\ nullCall' = nullCall
        BY <1>1, <1>11 DEF SocketAgain
    <2>3. FreeIn(table) = Free \cup (Held(o) \ Held(o))
        BY <1>1
    <2> QED
        BY <1>0, <2>1, <2>2, <2>3, GivenKeeps
<1>12. ASSUME NEW ans \in Objects, AcceptInto(o, ans)
       PROVE  IInv'
    <2>1. Given(ans, "tcp", Drops(ans), "linked")
        BY <1>12 DEF AcceptInto
    <2>2. lost' = lost \cup LostWith(ans) /\ loose' = loose /\ nullCall' = nullCall
        BY <1>12 DEF AcceptInto
    <2>3. "tcp" \in Apis
        BY DEF Apis
    <2> QED
        BY <1>0, <2>1, <2>2, <2>3, DropsAreHeld, GivenKeeps
<1>13. ASSUME NEW st \in {"listening", "linked"}, sock[o].fd \in Numbers,
              table[sock[o].fd] # "free", table' = [table EXCEPT ![sock[o].fd] = st],
              UNCHANGED <<sock, loose, lost, nullCall>>
       PROVE  IInv'
    <2>1. table' \in TableType /\ FreeIn(table') = FreeIn(table)
        BY <1>0, <1>13 DEF TableType, FreeIn
    <2> QED
        BY <1>0, <1>13, <2>1
        DEF IInv, SocketsTypeOK, DescriptorsOwned, AbsentHoldNothing, Live, Held, Free, FreeIn, TableType
<1>14. CASE Listen(o)
    BY <1>13, <1>14 DEF Listen
<1>15. CASE Tell(o)
    <2>1. /\ Becomes(o, sock[o].api, sock[o].fd, TRUE)
          /\ sock[o].api \in Apis \cup {"none"} /\ sock[o].api # "none"
          /\ table' = table /\ lost' = lost /\ nullCall' = nullCall /\ loose' = loose
        BY <1>0, <1>15 DEF Tell, On, Live, Apis
    <2> QED
        BY <1>0, <1>1, <2>1, Move
<1>16. CASE Connect(o)
    <2>1. sock[o].fd \in Numbers /\ sock[o].fd \notin Free
        BY <1>1, <1>16 DEF Connect, Links
    <2> QED
        BY <1>13, <1>16, <2>1 DEF Connect, Links, Free
<1>17. CASE CallsNull(o)
    BY <1>0, <1>17
    DEF CallsNull, IInv, SocketsTypeOK, DescriptorsOwned, AbsentHoldNothing, Live, Held, Free
<1> QED
    BY <1>4, <1>5, <1>6, <1>8, <1>9, <1>10, <1>11, <1>12, <1>14, <1>15, <1>16, <1>17
    DEF SocketStep, Send, Recv, Reconnect

THEOREM Inductive == SocketsSpec => []IInv
<1>1. SocketsInit => IInv
    BY SocketsAssumption
    DEF SocketsInit, IInv, SocketsTypeOK, DescriptorsOwned, AbsentHoldNothing, Absent, Held, Free, Live, Apis
<1>2. IInv /\ [SocketsNext]_socketVars => IInv'
    <2>1. CASE SocketsNext
        BY <2>1, StepKeeps DEF SocketsNext
    <2>2. CASE UNCHANGED socketVars
        BY <2>2 DEF socketVars, IInv, SocketsTypeOK, DescriptorsOwned, AbsentHoldNothing, Held, Free, Live
    <2> QED
        BY <2>1, <2>2
<1> QED
    BY <1>1, <1>2, PTL DEF SocketsSpec

\* For any number of objects and descriptors: no descriptor is closed or given
\* out under somebody else's hands, and none is lost but by initialising,
\* accepting into, or socket() on, an object that holds one.
THEOREM OwnershipSound == SocketsSpec => []DescriptorsOwned
    BY Inductive, PTL DEF IInv
=============================================================================
