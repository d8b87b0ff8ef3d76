--------------------------- MODULE Library_proofs ---------------------------
(***************************************************************************)
(* Theorems about the parts of the libraries that are small enough to be   *)
(* proved side by side: the leak tracer, the configuration, the first      *)
(* socket layer, the asynchronous request pool, the fibers of the base     *)
(* modules, directories, the project generator, loggers, the search for    *)
(* paths, arrays and threads.  Each is for any number of the threads,      *)
(* fibers, requests, commands, names, formats and values that take part.   *)
(***************************************************************************)
EXTENDS Mleak, Config, NetSockets, ReqPool, BaseFiber, ProjectMaker, Logging, PathPrinter,
        Array, Threads, SequenceTheorems, FiniteSetTheorems, WellFoundedInduction, TLAPS

----------------------------------------------------------------------------
(* The leak tracer, Mleak. *)

Hooks == {Outside} \cup [at : {"+", "-"}, ptr : Addresses]
HookTypeOK == hook \in [Tracers -> Hooks]

Allocating(p) == \E t \in Tracers : hook[t] = [at |-> "+", ptr |-> p]
Freeing(p) == \E t \in Tracers : hook[t] = [at |-> "-", ptr |-> p]

\* The file of a free block has somebody who is about to remove it, that of a
\* block in use somebody who is about to make it; and where both are on their
\* way the block is overtaken.
LeakInv ==
    /\ HookTypeOK /\ live \subseteq Addresses
    /\ \A p \in Addresses :
        /\ Allocating(p) => p \in live
        /\ p \in listed => p \in live \/ Freeing(p)
        /\ p \in live => p \in listed \cup overtaken \/ Allocating(p)
        /\ p \in live /\ Freeing(p) => p \in overtaken

\* A hook is left as it is by other threads.
LEMMA OneHookMoves ==
    ASSUME HookTypeOK, NEW t \in Tracers, NEW h \in Hooks,
           hook' = [hook EXCEPT ![t] = h]
    PROVE  HookTypeOK' /\ hook'[t] = h /\ \A o \in Tracers \ {t} : hook'[o] = hook[o]
    BY DEF HookTypeOK

LEMMA MallocKeeps ==
    ASSUME LeakInv, NEW t \in Tracers, MallocHook(t)
    PROVE  LeakInv'
<1>1. PICK p \in Addresses \ live :
        /\ live' = live \cup {p}
        /\ hook' = [hook EXCEPT ![t] = [at |-> "+", ptr |-> p]]
        /\ overtaken' = IF Freeing(p) THEN overtaken \cup {p} ELSE overtaken
    BY DEF MallocHook, Freeing
<1>2. hook[t].at = "outside" /\ listed' = listed
    BY DEF MallocHook, Outside
<1>3. /\ HookTypeOK' /\ hook'[t] = [at |-> "+", ptr |-> p]
      /\ \A o \in Tracers \ {t} : hook'[o] = hook[o]
    BY <1>1, OneHookMoves DEF LeakInv, Hooks
<1>4. ASSUME NEW q \in Addresses
      PROVE  /\ Freeing(q)' <=> Freeing(q)
             /\ Allocating(q)' <=> (q = p \/ Allocating(q))
    BY <1>2, <1>3 DEF Freeing, Allocating
<1> QED
    BY <1>1, <1>2, <1>3, <1>4 DEF LeakInv

LEMMA FreeKeeps ==
    ASSUME LeakInv, NEW t \in Tracers, FreeHook(t)
    PROVE  LeakInv'
<1>1. PICK p \in live :
        /\ ~\E o \in Tracers : hook[o] = [at |-> "+", ptr |-> p]
        /\ live' = live \ {p}
        /\ hook' = [hook EXCEPT ![t] = [at |-> "-", ptr |-> p]]
        /\ overtaken' = overtaken \ {p}
    BY DEF FreeHook
<1>2. hook[t].at = "outside" /\ listed' = listed
    BY DEF FreeHook, Outside
<1>3. /\ HookTypeOK' /\ hook'[t] = [at |-> "-", ptr |-> p]
      /\ \A o \in Tracers \ {t} : hook'[o] = hook[o]
    BY <1>1, OneHookMoves DEF LeakInv, Hooks
<1>4. ASSUME NEW q \in Addresses
      PROVE  /\ Freeing(q)' <=> (q = p \/ Freeing(q))
             /\ Allocating(q)' <=> Allocating(q)
    BY <1>2, <1>3 DEF Freeing, Allocating
<1>5. ~Allocating(p)
    BY <1>1 DEF Allocating
<1> QED
    BY <1>1, <1>2, <1>3, <1>4, <1>5 DEF LeakInv

LEMMA CheckLogKeeps ==
    ASSUME LeakInv, NEW t \in Tracers, WriteCheckLog(t)
    PROVE  LeakInv'
<1>0. PICK p : p = hook[t].ptr
    OBVIOUS
<1>1. /\ live' = live /\ overtaken' = overtaken
      /\ hook' = [hook EXCEPT ![t] = Outside]
      /\ listed' = IF hook[t].at = "+" THEN listed \cup {p} ELSE listed \ {p}
    BY <1>0 DEF WriteCheckLog, Recorded
<1>2. hook[t].at \in {"+", "-"} /\ hook[t] = [at |-> hook[t].at, ptr |-> p]
    BY <1>0 DEF WriteCheckLog, LeakInv, HookTypeOK, Hooks
<1>3. /\ HookTypeOK' /\ hook'[t] = Outside
      /\ \A o \in Tracers \ {t} : hook'[o] = hook[o]
    BY <1>1, OneHookMoves DEF LeakInv, Hooks
<1>4. ASSUME NEW q \in Addresses
      PROVE  /\ Freeing(q)' => Freeing(q)
             /\ Allocating(q)' => Allocating(q)
             /\ q # p => (Freeing(q) => Freeing(q)') /\ (Allocating(q) => Allocating(q)')
    BY <1>2, <1>3 DEF Freeing, Allocating, Outside
<1>5. CASE hook[t].at = "+"
    <2>1. p \in Addresses => Allocating(p) /\ p \in live
        BY <1>2, <1>5 DEF Allocating, LeakInv
    <2> QED
        BY <1>1, <1>3, <1>4, <1>5, <2>1 DEF LeakInv
<1>6. CASE hook[t].at = "-"
    <2>1. p \in Addresses => Freeing(p)
        BY <1>2, <1>6 DEF Freeing
    <2>2. hook[t] # [at |-> "+", ptr |-> p] /\ hook'[t] # [at |-> "+", ptr |-> p]
        BY <1>3, <1>6 DEF Outside
    <2>3. Allocating(p)' <=> Allocating(p)
        BY <1>3, <2>2 DEF Allocating
    <2> QED
        BY <1>1, <1>3, <1>4, <1>6, <2>1, <2>3 DEF LeakInv
<1> QED
    BY <1>2, <1>5, <1>6

\* Outside the hooks, the files list no freed block, and all blocks but those that
\* were given an address before its file had gone.
THEOREM LeaksAreListed == LeakSpec => []LeaksListed
<1>1. LeakInit => LeakInv
    BY DEF LeakInit, LeakInv, HookTypeOK, Hooks, Outside, Allocating, Freeing
<1>2. LeakInv /\ [LeakNext]_leakVars => LeakInv'
    <2> SUFFICES ASSUME LeakInv, [LeakNext]_leakVars PROVE LeakInv'
        OBVIOUS
    <2>1. CASE LeakNext
        BY <2>1, MallocKeeps, FreeKeeps, CheckLogKeeps DEF LeakNext
    <2>2. CASE UNCHANGED leakVars
        BY <2>2 DEF leakVars, LeakInv, HookTypeOK, Allocating, Freeing
    <2> QED
        BY <2>1, <2>2
<1>3. LeakInv => LeaksListed
    <2> SUFFICES ASSUME LeakInv, NEW p \in Addresses, \A t \in Tracers : hook[t].ptr # p
                 PROVE  ~Allocating(p) /\ ~Freeing(p)
        BY DEF LeakInv, LeaksListed
    <2> QED
        BY DEF Allocating, Freeing
<1> QED
    BY <1>1, <1>2, <1>3, PTL DEF LeakSpec

----------------------------------------------------------------------------
(* The configuration, Config. *)

VarObjects == 1..MaxVars
AnyValue == Defaults \cup {Misread}
Stages == {"find", "made", "insert", "findAgain"}
Lookings == {Away} \cup [at : Stages, name : Names, default : Defaults, var : 0..MaxVars]

ConfigTypeOK ==
    /\ s_datas \in [Names -> 0..MaxVars] /\ made \in 0..MaxVars
    /\ m_val \in [VarObjects -> AnyValue] /\ firstValue \in [VarObjects -> AnyValue]
    /\ looking \in [Users -> Lookings]
    /\ holds \in [Users -> [Names -> SUBSET (0..MaxVars)]]

\* What a thread was given is in the map, and stays there: whoever is about to
\* look again will find something, and what is about to go in was made.
ConfigInv ==
    /\ ConfigTypeOK
    /\ \A u \in Users, n \in Names : holds[u][n] # {} => holds[u][n] = {s_datas[n]} /\ s_datas[n] # 0
    /\ \A u \in Users : looking[u].at \in {"made", "insert"} => looking[u].var # 0
    /\ \A u \in Users : looking[u].at = "findAgain" => s_datas[looking[u].name] # 0
    /\ \A v \in VarObjects : m_val[v] \in {firstValue[v], Misread}

\* A thread inside LookUp has a name, a default, and perhaps an object.
LEMMA LookingInside ==
    ASSUME ConfigTypeOK, NEW u \in Users, looking[u].at # "away"
    PROVE  looking[u].name \in Names /\ looking[u].default \in Defaults /\ looking[u].var \in 0..MaxVars
    BY DEF ConfigTypeOK, Lookings, Away

\* What one thread does in LookUp the others do not notice.
LEMMA LookingMoves ==
    ASSUME ConfigTypeOK, NEW u \in Users, looking[u].at # "away", NEW at \in Stages,
           NEW v \in 0..MaxVars, looking' = [looking EXCEPT ![u] = GoesOn(u, at, v)]
    PROVE  /\ looking' \in [Users -> Lookings]
           /\ looking'[u].at = at /\ looking'[u].name = looking[u].name /\ looking'[u].var = v
           /\ \A w \in Users \ {u} : looking'[w] = looking[w]
<1>1. GoesOn(u, at, v) \in Lookings
    BY LookingInside DEF Lookings, GoesOn, InLookUp
<1>2. looking' \in [Users -> Lookings] /\ looking'[u] = GoesOn(u, at, v)
      /\ \A w \in Users \ {u} : looking'[w] = looking[w]
    BY <1>1 DEF ConfigTypeOK
<1> QED
    BY <1>2 DEF GoesOn, InLookUp

LEMMA LookUpKeeps ==
    ASSUME ConfigInv, NEW u \in Users, LookUp(u)
    PROVE  ConfigInv'
<1>1. PICK n \in Names, d \in Defaults : looking' = [looking EXCEPT ![u] = InLookUp("find", n, d, 0)]
    BY DEF LookUp, Accesses
<1>2. UNCHANGED <<s_datas, m_val, made, holds, firstValue>>
    BY DEF LookUp
<1>3. looking' \in [Users -> Lookings] /\ looking'[u].at = "find"
      /\ \A w \in Users \ {u} : looking'[w] = looking[w]
    BY <1>1, ConfigAssumption DEF ConfigInv, ConfigTypeOK, Lookings, Stages, InLookUp
<1>4. ConfigTypeOK'
    BY <1>2, <1>3 DEF ConfigInv, ConfigTypeOK
<1> QED
    BY <1>2, <1>3, <1>4 DEF ConfigInv

LEMMA GivesKeeps ==
    ASSUME ConfigInv, NEW u \in Users, looking[u] # Away, s_datas[looking[u].name] # 0, Gives(u),
           UNCHANGED <<s_datas, m_val, made, firstValue>>
    PROVE  ConfigInv'
<1>1. PICK n \in Names : n = looking[u].name
    BY DEF ConfigInv, ConfigTypeOK, Lookings
<1>2. /\ looking' = [looking EXCEPT ![u] = Away]
      /\ holds' = [holds EXCEPT ![u][n] = @ \cup {s_datas[n]}]
    BY <1>1 DEF Gives
<1>3. ConfigTypeOK'
    BY <1>2 DEF ConfigInv, ConfigTypeOK, Lookings
<1>4. ASSUME NEW w \in Users, NEW m \in Names, holds[w][m]' # {}
      PROVE  holds[w][m]' = {s_datas[m]} /\ s_datas[m] # 0
    <2>1. holds[w][m]' = IF w = u /\ m = n THEN holds[w][m] \cup {s_datas[n]} ELSE holds[w][m]
        BY <1>2 DEF ConfigInv, ConfigTypeOK
    <2> QED
        BY <1>1, <1>4, <2>1 DEF ConfigInv
<1> QED
    BY <1>2, <1>3, <1>4 DEF ConfigInv, ConfigTypeOK, Away

LEMMA FoundKeeps ==
    ASSUME ConfigInv, NEW u \in Users, Found(u)
    PROVE  ConfigInv'
<1>1. looking[u].at = "find" /\ looking[u] # Away /\ s_datas' = s_datas
    BY DEF Found, Away
<1>2. CASE s_datas[looking[u].name] # 0
    BY <1>1, <1>2, GivesKeeps DEF Found
<1>3. CASE s_datas[looking[u].name] = 0
    <2>1. PICK d \in Defaults : d = looking[u].default
        BY <1>1, LookingInside DEF ConfigInv
    <2>2. /\ made < MaxVars /\ made' = made + 1 /\ holds' = holds
          /\ m_val' = [m_val EXCEPT ![made'] = d]
          /\ firstValue' = [firstValue EXCEPT ![made'] = d]
          /\ looking' = [looking EXCEPT ![u] = GoesOn(u, "made", made')]
        BY <1>3, <2>1 DEF Found
    <2>3. made' \in VarObjects /\ made' \in 0..MaxVars /\ made' # 0
        BY <2>2, ConfigAssumption DEF ConfigInv, ConfigTypeOK, VarObjects
    <2>4. /\ looking' \in [Users -> Lookings]
          /\ looking'[u].at = "made" /\ looking'[u].var = made'
          /\ \A w \in Users \ {u} : looking'[w] = looking[w]
        BY <1>1, <2>2, <2>3, LookingMoves DEF ConfigInv, Stages
    <2>5. ConfigTypeOK'
        BY <1>1, <2>2, <2>3, <2>4 DEF ConfigInv, ConfigTypeOK, AnyValue
    <2>6. \A v \in VarObjects : m_val'[v] \in {firstValue'[v], Misread}
        BY <2>2 DEF ConfigInv, ConfigTypeOK
    <2>7. \A w \in Users, n \in Names :
            holds'[w][n] # {} => holds'[w][n] = {s_datas'[n]} /\ s_datas'[n] # 0
        BY <1>1, <2>2 DEF ConfigInv
    <2>8. \A w \in Users : looking'[w].at \in {"made", "insert"} => looking'[w].var # 0
        BY <2>3, <2>4 DEF ConfigInv
    <2>9. \A w \in Users : looking'[w].at = "findAgain" => s_datas'[looking'[w].name] # 0
        BY <1>1, <2>4 DEF ConfigInv
    <2> QED
        BY <2>5, <2>6, <2>7, <2>8, <2>9 DEF ConfigInv
<1> QED
    BY <1>2, <1>3

LEMMA InsertKeeps ==
    ASSUME ConfigInv, NEW u \in Users, Insert(u)
    PROVE  ConfigInv'
<1>1. /\ looking' = [looking EXCEPT ![u] = GoesOn(u, "insert", looking[u].var)]
      /\ looking[u].at = "made" /\ UNCHANGED <<s_datas, m_val, made, holds, firstValue>>
    BY DEF Insert, Accesses
<1>2. looking[u].var \in 0..MaxVars /\ looking[u].var # 0
    BY <1>1, LookingInside DEF ConfigInv
<1>3. /\ looking' \in [Users -> Lookings]
      /\ looking'[u].at = "insert" /\ looking'[u].var # 0
      /\ \A w \in Users \ {u} : looking'[w] = looking[w]
    BY <1>1, <1>2, LookingMoves DEF ConfigInv, Stages
<1>4. ConfigTypeOK'
    BY <1>1, <1>3 DEF ConfigInv, ConfigTypeOK
<1> QED
    BY <1>1, <1>3, <1>4 DEF ConfigInv

LEMMA InsertedKeeps ==
    ASSUME ConfigInv, NEW u \in Users, Inserted(u)
    PROVE  ConfigInv'
<1>1. /\ looking[u].at = "insert" /\ UNCHANGED <<m_val, made, holds, firstValue>>
      /\ looking' = [looking EXCEPT ![u] = GoesOn(u, "findAgain", looking[u].var)]
    BY DEF Inserted, Accesses
<1>2. PICK n \in Names, v \in 0..MaxVars : n = looking[u].name /\ v = looking[u].var /\ v # 0
    BY <1>1, LookingInside DEF ConfigInv
<1>3. s_datas' = [s_datas EXCEPT ![n] = IF s_datas[n] = 0 THEN v ELSE s_datas[n]]
    BY <1>2 DEF Inserted, Kept
<1>4. /\ s_datas' \in [Names -> 0..MaxVars] /\ s_datas'[n] # 0
      /\ \A m \in Names : s_datas[m] # 0 => s_datas'[m] = s_datas[m]
    BY <1>2, <1>3 DEF ConfigInv, ConfigTypeOK
<1>5. /\ looking' \in [Users -> Lookings]
      /\ looking'[u].at = "findAgain" /\ looking'[u].name = n
      /\ \A w \in Users \ {u} : looking'[w] = looking[w]
    BY <1>1, <1>2, LookingMoves DEF ConfigInv, Stages
<1>6. ConfigTypeOK'
    BY <1>1, <1>4, <1>5 DEF ConfigInv, ConfigTypeOK
<1>7. ASSUME NEW w \in Users, looking'[w].at = "findAgain"
      PROVE  s_datas'[looking'[w].name] # 0
    <2>1. CASE w = u
        BY <1>4, <1>5, <2>1
    <2>2. CASE w # u
        <3>1. looking'[w] = looking[w]
            BY <1>5, <2>2
        <3>2. looking[w].name \in Names
            BY <1>7, <3>1, LookingInside DEF ConfigInv
        <3> QED
            BY <1>4, <1>7, <3>1, <3>2 DEF ConfigInv
    <2> QED
        BY <2>1, <2>2
<1> QED
    BY <1>1, <1>4, <1>5, <1>6, <1>7 DEF ConfigInv

LEMMA FromStringKeeps ==
    ASSUME ConfigInv, NEW u \in Users, FromString(u)
    PROVE  ConfigInv'
<1>1. PICK v : m_val' = [m_val EXCEPT ![v] = Misread]
    BY DEF FromString
<1>2. UNCHANGED <<s_datas, made, looking, holds, firstValue>>
    BY DEF FromString
<1> QED
    BY <1>1, <1>2 DEF ConfigInv, ConfigTypeOK, AnyValue

\* All who look a name up share the variable that is in the map, however their
\* calls overlap, as long as no insertion overlaps another access.
THEOREM LookUpShares == ConfigSpec => []LookUpAgrees
<1>1. ConfigInit => ConfigInv
    BY ConfigAssumption DEF ConfigInit, ConfigInv, ConfigTypeOK, VarObjects, AnyValue, Lookings, Away
<1>2. ConfigInv /\ [ConfigNext]_configVars => ConfigInv'
    <2> SUFFICES ASSUME ConfigInv, [ConfigNext]_configVars PROVE ConfigInv'
        OBVIOUS
    <2>1. CASE UNCHANGED configVars
        BY <2>1 DEF configVars, ConfigInv, ConfigTypeOK
    <2>2. ASSUME NEW u \in Users, FoundAgain(u) PROVE ConfigInv'
        BY <2>2, GivesKeeps DEF FoundAgain, ConfigInv, Away
    <2>3. ASSUME NEW u \in Users, SetVal(u) PROVE ConfigInv'
        BY <2>1, <2>3 DEF SetVal
    <2> QED
        BY <2>1, <2>2, <2>3, LookUpKeeps, FoundKeeps, InsertKeeps, InsertedKeeps, FromStringKeeps DEF ConfigNext
<1>3. ConfigInv => LookUpAgrees
    <2> SUFFICES ASSUME ConfigInv, NEW n \in Names, NEW u \in Users, NEW v \in holds[u][n]
                 PROVE  /\ UNION {holds[w][n] : w \in Users} = {v}
                        /\ v = s_datas[n] /\ m_val[v] \in {firstValue[v], Misread}
        BY DEF LookUpAgrees
    <2>1. v = s_datas[n] /\ v \in VarObjects
        BY ConfigAssumption DEF ConfigInv, ConfigTypeOK, VarObjects
    <2>2. \A w \in Users : holds[w][n] \in {{}, {v}}
        BY <2>1 DEF ConfigInv
    <2> QED
        BY <2>1, <2>2 DEF ConfigInv
<1> QED
    BY <1>1, <1>2, <1>3, PTL DEF ConfigSpec

----------------------------------------------------------------------------
(* The first socket layer, NetSockets. *)

\* Inductive: what is cached of the remote end is a peer of the past, which is
\* why reconnect() meets nobody new.
CacheIsMet ==
    /\ met \subseteq NetPeers /\ m_remote_addr \in met \cup {NoAddress}
    /\ m_is_connected => m_sock \in NetPeers
    /\ m_sock \in NetPeers => m_sock \in met
\* The local address was the truth of the present socket, unless it was asked
\* for before there was a port or is left from an earlier socket.
CacheIsLocal ==
    /\ ~reused => m_local_addr \in {localPort, 0, NoAddress}
    /\ restored => m_is_connected /\ m_sock = m_remote_addr /\ m_local_addr \in {localPort, NoAddress}

NetInv == CacheIsMet /\ CacheIsLocal

LEMMA NetValues ==
    /\ NoAddress \notin NetPeers
    /\ NetPeers \cap {"none", "idle", "listening"} = {}
    BY NetAssumption DEF NetAssumption

LEMMA LinksKeeps ==
    ASSUME NetInv, NEW p \in NetPeers, NEW local, NetLinks(p, local),
           met' = met \cup {p}
    PROVE  /\ CacheIsMet'
           /\ ~restored' /\ UNCHANGED reused /\ local = m_local_addr => CacheIsLocal'
           /\ local = NoAddress /\ p = m_remote_addr => CacheIsLocal'
<1>1. /\ m_sock' = p /\ m_is_connected' = TRUE /\ localPort' \in Ports \cup {localPort}
      /\ localPort' = localPort \/ localPort = 0
      /\ m_remote_addr' \in IF m_remote_addr # NoAddress THEN {m_remote_addr} ELSE {p, NoAddress}
      /\ m_local_addr' \in IF local # NoAddress THEN {local} ELSE {localPort', NoAddress}
  BY DEF NetLinks, Filled
<1>2. CacheIsMet'
  BY <1>1, NetValues DEF NetInv, CacheIsMet
<1>3. ASSUME ~restored', UNCHANGED reused, local = m_local_addr PROVE CacheIsLocal'
  BY <1>1, <1>3 DEF NetInv, CacheIsLocal
<1>4. ASSUME local = NoAddress, p = m_remote_addr PROVE CacheIsLocal'
  BY <1>1, <1>4, NetValues DEF CacheIsLocal
<1> QED
  BY <1>2, <1>3, <1>4

LEMMA FailsKeeps ==
    ASSUME NetInv, NEW local, NetFails(local), UNCHANGED m_remote_addr,
           local = NoAddress \/ (local = m_local_addr /\ reused' = (reused \/ localPort # 0))
    PROVE  NetInv'
  BY NetValues DEF NetFails, NetInv, CacheIsMet, CacheIsLocal

LEMMA ConnectKeeps ==
    ASSUME NetInv, NetConnect
    PROVE  NetInv'
<1>1. ASSUME NEW p \in NetPeers, NetLinks(p, m_local_addr), met' = met \cup {p},
             restored' = FALSE, UNCHANGED reused
      PROVE  NetInv'
  BY <1>1, LinksKeeps DEF NetInv
<1>2. CASE NetFails(m_local_addr) /\ UNCHANGED m_remote_addr /\ reused' = (reused \/ localPort # 0)
  BY <1>2, FailsKeeps
<1>3. CASE /\ Invalid /\ m_sock' = "idle" /\ restored' = FALSE
           /\ UNCHANGED <<localPort, m_is_connected, m_remote_addr, m_local_addr, met, reused>>
  BY <1>3, NetValues DEF Invalid, NetInv, CacheIsMet, CacheIsLocal
<1> QED
  BY <1>1, <1>2, <1>3 DEF NetConnect

LEMMA ReconnectKeeps ==
    ASSUME NetInv, NetReconnect
    PROVE  NetInv'
<1>1. CASE NetLinks(m_remote_addr, NoAddress) /\ UNCHANGED met
  <2>1. m_remote_addr \in NetPeers /\ met' = met \cup {m_remote_addr}
    BY <1>1 DEF NetReconnect, NetInv, CacheIsMet
  <2> QED
    BY <1>1, <2>1, LinksKeeps DEF NetInv
<1>2. CASE NetFails(NoAddress) /\ UNCHANGED m_remote_addr
  BY <1>2, FailsKeeps
<1> QED
  BY <1>1, <1>2 DEF NetReconnect

\* For any peers and ports, whatever was bound, connected, closed and asked for
\* in between: reconnect() never leads to a peer the object has not met, and a
\* cached address of a connected object is wrong only for one of the reasons
\* that AddressesExplained names, and for none after reconnect().
THEOREM AddressesSound == NetSpec => []AddressesExplained
<1>1. NetInit => NetInv
    BY NetValues DEF NetInit, NetInv, CacheIsLocal, CacheIsMet
<1>2. NetInv /\ [NetNext]_netVars => NetInv'
    <2> SUFFICES ASSUME NetInv, [NetNext]_netVars PROVE NetInv'
        OBVIOUS
    <2>1. CASE Accepted
        <3>1. PICK p \in NetPeers, n \in Ports :
                /\ m_sock' = p /\ localPort' = n /\ met' = {p}
                /\ m_remote_addr' \in Filled(m_remote_addr, p)
                /\ m_local_addr' \in Filled(m_local_addr, n)
            BY <2>1 DEF Accepted
        <3> QED
            BY <2>1, <3>1, NetValues DEF Accepted, NetInv, CacheIsLocal, CacheIsMet, Invalid, Filled
    <2>2. CASE NetClose
        BY <2>2, NetValues DEF NetClose, NetInv, CacheIsLocal, CacheIsMet
    <2>3. CASE NetBind
        BY <2>3, NetValues DEF NetBind, NetInv, CacheIsLocal, CacheIsMet, Invalid, Filled
    <2>4. CASE NetListen
        BY <2>4, NetValues DEF NetListen, NetInv, CacheIsLocal, CacheIsMet
    <2>5. CASE NetAddresses
        BY <2>5, NetValues DEF NetAddresses, NetInv, CacheIsLocal, CacheIsMet, Invalid, Filled
    <2>6. CASE UNCHANGED netVars
        BY <2>6 DEF netVars, NetInv, CacheIsLocal, CacheIsMet
    <2> QED
        BY <2>1, <2>2, <2>3, <2>4, <2>5, <2>6, ConnectKeeps, ReconnectKeeps DEF NetNext
<1>3. NetInv => AddressesExplained
    BY NetValues DEF NetInv, CacheIsLocal, CacheIsMet, AddressesExplained
<1> QED
    BY <1>1, <1>2, <1>3, PTL DEF NetSpec
----------------------------------------------------------------------------
(* The request pool, ReqPool. *)

NoBuffer == CHOOSE b \in Buffers : TRUE
RequestRecord == [pc : {"new", "sent", "armed", "refused", "stranded", "gone"}, tcp : BOOLEAN,
                  buf : Buffers \cup {NoBuffer}, server : {"silent", "answered", "ended"}]
ThreadRecord == [pc : {"wait", "pick", "recv", "store", "call", "ended", "fault"},
                 batch : SUBSET Requests, cur : SUBSET Requests, got : -1..BufferSize]
Cells == [1..BufferSize -> SUBSET Requests]
SeenRecord == [len : -1..BufferSize, got : -1..BufferSize, cells : Cells, late : BOOLEAN]

ReqTypeOK ==
    /\ request \in [Requests -> RequestRecord]
    /\ \A r \in Requests : request[r].pc # "new" => request[r].buf \in Buffers
    /\ inbox \in [Requests -> Seq(Nat \cup {ERROR, CLOSED})]
    /\ events \subseteq Requests
    /\ buffer \in [Buffers -> Cells] /\ len \in [Buffers -> -1..BufferSize]
    /\ thread \in ThreadRecord
    /\ ending \in {"no", "closed", "cancelled"}
    /\ seen \in [Requests -> Seq(SeenRecord)]

\* recv has answered for r, its callback was not called yet.
Received(r) == thread.pc \in {"store", "call"} /\ r \in thread.cur
Expects(r) == request[r].pc \in {"sent", "armed"} /\ ~Received(r)

\* What is in a queue is a reply, the end of the connection, or both.
QueuesInv ==
    \A r \in Requests :
        /\ request[r].pc = "new" => inbox[r] = <<>>
        /\ Expects(r) =>
            /\ request[r].server = "silent" => inbox[r] = <<>>
            /\ request[r].server = "answered" => Len(inbox[r]) = 1 /\ inbox[r][1] \in Nat
            /\ request[r].server = "ended" =>
                    Len(inbox[r]) = 1 \/ (Len(inbox[r]) = 2 /\ inbox[r][1] \in Nat)

\* Who has something to receive is in the pool's hands, in two of its places only
\* when there are two things to receive.
Hands == events \cup thread.batch \cup thread.cur
HandsInv ==
    /\ \A r \in Hands : Armed(r)
    /\ thread.batch \cap thread.cur = {} /\ \A q, r \in thread.cur : q = r
    /\ thread.pc \in {"wait", "pick"} => thread.cur = {}
    /\ thread.pc = "wait" => thread.batch = {}
    /\ \A r \in Requests : Armed(r) /\ Expects(r) => (inbox[r] # <<>> <=> r \in Hands)
    /\ \A r \in events : r \in thread.batch \cup thread.cur /\ Expects(r) => Len(inbox[r]) = 2

\* From recv to the callback: the cells are there, and the length stays unless
\* another request is given the buffer.  After an error nothing more will come.
GotInv ==
    \A r \in Requests : Received(r) =>
        /\ thread.got = ERROR => thread.pc = "store" /\ request[r].server = "ended" /\ r \notin events
        /\ \A k \in 1..thread.got : buffer[BufferOf(r)][k] = {r}
        /\ thread.pc = "call" => Shares(r) \/ len[BufferOf(r)] = thread.got

\* A length of (size_t)-1 was left by a request that is stranded.
LengthInv ==
    /\ \A b \in Buffers : len[b] = ERROR => \E r \in Requests : request[r].pc = "stranded" /\ BufferOf(r) = b
    /\ thread.pc = "recv" => \A r \in thread.cur : len[BufferOf(r)] # ERROR

\* Who was called is gone; a late call was the last.
SeenInv ==
    /\ \A r \in Requests : seen[r] # <<>> => request[r].pc = "gone"
    /\ \A r \in Requests : \A i \in DOMAIN seen[r] :
        seen[r][i].late => ending = "cancelled" /\ thread.pc \notin {"store", "call"}

ReqInv ==
    /\ ReqTypeOK /\ QueuesInv /\ HandsInv /\ GotInv /\ LengthInv /\ SeenInv
    /\ AnswersFit /\ NoneForgotten

LEMMA HandsForgetNone ==
    ASSUME HandsInv', NEW r \in Requests, Armed(r)', inbox'[r] # <<>>
    PROVE  r \in Hands'
BY DEF HandsInv, Armed, Expects, Received, Hands

\* A step that calls no callback leaves what callbacks were given as it was.
LEMMA CalledStay ==
    ASSUME ReqInv, seen' = seen,
           \A q \in Requests : request[q].pc # "new" => request'[q].pc # "new" /\ request'[q].buf = request[q].buf
    PROVE  /\ AnswersFit'
           /\ \A r \in Requests : request[r].pc # "new" /\ Shares(r) => Shares(r)'
<1>1. \A r \in Requests : request[r].pc # "new" /\ Shares(r) => Shares(r)'
  BY DEF Shares, BufferOf
<1>2. ASSUME NEW r \in Requests, NEW i \in DOMAIN seen[r]
      PROVE  seen[r] # <<>> /\ request[r].pc = "gone"
  <2>1. seen[r] # <<>>
    OBVIOUS
  <2> QED
    BY <2>1 DEF ReqInv, SeenInv
<1>3. \A r \in Requests : Len(seen[r]) <= 1
  BY DEF ReqInv, AnswersFit
<1>4. ASSUME NEW r \in Requests, NEW i \in DOMAIN seen[r]
      PROVE  /\ \A k \in 1..Smaller(seen[r][i].len, seen[r][i].got) : seen[r][i].cells[k] = {r}
             /\ ~Shares(r)' => seen[r][i].len = seen[r][i].got
  BY <1>1, <1>2 DEF ReqInv, AnswersFit
<1> QED
  BY <1>1, <1>3, <1>4 DEF AnswersFit

LEMMA NoCallKeeps ==
    ASSUME ReqInv, seen' = seen,
           \A q \in Requests : request[q].pc # "new" => request'[q].pc # "new" /\ request'[q].buf = request[q].buf,
           \A q \in Requests : request[q].pc = "gone" => request'[q].pc = "gone",
           ending = "cancelled" => ending' = "cancelled" /\ (thread'.pc \in {"store", "call"} => thread.pc \in {"store", "call"}),
           ReqTypeOK', QueuesInv', HandsInv', GotInv', LengthInv',
           thread'.pc = "fault" => \E r \in Requests : request'[r].pc = "stranded" /\ Shares(r)'
    PROVE  ReqInv'
<1>1. AnswersFit'
  BY CalledStay
<1>2. SeenInv'
  BY DEF ReqInv, SeenInv
<1>3. NoneForgotten'
  <2>1. \A q, r \in Requests : q # r =>
            ~\E s \in {seen'[q][i] : i \in DOMAIN seen'[q]}, t \in {seen'[r][i] : i \in DOMAIN seen'[r]} :
                s.late /\ t.late
    BY DEF ReqInv, NoneForgotten
  <2>2. \A r \in Requests : Armed(r)' /\ inbox'[r] # <<>> => r \in Hands'
    BY HandsForgetNone
  <2> QED
    BY <2>1, <2>2 DEF NoneForgotten, Hands
<1> QED
  BY <1>1, <1>2, <1>3 DEF ReqInv

\* The callers' steps.
LEMMA CommitSendKeeps ==
    ASSUME ReqInv, NEW r \in Requests, CommitSend(r)
    PROVE  ReqInv'
<1>1. /\ request[r].pc = "new" /\ thread.pc # "fault"
      /\ UNCHANGED <<events, buffer, thread, ending, seen>>
  BY DEF CommitSend, Lives
<1>2. PICK b \in Buffers, rec \in RequestRecord :
        /\ request' = [request EXCEPT ![r] = rec] /\ rec.buf = b
        /\ \/ rec.pc = "gone"
           \/ rec.pc = "sent" /\ rec.server = "silent" /\ inbox' = inbox
           \/ rec.pc = "sent" /\ rec.server = "ended" /\ inbox' = [inbox EXCEPT ![r] = <<CLOSED>>]
        /\ \/ inbox' = inbox
           \/ inbox' = [inbox EXCEPT ![r] = <<CLOSED>>]
        /\ len' = [len EXCEPT ![b] = BufferSize]
  <2>1. PICK b \in Buffers, tcp \in BOOLEAN, end \in {"sent", "failed", "gone"} :
        /\ request' = [request EXCEPT ![r] =
                [pc |-> IF end = "gone" THEN "gone" ELSE "sent",
                 tcp |-> tcp, buf |-> b,
                 server |-> IF end = "sent" THEN "silent" ELSE "ended"]]
        /\ len' = [len EXCEPT ![b] = BufferSize]
        /\ inbox' = [inbox EXCEPT ![r] = IF end = "failed" THEN <<CLOSED>> ELSE @]
    BY DEF CommitSend
  <2>2. end # "failed" => inbox' = inbox
    BY <2>1 DEF ReqInv, ReqTypeOK
  <2>3. [pc |-> IF end = "gone" THEN "gone" ELSE "sent", tcp |-> tcp, buf |-> b,
         server |-> IF end = "sent" THEN "silent" ELSE "ended"] \in RequestRecord
    BY DEF RequestRecord
  <2> QED
    BY <2>1, <2>2, <2>3
<1>3. ReqTypeOK /\ QueuesInv /\ HandsInv /\ GotInv /\ LengthInv
  BY DEF ReqInv
<1>4. /\ request'[r] = rec /\ \A q \in Requests \ {r} : request'[q] = request[q]
      /\ inbox[r] = <<>> /\ inbox'[r] \in {<<>>, <<CLOSED>>} /\ \A q \in Requests \ {r} : inbox'[q] = inbox[q]
      /\ rec.pc = "sent" => \/ rec.server = "silent" /\ inbox'[r] = <<>>
                            \/ rec.server = "ended" /\ inbox'[r] = <<CLOSED>>
      /\ len'[b] = BufferSize /\ \A c \in Buffers \ {b} : len'[c] = len[c]
      /\ BufferSize # ERROR /\ BufferSize \in -1..BufferSize
  BY <1>1, <1>2, <1>3, ReqPoolAssumption DEF ReqTypeOK, QueuesInv, ERROR
<1>5. ReqTypeOK'
  <2>1. request' \in [Requests -> RequestRecord] /\ len' \in [Buffers -> -1..BufferSize]
    BY <1>2, <1>3, <1>4 DEF ReqTypeOK
  <2>2. inbox' \in [Requests -> Seq(Nat \cup {ERROR, CLOSED})]
    <3>1. <<CLOSED>> \in Seq(Nat \cup {ERROR, CLOSED})
      OBVIOUS
    <3> QED
      BY <1>2, <1>3, <3>1 DEF ReqTypeOK
  <2>3. \A q \in Requests : request'[q].pc # "new" => request'[q].buf \in Buffers
    BY <1>2, <1>3, <1>4 DEF ReqTypeOK
  <2> QED
    BY <1>1, <1>3, <2>1, <2>2, <2>3 DEF ReqTypeOK
<1>6. /\ Hands' = Hands /\ r \notin Hands /\ \A q \in Requests : Received(q)' <=> Received(q)
      /\ ~Received(r) /\ ~Received(r)'
  BY <1>1, <1>3 DEF Hands, HandsInv, Armed, Received
<1>7. QueuesInv'
  <2>1. ASSUME NEW q \in Requests, q # r
        PROVE  request'[q] = request[q] /\ inbox'[q] = inbox[q] /\ (Expects(q)' <=> Expects(q))
    BY <1>4, <1>6, <2>1 DEF Expects
  <2>2. Len(<<CLOSED>>) = 1
    OBVIOUS
  <2> QED
    BY <1>2, <1>3, <1>4, <2>1, <2>2 DEF QueuesInv, Expects
<1>8. HandsInv'
  <2>1. \A q \in Requests : Armed(q)' => Armed(q) /\ q # r
    BY <1>2, <1>4 DEF Armed
  <2>2. \A q \in Hands : Armed(q)' /\ q \in Requests
    <3>1. \A q \in Hands : q \in Requests /\ q # r /\ Armed(q)
      BY <1>3, <1>6 DEF HandsInv, Hands, ReqTypeOK, ThreadRecord
    <3> QED
      BY <1>4, <3>1 DEF Armed
  <2>3. \A q \in Requests \ {r} : Expects(q)' <=> Expects(q)
    BY <1>4, <1>6 DEF Expects
  <2>4. \A q \in events : q \in Hands
    BY DEF Hands
  <2> QED
    BY <1>1, <1>3, <1>4, <1>6, <2>1, <2>2, <2>3, <2>4 DEF HandsInv
<1>9. \A q \in Requests : request[q].pc # "new" => request'[q].pc # "new" /\ request'[q].buf = request[q].buf
  BY <1>1, <1>4
<1>10. GotInv'
  <2> SUFFICES ASSUME NEW q \in Requests, Received(q)
               PROVE  /\ thread.got = ERROR => thread.pc = "store" /\ request[q].server = "ended" /\ q \notin events
                      /\ \A k \in 1..thread.got : buffer[BufferOf(q)][k] = {q}
                      /\ thread.pc = "call" => Shares(q)' \/ len'[BufferOf(q)] = thread.got
                      /\ request'[q] = request[q]
    BY <1>1, <1>6 DEF GotInv, BufferOf
  <2>1. q # r /\ request[q].pc # "new" /\ BufferOf(q) \in Buffers
    BY <1>3, <1>6 DEF Received, Hands, HandsInv, Armed, ReqTypeOK, BufferOf
  <2>2. BufferOf(q) = b => Shares(q)'
    <3>1. request'[r].pc # "new" /\ request'[r].buf = b /\ request'[q].buf = request[q].buf
      BY <1>2, <1>4, <2>1
    <3> QED
      BY <2>1, <3>1 DEF Shares, BufferOf
  <2>3. Shares(q) => Shares(q)'
    BY <1>1, <1>9, <2>1, CalledStay
  <2> QED
    BY <1>3, <1>4, <2>1, <2>2, <2>3 DEF GotInv
<1>11. LengthInv'
  <2>1. \A q \in Requests : request[q].pc = "stranded" => request'[q] = request[q]
    BY <1>1, <1>4
  <2>2. ASSUME NEW c \in Buffers, len'[c] = ERROR
        PROVE  \E q \in Requests : request'[q].pc = "stranded" /\ request'[q].buf = c
    BY <1>3, <1>4, <2>1, <2>2 DEF LengthInv, BufferOf
  <2>3. ASSUME thread.pc = "recv", NEW q \in thread.cur
        PROVE  len'[request'[q].buf] # ERROR
    <3>1. q \in Requests /\ q # r /\ request[q].buf \in Buffers
      BY <1>1, <1>3, <1>6 DEF Hands, HandsInv, Armed, ReqTypeOK, ThreadRecord
    <3> QED
      BY <1>3, <1>4, <2>3, <3>1 DEF LengthInv, BufferOf
  <2> QED
    BY <1>1, <2>2, <2>3 DEF LengthInv, BufferOf
<1> QED
  BY <1>1, <1>4, <1>5, <1>7, <1>8, <1>9, <1>10, <1>11, NoCallKeeps

LEMMA CommitArmKeeps ==
    ASSUME ReqInv, NEW r \in Requests, CommitArm(r)
    PROVE  ReqInv'
<1>1. /\ request[r].pc = "sent" /\ thread.pc # "fault"
      /\ UNCHANGED <<inbox, buffer, len, thread, ending, seen>>
  BY DEF CommitArm, Lives
<1>2. ReqTypeOK /\ QueuesInv /\ HandsInv /\ GotInv /\ LengthInv
  BY DEF ReqInv
<1>3. PICK pc \in {"armed", "refused"} :
        /\ request' = [request EXCEPT ![r].pc = pc]
        /\ events' = IF pc = "armed" /\ inbox[r] # <<>> THEN events \cup {r} ELSE events
  BY DEF CommitArm
<1>4. /\ request'[r].pc = pc /\ request'[r].buf = request[r].buf /\ request'[r].server = request[r].server
      /\ request'[r] \in RequestRecord
      /\ \A q \in Requests \ {r} : request'[q] = request[q]
  BY <1>2, <1>3 DEF ReqTypeOK, RequestRecord
<1>5. ReqTypeOK'
  <2>1. request' \in [Requests -> RequestRecord]
    BY <1>2, <1>3, <1>4 DEF ReqTypeOK
  <2>2. \A q \in Requests : request'[q].pc # "new" => request'[q].buf \in Buffers
    BY <1>1, <1>2, <1>4 DEF ReqTypeOK
  <2>3. events' \subseteq Requests
    BY <1>2, <1>3 DEF ReqTypeOK
  <2> QED
    BY <1>1, <1>2, <2>1, <2>2, <2>3 DEF ReqTypeOK
<1>6. /\ r \notin Hands /\ \A q \in Requests : Received(q)' <=> Received(q)
      /\ ~Received(r)
      /\ Hands' = IF pc = "armed" /\ inbox[r] # <<>> THEN Hands \cup {r} ELSE Hands
  BY <1>1, <1>2, <1>3 DEF Hands, HandsInv, Armed, Received
<1>7. QueuesInv'
  BY <1>1, <1>2, <1>4, <1>6 DEF QueuesInv, Expects
<1>8. HandsInv'
  <2>1. \A q \in Hands' : Armed(q)'
    <3>1. \A q \in Hands : q \in Requests \ {r} /\ Armed(q)
      BY <1>2, <1>6 DEF HandsInv, Hands, ReqTypeOK, ThreadRecord
    <3> QED
      BY <1>4, <1>6, <3>1 DEF Armed
  <2>2. \A q \in Requests : Armed(q)' /\ Expects(q)' => (inbox[q] # <<>> <=> q \in Hands')
    <3> SUFFICES ASSUME NEW q \in Requests, Armed(q)', Expects(q)' PROVE inbox[q] # <<>> <=> q \in Hands'
      OBVIOUS
    <3>1. CASE q = r
      BY <1>4, <1>6, <3>1 DEF Armed
    <3>2. CASE q # r
      BY <1>2, <1>4, <1>6, <3>2 DEF Armed, Expects, HandsInv
    <3> QED
      BY <3>1, <3>2
  <2>3. ASSUME NEW q \in events', q \in thread.batch \cup thread.cur, Expects(q)'
        PROVE  Len(inbox[q]) = 2
    <3>1. q \in Hands /\ q \in Requests
      BY <1>2, <2>3 DEF Hands, ReqTypeOK, ThreadRecord
    <3>2. q # r /\ q \in events
      BY <1>3, <1>6, <3>1
    <3> QED
      BY <1>2, <1>4, <1>6, <2>3, <3>1, <3>2 DEF HandsInv, Expects
  <2> QED
    BY <1>1, <1>2, <2>1, <2>2, <2>3 DEF HandsInv
<1>9. \A q \in Requests : /\ request[q].pc # "new" => request'[q].pc # "new" /\ request'[q].buf = request[q].buf
                          /\ request[q].pc \in {"gone", "stranded"} => request'[q] = request[q]
  BY <1>1, <1>4
<1>10. GotInv'
  <2> SUFFICES ASSUME NEW q \in Requests, Received(q)
               PROVE  /\ thread.got = ERROR => thread.pc = "store" /\ request[q].server = "ended" /\ q \notin events'
                      /\ \A k \in 1..thread.got : buffer[BufferOf(q)][k] = {q}
                      /\ thread.pc = "call" => Shares(q)' \/ len[BufferOf(q)] = thread.got
                      /\ request'[q] = request[q]
    BY <1>1, <1>6 DEF GotInv, BufferOf
  <2>1. q # r /\ request[q].pc # "new"
    BY <1>2, <1>6 DEF Received, Hands, HandsInv, Armed
  <2>2. Shares(q) => Shares(q)'
    BY <1>1, <1>9, <2>1, CalledStay
  <2> QED
    BY <1>2, <1>3, <1>4, <2>1, <2>2 DEF GotInv
<1>11. LengthInv'
  <2>1. ASSUME NEW c \in Buffers, len'[c] = ERROR
        PROVE  \E q \in Requests : request'[q].pc = "stranded" /\ request'[q].buf = c
    BY <1>1, <1>2, <1>9, <2>1 DEF LengthInv, BufferOf
  <2>2. ASSUME thread.pc = "recv", NEW q \in thread.cur
        PROVE  len'[request'[q].buf] # ERROR
    <3>1. q \in Requests /\ q # r
      BY <1>2, <1>6 DEF Hands, ReqTypeOK, ThreadRecord
    <3> QED
      BY <1>1, <1>2, <1>4, <2>2, <3>1 DEF LengthInv, BufferOf
  <2> QED
    BY <1>1, <2>1, <2>2 DEF LengthInv, BufferOf
<1> QED
  BY <1>1, <1>5, <1>7, <1>8, <1>9, <1>10, <1>11, NoCallKeeps

LEMMA DestoryKeeps ==
    ASSUME ReqInv, DestoryClose \/ DestoryCancel
    PROVE  ReqInv'
<1>1. /\ UNCHANGED <<request, inbox, events, buffer, len, thread, seen>> /\ thread.pc # "fault"
      /\ ending # "cancelled" /\ ending' \in {"closed", "cancelled"}
  BY DEF DestoryClose, DestoryCancel, Lives
<1>2. ReqTypeOK' /\ QueuesInv' /\ HandsInv' /\ GotInv' /\ LengthInv'
  BY <1>1 DEF ReqInv, ReqTypeOK, QueuesInv, HandsInv, Hands, Armed, Expects, Received, GotInv, Shares,
     BufferOf, LengthInv
<1> QED
  BY <1>1, <1>2, NoCallKeeps

\* The server's steps only add to what there is to receive, and with it an edge.
LEMMA ServerAnswersKeeps ==
    ASSUME ReqInv, NEW r \in Requests, ServerAnswers(r)
    PROVE  ReqInv'
<1>1. /\ request[r].pc \in {"sent", "armed"} /\ request[r].server # "ended" /\ thread.pc # "fault"
      /\ UNCHANGED <<buffer, len, thread, ending, seen>>
      /\ events' = IF Armed(r) THEN events \cup {r} ELSE events
  BY DEF ServerAnswers, Lives
<1>2. ReqTypeOK /\ QueuesInv /\ HandsInv /\ GotInv /\ LengthInv
  BY DEF ReqInv
<1>3. PICK server \in {"answered", "ended"}, box \in Seq(Nat \cup {ERROR, CLOSED}) :
        /\ request' = [request EXCEPT ![r].server = server]
        /\ inbox' = [inbox EXCEPT ![r] = box]
        /\ server = "answered" => request[r].server = "silent" /\ Len(box) = 1 /\ box[1] \in Nat
        /\ server = "ended" => /\ Len(box) = Len(inbox[r]) + 1
                               /\ \A i \in 1..Len(inbox[r]) : box[i] = inbox[r][i]
  <2>1. inbox[r] \in Seq(Nat \cup {ERROR, CLOSED})
    BY <1>2 DEF ReqTypeOK
  <2>2. CASE /\ request[r].server = "silent"
             /\ \E n \in 0..BufferSize + 1 : inbox' = [inbox EXCEPT ![r] = <<n>>]
             /\ request' = [request EXCEPT ![r].server = "answered"]
    <3>1. PICK n \in 0..BufferSize + 1 : inbox' = [inbox EXCEPT ![r] = <<n>>]
      BY <2>2
    <3>2. <<n>> \in Seq(Nat \cup {ERROR, CLOSED}) /\ Len(<<n>>) = 1 /\ <<n>>[1] \in Nat
      BY ReqPoolAssumption
    <3> QED
      BY <2>2, <3>1, <3>2
  <2>3. CASE /\ \E end \in {CLOSED, ERROR} : inbox' = [inbox EXCEPT ![r] = Append(@, end)]
             /\ request' = [request EXCEPT ![r].server = "ended"]
    <3>1. PICK end \in {CLOSED, ERROR} : inbox' = [inbox EXCEPT ![r] = Append(inbox[r], end)]
      BY <1>2, <2>3 DEF ReqTypeOK
    <3>2. /\ Append(inbox[r], end) \in Seq(Nat \cup {ERROR, CLOSED})
          /\ Len(Append(inbox[r], end)) = Len(inbox[r]) + 1
          /\ \A i \in 1..Len(inbox[r]) : Append(inbox[r], end)[i] = inbox[r][i]
      BY <2>1
    <3> QED
      BY <2>3, <3>1, <3>2
  <2> QED
    BY <2>2, <2>3 DEF ServerAnswers
<1>4. /\ request'[r].pc = request[r].pc /\ request'[r].buf = request[r].buf /\ request'[r].server = server
      /\ request'[r] \in RequestRecord /\ inbox'[r] = box
      /\ \A q \in Requests \ {r} : request'[q] = request[q] /\ inbox'[q] = inbox[q]
  BY <1>2, <1>3 DEF ReqTypeOK, RequestRecord
<1>5. ReqTypeOK'
  <2>1. request' \in [Requests -> RequestRecord] /\ inbox' \in [Requests -> Seq(Nat \cup {ERROR, CLOSED})]
    BY <1>2, <1>3, <1>4 DEF ReqTypeOK
  <2>2. \A q \in Requests : request'[q].pc # "new" => request'[q].buf \in Buffers
    BY <1>2, <1>4 DEF ReqTypeOK
  <2>3. events' \subseteq Requests
    BY <1>1, <1>2 DEF ReqTypeOK
  <2> QED
    BY <1>1, <1>2, <2>1, <2>2, <2>3 DEF ReqTypeOK
<1>6. \A q \in Requests : (Received(q)' <=> Received(q)) /\ (Expects(q)' <=> Expects(q)) /\ (Armed(q)' <=> Armed(q))
  BY <1>1, <1>4 DEF Received, Expects, Armed
<1>7. Hands' = IF Armed(r) THEN Hands \cup {r} ELSE Hands
  BY <1>1 DEF Hands
<1>8. inbox[r] \in Seq(Nat \cup {ERROR, CLOSED}) /\ box # <<>>
      /\ (Expects(r) => (inbox[r] # <<>> => Len(inbox[r]) = 1 /\ inbox[r][1] \in Nat))
      /\ (Expects(r) /\ inbox[r] # <<>> => Len(box) = 2 /\ box[1] \in Nat)
      /\ (Expects(r) /\ inbox[r] = <<>> => Len(box) = 1)
  <2>1. inbox[r] \in Seq(Nat \cup {ERROR, CLOSED}) /\ request[r].server \in {"silent", "answered"}
    BY <1>1, <1>2 DEF ReqTypeOK, RequestRecord
  <2>2. box # <<>>
    BY <1>3, <2>1
  <2>3. ASSUME Expects(r), inbox[r] # <<>>
        PROVE  Len(inbox[r]) = 1 /\ inbox[r][1] \in Nat /\ Len(box) = 2 /\ box[1] \in Nat
    <3>1. request[r].server = "answered" /\ server = "ended"
      BY <1>2, <1>3, <2>1, <2>3 DEF QueuesInv
    <3>2. Len(inbox[r]) = 1 /\ inbox[r][1] \in Nat
      BY <1>2, <2>3, <3>1 DEF QueuesInv
    <3>3. 1 \in 1..Len(inbox[r])
      BY <3>2
    <3> QED
      BY <1>3, <3>1, <3>2, <3>3
  <2>4. inbox[r] = <<>> => Len(box) = 1
    BY <1>3
  <2> QED
    BY <2>1, <2>2, <2>3, <2>4
<1>9. QueuesInv'
  <2>1. ASSUME Expects(r) PROVE server = "ended" => Len(box) = 1 \/ (Len(box) = 2 /\ box[1] \in Nat)
    BY <1>8, <2>1
  <2> QED
    BY <1>1, <1>2, <1>3, <1>4, <1>6, <2>1 DEF QueuesInv
<1>10. HandsInv'
  <2>1. \A q \in Hands' : Armed(q)'
    <3>1. \A q \in Hands' : q \in Requests /\ Armed(q)
      BY <1>2, <1>7 DEF HandsInv, Hands, ReqTypeOK, ThreadRecord
    <3> QED
      BY <1>6, <3>1
  <2>2. \A q \in Requests : Armed(q) /\ Expects(q) => (inbox'[q] # <<>> <=> q \in Hands')
    BY <1>2, <1>4, <1>7, <1>8 DEF HandsInv
  <2>3. ASSUME NEW q \in events', q \in thread.batch \cup thread.cur, Expects(q)
        PROVE  Len(inbox'[q]) = 2
    <3>1. q \in Hands /\ q \in Requests /\ Armed(q)
      BY <1>2, <2>3 DEF Hands, ReqTypeOK, ThreadRecord, HandsInv
    <3>2. CASE q = r
      BY <1>2, <1>4, <1>8, <2>3, <3>1, <3>2 DEF HandsInv
    <3>3. CASE q # r
      BY <1>1, <1>2, <1>4, <2>3, <3>1, <3>3 DEF HandsInv
    <3> QED
      BY <3>2, <3>3
  <2>4. \A q \in events' : q \in Requests
    BY <1>5 DEF ReqTypeOK
  <2> QED
    BY <1>1, <1>2, <1>6, <2>1, <2>2, <2>3, <2>4 DEF HandsInv
<1>11. \A q \in Requests : /\ request'[q].pc = request[q].pc /\ request'[q].buf = request[q].buf
  BY <1>4
<1>12. GotInv'
  <2> SUFFICES ASSUME NEW q \in Requests, Received(q)
               PROVE  /\ thread.got = ERROR => thread.pc = "store" /\ request'[q].server = "ended" /\ q \notin events'
                      /\ \A k \in 1..thread.got : buffer[BufferOf(q)][k] = {q}
                      /\ thread.pc = "call" => Shares(q)' \/ len[BufferOf(q)] = thread.got
    <3>1. \A q \in Requests : BufferOf(q)' = BufferOf(q)
      BY <1>11 DEF BufferOf
    <3> QED
      BY <1>1, <1>6, <3>1 DEF GotInv
  <2>1. Shares(q) => Shares(q)'
    BY <1>11 DEF Shares, BufferOf
  <2>2. thread.got = ERROR => q # r
    BY <1>1, <1>2 DEF GotInv
  <2> QED
    BY <1>1, <1>2, <1>4, <2>1, <2>2 DEF GotInv
<1>13. LengthInv'
  <2>1. thread.cur \subseteq Requests
    BY <1>2 DEF ReqTypeOK, ThreadRecord
  <2> QED
    BY <1>1, <1>2, <1>11, <2>1 DEF LengthInv, BufferOf
<1> QED
  BY <1>1, <1>5, <1>9, <1>10, <1>11, <1>12, <1>13, NoCallKeeps

\* The thread's steps.
LEMMA WaitsEndsKeeps ==
    ASSUME ReqInv, PoolWaits \/ PoolEnds
    PROVE  ReqInv'
<1>1. UNCHANGED <<request, inbox, buffer, len, ending, seen>>
  BY DEF PoolWaits, PoolEnds
<1>2. ReqTypeOK /\ QueuesInv /\ HandsInv /\ GotInv /\ LengthInv
  BY DEF ReqInv
<1>3. \A q \in Requests : /\ BufferOf(q)' = BufferOf(q) /\ (Armed(q)' <=> Armed(q))
  BY <1>1 DEF BufferOf, Armed
<1>4. PICK pc \in {"pick", "ended"}, batch \in SUBSET Requests :
        /\ thread' = [thread EXCEPT !.pc = pc, !.batch = batch]
        /\ thread.pc \in {"wait", "recv"}
        /\ \/ pc = "pick" /\ thread.pc = "wait" /\ batch = events /\ events' = {}
           \/ pc = "ended" /\ batch = thread.batch /\ events' = events
  <2>1. CASE PoolWaits
    BY <1>2, <2>1 DEF PoolWaits, ReqTypeOK
  <2>2. CASE PoolEnds
    <3>1. thread' = [thread EXCEPT !.pc = "ended", !.batch = thread.batch]
      BY <1>2, <2>2 DEF PoolEnds, ReqTypeOK, ThreadRecord
    <3>2. thread.batch \in SUBSET Requests
      BY <1>2 DEF ReqTypeOK, ThreadRecord
    <3> QED
      BY <2>2, <3>1, <3>2 DEF PoolEnds
  <2> QED
    BY <2>1, <2>2
<1>5. /\ thread'.pc = pc /\ thread'.batch = batch /\ thread'.cur = thread.cur /\ thread'.got = thread.got
      /\ thread' \in ThreadRecord
  BY <1>2, <1>4 DEF ReqTypeOK, ThreadRecord
<1>6. ReqTypeOK'
  BY <1>1, <1>2, <1>4, <1>5 DEF ReqTypeOK
<1>7. Hands' = Hands /\ \A q \in Requests : ~Received(q) /\ ~Received(q)' /\ (Expects(q)' <=> Expects(q))
  <2>1. Hands' = Hands
    BY <1>2, <1>4, <1>5 DEF Hands, HandsInv
  <2> QED
    BY <1>1, <1>4, <1>5, <2>1 DEF Received, Expects
<1>8. QueuesInv' /\ GotInv'
  BY <1>1, <1>2, <1>7 DEF QueuesInv, GotInv
<1>9. HandsInv'
  <2>1. \A q \in Hands : q \in Requests /\ Armed(q)
    BY <1>2 DEF HandsInv, Hands, ReqTypeOK, ThreadRecord
  <2>2. \A q \in Hands' : Armed(q)'
    BY <1>3, <1>7, <2>1
  <2>3. /\ thread'.batch \cap thread'.cur = {} /\ \A q, r \in thread'.cur : q = r
        /\ thread'.pc \in {"wait", "pick"} => thread'.cur = {}
        /\ thread'.pc = "wait" => thread'.batch = {}
    BY <1>2, <1>4, <1>5 DEF HandsInv
  <2>4. \A r \in events' : r \in thread'.batch \cup thread'.cur /\ Expects(r)' => Len(inbox'[r]) = 2
    <3>1. CASE events' = {}
      BY <3>1
    <3>2. CASE events' = events /\ thread'.batch = thread.batch
      <4>1. events \subseteq Requests
        BY <1>2 DEF ReqTypeOK
      <4> QED
        BY <1>1, <1>2, <1>5, <1>7, <3>2, <4>1 DEF HandsInv
    <3> QED
      BY <1>4, <1>5, <3>1, <3>2
  <2>5. \A r \in Requests : Armed(r)' /\ Expects(r)' => (inbox'[r] # <<>> <=> r \in Hands')
    BY <1>1, <1>2, <1>3, <1>7 DEF HandsInv
  <2> QED
    BY <2>2, <2>3, <2>4, <2>5 DEF HandsInv
<1>10. LengthInv'
  BY <1>1, <1>2, <1>4, <1>5 DEF LengthInv, BufferOf
<1> QED
  BY <1>1, <1>4, <1>5, <1>6, <1>8, <1>9, <1>10, NoCallKeeps

LEMMA PicksKeeps ==
    ASSUME ReqInv, PoolPicks
    PROVE  ReqInv'
<1>1. thread.pc = "pick" /\ UNCHANGED <<request, inbox, events, len, ending, seen>>
  BY DEF PoolPicks
<1>2. ReqTypeOK /\ QueuesInv /\ HandsInv /\ GotInv /\ LengthInv
  BY DEF ReqInv
<1>3. PICK r \in thread.batch :
        IF len[BufferOf(r)] = ERROR
        THEN thread' = [thread EXCEPT !.pc = "fault"] /\ UNCHANGED buffer
        ELSE /\ thread' = [thread EXCEPT !.pc = "recv", !.batch = @ \ {r}, !.cur = {r}]
             /\ buffer' = [buffer EXCEPT ![BufferOf(r)] =
                            [i \in 1..BufferSize |-> IF i <= len[BufferOf(r)] THEN NoData ELSE @[i]]]
  BY DEF PoolPicks
<1>4. r \in Requests /\ Armed(r) /\ BufferOf(r) \in Buffers /\ thread.cur = {}
  BY <1>1, <1>2 DEF ReqTypeOK, ThreadRecord, HandsInv, Hands, Armed, BufferOf
<1>5. \A q \in Requests : /\ BufferOf(q)' = BufferOf(q) /\ (Armed(q)' <=> Armed(q)) /\ ~Received(q)
  BY <1>1 DEF BufferOf, Armed, Received
<1>6. CASE len[BufferOf(r)] = ERROR
  <2>1. /\ thread'.pc = "fault" /\ thread'.batch = thread.batch /\ thread'.cur = {} /\ thread' \in ThreadRecord
        /\ buffer' = buffer
    BY <1>2, <1>3, <1>4, <1>6 DEF ReqTypeOK, ThreadRecord
  <2>2. ReqTypeOK'
    BY <1>1, <1>2, <2>1 DEF ReqTypeOK
  <2>3. Hands' = Hands /\ \A q \in Requests : ~Received(q)' /\ (Expects(q)' <=> Expects(q))
    BY <1>1, <1>4, <2>1 DEF Hands, Received, Expects
  <2>4. QueuesInv' /\ GotInv'
    BY <1>1, <1>2, <2>3 DEF QueuesInv, GotInv
  <2>5. HandsInv'
    <3>1. \A q \in Hands : q \in Requests /\ Armed(q)
      BY <1>2 DEF HandsInv, Hands, ReqTypeOK, ThreadRecord
    <3>2. events \subseteq Requests
      BY <1>2 DEF ReqTypeOK
    <3> QED
      BY <1>1, <1>2, <1>4, <1>5, <2>1, <2>3, <3>1, <3>2 DEF HandsInv
  <2>6. LengthInv'
    BY <1>1, <1>2, <2>1 DEF LengthInv, BufferOf
  <2>7. \E q \in Requests : request'[q].pc = "stranded" /\ Shares(q)'
    <3>1. PICK q \in Requests : request[q].pc = "stranded" /\ BufferOf(q) = BufferOf(r)
      BY <1>2, <1>4, <1>6 DEF LengthInv
    <3>2. q # r /\ request[r].pc # "new"
      BY <1>4, <3>1 DEF Armed
    <3> QED
      BY <1>1, <1>4, <3>1, <3>2 DEF Shares, BufferOf
  <2> QED
    BY <1>1, <2>1, <2>2, <2>4, <2>5, <2>6, <2>7, NoCallKeeps
<1>7. CASE len[BufferOf(r)] # ERROR
  <2>1. /\ thread'.pc = "recv" /\ thread'.batch = thread.batch \ {r} /\ thread'.cur = {r}
        /\ thread' \in ThreadRecord
    <3>1. thread \in ThreadRecord
      BY <1>2 DEF ReqTypeOK
    <3>2. PICK batch \in SUBSET Requests, cur \in SUBSET Requests : batch = thread.batch \ {r} /\ cur = {r}
      BY <1>4, <3>1 DEF ThreadRecord
    <3>3. thread' = [thread EXCEPT !.pc = "recv", !.batch = batch, !.cur = cur]
      BY <1>3, <1>7, <3>1, <3>2 DEF ThreadRecord
    <3>4. /\ thread'.pc = "recv" /\ thread'.batch = batch /\ thread'.cur = cur /\ thread' \in ThreadRecord
      BY <3>1, <3>3 DEF ThreadRecord
    <3> QED
      BY <3>2, <3>4
  <2>2. buffer' \in [Buffers -> Cells]
    <3>1. PICK old \in Cells, n \in Int : old = buffer[BufferOf(r)] /\ n = len[BufferOf(r)]
      BY <1>2, <1>4 DEF ReqTypeOK
    <3>2. \A S : {} \in SUBSET S
      OBVIOUS
    <3>3. [i \in 1..BufferSize |-> IF i <= n THEN NoData ELSE old[i]] \in Cells
      BY <3>2 DEF Cells, NoData
    <3>4. buffer' = [buffer EXCEPT ![BufferOf(r)] = [i \in 1..BufferSize |-> IF i <= n THEN NoData ELSE old[i]]]
      BY <1>2, <1>3, <1>4, <1>7, <3>1 DEF ReqTypeOK
    <3> QED
      BY <1>2, <3>3, <3>4 DEF ReqTypeOK
  <2>3. ReqTypeOK'
    BY <1>1, <1>2, <2>1, <2>2 DEF ReqTypeOK
  <2>4. Hands' = Hands /\ \A q \in Requests : ~Received(q)' /\ (Expects(q)' <=> Expects(q))
    BY <1>1, <1>4, <2>1 DEF Hands, Received, Expects
  <2>5. QueuesInv' /\ GotInv'
    BY <1>1, <1>2, <2>4 DEF QueuesInv, GotInv
  <2>6. HandsInv'
    <3>1. \A q \in Hands : q \in Requests /\ Armed(q)
      BY <1>2 DEF HandsInv, Hands, ReqTypeOK, ThreadRecord
    <3>2. \A q \in Hands' : Armed(q)'
      BY <1>5, <2>4, <3>1
    <3>3. thread'.batch \cup thread'.cur = thread.batch \cup thread.cur /\ events \subseteq Requests
      BY <1>2, <1>4, <2>1 DEF ReqTypeOK
    <3>4. \A q \in events' : q \in thread'.batch \cup thread'.cur /\ Expects(q)' => Len(inbox'[q]) = 2
      BY <1>1, <1>2, <2>4, <3>3 DEF HandsInv
    <3>5. \A q \in Requests : Armed(q)' /\ Expects(q)' => (inbox'[q] # <<>> <=> q \in Hands')
      BY <1>1, <1>2, <1>5, <2>4 DEF HandsInv
    <3> QED
      BY <2>1, <3>2, <3>4, <3>5 DEF HandsInv
  <2>7. LengthInv'
    BY <1>1, <1>2, <1>5, <1>7, <1>4, <2>1 DEF LengthInv, BufferOf
  <2> QED
    BY <1>1, <2>1, <2>3, <2>5, <2>6, <2>7, NoCallKeeps
<1> QED
  BY <1>6, <1>7

\* One request, and nothing of it but where it is, is changed.
PcMoves(r, pc) ==
    /\ request'[r].pc = pc /\ request'[r].buf = request[r].buf /\ request'[r] \in RequestRecord
    /\ \A q \in Requests \ {r} : request'[q] = request[q]
    /\ request' \in [Requests -> RequestRecord]

LEMMA OnePcMoves ==
    ASSUME request \in [Requests -> RequestRecord], NEW r \in Requests, NEW pc \in {"stranded", "gone"},
           request' = [request EXCEPT ![r].pc = pc]
    PROVE  PcMoves(r, pc)
<1>1. PICK old \in RequestRecord : old = request[r]
  OBVIOUS
<1>2. PICK new : new = [old EXCEPT !.pc = pc]
  OBVIOUS
<1>3. new \in RequestRecord /\ new.pc = pc /\ new.buf = old.buf
  BY <1>2 DEF RequestRecord
<1>4. request' = [request EXCEPT ![r] = new]
  BY <1>1, <1>2
<1>5. request'[r] = new /\ \A q \in Requests \ {r} : request'[q] = request[q]
  BY <1>4
<1> QED
  BY <1>1, <1>3, <1>4, <1>5 DEF PcMoves

\* The thread's request, while it has one.
LEMMA CurrentOne ==
    ASSUME ReqInv, NEW r \in thread.cur
    PROVE  /\ r \in Requests /\ thread.cur = {r} /\ r \notin thread.batch /\ request[r].pc = "armed"
           /\ BufferOf(r) \in Buffers /\ r \in Hands /\ seen[r] = <<>>
           /\ \A q \in Hands : q \in Requests /\ request[q].pc = "armed"
<1>1. ReqTypeOK /\ HandsInv
  BY DEF ReqInv
<1>2. r \in Requests /\ r \in Hands /\ \A q \in Hands : q \in Requests /\ request[q].pc = "armed"
  BY <1>1 DEF ReqTypeOK, ThreadRecord, HandsInv, Hands, Armed
<1>3. thread.cur = {r} /\ r \notin thread.batch
  BY <1>1 DEF HandsInv
<1>4. seen[r] = <<>>
  BY <1>2 DEF ReqInv, SeenInv
<1> QED
  BY <1>1, <1>2, <1>3, <1>4 DEF ReqTypeOK, BufferOf

LEMMA RecvsKeeps ==
    ASSUME ReqInv, PoolRecvs
    PROVE  ReqInv'
<1>1. thread.pc = "recv" /\ ending # "cancelled" /\ UNCHANGED <<request, events, len, ending, seen>>
  BY DEF PoolRecvs
<1>2. ReqTypeOK /\ QueuesInv /\ HandsInv /\ GotInv /\ LengthInv
  BY DEF ReqInv
<1>0. PICK r \in thread.cur : \E got :
        /\ got = (CASE Head(inbox[r]) = ERROR -> ERROR
                    [] Head(inbox[r]) = CLOSED -> 0
                    [] OTHER -> Smaller(Head(inbox[r]), len[BufferOf(r)]))
        /\ thread' = [thread EXCEPT !.pc = "store", !.got = got]
        /\ buffer' = [buffer EXCEPT ![BufferOf(r)] = [i \in 1..BufferSize |-> IF i <= got THEN {r} ELSE @[i]]]
        /\ inbox' = [inbox EXCEPT ![r] = Tail(@)]
  BY DEF PoolRecvs
<1>3. PICK got :
        /\ got = (CASE Head(inbox[r]) = ERROR -> ERROR
                    [] Head(inbox[r]) = CLOSED -> 0
                    [] OTHER -> Smaller(Head(inbox[r]), len[BufferOf(r)]))
        /\ thread' = [thread EXCEPT !.pc = "store", !.got = got]
        /\ buffer' = [buffer EXCEPT ![BufferOf(r)] = [i \in 1..BufferSize |-> IF i <= got THEN {r} ELSE @[i]]]
        /\ inbox' = [inbox EXCEPT ![r] = Tail(@)]
  BY <1>0
<1>4. /\ r \in Requests /\ thread.cur = {r} /\ r \notin thread.batch /\ request[r].pc = "armed"
      /\ BufferOf(r) \in Buffers /\ r \in Hands
      /\ \A q \in Hands : q \in Requests /\ request[q].pc = "armed"
  BY CurrentOne
<1>5. \A q \in Requests : ~Received(q) /\ BufferOf(q)' = BufferOf(q) /\ (Armed(q)' <=> Armed(q))
  BY <1>1 DEF Received, BufferOf, Armed
<1>6. Expects(r) /\ inbox[r] # <<>> /\ inbox[r] \in Seq(Nat \cup {ERROR, CLOSED})
  BY <1>2, <1>4, <1>5 DEF Expects, HandsInv, Armed, ReqTypeOK
<1>7. /\ Head(inbox[r]) = inbox[r][1] /\ Head(inbox[r]) \in Nat \cup {ERROR, CLOSED}
      /\ Tail(inbox[r]) \in Seq(Nat \cup {ERROR, CLOSED})
  BY <1>6
<1>8. len[BufferOf(r)] \in 0..BufferSize
  BY <1>1, <1>2, <1>4, ReqPoolAssumption DEF ReqTypeOK, LengthInv, ERROR
<1>9. got \in -1..BufferSize /\ (got = ERROR => Head(inbox[r]) = ERROR)
  BY <1>3, <1>7, <1>8, ReqPoolAssumption DEF Smaller, ERROR, CLOSED
<1>10. /\ thread'.pc = "store" /\ thread'.got = got /\ thread'.batch = thread.batch /\ thread'.cur = {r}
       /\ thread' \in ThreadRecord
  BY <1>2, <1>3, <1>4, <1>9 DEF ReqTypeOK, ThreadRecord
<1>11. /\ buffer' \in [Buffers -> Cells] /\ \A k \in 1..got : buffer'[BufferOf(r)][k] = {r}
  <2>1. PICK old \in Cells, new \in Cells :
            /\ old = buffer[BufferOf(r)]
            /\ new = [i \in 1..BufferSize |-> IF i <= got THEN {r} ELSE old[i]]
    <3>1. PICK old \in Cells : old = buffer[BufferOf(r)]
      BY <1>2, <1>4 DEF ReqTypeOK
    <3>2. {r} \in SUBSET Requests
      BY <1>4
    <3>3. [i \in 1..BufferSize |-> IF i <= got THEN {r} ELSE old[i]] \in Cells
      BY <1>9, <3>2 DEF Cells
    <3> QED
      BY <3>1, <3>3
  <2>2. buffer' = [buffer EXCEPT ![BufferOf(r)] = new]
    BY <1>2, <1>3, <1>4, <2>1 DEF ReqTypeOK
  <2>3. buffer'[BufferOf(r)] = new /\ buffer' \in [Buffers -> Cells]
    BY <1>2, <1>4, <2>1, <2>2 DEF ReqTypeOK
  <2>4. \A k \in 1..got : new[k] = {r}
    BY <1>9, <2>1, ReqPoolAssumption
  <2> QED
    BY <2>3, <2>4
<1>12. /\ inbox' \in [Requests -> Seq(Nat \cup {ERROR, CLOSED})]
       /\ \A q \in Requests \ {r} : inbox'[q] = inbox[q]
  BY <1>2, <1>3, <1>7 DEF ReqTypeOK
<1>13. ReqTypeOK'
  BY <1>1, <1>2, <1>10, <1>11, <1>12 DEF ReqTypeOK
<1>14. \A q \in Requests : (Received(q)' <=> q = r) /\ (Expects(q)' <=> Expects(q) /\ q # r)
  BY <1>1, <1>5, <1>10 DEF Received, Expects
<1>15. QueuesInv'
  BY <1>1, <1>2, <1>4, <1>12, <1>14 DEF QueuesInv
<1>16. HandsInv'
  <2>1. Hands' = Hands /\ thread'.batch = thread.batch /\ thread'.cur = thread.cur
    BY <1>1, <1>4, <1>10 DEF Hands
  <2>2. \A q \in Hands' : Armed(q)'
    BY <1>4, <1>5, <2>1 DEF Armed
  <2>3. \A q \in Requests : Armed(q)' /\ Expects(q)' => (inbox'[q] # <<>> <=> q \in Hands')
    BY <1>2, <1>5, <1>12, <1>14, <2>1 DEF HandsInv
  <2>4. events \subseteq Requests
    BY <1>2 DEF ReqTypeOK
  <2>5. \A q \in events' : q \in thread'.batch \cup thread'.cur /\ Expects(q)' => Len(inbox'[q]) = 2
    BY <1>1, <1>2, <1>12, <1>14, <2>1, <2>4 DEF HandsInv
  <2> QED
    BY <1>2, <1>10, <2>1, <2>2, <2>3, <2>5 DEF HandsInv
<1>17. GotInv'
  <2>1. ASSUME got = ERROR PROVE request[r].server = "ended" /\ r \notin events
    <3>1. ~(inbox[r][1] \in Nat)
      BY <1>7, <1>9, <2>1 DEF ERROR
    <3>2. request[r].server \in {"silent", "answered", "ended"}
      BY <1>2, <1>4 DEF ReqTypeOK, RequestRecord
    <3>3. request[r].server = "ended" /\ Len(inbox[r]) = 1
      BY <1>2, <1>4, <1>6, <3>1, <3>2 DEF QueuesInv
    <3>4. ASSUME r \in events PROVE FALSE
      <4>1. r \in thread.batch \cup thread.cur
        OBVIOUS
      <4>2. Len(inbox[r]) = 2
        BY <1>2, <1>6, <3>4, <4>1 DEF HandsInv
      <4> QED
        BY <3>3, <4>2
    <3> QED
      BY <3>3, <3>4
  <2> QED
    BY <1>1, <1>5, <1>10, <1>11, <1>14, <2>1 DEF GotInv
<1>18. LengthInv'
  BY <1>1, <1>2, <1>10 DEF LengthInv, BufferOf
<1> QED
  BY <1>1, <1>10, <1>13, <1>15, <1>16, <1>17, <1>18, NoCallKeeps

LEMMA StoresKeeps ==
    ASSUME ReqInv, PoolStores
    PROVE  ReqInv'
<1>1. thread.pc = "store" /\ UNCHANGED <<inbox, events, buffer, ending, seen>>
  BY DEF PoolStores
<1>2. ReqTypeOK /\ QueuesInv /\ HandsInv /\ GotInv /\ LengthInv
  BY DEF ReqInv
<1>3. PICK r \in thread.cur :
        /\ len' = [len EXCEPT ![BufferOf(r)] = thread.got]
        /\ IF thread.got = ERROR
           THEN thread' = Loop(thread) /\ request' = [request EXCEPT ![r].pc = "stranded"]
           ELSE thread' = [thread EXCEPT !.pc = "call"] /\ UNCHANGED request
  BY DEF PoolStores
<1>4. /\ r \in Requests /\ thread.cur = {r} /\ r \notin thread.batch /\ request[r].pc = "armed"
      /\ BufferOf(r) \in Buffers /\ r \in Hands
      /\ \A q \in Hands : q \in Requests /\ request[q].pc = "armed"
  BY CurrentOne
<1>5. /\ len' \in [Buffers -> -1..BufferSize] /\ len'[BufferOf(r)] = thread.got
      /\ \A c \in Buffers \ {BufferOf(r)} : len'[c] = len[c]
  BY <1>2, <1>3, <1>4 DEF ReqTypeOK, ThreadRecord
<1>6. \A q \in Requests : Received(q) <=> q = r
  BY <1>1, <1>4 DEF Received
<1>7. /\ thread.got = ERROR => request[r].server = "ended" /\ r \notin events
      /\ \A k \in 1..thread.got : buffer[BufferOf(r)][k] = {r}
  BY <1>2, <1>4, <1>6 DEF GotInv
<1>8. CASE thread.got = ERROR
  <2>1. /\ thread'.pc = (IF thread.batch = {} THEN "wait" ELSE "pick") /\ thread'.batch = thread.batch
        /\ thread'.cur = {} /\ thread' \in ThreadRecord
    BY <1>2, <1>3, <1>8 DEF ReqTypeOK, ThreadRecord, Loop
  <2>2. /\ request'[r].pc = "stranded" /\ request'[r].buf = request[r].buf /\ request'[r] \in RequestRecord
        /\ \A q \in Requests \ {r} : request'[q] = request[q]
        /\ request' \in [Requests -> RequestRecord]
    <3>1. PICK pc \in {"stranded", "gone"} : pc = "stranded" /\ request' = [request EXCEPT ![r].pc = pc]
      BY <1>3, <1>8
    <3>2. PcMoves(r, pc)
      BY <1>2, <1>4, <3>1, OnePcMoves DEF ReqTypeOK
    <3> QED
      BY <3>1, <3>2 DEF PcMoves
  <2>3. \A q \in Requests : BufferOf(q)' = BufferOf(q)
    BY <2>2 DEF BufferOf
  <2>4. ReqTypeOK'
    <3>1. \A q \in Requests : request'[q].pc # "new" => request'[q].buf \in Buffers
      BY <1>2, <1>4, <2>2 DEF ReqTypeOK
    <3> QED
      BY <1>1, <1>2, <1>5, <2>1, <2>2, <3>1 DEF ReqTypeOK
  <2>5. /\ Hands' = Hands \ {r}
        /\ \A q \in Requests : ~Received(q)' /\ (Expects(q)' <=> Expects(q)) /\ (Armed(q)' <=> Armed(q) /\ q # r)
    <3>1. Hands' = Hands \ {r}
      BY <1>1, <1>4, <1>7, <1>8, <2>1 DEF Hands
    <3> QED
      BY <1>6, <2>1, <2>2, <3>1 DEF Received, Expects, Armed
  <2>6. QueuesInv' /\ GotInv'
    <3>1. ~Expects(r)
      BY <1>4, <1>6 DEF Expects
    <3> QED
      BY <1>1, <1>2, <2>2, <2>5, <3>1 DEF QueuesInv, GotInv
  <2>7. HandsInv'
    <3>1. \A q \in Hands' : Armed(q)'
      BY <1>4, <2>5 DEF Armed
    <3>2. \A q \in Requests : Armed(q)' /\ Expects(q)' => (inbox'[q] # <<>> <=> q \in Hands')
      BY <1>1, <1>2, <2>5 DEF HandsInv
    <3>3. events \subseteq Requests
      BY <1>2 DEF ReqTypeOK
    <3>4. \A q \in events' : q \in thread'.batch \cup thread'.cur /\ Expects(q)' => Len(inbox'[q]) = 2
      BY <1>1, <1>2, <2>1, <2>5, <3>3 DEF HandsInv
    <3> QED
      BY <2>1, <3>1, <3>2, <3>4 DEF HandsInv
  <2>8. LengthInv'
    <3>1. \A c \in Buffers : len'[c] = ERROR => \E q \in Requests : request'[q].pc = "stranded" /\ request'[q].buf = c
      BY <1>2, <1>4, <1>5, <2>2 DEF LengthInv, BufferOf
    <3> QED
      BY <2>1, <3>1 DEF LengthInv, BufferOf
  <2> QED
    BY <1>1, <1>4, <2>1, <2>2, <2>4, <2>6, <2>7, <2>8, NoCallKeeps
<1>9. CASE thread.got # ERROR
  <2>1. /\ thread'.pc = "call" /\ thread'.batch = thread.batch /\ thread'.got = thread.got
        /\ thread'.cur = thread.cur /\ thread' \in ThreadRecord /\ request' = request
    BY <1>2, <1>3, <1>9 DEF ReqTypeOK, ThreadRecord
  <2>2. ReqTypeOK'
    BY <1>1, <1>2, <1>5, <2>1 DEF ReqTypeOK
  <2>3. /\ Hands' = Hands
        /\ \A q \in Requests : /\ (Received(q)' <=> Received(q)) /\ (Expects(q)' <=> Expects(q))
                               /\ (Armed(q)' <=> Armed(q)) /\ BufferOf(q)' = BufferOf(q)
    BY <1>1, <2>1 DEF Hands, Received, Expects, Armed, BufferOf
  <2>4. QueuesInv'
    BY <1>1, <1>2, <2>1, <2>3 DEF QueuesInv
  <2>5. HandsInv'
    <3>1. events \subseteq Requests /\ \A q \in Hands' : Armed(q)'
      BY <1>2, <1>4, <2>3 DEF ReqTypeOK, Armed
    <3>2. \A q \in Requests : Armed(q)' /\ Expects(q)' => (inbox'[q] # <<>> <=> q \in Hands')
      BY <1>1, <1>2, <2>3 DEF HandsInv
    <3>3. \A q \in events' : q \in thread'.batch \cup thread'.cur /\ Expects(q)' => Len(inbox'[q]) = 2
      BY <1>1, <1>2, <2>1, <2>3, <3>1 DEF HandsInv
    <3> QED
      BY <1>2, <2>1, <3>1, <3>2, <3>3 DEF HandsInv
  <2>6. GotInv'
    BY <1>1, <1>5, <1>6, <1>7, <1>9, <2>1, <2>3 DEF GotInv
  <2>7. LengthInv'
    <3>1. \A c \in Buffers : len'[c] = ERROR => \E q \in Requests : request[q].pc = "stranded" /\ request[q].buf = c
      BY <1>2, <1>5, <1>9 DEF LengthInv, BufferOf
    <3> QED
      BY <2>1, <3>1 DEF LengthInv, BufferOf
  <2> QED
    BY <1>1, <2>1, <2>2, <2>4, <2>5, <2>6, <2>7, NoCallKeeps
<1> QED
  BY <1>8, <1>9

LEMMA CallsKeeps ==
    ASSUME ReqInv, PoolCalls
    PROVE  ReqInv'
<1>1. thread.pc = "call" /\ thread' = Loop(thread) /\ UNCHANGED <<inbox, buffer, len, ending>>
  BY DEF PoolCalls
<1>2. ReqTypeOK /\ QueuesInv /\ HandsInv /\ GotInv /\ LengthInv /\ SeenInv /\ AnswersFit /\ NoneForgotten
  BY DEF ReqInv
<1>0. PICK r \in thread.cur : \E s :
        /\ s = Seen(r) /\ seen' = [seen EXCEPT ![r] = Append(@, s)]
        /\ request' = [request EXCEPT ![r].pc = "gone"]
        /\ events' = events \ {r}
  BY DEF PoolCalls
<1>3. PICK s :
        /\ s = Seen(r) /\ seen' = [seen EXCEPT ![r] = Append(@, s)]
        /\ request' = [request EXCEPT ![r].pc = "gone"]
        /\ events' = events \ {r}
  BY <1>0
<1>4. /\ r \in Requests /\ thread.cur = {r} /\ r \notin thread.batch /\ request[r].pc = "armed"
      /\ BufferOf(r) \in Buffers /\ r \in Hands /\ seen[r] = <<>>
      /\ \A q \in Hands : q \in Requests /\ request[q].pc = "armed"
  BY CurrentOne
<1>5. /\ thread'.pc = (IF thread.batch = {} THEN "wait" ELSE "pick") /\ thread'.batch = thread.batch
      /\ thread'.cur = {} /\ thread' \in ThreadRecord
  BY <1>1, <1>2 DEF ReqTypeOK, ThreadRecord, Loop
<1>6. /\ request'[r].pc = "gone" /\ request'[r].buf = request[r].buf /\ request'[r] \in RequestRecord
      /\ \A q \in Requests \ {r} : request'[q] = request[q]
      /\ request' \in [Requests -> RequestRecord]
  <2>1. PICK pc \in {"stranded", "gone"} : pc = "gone" /\ request' = [request EXCEPT ![r].pc = pc]
    BY <1>3
  <2>2. PcMoves(r, pc)
    BY <1>2, <1>4, <2>1, OnePcMoves DEF ReqTypeOK
  <2> QED
    BY <2>1, <2>2 DEF PcMoves
<1>7. /\ s \in SeenRecord /\ s.len = len[BufferOf(r)] /\ s.got = thread.got /\ s.cells = buffer[BufferOf(r)]
      /\ s.late => ending = "cancelled"
  BY <1>2, <1>3, <1>4 DEF Seen, SeenRecord, ReqTypeOK, ThreadRecord
<1>8. /\ seen'[r] = <<s>> /\ \A q \in Requests \ {r} : seen'[q] = seen[q]
      /\ seen' \in [Requests -> Seq(SeenRecord)]
  <2>1. Append(<<>>, s) = <<s>> /\ <<s>> \in Seq(SeenRecord)
    BY <1>7
  <2> QED
    BY <1>2, <1>3, <1>4, <2>1 DEF ReqTypeOK
<1>9. ReqTypeOK'
  <2>1. \A q \in Requests : request'[q].pc # "new" => request'[q].buf \in Buffers
    BY <1>2, <1>4, <1>6 DEF ReqTypeOK
  <2>2. events' \subseteq Requests
    BY <1>2, <1>3 DEF ReqTypeOK
  <2> QED
    BY <1>1, <1>2, <1>5, <1>6, <1>8, <2>1, <2>2 DEF ReqTypeOK
<1>10. \A q \in Requests : Received(q) <=> q = r
  BY <1>1, <1>4 DEF Received
<1>11. /\ Hands' = Hands \ {r}
       /\ \A q \in Requests : /\ ~Received(q)' /\ (Expects(q)' <=> Expects(q)) /\ (Armed(q)' <=> Armed(q) /\ q # r)
                              /\ BufferOf(q)' = BufferOf(q) /\ (Shares(q)' <=> Shares(q))
  <2>1. Hands' = Hands \ {r}
    BY <1>3, <1>4, <1>5 DEF Hands
  <2>2. \A q \in Requests : BufferOf(q)' = BufferOf(q) /\ (request'[q].pc # "new" <=> request[q].pc # "new")
    BY <1>4, <1>6 DEF BufferOf
  <2>3. \A q \in Requests : Shares(q)' <=> Shares(q)
    BY <2>2 DEF Shares
  <2>4. \A q \in Requests : ~Received(q)' /\ (Expects(q)' <=> Expects(q)) /\ (Armed(q)' <=> Armed(q) /\ q # r)
    BY <1>5, <1>6, <1>10 DEF Received, Expects, Armed
  <2> QED
    BY <2>1, <2>2, <2>3, <2>4
<1>12. QueuesInv' /\ GotInv'
  <2>1. ~Expects(r)
    BY <1>4, <1>10 DEF Expects
  <2> QED
    BY <1>1, <1>2, <1>6, <1>11, <2>1 DEF QueuesInv, GotInv
<1>13. HandsInv'
  <2>1. \A q \in Hands' : Armed(q)'
    BY <1>4, <1>11 DEF Armed
  <2>2. \A q \in Requests : Armed(q)' /\ Expects(q)' => (inbox'[q] # <<>> <=> q \in Hands')
    BY <1>1, <1>2, <1>11 DEF HandsInv
  <2>3. events \subseteq Requests /\ events' \subseteq events
    BY <1>2, <1>3 DEF ReqTypeOK
  <2>4. \A q \in events' : q \in thread'.batch \cup thread'.cur /\ Expects(q)' => Len(inbox'[q]) = 2
    BY <1>1, <1>2, <1>5, <1>11, <2>3 DEF HandsInv
  <2> QED
    BY <1>5, <2>1, <2>2, <2>4 DEF HandsInv
<1>14. LengthInv'
  <2>1. \A q \in Requests : request[q].pc = "stranded" => request'[q] = request[q]
    BY <1>4, <1>6
  <2> QED
    BY <1>1, <1>2, <1>5, <2>1 DEF LengthInv, BufferOf
<1>15. SeenInv'
  <2>1. \A q \in Requests \ {r} : seen[q] # <<>> => request'[q].pc = "gone"
    BY <1>2, <1>6 DEF SeenInv
  <2>2. \A q \in Requests \ {r} : \A i \in DOMAIN seen[q] : seen[q][i].late => ending = "cancelled"
    BY <1>2 DEF SeenInv
  <2>3. \A i \in DOMAIN seen'[r] : seen'[r][i].late => ending = "cancelled"
    <3>1. \A i \in DOMAIN <<s>> : <<s>>[i] = s
      OBVIOUS
    <3> QED
      BY <1>7, <1>8, <3>1
  <2> QED
    BY <1>1, <1>5, <1>6, <1>8, <2>1, <2>2, <2>3 DEF SeenInv
<1>16. AnswersFit'
  <2>1. ASSUME NEW q \in Requests, q # r
        PROVE  /\ Len(seen'[q]) <= 1
               /\ \A i \in DOMAIN seen'[q] :
                    /\ \A k \in 1..Smaller(seen'[q][i].len, seen'[q][i].got) : seen'[q][i].cells[k] = {q}
                    /\ ~Shares(q)' => seen'[q][i].len = seen'[q][i].got
    BY <1>2, <1>8, <1>11, <2>1 DEF AnswersFit
  <2>2. \A k \in 1..Smaller(s.len, s.got) : s.cells[k] = {r}
    <3>1. 1..Smaller(s.len, s.got) \subseteq 1..thread.got
      BY <1>7 DEF SeenRecord, Smaller
    <3> QED
      BY <1>2, <1>4, <1>7, <1>10, <3>1 DEF GotInv
  <2>3. ~Shares(r)' => s.len = s.got
    BY <1>1, <1>2, <1>4, <1>7, <1>10, <1>11 DEF GotInv
  <2>4. Len(seen'[r]) <= 1 /\ \A i \in DOMAIN seen'[r] : seen'[r][i] = s
    BY <1>8
  <2> QED
    BY <2>1, <2>2, <2>3, <2>4 DEF AnswersFit
<1>17. NoneForgotten'
  <2>1. \A q \in Requests : Armed(q)' /\ inbox'[q] # <<>> => q \in Hands'
    BY <1>13, HandsForgetNone
  <2>2. \A q \in Requests \ {r} : \A i \in DOMAIN seen'[q] : seen'[q][i].late => FALSE
    BY <1>1, <1>2, <1>8 DEF SeenInv
  <2>3. \A p, q \in Requests : p # q =>
            ~\E t \in {seen'[p][i] : i \in DOMAIN seen'[p]}, u \in {seen'[q][i] : i \in DOMAIN seen'[q]} :
                t.late /\ u.late
    BY <2>2
  <2> QED
    BY <1>5, <2>1, <2>3 DEF NoneForgotten, Hands
<1> QED
  BY <1>9, <1>12, <1>13, <1>14, <1>15, <1>16, <1>17 DEF ReqInv

\* For any requests, buffers and size: callbacks find there the cells of their
\* own reply, nobody else's unless the caller shared the buffer, once; no request
\* is forgotten without a reason; and after the end of the pool at most one
\* callback runs.
THEOREM RequestsAreSettled == ReqPoolSpec => []RequestsSettle
<1>1. PoolInit => ReqInv
  <2> SUFFICES ASSUME PoolInit PROVE ReqInv
    OBVIOUS
  <2>1. ReqTypeOK
    <3>1. buffer \in [Buffers -> Cells]
      BY DEF PoolInit, Cells, NoData
    <3>2. request \in [Requests -> RequestRecord] /\ \A r \in Requests : request[r].pc = "new"
      BY DEF PoolInit, RequestRecord, NoRequest, NoBuffer
    <3>3. thread \in ThreadRecord
      BY ReqPoolAssumption DEF PoolInit, ThreadRecord
    <3>4. len \in [Buffers -> -1..BufferSize]
      BY ReqPoolAssumption DEF PoolInit
    <3>5. inbox \in [Requests -> Seq(Nat \cup {ERROR, CLOSED})] /\ seen \in [Requests -> Seq(SeenRecord)]
      BY DEF PoolInit
    <3> QED
      BY <3>1, <3>2, <3>3, <3>4, <3>5 DEF PoolInit, ReqTypeOK
  <2>2. /\ \A r \in Requests : /\ request[r].pc = "new" /\ inbox[r] = <<>> /\ seen[r] = <<>>
                               /\ ~Armed(r) /\ ~Received(r) /\ ~Expects(r)
        /\ Hands = {} /\ events = {} /\ thread.cur = {} /\ thread.batch = {} /\ thread.pc = "wait"
    BY DEF PoolInit, Hands, Armed, Received, Expects, NoRequest
  <2>3. QueuesInv /\ HandsInv /\ GotInv /\ SeenInv
    BY <2>2 DEF QueuesInv, HandsInv, GotInv, SeenInv
  <2>4. LengthInv
    BY <2>2, ReqPoolAssumption DEF PoolInit, LengthInv, ERROR
  <2>5. AnswersFit /\ NoneForgotten
    BY <2>2 DEF AnswersFit, NoneForgotten
  <2> QED
    BY <2>1, <2>3, <2>4, <2>5 DEF ReqInv
<1>2. ReqInv /\ [PoolNext]_reqPoolVars => ReqInv'
  <2> SUFFICES ASSUME ReqInv, [PoolNext]_reqPoolVars PROVE ReqInv'
    OBVIOUS
  <2>1. CASE PoolNext
    BY <2>1, CommitSendKeeps, CommitArmKeeps, DestoryKeeps, ServerAnswersKeeps, WaitsEndsKeeps, PicksKeeps,
       RecvsKeeps, StoresKeeps, CallsKeeps DEF PoolNext
  <2>2. CASE UNCHANGED reqPoolVars
    BY <2>2 DEF reqPoolVars, ReqInv, ReqTypeOK, QueuesInv, HandsInv, Hands, Armed, Expects, Received, GotInv,
       Shares, BufferOf, LengthInv, SeenInv, AnswersFit, NoneForgotten
  <2> QED
    BY <2>1, <2>2
<1>3. ReqInv => RequestsSettle
  BY DEF ReqInv, RequestsSettle
<1> QED
  BY <1>1, <1>2, <1>3, PTL DEF ReqPoolSpec

----------------------------------------------------------------------------
(* The fibers of the base modules, BaseFiber. *)

Context == [stack : Everyone, fresh : BOOLEAN]
FiberRecord == [state : {"none", "INIT", "EXEC", "TERM", "EXCEPT"}, ctx : Context]

BaseTypeOK ==
    /\ fiber \in [Everyone -> FiberRecord]
    /\ held \subseteq BaseFibers
    /\ locals \in [Everyone -> Seq(Everyone)]
    /\ saved \in [Everyone -> Everyone \cup {"running", "none"}]
    /\ running \in Everyone /\ t_fiber \in Everyone \cup {"null"} /\ nested \in BOOLEAN

\* MainFunc's shared_ptr is at the bottom of every stack that was begun; only a
\* fiber's own context begins a stack, which is the fiber's.
StackInv ==
    /\ \A s \in BaseFibers : saved[s] # "none" => locals[s] # <<>> /\ locals[s][1] = s
    /\ process = "runs" => saved[running] = "running"
    /\ \A f \in Everyone : fiber[f].ctx.fresh => f \in BaseFibers /\ fiber[f].ctx.stack = f
    /\ \A f \in held : Made(f)

\* As long as only the main fiber swaps in: who executes is known to t_fiber, and
\* everybody else's context is the one written when his stack was left.
FlatInv ==
    /\ process # "wild" /\ fiber[Main].ctx = Rest(Main)
    /\ \A f \in BaseFibers : fiber[f].ctx.stack = IF Made(f) THEN f ELSE Main
    /\ process = "runs" =>
        /\ t_fiber \in {running, "null"} /\ (t_fiber = "null" => running = Main)
        /\ running # Main => saved[Main] = Main /\ fiber[running].state = "EXEC"
        /\ \A f \in BaseFibers : fiber[f].state = "EXEC" => f = running
        /\ \A f \in BaseFibers : Made(f) /\ ~fiber[f].ctx.fresh /\ f # running => saved[f] = f

BaseInv == BaseTypeOK /\ StackInv /\ (~nested => FlatInv)

LEMMA ContextSet ==
    ASSUME NEW old \in FiberRecord, NEW c \in Context
    PROVE  /\ [old EXCEPT !.ctx = c] \in FiberRecord
           /\ [old EXCEPT !.ctx = c].state = old.state /\ [old EXCEPT !.ctx = c].ctx = c
<1>1. PICK state \in {"none", "INIT", "EXEC", "TERM", "EXCEPT"}, ctx \in Context :
        old = [state |-> state, ctx |-> ctx]
  BY DEF FiberRecord
<1> QED
  BY <1>1 DEF FiberRecord

LEMMA StateSet ==
    ASSUME NEW old \in FiberRecord
    PROVE  /\ [old EXCEPT !.state = "EXEC"] \in FiberRecord
           /\ [old EXCEPT !.state = "EXEC"].state = "EXEC" /\ [old EXCEPT !.state = "EXEC"].ctx = old.ctx
<1>1. PICK state \in {"none", "INIT", "EXEC", "TERM", "EXCEPT"}, ctx \in Context :
        old = [state |-> state, ctx |-> ctx]
  BY DEF FiberRecord
<1> QED
  BY <1>1 DEF FiberRecord

LEMMA BegunIsAlive ==
    ASSUME BaseInv, NEW f \in BaseFibers, saved[f] # "none"
    PROVE  Alive(f)
<1>1. locals[f] # <<>> /\ locals[f][1] = f /\ locals[f] \in Seq(Everyone)
  BY DEF BaseInv, StackInv, BaseTypeOK, Everyone
<1>2. 1 \in DOMAIN locals[f]
  BY <1>1
<1> QED
  BY <1>1, <1>2 DEF Alive, Everyone

\* Create, reset and drop, and the end, switch no context.
LEMMA StandKeeps ==
    ASSUME BaseInv, NEW f \in BaseFibers, Create(f) \/ ResetCb(f) \/ DropPtr(f)
    PROVE  BaseInv'
<1>1. /\ BaseTypeOK /\ StackInv /\ process = "runs" /\ f # Main /\ f \in Everyone
      /\ UNCHANGED <<locals, saved, running, t_fiber, process, nested>>
  BY BaseFiberAssumption DEF BaseInv, Create, ResetCb, DropPtr, Everyone
<1>2. PICK rec \in FiberRecord :
        /\ fiber' = [fiber EXCEPT ![f] = rec]
        /\ \/ rec = fiber[f]
           \/ rec.ctx = Start(f) /\ rec.state # "none" /\ (rec.state = "EXEC" => fiber[f].state = "EXEC")
        /\ held' \subseteq held \/ (held' \subseteq held \cup {f} /\ rec.state # "none")
        /\ fiber[f].state = "EXEC" => rec.state = "EXEC"
        /\ Made(f) => rec.state # "none"
  <2>1. CASE Create(f)
    <3>1. [state |-> "INIT", ctx |-> Start(f)] \in FiberRecord
      BY <1>1 DEF FiberRecord, Context, Start
    <3> QED
      BY <2>1, <3>1 DEF Create, Made
  <2>2. CASE ResetCb(f)
    <3>1. PICK c \in Context : c = Start(f)
      BY <1>1 DEF Context, Start
    <3>2. PICK old \in FiberRecord : old = fiber[f]
      BY <1>1 DEF BaseTypeOK
    <3> DEFINE rec == [old EXCEPT !.ctx = c]
    <3>3. rec \in FiberRecord /\ rec.state = old.state /\ rec.ctx = c
      BY ContextSet
    <3> HIDE DEF rec
    <3>4. fiber' = [fiber EXCEPT ![f] = rec] /\ held' = held /\ Made(f)
      BY <1>1, <2>2, <3>1, <3>2 DEF ResetCb, StackInv, BaseTypeOK, rec
    <3> QED
      BY <3>1, <3>2, <3>3, <3>4 DEF Made
  <2>3. CASE DropPtr(f)
    <3>1. fiber' = [fiber EXCEPT ![f] = fiber[f]] /\ held' \subseteq held /\ fiber[f] \in FiberRecord
      BY <1>1, <2>3 DEF DropPtr, BaseTypeOK
    <3> QED
      BY <3>1 DEF Made
  <2> QED
    BY <2>1, <2>2, <2>3
<1>3. fiber' \in [Everyone -> FiberRecord] /\ fiber'[f] = rec /\ \A g \in Everyone \ {f} : fiber'[g] = fiber[g]
  BY <1>1, <1>2 DEF BaseTypeOK
<1>4. BaseTypeOK'
  BY <1>1, <1>2, <1>3 DEF BaseTypeOK
<1>5. StackInv'
  <2>1. \A g \in Everyone : fiber'[g].ctx.fresh => g \in BaseFibers /\ fiber'[g].ctx.stack = g
    BY <1>1, <1>2, <1>3 DEF StackInv, Start
  <2>2. \A g \in held' : Made(g)'
    BY <1>1, <1>2, <1>3 DEF StackInv, Made, BaseTypeOK, Everyone
  <2> QED
    BY <1>1, <2>1, <2>2 DEF StackInv
<1>6. ~nested => FlatInv'
  <2> SUFFICES ASSUME FlatInv PROVE FlatInv'
    BY DEF BaseInv
  <2>1. fiber'[Main] = fiber[Main] /\ Main \in Everyone /\ BaseFibers \subseteq Everyone
    BY <1>1, <1>3 DEF Everyone
  <2>2. ASSUME NEW g \in BaseFibers
        PROVE  /\ fiber'[g].ctx.stack = IF Made(g)' THEN g ELSE Main
               /\ fiber'[g].state = "EXEC" => g = running
               /\ Made(g)' /\ ~fiber'[g].ctx.fresh /\ g # running => saved[g] = g
    BY <1>1, <1>2, <1>3, <2>1 DEF FlatInv, Made, Start
  <2>3. running # Main => fiber'[running].state = "EXEC"
    BY <1>1, <1>2, <1>3 DEF FlatInv, BaseTypeOK
  <2> QED
    BY <1>1, <2>1, <2>2, <2>3 DEF FlatInv
<1> QED
  BY <1>1, <1>4, <1>5, <1>6 DEF BaseInv

LEMMA GetThisKeeps ==
    ASSUME BaseInv, GetThisFirst
    PROVE  BaseInv'
<1>1. /\ BaseTypeOK /\ StackInv /\ process = "runs" /\ t_fiber = "null" /\ t_fiber' = Main
      /\ UNCHANGED <<held, locals, saved, running, process, nested>>
      /\ Main \in Everyone /\ Main \notin BaseFibers /\ BaseFibers \subseteq Everyone
  BY BaseFiberAssumption DEF BaseInv, GetThisFirst, Everyone
<1>2. /\ fiber' \in [Everyone -> FiberRecord] /\ fiber'[Main].ctx = fiber[Main].ctx
      /\ \A f \in BaseFibers : fiber'[f] = fiber[f]
  BY <1>1 DEF GetThisFirst, BaseTypeOK, FiberRecord
<1>3. BaseTypeOK'
  BY <1>1, <1>2 DEF BaseTypeOK
<1>4. StackInv'
  BY <1>1, <1>2 DEF StackInv, Made, Everyone, BaseTypeOK
<1>5. ~nested => FlatInv'
  BY <1>1, <1>2 DEF BaseInv, FlatInv, Made, BaseTypeOK, Everyone
<1> QED
  BY <1>1, <1>3, <1>4, <1>5 DEF BaseInv

LEMMA EndsKeeps ==
    ASSUME BaseInv, MainFuncEnds
    PROVE  BaseInv'
<1>1. /\ BaseTypeOK /\ StackInv /\ running # Main /\ process' \in {"exited", "freed under itself"}
      /\ UNCHANGED <<held, running, t_fiber, nested>>
      /\ locals' = [locals EXCEPT ![running] = <<>>] /\ saved' = [saved EXCEPT ![running] = "none"]
      /\ Main \in Everyone /\ Main \notin BaseFibers /\ BaseFibers \subseteq Everyone
  BY BaseFiberAssumption DEF BaseInv, MainFuncEnds, Everyone
<1>2. PICK state \in {"none", "INIT", "EXEC", "TERM", "EXCEPT"} :
        /\ fiber' = [fiber EXCEPT ![running].state = state]
        /\ state = "none" => fiber[running].state = "none"
  BY <1>1 DEF MainFuncEnds, BaseTypeOK, FiberRecord
<1>3. /\ fiber' \in [Everyone -> FiberRecord]
      /\ \A f \in Everyone : fiber'[f].ctx = fiber[f].ctx /\ (Made(f) => Made(f)')
      /\ \A f \in Everyone \ {running} : fiber'[f] = fiber[f]
  <2>1. /\ fiber'[running].state = state /\ fiber'[running].ctx = fiber[running].ctx
        /\ fiber'[running] \in FiberRecord
        /\ \A f \in Everyone \ {running} : fiber'[f] = fiber[f]
    BY <1>1, <1>2 DEF BaseTypeOK, FiberRecord
  <2> QED
    BY <1>1, <1>2, <2>1 DEF BaseTypeOK, Made
<1>4. BaseTypeOK'
  <2>1. locals' \in [Everyone -> Seq(Everyone)]
    <3>1. <<>> \in Seq(Everyone)
      OBVIOUS
    <3>2. \A s \in Everyone : locals'[s] = IF s = running THEN <<>> ELSE locals[s]
      BY <1>1 DEF BaseTypeOK
    <3> QED
      BY <1>1, <3>1, <3>2 DEF BaseTypeOK
  <2>2. saved' \in [Everyone -> Everyone \cup {"running", "none"}]
    BY <1>1 DEF BaseTypeOK
  <2> QED
    BY <1>1, <1>3, <2>1, <2>2 DEF BaseTypeOK
<1>5. StackInv'
  BY <1>1, <1>3 DEF StackInv, BaseTypeOK
<1>6. ~nested => FlatInv'
  <2> SUFFICES ASSUME FlatInv PROVE FlatInv'
    BY DEF BaseInv
  <2>1. fiber[running].state = "EXEC" /\ Made(running)
    BY <1>1 DEF FlatInv, Made, MainFuncEnds
  <2>2. \A f \in BaseFibers : Made(f)' <=> Made(f)
    BY <1>1, <1>3, <2>1 DEF Made
  <2> QED
    BY <1>1, <1>3, <2>2 DEF FlatInv
<1> QED
  BY <1>1, <1>4, <1>5, <1>6 DEF BaseInv

\* A context that leads somewhere begins the stack of its fiber, or goes on with
\* one that was left.
LEMMA EnterKeeps ==
    ASSUME BaseInv, NEW o \in Everyone, NEW left, NEW rest,
           left \in [Everyone -> Everyone \cup {"running", "none"}],
           rest \in [Everyone -> Seq(Everyone)],
           \A s \in BaseFibers : left[s] # "none" => rest[s] # <<>> /\ rest[s][1] = s,
           Leads(o, left), Enter(o, rest, left)
    PROVE  /\ locals' \in [Everyone -> Seq(Everyone)]
           /\ saved' \in [Everyone -> Everyone \cup {"running", "none"}]
           /\ running' = fiber[o].ctx.stack /\ running' \in Everyone
           /\ process' = process /\ saved' = [left EXCEPT ![running'] = "running"]
           /\ \A s \in BaseFibers : saved'[s] # "none" => locals'[s] # <<>> /\ locals'[s][1] = s
<1>1. BaseTypeOK /\ StackInv /\ Main \notin BaseFibers /\ "none" \notin Everyone
  BY BaseFiberAssumption DEF BaseInv, Everyone, Main
<1>2. PICK s \in Everyone : s = fiber[o].ctx.stack
  BY <1>1 DEF BaseTypeOK, FiberRecord, Context
<1>3. running' = s /\ saved' = [left EXCEPT ![s] = "running"] /\ process' = process
  BY <1>2 DEF Enter
<1>4. PICK new \in Seq(Everyone) :
        /\ locals' = [rest EXCEPT ![s] = new]
        /\ s \in BaseFibers => new # <<>> /\ new[1] = s
  <2>1. CASE fiber[o].ctx.fresh
    <3>1. locals' = [rest EXCEPT ![s] = <<o>>] /\ <<o>> \in Seq(Everyone) /\ <<o>>[1] = o /\ <<o>> # <<>>
      BY <1>2, <2>1 DEF Enter
    <3>2. s = o
      BY <1>1, <1>2, <2>1 DEF StackInv
    <3> QED
      BY <3>1, <3>2
  <2>2. CASE ~fiber[o].ctx.fresh
    <3>1. PICK old \in Seq(Everyone) : old = rest[s]
      BY <1>2
    <3>2. locals' = [rest EXCEPT ![s] = IF Len(old) = (IF s = Main THEN 0 ELSE 1) THEN old ELSE Front(old)]
      BY <1>2, <2>2, <3>1 DEF Enter
    <3>3. left[s] = o /\ left[s] # "none"
      BY <1>1, <1>2, <2>2 DEF Leads
    <3>4. s \in BaseFibers => old # <<>> /\ old[1] = s /\ s # Main
      BY <1>1, <3>1, <3>3
    <3>5. Front(old) \in Seq(Everyone)
      BY DEF Front
    <3>6. ASSUME s \in BaseFibers, Len(old) # 1
          PROVE  Front(old) # <<>> /\ Front(old)[1] = s
      <4>0. Len(old) \in Nat /\ Len(old) # 0
        BY <3>4, <3>6
      <4>1. Len(old) \in Nat /\ Len(old) > 1 /\ old[1] = s
        <5>0. PICK n \in Nat : n = Len(old)
          BY <4>0
        <5>1. n # 0 /\ n # 1
          BY <3>6, <4>0, <5>0
        <5>2. n > 1
          BY <5>1
        <5>3. Len(old) > 1
          BY <5>0, <5>2
        <5> QED
          BY <3>4, <3>6, <4>0, <5>3
      <4>2. Len(Front(old)) = Len(old) - 1 /\ Front(old)[1] = old[1]
        BY <4>1 DEF Front
      <4> QED
        BY <4>1, <4>2, <3>5
    <3> QED
      BY <3>2, <3>4, <3>5, <3>6
  <2> QED
    BY <2>1, <2>2
<1>5. \A t \in Everyone \ {s} : locals'[t] = rest[t] /\ saved'[t] = left[t]
  BY <1>3, <1>4
<1>6. locals'[s] = new /\ saved'[s] = "running"
  BY <1>3, <1>4
<1>7. BaseFibers \subseteq Everyone
  BY DEF Everyone
<1> QED
  BY <1>2, <1>3, <1>4, <1>5, <1>6, <1>7

LEMMA DiesKeeps ==
    ASSUME BaseInv, NEW how, Die(how), how # "runs", t_fiber' \in Everyone \cup {"null"},
           how = "wild" => nested
    PROVE  BaseInv'
<1>1. BaseTypeOK /\ StackInv /\ process' = how
      /\ UNCHANGED <<fiber, held, locals, leaked, saved, running, nested>>
  BY DEF BaseInv, Die
<1>2. BaseTypeOK'
  BY <1>1 DEF BaseTypeOK
<1>3. StackInv'
  BY <1>1 DEF StackInv, Made
<1>4. ~nested => FlatInv'
  BY <1>1 DEF BaseInv, FlatInv, Made
<1> QED
  BY <1>1, <1>2, <1>3, <1>4 DEF BaseInv

LEMMA SwapinKeeps ==
    ASSUME BaseInv, NEW f \in BaseFibers, Swapin(f)
    PROVE  BaseInv'
<1>1. /\ BaseTypeOK /\ StackInv /\ process = "runs" /\ f \in held /\ t_fiber' = f /\ Made(f)
      /\ Main \in Everyone /\ Main \notin BaseFibers /\ BaseFibers \subseteq Everyone
      /\ f \in Everyone /\ f # Main /\ "none" \notin Everyone /\ running \in Everyone
      /\ f # "null" /\ f # "none" /\ f # "running" /\ saved[running] = "running"
  BY BaseFiberAssumption DEF BaseInv, Swapin, Everyone, StackInv, BaseTypeOK, Main
<1>2. CASE fiber[f].state = "EXEC"
  <2>1. UNCHANGED <<fiber, held, locals, leaked, saved, running, process, nested>>
    BY <1>2 DEF Swapin
  <2>2. BaseTypeOK'
    BY <1>1, <2>1 DEF BaseTypeOK
  <2>3. StackInv'
    BY <2>1, <1>1 DEF StackInv, Made
  <2>4. ~nested => FlatInv'
    BY <1>1, <1>2, <2>1 DEF BaseInv, FlatInv, Made
  <2> QED
    BY <2>1, <2>2, <2>3, <2>4 DEF BaseInv
<1>3. CASE fiber[f].state # "EXEC"
  <2>1. PICK left : left = [saved EXCEPT ![running] = Main]
    OBVIOUS
  <2>2. /\ left \in [Everyone -> Everyone \cup {"running", "none"}] /\ left[running] = Main
        /\ \A s \in Everyone \ {running} : left[s] = saved[s]
    BY <1>1, <2>1 DEF BaseTypeOK
  <2>3. ~nested => Leads(f, left) /\ f # running
    <3> SUFFICES ASSUME FlatInv PROVE Leads(f, left) /\ f # running
      BY DEF BaseInv
    <3>1. fiber[f].ctx.stack = f /\ f # running
      BY <1>1, <1>3 DEF FlatInv
    <3>2. ~fiber[f].ctx.fresh => left[f] = f
      BY <1>1, <2>2, <3>1 DEF FlatInv
    <3> QED
      BY <3>1, <3>2 DEF Leads
  <2>4. CASE ~Made(Main)
    BY <1>1, <1>3, <2>4, DiesKeeps DEF Swapin
  <2>5. CASE Made(Main) /\ ~Leads(f, left)
    BY <1>1, <1>3, <2>1, <2>3, <2>5, DiesKeeps DEF Swapin, BaseInv, BaseTypeOK
  <2>6. CASE Made(Main) /\ Leads(f, left)
    <3>1. /\ fiber' = [fiber EXCEPT ![f].state = "EXEC", ![Main].ctx = Rest(running)]
          /\ Enter(f, locals, left) /\ nested' = (nested \/ running # Main) /\ held' = held
      BY <1>3, <2>1, <2>6 DEF Swapin
    <3>2. \A s \in BaseFibers : left[s] # "none" => locals[s] # <<>> /\ locals[s][1] = s
      BY <1>1, <2>2 DEF StackInv
    <3>3. /\ locals' \in [Everyone -> Seq(Everyone)]
          /\ saved' \in [Everyone -> Everyone \cup {"running", "none"}]
          /\ running' = fiber[f].ctx.stack /\ running' \in Everyone
          /\ process' = process /\ saved' = [left EXCEPT ![running'] = "running"]
          /\ \A s \in BaseFibers : saved'[s] # "none" => locals'[s] # <<>> /\ locals'[s][1] = s
      <4>1. PICK rest : rest = locals
        OBVIOUS
      <4>2. /\ rest \in [Everyone -> Seq(Everyone)] /\ Enter(f, rest, left) /\ f \in Everyone
            /\ \A s \in BaseFibers : left[s] # "none" => rest[s] # <<>> /\ rest[s][1] = s
        BY <1>1, <3>1, <3>2, <4>1 DEF BaseTypeOK
      <4> QED
        BY <2>2, <2>6, <4>2, EnterKeeps
    <3>4. /\ fiber' \in [Everyone -> FiberRecord]
          /\ fiber'[f].state = "EXEC" /\ fiber'[f].ctx = fiber[f].ctx
          /\ fiber'[Main].state = fiber[Main].state /\ fiber'[Main].ctx = Rest(running)
          /\ \A g \in Everyone \ {f, Main} : fiber'[g] = fiber[g]
      <4>0. Rest(running) \in Context /\ ~Rest(running).fresh
        BY <1>1 DEF Context, Rest
      <4>1. PICK c \in Context : c = Rest(running) /\ ~c.fresh
        BY <4>0
      <4>2. PICK one \in FiberRecord, main \in FiberRecord :
              /\ one = [fiber[f] EXCEPT !.state = "EXEC"] /\ one.state = "EXEC" /\ one.ctx = fiber[f].ctx
              /\ main = [fiber[Main] EXCEPT !.ctx = c] /\ main.state = fiber[Main].state /\ main.ctx = c
        <5>1. PICK old \in FiberRecord, older \in FiberRecord : old = fiber[f] /\ older = fiber[Main]
          BY <1>1 DEF BaseTypeOK
        <5>2. PICK one \in FiberRecord : one = [old EXCEPT !.state = "EXEC"] /\ one.state = "EXEC" /\ one.ctx = old.ctx
          BY StateSet
        <5>3. PICK main \in FiberRecord : main = [older EXCEPT !.ctx = c] /\ main.state = older.state /\ main.ctx = c
          BY ContextSet
        <5> QED
          BY <5>1, <5>2, <5>3
      <4>3. fiber' = [fiber EXCEPT ![f] = one, ![Main] = main]
        BY <1>1, <3>1, <4>1, <4>2 DEF BaseTypeOK
      <4>4. fiber'[f] = one /\ fiber'[Main] = main /\ \A g \in Everyone \ {f, Main} : fiber'[g] = fiber[g]
        BY <1>1, <4>3 DEF BaseTypeOK
      <4>5. fiber' \in [Everyone -> FiberRecord]
        BY <1>1, <4>3 DEF BaseTypeOK
      <4> QED
        BY <4>1, <4>2, <4>4, <4>5
    <3>5. BaseTypeOK'
      BY <1>1, <3>1, <3>3, <3>4 DEF BaseTypeOK
    <3>6. StackInv'
      <4>1. \A g \in Everyone : fiber'[g].ctx.fresh => g \in BaseFibers /\ fiber'[g].ctx.stack = g
        BY <1>1, <3>4 DEF StackInv, Rest
      <4>2. ASSUME NEW g \in held PROVE Made(g)'
        <5>1. g \in Everyone /\ fiber[g].state # "none"
          BY <1>1 DEF StackInv, Made, BaseTypeOK
        <5>2. fiber'[g].state = fiber[g].state \/ fiber'[g].state = "EXEC"
          BY <3>4, <5>1
        <5> QED
          BY <5>1, <5>2 DEF Made
      <4>3. saved'[running'] = "running"
        BY <2>2, <3>3
      <4> QED
        BY <3>1, <3>3, <4>1, <4>2, <4>3 DEF StackInv
    <3>7. ~nested' => FlatInv'
      <4> SUFFICES ASSUME FlatInv, running = Main PROVE FlatInv'
        BY <3>1 DEF BaseInv
      <4>1. running' = f
        BY <1>1, <3>3 DEF FlatInv
      <4>2. saved'[Main] = Main /\ \A g \in BaseFibers \ {f} : saved'[g] = saved[g]
        BY <1>1, <2>2, <3>3, <4>1
      <4>3. \A g \in BaseFibers : (Made(g)' <=> Made(g)) /\ fiber'[g].ctx = fiber[g].ctx
        BY <1>1, <3>4 DEF Made
      <4>4. \A g \in BaseFibers : fiber'[g].state = "EXEC" => g = f
        BY <1>1, <3>4 DEF FlatInv
      <4>5. running' = f /\ process' = "runs"
        BY <1>1, <3>3, <4>1
      <4>6. process' # "wild" /\ fiber'[Main].ctx = Rest(Main)
        BY <3>4, <4>1, <4>5 DEF FlatInv
      <4>7. t_fiber' = running' /\ saved'[Main] = Main /\ fiber'[running'].state = "EXEC"
        BY <1>1, <3>4, <4>2, <4>5
      <4> QED
        BY <4>2, <4>3, <4>4, <4>5, <4>6, <4>7, <1>1 DEF FlatInv
    <3> QED
      BY <3>5, <3>6, <3>7 DEF BaseInv
  <2> QED
    BY <2>4, <2>5, <2>6
<1> QED
  BY <1>2, <1>3

LEMMA YeldKeeps ==
    ASSUME BaseInv, Yeld
    PROVE  BaseInv'
<1>1. /\ BaseTypeOK /\ StackInv /\ process = "runs" /\ t_fiber # "null" /\ t_fiber' = Main
      /\ Main \in Everyone /\ Main \notin BaseFibers /\ BaseFibers \subseteq Everyone
      /\ "none" \notin Everyone /\ running \in Everyone /\ saved[running] = "running"
  BY BaseFiberAssumption DEF BaseInv, Yeld, Everyone, StackInv, BaseTypeOK, Main
<1>2. PICK cur \in Everyone, rec \in FiberRecord :
        /\ cur = t_fiber /\ rec = [state |-> "TERM", ctx |-> Rest(running)] /\ rec.state = "TERM"
        /\ rec.ctx = Rest(running) /\ ~rec.ctx.fresh /\ rec.ctx.stack = running
  <2>1. Rest(running) \in Context /\ ~Rest(running).fresh /\ Rest(running).stack = running
    BY <1>1 DEF Context, Rest
  <2>2. [state |-> "TERM", ctx |-> Rest(running)] \in FiberRecord
    BY <2>1 DEF FiberRecord
  <2>3. t_fiber \in Everyone
    BY <1>1 DEF BaseTypeOK
  <2> QED
    BY <2>1, <2>2, <2>3
<1>3. CASE cur = Main
  <2>1. fiber' = [fiber EXCEPT ![Main] = rec] /\ UNCHANGED <<held, locals, leaked, saved, running, process, nested>>
    BY <1>2, <1>3 DEF Yeld
  <2>2. /\ fiber' \in [Everyone -> FiberRecord] /\ fiber'[Main] = rec
        /\ \A f \in Everyone \ {Main} : fiber'[f] = fiber[f]
    BY <1>1, <2>1 DEF BaseTypeOK
  <2>3. BaseTypeOK'
    BY <1>1, <2>1, <2>2 DEF BaseTypeOK
  <2>4. StackInv'
    BY <1>1, <1>2, <2>1, <2>2 DEF StackInv, Made, BaseTypeOK
  <2>5. ~nested => FlatInv'
    <3> SUFFICES ASSUME FlatInv PROVE FlatInv'
      BY DEF BaseInv
    <3>1. running = Main
      BY <1>1, <1>2, <1>3 DEF FlatInv
    <3>2. \A f \in BaseFibers : fiber'[f] = fiber[f] /\ (Made(f)' <=> Made(f))
      BY <1>1, <2>2 DEF Made
    <3> QED
      BY <1>1, <1>2, <2>1, <2>2, <3>1, <3>2 DEF FlatInv
  <2> QED
    BY <2>1, <2>3, <2>4, <2>5 DEF BaseInv
<1>4. CASE cur # Main
  <2>1. PICK left, rest : left = [saved EXCEPT ![running] = cur] /\ rest = [locals EXCEPT ![running] = Append(@, cur)]
    OBVIOUS
  <2>2. /\ left \in [Everyone -> Everyone \cup {"running", "none"}] /\ left[running] = cur
        /\ \A s \in Everyone \ {running} : left[s] = saved[s]
    BY <1>1, <2>1 DEF BaseTypeOK
  <2>3. cur \in BaseFibers
    BY <1>4 DEF Everyone
  <2>4. ~nested => Alive(cur) /\ Leads(Main, left) /\ cur = running
    <3> SUFFICES ASSUME FlatInv PROVE Alive(cur) /\ Leads(Main, left) /\ cur = running
      BY DEF BaseInv
    <3>1. cur = running /\ saved[Main] = Main
      BY <1>1, <1>2, <1>4 DEF FlatInv
    <3>2. Alive(cur)
      BY <1>1, <2>3, <3>1, BegunIsAlive
    <3>3. Leads(Main, left)
      BY <1>1, <1>4, <2>2, <3>1 DEF Leads, FlatInv, Rest
    <3> QED
      BY <3>1, <3>2, <3>3
  <2>5. CASE ~Alive(cur) \/ ~Leads(Main, left)
    <3>1. Die("wild")
      BY <1>2, <1>4, <2>1, <2>5 DEF Yeld
    <3> QED
      BY <1>1, <2>4, <2>5, <3>1, DiesKeeps DEF BaseInv, BaseTypeOK
  <2>6. CASE Alive(cur) /\ Leads(Main, left)
    <3>1. /\ fiber' = [fiber EXCEPT ![cur] = rec]
          /\ Enter(Main, rest, left) /\ UNCHANGED <<held, nested>>
      BY <1>2, <1>4, <2>1, <2>6 DEF Yeld
    <3>2. /\ rest \in [Everyone -> Seq(Everyone)]
          /\ \A s \in BaseFibers : left[s] # "none" => rest[s] # <<>> /\ rest[s][1] = s
      <4>1. PICK old \in Seq(Everyone), new \in Seq(Everyone) : old = locals[running] /\ new = Append(old, cur)
        <5>1. locals[running] \in Seq(Everyone)
          BY <1>1 DEF BaseTypeOK
        <5>2. Append(locals[running], cur) \in Seq(Everyone)
          BY <5>1
        <5> QED
          BY <5>1, <5>2
      <4>2. new # <<>> /\ (old # <<>> => new[1] = old[1])
        BY <4>1
      <4>3. rest = [locals EXCEPT ![running] = new]
        BY <1>1, <2>1, <4>1 DEF BaseTypeOK
      <4>4. rest \in [Everyone -> Seq(Everyone)] /\ rest[running] = new
            /\ \A s \in Everyone \ {running} : rest[s] = locals[s]
        BY <1>1, <4>3 DEF BaseTypeOK
      <4>5. running \in BaseFibers => old # <<>> /\ old[1] = running
        BY <1>1, <4>1 DEF StackInv
      <4> QED
        BY <1>1, <2>2, <4>2, <4>4, <4>5 DEF StackInv
    <3>3. /\ locals' \in [Everyone -> Seq(Everyone)]
          /\ saved' \in [Everyone -> Everyone \cup {"running", "none"}]
          /\ running' = fiber[Main].ctx.stack /\ running' \in Everyone
          /\ process' = process /\ saved' = [left EXCEPT ![running'] = "running"]
          /\ \A s \in BaseFibers : saved'[s] # "none" => locals'[s] # <<>> /\ locals'[s][1] = s
      <4>1. Main \in Everyone /\ Enter(Main, rest, left) /\ Leads(Main, left)
        <5>1. rest = [locals EXCEPT ![running] = Append(@, cur)]
          BY <2>1
        <5> QED
          BY <1>1, <2>6, <3>1
      <4> QED
        BY <2>2, <3>2, <4>1, EnterKeeps
    <3>4. /\ fiber' \in [Everyone -> FiberRecord] /\ fiber'[cur] = rec
          /\ \A g \in Everyone \ {cur} : fiber'[g] = fiber[g]
      BY <1>1, <3>1 DEF BaseTypeOK
    <3>5. BaseTypeOK'
      BY <1>1, <3>1, <3>3, <3>4 DEF BaseTypeOK
    <3>6. StackInv'
      <4>1. \A g \in Everyone : fiber'[g].ctx.fresh => g \in BaseFibers /\ fiber'[g].ctx.stack = g
        BY <1>1, <1>2, <3>4 DEF StackInv
      <4>2. \A g \in held : Made(g)'
        BY <1>1, <1>2, <3>4 DEF StackInv, Made, BaseTypeOK
      <4>3. saved'[running'] = "running"
        BY <2>2, <3>3
      <4> QED
        BY <3>1, <3>3, <4>1, <4>2, <4>3 DEF StackInv
    <3>7. ~nested => FlatInv'
      <4> SUFFICES ASSUME FlatInv, ~nested PROVE FlatInv'
        BY DEF BaseInv
      <4>1. running' = Main /\ cur = running
        BY <2>4, <3>3 DEF FlatInv, Rest
      <4>2. saved'[cur] = cur /\ \A g \in BaseFibers \ {cur} : saved'[g] = saved[g]
        BY <1>1, <1>4, <2>2, <3>3, <4>1
      <4>3. /\ \A g \in BaseFibers \ {cur} : fiber'[g] = fiber[g] /\ (Made(g)' <=> Made(g))
            /\ Made(cur)' /\ fiber'[Main] = fiber[Main] /\ fiber'[cur].ctx.stack = cur
            /\ fiber'[cur].state # "EXEC"
        BY <1>1, <1>2, <1>4, <3>4, <4>1 DEF Made
      <4>4. \A g \in BaseFibers : fiber'[g].ctx.stack = IF Made(g)' THEN g ELSE Main
        BY <4>3 DEF FlatInv
      <4>5. \A g \in BaseFibers : fiber'[g].state # "EXEC"
        BY <1>1, <4>1, <4>3 DEF FlatInv
      <4>6. \A g \in BaseFibers : Made(g)' /\ ~fiber'[g].ctx.fresh => saved'[g] = g
        BY <1>1, <4>1, <4>2, <4>3 DEF FlatInv
      <4> QED
        BY <1>1, <3>3, <4>1, <4>3, <4>4, <4>5, <4>6 DEF FlatInv
    <3> QED
      BY <3>1, <3>5, <3>6, <3>7 DEF BaseInv
  <2> QED
    BY <2>5, <2>6
<1> QED
  BY <1>3, <1>4

\* For any fibers: the memory of a stack that is still to be resumed stays; and
\* as long as only the main fiber swaps in, t_fiber is right and no context leads
\* to another fiber's stack or nowhere.
THEOREM FibersStaySound == BaseSpec => []StacksStaySound
<1>1. BaseInit => BaseInv
  <2> SUFFICES ASSUME BaseInit PROVE BaseInv
    OBVIOUS
  <2>1. Main \in Everyone /\ Main \notin BaseFibers /\ BaseFibers \subseteq Everyone /\ "none" # Main
    BY BaseFiberAssumption DEF Everyone, Main
  <2>2. NoFiber \in FiberRecord /\ NoFiber.ctx = Rest(Main) /\ ~NoFiber.ctx.fresh /\ NoFiber.ctx.stack = Main
        /\ NoFiber.state = "none"
    BY <2>1 DEF NoFiber, FiberRecord, Context, Rest
  <2>3. \A f \in Everyone : fiber[f] = NoFiber
    BY DEF BaseInit
  <2>4. BaseTypeOK
    <3>1. /\ fiber \in [Everyone -> FiberRecord] /\ held \subseteq BaseFibers /\ running \in Everyone
          /\ t_fiber \in Everyone \cup {"null"} /\ nested \in BOOLEAN
      BY <2>1, <2>2 DEF BaseInit
    <3>2. <<>> \in Seq(Everyone)
      OBVIOUS
    <3>3. locals \in [Everyone -> Seq(Everyone)]
      BY <3>2 DEF BaseInit
    <3>4. saved \in [Everyone -> Everyone \cup {"running", "none"}]
      BY DEF BaseInit
    <3> QED
      BY <3>1, <3>3, <3>4 DEF BaseTypeOK
  <2>5. StackInv
    BY <2>1, <2>2, <2>3 DEF BaseInit, StackInv
  <2>6. FlatInv
    BY <2>1, <2>2, <2>3 DEF BaseInit, FlatInv, Made
  <2> QED
    BY <2>4, <2>5, <2>6 DEF BaseInv
<1>2. BaseInv /\ [BaseNext]_baseVars => BaseInv'
  <2> SUFFICES ASSUME BaseInv, [BaseNext]_baseVars PROVE BaseInv'
    OBVIOUS
  <2>1. CASE BaseNext
    BY <2>1, StandKeeps, GetThisKeeps, EndsKeeps, SwapinKeeps, YeldKeeps DEF BaseNext
  <2>2. CASE UNCHANGED baseVars
    BY <2>2 DEF baseVars, BaseInv, BaseTypeOK, StackInv, FlatInv, Made
  <2> QED
    BY <2>1, <2>2
<1>3. BaseInv => StacksStaySound
  BY BegunIsAlive DEF BaseInv, FlatInv, StacksStaySound
<1> QED
  BY <1>1, <1>2, <1>3, PTL DEF BaseSpec

----------------------------------------------------------------------------
(* Sequences.  Facts about every length come from the shortest              *)
(* counterexample.                                                          *)

\* Any set of numbers has a least one: what takes the place of induction.
LEMMA Least ==
    ASSUME NEW T, T \subseteq Nat, T # {}
    PROVE  \E n \in T : \A k \in T : n <= k
<1>1. PICK R : R = OpToRel(<, Nat)
  OBVIOUS
<1>2. \A x, y \in Nat : <<y, x>> \in R <=> y < x
  BY <1>1 DEF OpToRel
<1>3. IsWellFoundedOn(R, Nat)
  BY <1>1, NatLessThanWellFounded
<1>4. PICK x \in T : \A y \in T : <<y, x>> \notin R
  BY <1>3, WFMin
<1>5. ASSUME NEW y \in T PROVE x <= y
  <2>1. x \in Nat /\ y \in Nat /\ ~(y < x)
    BY <1>2, <1>4
  <2> QED
    BY <2>1
<1> QED
  BY <1>4, <1>5

LEMMA AppendIs ==
    ASSUME NEW S, NEW s \in Seq(S), NEW e \in S
    PROVE  /\ Append(s, e) \in Seq(S) /\ Len(s) \in Nat /\ Len(Append(s, e)) = Len(s) + 1
           /\ Append(s, e)[Len(s) + 1] = e
           /\ \A i \in 1..Len(s) : Append(s, e)[i] = s[i]
<1>1. Append(s, e) \in Seq(S) /\ Len(Append(s, e)) = Len(s) + 1 /\ Append(s, e)[Len(s) + 1] = e
  BY AppendProperties, Zenon
<1>2. Len(s) \in Nat
  OBVIOUS
<1>3. \A i \in 1..Len(s) : Append(s, e)[i] = s[i]
  OBVIOUS
<1> QED
  BY <1>1, <1>2, <1>3

LEMMA WiderSeq ==
    ASSUME NEW S, NEW T, S \subseteq T, NEW s \in Seq(S)
    PROVE  s \in Seq(T)
  OBVIOUS

LEMMA ConcatAppend ==
    ASSUME NEW S, NEW s \in Seq(S), NEW t \in Seq(S), NEW e \in S
    PROVE  s \o Append(t, e) = Append(s \o t, e) /\ s \o t \in Seq(S)
<1>1. s \o t \in Seq(S)
  OBVIOUS
<1>2. s \o Append(t, e) = Append(s \o t, e)
  OBVIOUS
<1> QED
  BY <1>1, <1>2

LEMMA Between ==
    ASSUME NEW n \in Nat, NEW i \in 1..n, NEW j \in 1..n, i <= j
    PROVE  j \in i..n
  OBVIOUS

----------------------------------------------------------------------------
(* Making directories, Files: what a path names.                            *)

\* A step of one of the two walks along names: the kernel's, or Path's.
Onto(kind, dirs, name) == IF kind = "kernel" THEN Walk(dirs, name) ELSE StepInto(dirs, name)
Along(kind, start, names) ==
    IF kind = "kernel" THEN FoldLeft(Walk, start, names) ELSE FoldLeft(StepInto, start, names)

\* FoldLeft, unfolded: a function of the sets of positions folded so far.
Folds(kind, start, names, n, f) ==
    f = [s \in SUBSET (1..n) |->
            IF s = {} THEN start ELSE Onto(kind, f[s \ {Max(s)}], names[Max(s)])]

LEMMA MaxIs ==
    ASSUME NEW n \in Nat, NEW s, s \subseteq 1..n, n \in s
    PROVE  Max(s) = n
<1>1. \A y \in s : n >= y
  OBVIOUS
<1>2. \A x \in s : (\A y \in s : x >= y) => x = n
  OBVIOUS
<1> QED
  BY <1>1, <1>2, Zenon DEF Max

LEMMA MaxIn ==
    ASSUME NEW n \in Nat, NEW s, s \subseteq 1..n, s # {}
    PROVE  Max(s) \in s
<1> DEFINE T == {k \in 0..n : n - k \in s}
<1>1. PICK x : x \in s
  OBVIOUS
<1>2. n - x \in T /\ T \subseteq Nat
  BY <1>1
<1> HIDE DEF T
<1>3. PICK k \in T : \A j \in T : k <= j
  BY <1>2, Least
<1> USE DEF T
<1>4. n - k \in s
  BY <1>3
<1>5. ASSUME NEW y \in s PROVE n - k >= y
  <2>1. y \in 1..n /\ n - y \in 0..n /\ n - (n - y) = y
    OBVIOUS
  <2>2. n - y \in T
    BY <2>1
  <2>3. k <= n - y /\ k \in 0..n
    BY <1>3, <2>2
  <2> QED
    BY <2>1, <2>3
<1> QED
  BY <1>4, <1>5, Zenon DEF Max

LEMMA FoldExists ==
    ASSUME NEW kind, NEW start, NEW names, NEW n \in Nat
    PROVE  \E f : Folds(kind, start, names, n, f)
<1> DEFINE Missing == {m \in Nat : ~\E f : Folds(kind, start, names, m, f)}
<1> SUFFICES ASSUME Missing # {} PROVE FALSE
  OBVIOUS
<1>1. PICK m \in Missing : \A k \in Missing : m <= k
  <2>1. Missing \subseteq Nat
    BY Zenon
  <2> HIDE DEF Missing
  <2> QED
    BY <2>1, Least
<1>2. m \in Nat /\ ~\E f : Folds(kind, start, names, m, f)
  BY <1>1
<1>3. CASE m = 0
  <2> DEFINE f == [s \in SUBSET (1..0) |-> start]
  <2>1. 1..0 = {}
    OBVIOUS
  <2>2. Folds(kind, start, names, 0, f)
    BY <2>1 DEF Folds
  <2> QED
    BY <1>2, <1>3, <2>2
<1>4. CASE m # 0
  <2>1. m - 1 \in Nat /\ ~(m <= m - 1)
    BY <1>2, <1>4
  <2>2. PICK f : Folds(kind, start, names, m - 1, f)
    BY <1>1, <2>1
  <2> DEFINE g == [s \in SUBSET (1..m) |->
                    IF s \subseteq 1..m - 1 THEN f[s] ELSE Onto(kind, f[s \ {m}], names[m])]
  <2>3. ASSUME NEW s \in SUBSET (1..m)
        PROVE  g[s] = IF s = {} THEN start ELSE Onto(kind, g[s \ {Max(s)}], names[Max(s)])
    <3>1. CASE s \subseteq 1..m - 1
      <4>1. g[s] = f[s]
        BY <3>1
      <4>2. f[s] = IF s = {} THEN start ELSE Onto(kind, f[s \ {Max(s)}], names[Max(s)])
        BY <2>2, <3>1 DEF Folds
      <4>3. PICK t : t = s \ {Max(s)}
        OBVIOUS
      <4>4. t \subseteq 1..m - 1 /\ t \in SUBSET (1..m)
        BY <3>1, <4>3
      <4>5. g[t] = f[t]
        BY <4>4
      <4> HIDE DEF g
      <4> QED
        BY <4>1, <4>2, <4>3, <4>5
    <3>2. CASE ~(s \subseteq 1..m - 1)
      <4>1. m \in s /\ s # {}
        BY <1>2, <2>1, <3>2
      <4>2. Max(s) = m
        BY <1>2, <4>1, MaxIs
      <4>3. PICK t : t = s \ {m}
        OBVIOUS
      <4>4. t \subseteq 1..m - 1 /\ t \in SUBSET (1..m)
        BY <1>2, <4>3
      <4>5. g[t] = f[t]
        BY <4>4
      <4>6. g[s] = Onto(kind, f[t], names[m])
        BY <3>2, <4>3
      <4> HIDE DEF g
      <4> QED
        BY <4>1, <4>2, <4>3, <4>5, <4>6
    <3> QED
      BY <3>1, <3>2
  <2>4. Folds(kind, start, names, m, g)
    <3>1. PICK h : h = g
      OBVIOUS
    <3>2. \A s \in SUBSET (1..m) :
            h[s] = IF s = {} THEN start ELSE Onto(kind, h[s \ {Max(s)}], names[Max(s)])
      BY <2>3, <3>1, Zenon
    <3>3. h = [s \in SUBSET (1..m) |-> h[s]]
      BY <3>1
    <3>4. Folds(kind, start, names, m, h)
      BY <3>2, <3>3 DEF Folds
    <3> QED
      BY <3>1, <3>4, Zenon
  <2> QED
    BY <1>2, <2>4, Zenon
<1> QED
  BY <1>3, <1>4

\* Two folds over what is the same up to n.
FoldsAlike(kind, start, one, two, f, g, m, k, n) ==
    /\ Folds(kind, start, one, m, f) /\ Folds(kind, start, two, k, g)
    /\ m \in Nat /\ k \in Nat /\ n \in Nat /\ n <= m /\ n <= k
    /\ \A i \in 1..n : one[i] = two[i]

\* A fold of m names, of which n are looked at.
FoldedTo(kind, start, names, m, f, n) ==
    Folds(kind, start, names, m, f) /\ m \in Nat /\ n \in 0..m

LEMMA FoldUpto ==
    ASSUME NEW kind, NEW start, NEW names, NEW m, NEW f, NEW n,
           FoldedTo(kind, start, names, m, f, n)
    PROVE  f[1..n] = IF n = 0 THEN start ELSE Onto(kind, f[1..n - 1], names[n])
<1> USE DEF FoldedTo
<1>1. 1..n \in SUBSET (1..m)
  OBVIOUS
<1>2. f[1..n] = IF 1..n = {} THEN start ELSE Onto(kind, f[(1..n) \ {Max(1..n)}], names[Max(1..n)])
  BY <1>1 DEF Folds
<1>3. CASE n = 0
  BY <1>2, <1>3
<1>4. CASE n # 0
  <2>1. n \in 1..n /\ 1..n \subseteq 1..n /\ n \in Nat
    BY <1>4
  <2>2. Max(1..n) = n
    BY <2>1, MaxIs
  <2>3. (1..n) \ {n} = 1..n - 1
    BY <2>1
  <2>4. 1..n # {}
    BY <2>1
  <2> QED
    BY <1>2, <1>4, <2>2, <2>3, <2>4
<1> QED
  BY <1>3, <1>4

LEMMA FoldIsOne ==
    ASSUME NEW kind, NEW start, NEW one, NEW two, NEW f, NEW g, NEW m, NEW k, NEW n,
           FoldsAlike(kind, start, one, two, f, g, m, k, n)
    PROVE  f[1..n] = g[1..n]
<1> DEFINE Differ == {i \in 0..n : f[1..i] # g[1..i]}
<1>0. n \in Nat /\ m \in Nat /\ k \in Nat /\ n \in 0..n
  BY DEF FoldsAlike
<1> SUFFICES ASSUME Differ # {} PROVE FALSE
  BY <1>0
<1>1. PICK i \in Differ : \A j \in Differ : i <= j
  <2>1. Differ \subseteq Nat
    BY <1>0
  <2> HIDE DEF Differ
  <2> QED
    BY <2>1, Least
<1>2. i \in 0..n /\ f[1..i] # g[1..i]
  BY <1>1
<1>3. i \in 0..m /\ i \in 0..k
  BY <1>0, <1>2 DEF FoldsAlike
<1>4. f[1..i] = IF i = 0 THEN start ELSE Onto(kind, f[1..i - 1], one[i])
  <2>1. FoldedTo(kind, start, one, m, f, i)
    BY <1>0, <1>3 DEF FoldsAlike, FoldedTo
  <2> QED
    BY <2>1, FoldUpto
<1>5. g[1..i] = IF i = 0 THEN start ELSE Onto(kind, g[1..i - 1], two[i])
  <2>1. FoldedTo(kind, start, two, k, g, i)
    BY <1>0, <1>3 DEF FoldsAlike, FoldedTo
  <2> QED
    BY <2>1, FoldUpto
<1>6. CASE i = 0
  BY <1>2, <1>4, <1>5, <1>6
<1>7. CASE i # 0
  <2>1. i - 1 \in 0..n /\ ~(i <= i - 1) /\ i \in 1..n
    BY <1>0, <1>2, <1>7
  <2>2. f[1..i - 1] = g[1..i - 1]
    BY <1>1, <2>1
  <2>3. one[i] = two[i]
    BY <2>1 DEF FoldsAlike
  <2> QED
    BY <1>2, <1>4, <1>5, <1>7, <2>2, <2>3
<1> QED
  BY <1>6, <1>7

LEMMA AlongIs ==
    ASSUME NEW kind, NEW start, NEW S, NEW names \in Seq(S)
    PROVE  \E f : Folds(kind, start, names, Len(names), f) /\ Along(kind, start, names) = f[1..Len(names)]
<1>1. PICK n \in Nat : n = Len(names) /\ DOMAIN names = 1..n
  OBVIOUS
<1>2. \E f : Folds(kind, start, names, n, f)
  BY FoldExists
<1>3. CASE kind = "kernel"
  <2> DEFINE Fold(iter) == [s \in SUBSET (1..n) |->
                              IF s = {} THEN start ELSE Walk(iter[s \ {Max(s)}], names[Max(s)])]
  <2>1. \A iter : Folds(kind, start, names, n, iter) <=> iter = Fold(iter)
    BY <1>3 DEF Folds, Onto
  <2>2. PICK f : f = CHOOSE iter : iter = Fold(iter)
    OBVIOUS
  <2>3. Along(kind, start, names) = f[1..n]
    BY <1>1, <1>3, <2>2 DEF Along, FoldLeft, MapThenFoldSet
  <2>4. f = Fold(f)
    <3> HIDE DEF Fold
    <3>1. \E iter : iter = Fold(iter)
      BY <1>2, <2>1
    <3> QED
      BY <2>2, <3>1
  <2> HIDE DEF Fold
  <2> QED
    BY <1>1, <2>1, <2>3, <2>4
<1>4. CASE kind # "kernel"
  <2> DEFINE Fold(iter) == [s \in SUBSET (1..n) |->
                              IF s = {} THEN start ELSE StepInto(iter[s \ {Max(s)}], names[Max(s)])]
  <2>1. \A iter : Folds(kind, start, names, n, iter) <=> iter = Fold(iter)
    BY <1>4 DEF Folds, Onto
  <2>2. PICK f : f = CHOOSE iter : iter = Fold(iter)
    OBVIOUS
  <2>3. Along(kind, start, names) = f[1..n]
    BY <1>1, <1>4, <2>2 DEF Along, FoldLeft, MapThenFoldSet
  <2>4. f = Fold(f)
    <3> HIDE DEF Fold
    <3>1. \E iter : iter = Fold(iter)
      BY <1>2, <2>1
    <3> QED
      BY <2>2, <3>1
  <2> HIDE DEF Fold
  <2> QED
    BY <1>1, <2>1, <2>3, <2>4
<1> QED
  BY <1>3, <1>4

LEMMA AlongNone ==
    ASSUME NEW kind, NEW start
    PROVE  Along(kind, start, <<>>) = start
<1>1. <<>> \in Seq(Nat) /\ Len(<<>>) = 0
  OBVIOUS
<1>2. PICK f : Folds(kind, start, <<>>, 0, f) /\ Along(kind, start, <<>>) = f[1..0]
  BY <1>1, AlongIs
<1>3. FoldedTo(kind, start, <<>>, 0, f, 0)
  BY <1>2 DEF FoldedTo
<1> QED
  BY <1>2, <1>3, FoldUpto

\* One name more is one step more.
LEMMA AlongAppend ==
    ASSUME NEW kind, NEW start, NEW S, NEW names \in Seq(S), NEW name \in S
    PROVE  Along(kind, start, Append(names, name)) = Onto(kind, Along(kind, start, names), name)
<1>1. PICK more \in Seq(S), n \in Nat : more = Append(names, name) /\ n = Len(names)
  <2>1. Append(names, name) \in Seq(S) /\ Len(names) \in Nat
    BY AppendIs
  <2> QED
    BY <2>1
<1>2. Len(more) = n + 1 /\ more[n + 1] = name /\ \A i \in 1..n : names[i] = more[i]
  <2>1. Len(Append(names, name)) = Len(names) + 1 /\ Append(names, name)[Len(names) + 1] = name
    BY AppendIs
  <2>2. \A i \in 1..Len(names) : Append(names, name)[i] = names[i]
    OBVIOUS
  <2> QED
    BY <1>1, <2>1, <2>2
<1>3. PICK f : Folds(kind, start, names, n, f) /\ Along(kind, start, names) = f[1..n]
  BY <1>1, AlongIs
<1>4. PICK g : Folds(kind, start, more, n + 1, g) /\ Along(kind, start, more) = g[1..n + 1]
  <2>1. \E g : Folds(kind, start, more, Len(more), g) /\ Along(kind, start, more) = g[1..Len(more)]
    BY AlongIs
  <2> QED
    BY <1>2, <2>1
<1>5. g[1..n + 1] = Onto(kind, g[1..n], name)
  <2>1. PICK j \in Nat : j = n + 1 /\ j \in 0..j /\ j # 0 /\ j - 1 = n
    OBVIOUS
  <2>2. FoldedTo(kind, start, more, j, g, j)
    BY <1>4, <2>1 DEF FoldedTo
  <2>3. g[1..j] = Onto(kind, g[1..j - 1], more[j])
    BY <2>1, <2>2, FoldUpto
  <2> QED
    BY <1>2, <2>1, <2>3
<1>6. FoldsAlike(kind, start, names, more, f, g, n, n + 1, n)
  BY <1>2, <1>3, <1>4 DEF FoldsAlike
<1>7. f[1..n] = g[1..n]
  BY <1>6, FoldIsOne
<1> QED
  BY <1>1, <1>3, <1>4, <1>5, <1>7

LEMMA LeadNowhere == Lead(<<>>) = <<>>
  BY AlongNone DEF Lead, Along

LEMMA LeadAppend ==
    ASSUME NEW S, NEW names \in Seq(S), NEW name \in S
    PROVE  Lead(Append(names, name)) = Walk(Lead(names), name)
<1>1. Along("kernel", <<>>, Append(names, name)) = Onto("kernel", Along("kernel", <<>>, names), name)
  BY AlongAppend
<1> QED
  BY <1>1 DEF Lead, Along, Onto

\* A sequence that is not empty is another one and its last.
LEMMA LastApart ==
    ASSUME NEW S, NEW s \in Seq(S), s # <<>>
    PROVE  \E short \in Seq(S), last \in S : s = Append(short, last) /\ Len(s) = Len(short) + 1
<1>1. PICK n \in Nat : n = Len(s) /\ n # 0
  <2>1. Len(s) \in Nat /\ Len(s) # 0
    BY EmptySeq
  <2> QED
    BY <2>1
<1> DEFINE short == [i \in 1..n - 1 |-> s[i]]
<1>2. short \in Seq(S) /\ Len(short) = n - 1 /\ s[n] \in S
  BY <1>1
<1>3. s = Append(short, s[n])
  BY <1>1, <1>2
<1>4. Len(s) = Len(short) + 1
  BY <1>1, <1>2
<1> HIDE DEF short
<1> QED
  BY <1>2, <1>3, <1>4

LEMMA FrontIs ==
    ASSUME NEW S, NEW short \in Seq(S), NEW last \in S
    PROVE  Front(Append(short, last)) = short /\ Append(short, last) # <<>>
  BY DEF Front

Proper == STRING \ {"", ".", ".."}

LEMMA ProperAreNames ==
    /\ \A d \in Seq(Proper) : d \in Seq(STRING)
    /\ \A name \in Proper : name \in STRING
<1>1. Proper \subseteq STRING
  BY DEF Proper
<1> QED
  BY <1>1, WiderSeq

\* The walk along proper names leads where they say.
LEMMA ProperLead ==
    ASSUME NEW names \in Seq(Proper)
    PROVE  Lead(names) = names
<1> DEFINE Astray == {n \in Nat : \E d \in Seq(Proper) : Len(d) = n /\ Lead(d) # d}
<1> SUFFICES ASSUME Astray # {} PROVE FALSE
  <2>1. Len(names) \in Nat
    OBVIOUS
  <2> QED
    BY <2>1
<1>1. PICK n \in Astray : \A k \in Astray : n <= k
  <2>1. Astray \subseteq Nat
    OBVIOUS
  <2> HIDE DEF Astray
  <2> QED
    BY <2>1, Least
<1>2. PICK d \in Seq(Proper) : Len(d) = n /\ Lead(d) # d
  BY <1>1
<1>3. CASE d = <<>>
  BY <1>2, <1>3, LeadNowhere
<1>4. CASE d # <<>>
  <2>1. PICK short \in Seq(Proper), last \in Proper : d = Append(short, last) /\ Len(d) = Len(short) + 1
    BY <1>4, LastApart
  <2>2. Lead(short) = short
    <3>1. Len(short) \in Nat /\ ~(n <= Len(short))
      BY <1>2, <2>1
    <3> QED
      BY <1>1, <3>1
  <2>3. Lead(d) = Walk(Lead(short), last)
    <3>1. short \in Seq(STRING) /\ last \in STRING
      BY ProperAreNames
    <3> QED
      BY <2>1, <3>1, LeadAppend
  <2>4. Lead(d) = d
    BY <2>1, <2>2, <2>3 DEF Walk, Proper
  <2> QED
    BY <1>2, <2>4
<1> QED
  BY <1>3, <1>4

\* Where names hold no ".." behind an empty one, Path and the kernel end in one
\* place; where they hold no empty one, Path's directories have no detours.
Undoubled(names) ==
    \A i, j \in 1..Len(names) : i <= j => ~(names[i] = "" /\ names[j] = "..")
Unbroken(names) == \A i \in 1..Len(names) : names[i] # ""
Inner(names) == Along("path", Cwd, names)
Outer(names) == Along("kernel", Cwd, names)
Alike(names) ==
    \/ Inner(names) = Undefined
    \/ /\ Inner(names) \in Seq(STRING)
       /\ Undoubled(names) =>
            /\ Lead(Inner(names)) = Outer(names)
            /\ Unbroken(names) => Inner(names) \in Seq(Proper)

LEMMA AlikeFromNowhere == Alike(<<>>)
<1>1. Inner(<<>>) = Cwd /\ Outer(<<>>) = Cwd
  BY AlongNone DEF Inner, Outer
<1>2. Cwd \in Seq(Proper)
  BY FilesAssumption DEF Proper
<1>3. Cwd \in Seq(STRING) /\ Lead(Cwd) = Cwd
  BY <1>2, ProperLead, ProperAreNames
<1> QED
  BY <1>1, <1>2, <1>3 DEF Alike

LEMMA AlikeAppend ==
    ASSUME NEW names \in Seq(STRING), NEW name \in STRING, Alike(names)
    PROVE  Alike(Append(names, name))
<1>1. PICK more \in Seq(STRING), n \in Nat : more = Append(names, name) /\ n = Len(names)
  <2>1. Append(names, name) \in Seq(STRING) /\ Len(names) \in Nat
    BY AppendIs
  <2> QED
    BY <2>1
<1>2. Len(more) = n + 1 /\ more[n + 1] = name /\ \A i \in 1..n : more[i] = names[i]
  <2>1. Len(Append(names, name)) = Len(names) + 1 /\ Append(names, name)[Len(names) + 1] = name
    BY AppendIs
  <2>2. \A i \in 1..Len(names) : Append(names, name)[i] = names[i]
    OBVIOUS
  <2> QED
    BY <1>1, <2>1, <2>2
<1>3. PICK old, new : old = Inner(names) /\ new = Inner(more)
  OBVIOUS
<1>4. PICK was, is : was = Outer(names) /\ is = Outer(more)
  OBVIOUS
<1>5. new = StepInto(old, name) /\ is = Walk(was, name)
  BY <1>1, <1>3, <1>4, AlongAppend DEF Inner, Outer, Onto
<1>6. Undoubled(more) => Undoubled(names) /\ (name = ".." => Unbroken(names))
  <2> SUFFICES ASSUME Undoubled(more) PROVE Undoubled(names) /\ (name = ".." => Unbroken(names))
    OBVIOUS
  <2>1. ASSUME NEW i \in 1..n, NEW j \in 1..n, i <= j PROVE ~(names[i] = "" /\ names[j] = "..")
    <3>1. i \in 1..Len(more) /\ j \in 1..Len(more) /\ more[i] = names[i] /\ more[j] = names[j]
      BY <1>1, <1>2
    <3> QED
      BY <2>1, <3>1 DEF Undoubled
  <2>2. ASSUME name = "..", NEW i \in 1..n PROVE names[i] # ""
    <3>1. /\ i \in 1..Len(more) /\ n + 1 \in 1..Len(more) /\ i <= n + 1
          /\ more[i] = names[i] /\ more[n + 1] = ".."
      BY <1>1, <1>2, <2>2
    <3> QED
      BY <3>1 DEF Undoubled
  <2> QED
    BY <1>1, <2>1, <2>2 DEF Undoubled, Unbroken
<1>7. Unbroken(more) <=> Unbroken(names) /\ name # ""
  <2>1. \A i \in 1..n + 1 : i \in 1..n \/ i = n + 1
    OBVIOUS
  <2>2. n + 1 \in 1..n + 1 /\ \A i \in 1..n : i \in 1..n + 1
    OBVIOUS
  <2> QED
    BY <1>1, <1>2, <2>1, <2>2 DEF Unbroken
<1>8. CASE new = Undefined
  BY <1>1, <1>3, <1>8 DEF Alike
<1>9. CASE new # Undefined
  <2>1. old # Undefined
    BY <1>5, <1>9 DEF StepInto
  <2>2. /\ old \in Seq(STRING)
        /\ Undoubled(names) => Lead(old) = was /\ (Unbroken(names) => old \in Seq(Proper))
    BY <1>3, <1>4, <2>1 DEF Alike
  <2>3. /\ new \in Seq(STRING)
        /\ Undoubled(more) => Lead(new) = is /\ (Unbroken(more) => new \in Seq(Proper))
    <3>1. CASE name = "."
      BY <1>5, <1>6, <1>7, <2>2, <3>1 DEF StepInto, Walk
    <3>2. CASE name = ""
      <4>1. new = Append(old, name)
        BY <1>5, <2>1, <3>2 DEF StepInto
      <4>2. new \in Seq(STRING)
        BY <2>2, <4>1, AppendIs
      <4>5. Lead(new) = Walk(Lead(old), name)
        BY <2>2, <4>1, LeadAppend
      <4> QED
        BY <1>5, <1>6, <1>7, <2>2, <3>2, <4>2, <4>5 DEF Walk
    <3>3. CASE name = ".."
      <4>1. old # <<>> /\ new = Front(old)
        BY <1>5, <1>9, <2>1, <3>3 DEF StepInto
      <4>2. PICK short \in Seq(STRING), last \in STRING : old = Append(short, last)
        BY <2>2, <4>1, LastApart, Zenon
      <4>3. new = short
        BY <4>1, <4>2, FrontIs
      <4>4. ASSUME Undoubled(more) PROVE Lead(new) = is /\ new \in Seq(Proper)
        <5>1. old \in Seq(Proper) /\ Lead(old) = was
          BY <1>6, <2>2, <3>3, <4>4
        <5>2. PICK s \in Seq(Proper), t \in Proper : old = Append(s, t)
          BY <4>1, <5>1, LastApart
        <5>3. new = s
          BY <4>1, <5>2, FrontIs
        <5>4. was = old /\ Lead(new) = new
          BY <5>1, <5>2, <5>3, ProperLead
        <5>5. is = Front(old)
          BY <1>5, <3>3, <4>1, <5>4 DEF Walk
        <5> QED
          BY <4>1, <5>2, <5>3, <5>4, <5>5
      <4> QED
        BY <4>2, <4>3, <4>4
    <3>4. CASE name \in Proper
      <4>0. name # "" /\ name # "." /\ name # ".."
        BY <3>4 DEF Proper
      <4>1. new = Append(old, name)
        BY <1>5, <2>1, <4>0 DEF StepInto
      <4>2. new \in Seq(STRING)
        BY <2>2, <4>1, AppendIs
      <4>5. Lead(new) = Walk(Lead(old), name)
        BY <2>2, <4>1, LeadAppend
      <4>3. old \in Seq(Proper) => new \in Seq(Proper)
        BY <3>4, <4>1, AppendIs
      <4> QED
        BY <1>5, <1>6, <1>7, <2>2, <4>2, <4>3, <4>5
    <3> QED
      BY <3>1, <3>2, <3>3, <3>4 DEF Proper
  <2> QED
    BY <1>1, <1>3, <1>4, <2>3 DEF Alike
<1> QED
  BY <1>8, <1>9

LEMMA AllAlike ==
    ASSUME NEW names \in Seq(STRING)
    PROVE  Alike(names)
<1> DEFINE Odd == {n \in Nat : \E d \in Seq(STRING) : Len(d) = n /\ ~Alike(d)}
<1> SUFFICES ASSUME Odd # {} PROVE FALSE
  <2>1. Len(names) \in Nat
    OBVIOUS
  <2> QED
    BY <2>1
<1>1. PICK n \in Odd : \A k \in Odd : n <= k
  <2>1. Odd \subseteq Nat
    OBVIOUS
  <2> HIDE DEF Odd
  <2> QED
    BY <2>1, Least
<1>2. PICK d \in Seq(STRING) : Len(d) = n /\ ~Alike(d)
  BY <1>1
<1>3. CASE d = <<>>
  BY <1>2, <1>3, AlikeFromNowhere
<1>4. CASE d # <<>>
  <2>1. PICK short \in Seq(STRING), last \in STRING : d = Append(short, last) /\ Len(d) = Len(short) + 1
    BY <1>4, LastApart
  <2>2. Len(short) \in Nat /\ ~(n <= Len(short))
    BY <1>2, <2>1
  <2>3. Alike(short)
    BY <1>1, <2>2
  <2> QED
    BY <1>2, <2>1, <2>3, AlikeAppend
<1> QED
  BY <1>3, <1>4

\* The walk along names from the working directory, and from the root along it.
LEMMA OuterIsLead ==
    ASSUME NEW names \in Seq(STRING)
    PROVE  Lead(Cwd \o names) = Outer(names)
<1> DEFINE Apart == {n \in Nat : \E d \in Seq(STRING) : Len(d) = n /\ Lead(Cwd \o d) # Outer(d)}
<1>0. Cwd \in Seq(Proper) /\ Cwd \in Seq(STRING)
  BY FilesAssumption, ProperAreNames DEF Proper
<1> SUFFICES ASSUME Apart # {} PROVE FALSE
  <2>1. Len(names) \in Nat
    OBVIOUS
  <2> QED
    BY <2>1
<1>1. PICK n \in Apart : \A k \in Apart : n <= k
  <2>1. Apart \subseteq Nat
    OBVIOUS
  <2> HIDE DEF Apart
  <2> QED
    BY <2>1, Least
<1>2. PICK d \in Seq(STRING) : Len(d) = n /\ Lead(Cwd \o d) # Outer(d)
  BY <1>1
<1>3. CASE d = <<>>
  <2>1. Cwd \o d = Cwd
    BY <1>0, <1>3
  <2>2. Lead(Cwd) = Cwd /\ Outer(d) = Cwd
    BY <1>0, <1>3, ProperLead, AlongNone DEF Outer
  <2> QED
    BY <1>2, <2>1, <2>2
<1>4. CASE d # <<>>
  <2>1. PICK short \in Seq(STRING), last \in STRING : d = Append(short, last) /\ Len(d) = Len(short) + 1
    BY <1>4, LastApart
  <2>2. Len(short) \in Nat /\ ~(n <= Len(short))
    BY <1>2, <2>1
  <2>3. Lead(Cwd \o short) = Outer(short)
    BY <1>1, <2>2
  <2>4. Cwd \o d = Append(Cwd \o short, last) /\ Cwd \o short \in Seq(STRING)
    <3>1. Cwd \o Append(short, last) = Append(Cwd \o short, last) /\ Cwd \o short \in Seq(STRING)
      BY <1>0, ConcatAppend, Zenon
    <3> QED
      BY <2>1, <3>1, Zenon
  <2>5. Lead(Cwd \o d) = Walk(Outer(short), last)
    BY <2>3, <2>4, LeadAppend
  <2>6. Outer(d) = Walk(Outer(short), last)
    BY <2>1, AlongAppend DEF Outer, Onto
  <2> QED
    BY <1>2, <2>5, <2>6
<1> QED
  BY <1>3, <1>4

\* By itself, each path has directories, and they are the ones that were meant.
PathsAreSound ==
    \A m \in Makers : \A text \in PathTexts[m] : Defined(text) =>
        /\ DirsOf(text) \in Seq(STRING)
        /\ DoubledUp(text) \/ Lead(DirsOf(text)) = Meant(text)

LEMMA SplitIsSound ==
    ASSUME PathsAreSplit
    PROVE  PathsAreSound
<1> SUFFICES ASSUME NEW m \in Makers, NEW text \in PathTexts[m], Defined(text)
             PROVE  /\ DirsOf(text) \in Seq(STRING)
                    /\ DoubledUp(text) \/ Lead(DirsOf(text)) = Meant(text)
  BY DEF PathsAreSound
<1>1. PICK names \in Seq(STRING) : names = GetDirs(text)
  BY DEF PathsAreSplit
<1>2. CASE IsAbs(text)
  <2>1. DirsOf(text) = names /\ <<>> \o names = names
    BY <1>1, <1>2 DEF DirsOf
  <2>2. Meant(text) = Lead(names)
    BY <1>1, <1>2, <2>1 DEF Meant
  <2> QED
    BY <2>1, <2>2
<1>3. CASE ~IsAbs(text)
  <2>1. DirsOf(text) = Inner(names) /\ Inner(names) # Undefined
    BY <1>1, <1>3 DEF DirsOf, Inner, Along, Defined
  <2>2. Meant(text) = Outer(names)
    BY <1>1, <1>3, OuterIsLead DEF Meant
  <2>3. ~DoubledUp(text) => Undoubled(names)
    <3> SUFFICES ASSUME ~DoubledUp(text), NEW i \in 1..Len(names), NEW j \in 1..Len(names), i <= j,
                        names[i] = "", names[j] = ".."
                 PROVE  FALSE
      BY DEF Undoubled
    <3>1. j \in i..Len(names)
      <4>1. PICK n \in Nat : n = Len(names)
        BY LenProperties, Zenon
      <4>2. i \in 1..n /\ j \in 1..n
        BY <4>1
      <4>3. j \in i..n
        BY <4>2, Between
      <4> QED
        BY <4>1, <4>3
    <3> QED
      BY <1>1, <1>3, <3>1 DEF DoubledUp
  <2> QED
    BY <2>1, <2>2, <2>3, AllAlike DEF Alike
<1> QED
  BY <1>2, <1>3

----------------------------------------------------------------------------
(* Making directories, Files: who makes them. *)

Texts == {<<>>} \cup UNION {PathTexts[m] : m \in Makers}
MakerRecord == [text : Texts, at : Nat, exit : BOOLEAN, isDir : BOOLEAN,
                next : {"idle", "stat", "make", "done"}]

\* The directory of the first j names is there, or a plain file is in the way.
Settled(dirs, j) ==
    IsDir(Lead(SubSeq(dirs, 1, j))) \/ \E i \in 1..j : Lead(SubSeq(dirs, 1, i)) \in plain

\* What a maker has behind it is settled; and where it is about to skip the
\* mkdir, because Data says so, the directory is there.
MakerInv(m) ==
    maker[m].next # "idle" =>
        /\ maker[m].text \in PathTexts[m] /\ Defined(maker[m].text)
        /\ maker[m].at \in 1..Len(DirsOf(maker[m].text))
        /\ maker[m].next = "make" /\ maker[m].exit /\ maker[m].isDir => IsDir(Lead(Prefix(m)))
        /\ \A j \in 1..maker[m].at : j < maker[m].at \/ maker[m].next = "done" =>
                Settled(DirsOf(maker[m].text), j)
        /\ maker[m].next = "done" => maker[m].at = Len(DirsOf(maker[m].text))

FilesInv ==
    /\ maker \in [Makers -> MakerRecord]
    /\ \A m \in Makers : MakerInv(m)

\* Directories and plain files stay, so that what others do disturbs nobody.
LEMMA SettledStays ==
    ASSUME dirsMade \subseteq dirsMade', plain \subseteq plain'
    PROVE  /\ \A names : IsDir(names) => IsDir(names)'
           /\ \A dirs, j : Settled(dirs, j) => Settled(dirs, j)'
  BY DEF IsDir, Settled

LEMMA OthersStay ==
    ASSUME FilesInv, dirsMade \subseteq dirsMade', plain \subseteq plain',
           NEW m \in Makers, maker'[m] = maker[m]
    PROVE  MakerInv(m)'
<1>1. MakerInv(m)
  BY DEF FilesInv
<1> QED
  BY <1>1, SettledStays DEF MakerInv, Prefix

LEMMA PrefixOf ==
    ASSUME NEW dirs \in Seq(STRING), NEW n \in 1..Len(dirs)
    PROVE  /\ SubSeq(dirs, 1, n) \in Seq(STRING) /\ Len(SubSeq(dirs, 1, n)) = n
           /\ \A i \in 1..n : SubSeq(SubSeq(dirs, 1, n), 1, i) = SubSeq(dirs, 1, i)
           /\ SubSeq(SubSeq(dirs, 1, n), 1, 0) = <<>>
           /\ SubSeq(dirs, 1, Len(dirs)) = dirs
  OBVIOUS

LEMMA StatKeeps ==
    ASSUME FilesInv, NEW m \in Makers, NEW names
    PROVE  \E r \in MakerRecord : /\ r = Stat(m, names) /\ r.text = maker[m].text /\ r.at = maker[m].at
                                  /\ r.next = maker[m].next /\ (r.exit /\ r.isDir => IsDir(Lead(names)))
<1>1. PICK text \in Texts, at \in Nat, exit \in BOOLEAN, isDir \in BOOLEAN,
           next \in {"idle", "stat", "make", "done"} :
        maker[m] = [text |-> text, at |-> at, exit |-> exit, isDir |-> isDir, next |-> next]
  BY DEF FilesInv, MakerRecord
<1>2. PICK e \in BOOLEAN, d \in BOOLEAN : e = Exists(names) /\ d = IF e THEN IsDir(Lead(names)) ELSE isDir
  BY DEF Exists, IsDir, Reachable
<1>3. Stat(m, names) = [text |-> text, at |-> at, exit |-> e, isDir |-> d, next |-> next]
  <2>1. Stat(m, names) = [maker[m] EXCEPT !.exit = e, !.isDir = IF e THEN IsDir(Lead(names)) ELSE @]
    BY <1>2 DEF Stat
  <2>2. [maker[m] EXCEPT !.exit = e, !.isDir = d]
            = [text |-> text, at |-> at, exit |-> e, isDir |-> d, next |-> next]
    <3>1. PICK r : r = [text |-> text, at |-> at, exit |-> e, isDir |-> isDir, next |-> next]
      OBVIOUS
    <3>2. [maker[m] EXCEPT !.exit = e] = r
      BY <1>1, <3>1
    <3>3. [maker[m] EXCEPT !.exit = e, !.isDir = d] = [r EXCEPT !.isDir = d]
      BY <3>2
    <3>4. [r EXCEPT !.isDir = d] = [text |-> text, at |-> at, exit |-> e, isDir |-> d, next |-> next]
      BY <3>1
    <3> QED
      BY <3>3, <3>4
  <2>3. Stat(m, names) = [maker[m] EXCEPT !.exit = e, !.isDir = d]
    BY <1>1, <1>2, <2>1
  <2> QED
    BY <2>2, <2>3
<1>4. Stat(m, names) \in MakerRecord
  BY <1>3 DEF MakerRecord
<1> QED
  BY <1>1, <1>2, <1>3, <1>4

\* A maker changes its own record only.
LEMMA OneMaker ==
    ASSUME FilesInv, dirsMade \subseteq dirsMade', plain \subseteq plain',
           NEW m \in Makers, NEW r \in MakerRecord, maker' = [maker EXCEPT ![m] = r],
           MakerInv(m)'
    PROVE  FilesInv'
<1>1. maker' \in [Makers -> MakerRecord] /\ \A o \in Makers \ {m} : maker'[o] = maker[o]
  BY DEF FilesInv
<1> QED
  BY <1>1, OthersStay DEF FilesInv

LEMMA BeginKeeps ==
    ASSUME PathsAreSound, FilesInv, NEW m \in Makers, MkdirsBegin(m)
    PROVE  FilesInv'
<1>1. PICK text \in PathTexts[m] :
        /\ Defined(text)
        /\ maker' = [maker EXCEPT ![m] =
                        [Stat(m, DirsOf(text)) EXCEPT !.text = text, !.next = "stat", !.at = 1]]
  BY DEF MkdirsBegin
<1>2. PICK s \in MakerRecord : s = Stat(m, DirsOf(text))
  BY StatKeeps
<1>3. PICK r \in MakerRecord : r = [s EXCEPT !.text = text, !.next = "stat", !.at = 1]
                               /\ r.text = text /\ r.next = "stat" /\ r.at = 1
  <2>1. PICK before \in Texts, at \in Nat, exit \in BOOLEAN, isDir \in BOOLEAN,
             next \in {"idle", "stat", "make", "done"} :
          s = [text |-> before, at |-> at, exit |-> exit, isDir |-> isDir, next |-> next]
    BY DEF MakerRecord
  <2>2. [s EXCEPT !.text = text, !.next = "stat", !.at = 1]
            = [text |-> text, at |-> 1, exit |-> exit, isDir |-> isDir, next |-> "stat"]
    <3>1. PICK r1, r2 :
            /\ r1 = [text |-> text, at |-> at, exit |-> exit, isDir |-> isDir, next |-> next]
            /\ r2 = [text |-> text, at |-> at, exit |-> exit, isDir |-> isDir, next |-> "stat"]
      OBVIOUS
    <3>2. [s EXCEPT !.text = text] = r1
      BY <2>1, <3>1
    <3>3. [r1 EXCEPT !.next = "stat"] = r2
      BY <3>1
    <3>4. [s EXCEPT !.text = text, !.next = "stat", !.at = 1] = [[r1 EXCEPT !.next = "stat"] EXCEPT !.at = 1]
      BY <3>2
    <3>5. [r2 EXCEPT !.at = 1]
              = [text |-> text, at |-> 1, exit |-> exit, isDir |-> isDir, next |-> "stat"]
      BY <3>1
    <3> QED
      BY <3>3, <3>4, <3>5
  <2>3. text \in Texts
    BY DEF Texts
  <2>4. [text |-> text, at |-> 1, exit |-> exit, isDir |-> isDir, next |-> "stat"] \in MakerRecord
    BY <2>3 DEF MakerRecord
  <2> QED
    BY <2>2, <2>4
<1>4. maker' = [maker EXCEPT ![m] = r] /\ maker'[m] = r
  BY <1>1, <1>2, <1>3 DEF FilesInv
<1>5. DirsOf(text) \in Seq(STRING) /\ DirsOf(text) # <<>> /\ 1 \in 1..Len(DirsOf(text))
  BY <1>1 DEF PathsAreSound, Defined
<1>6. MakerInv(m)'
  <2>1. \A j \in 1..r.at : ~(j < r.at \/ r.next = "done")
    BY <1>3
  <2> QED
    BY <1>1, <1>3, <1>4, <1>5, <2>1 DEF MakerInv
<1>7. UNCHANGED <<dirsMade, plain>>
  BY DEF MkdirsBegin
<1> QED
  BY <1>4, <1>6, <1>7, OneMaker

LEMMA StatStepKeeps ==
    ASSUME FilesInv, NEW m \in Makers, MkdirsStat(m)
    PROVE  FilesInv'
<1>1. /\ maker[m].next = "stat" /\ UNCHANGED <<dirsMade, plain>>
      /\ maker' = [maker EXCEPT ![m] = [Stat(m, Prefix(m)) EXCEPT !.next = "make"]]
  BY DEF MkdirsStat
<1>2. PICK s \in MakerRecord :
        /\ s = Stat(m, Prefix(m)) /\ s.text = maker[m].text /\ s.at = maker[m].at
        /\ s.exit /\ s.isDir => IsDir(Lead(Prefix(m)))
  BY StatKeeps
<1>3. PICK r \in MakerRecord : r = [s EXCEPT !.next = "make"] /\ r.next = "make"
                               /\ r.text = s.text /\ r.at = s.at /\ r.exit = s.exit /\ r.isDir = s.isDir
  <2>1. PICK text \in Texts, at \in Nat, exit \in BOOLEAN, isDir \in BOOLEAN,
             next \in {"idle", "stat", "make", "done"} :
          s = [text |-> text, at |-> at, exit |-> exit, isDir |-> isDir, next |-> next]
    BY DEF MakerRecord
  <2>2. [s EXCEPT !.next = "make"] \in MakerRecord
    BY <2>1 DEF MakerRecord
  <2> QED
    BY <2>1, <2>2
<1>4. maker' = [maker EXCEPT ![m] = r] /\ maker'[m] = r
  BY <1>1, <1>2, <1>3 DEF FilesInv
<1>5. Prefix(m)' = Prefix(m)
  BY <1>2, <1>3, <1>4 DEF Prefix
<1>6. MakerInv(m)'
  <2>1. MakerInv(m) /\ maker[m].next # "idle" /\ maker[m].next # "done"
    BY <1>1 DEF FilesInv
  <2>2. \A dirs, j : Settled(dirs, j) => Settled(dirs, j)'
    BY <1>1, SettledStays
  <2>3. IsDir(Lead(Prefix(m)))' <=> IsDir(Lead(Prefix(m)))
    BY <1>1, <1>5 DEF IsDir
  <2> QED
    BY <1>2, <1>3, <1>4, <2>1, <2>2, <2>3 DEF MakerInv
<1> QED
  BY <1>1, <1>4, <1>6, OneMaker

\* mkdir, or that it was not called or failed, settles the directory.
LEMMA MakeSettles ==
    ASSUME PathsAreSound, FilesInv, NEW m \in Makers, MkdirsMake(m),
           NEW dirs, NEW at, dirs = DirsOf(maker[m].text), at = maker[m].at
    PROVE  Settled(dirs, at)'
<1>2. /\ MakerInv(m) /\ maker[m].next = "make" /\ Prefix(m) = SubSeq(dirs, 1, at)
      /\ dirs \in Seq(STRING) /\ at \in 1..Len(dirs)
  BY DEF MkdirsMake, FilesInv, MakerInv, PathsAreSound, Prefix
<1>3. dirsMade \subseteq dirsMade' /\ plain' = plain
  BY DEF MkdirsMake
<1> DEFINE here == SubSeq(dirs, 1, at)
<1>4. /\ Len(here) = at
      /\ \A i \in 1..at : SubSeq(here, 1, i) = SubSeq(dirs, 1, i)
      /\ SubSeq(here, 1, 0) = <<>>
  BY <1>2, PrefixOf
<1>5. CASE maker[m].exit /\ maker[m].isDir
  <2>1. IsDir(Lead(here))
    BY <1>2, <1>5 DEF MakerInv
  <2> QED
    BY <1>3, <2>1 DEF Settled, IsDir
<1>6. CASE ~(maker[m].exit /\ maker[m].isDir) /\ CanMake(here)
  <2>1. Lead(here) \in dirsMade'
    BY <1>2, <1>6 DEF MkdirsMake
  <2> QED
    BY <2>1 DEF Settled, IsDir
<1>7. CASE Exists(here)
  <2>1. IsDir(Lead(here)) \/ Lead(here) \in plain
    BY <1>7 DEF Exists
  <2>2. at \in 1..at
    BY <1>2
  <2> QED
    BY <1>3, <2>1, <2>2 DEF Settled, IsDir
<1>8. CASE ~Reachable(here)
  <2>1. PICK i \in 0..at - 1 : ~IsDir(Lead(SubSeq(here, 1, i)))
    BY <1>4, <1>8 DEF Reachable
  <2>2. i # 0
    BY <1>4, <2>1, LeadNowhere DEF IsDir
  <2>3. i \in 1..at /\ i < at /\ SubSeq(here, 1, i) = SubSeq(dirs, 1, i)
    BY <1>2, <1>4, <2>1, <2>2
  <2>4. Settled(dirs, i)
    BY <1>2, <2>3 DEF MakerInv
  <2>5. PICK k \in 1..i : Lead(SubSeq(dirs, 1, k)) \in plain
    BY <2>1, <2>3, <2>4 DEF Settled
  <2>6. k \in 1..at
    BY <1>2, <2>3, <2>5
  <2> QED
    BY <1>3, <2>5, <2>6 DEF Settled
<1> QED
  BY <1>5, <1>6, <1>7, <1>8 DEF CanMake

LEMMA MakeKeeps ==
    ASSUME PathsAreSound, FilesInv, NEW m \in Makers, MkdirsMake(m)
    PROVE  FilesInv'
<1>0. PICK old \in MakerRecord : old = maker[m]
  BY DEF FilesInv
<1>1. PICK dirs : old = maker[m] /\ dirs = DirsOf(old.text)
  BY <1>0
<1>2. /\ MakerInv(m) /\ old.next = "make" /\ dirs \in Seq(STRING) /\ old.at \in 1..Len(dirs)
      /\ dirsMade \subseteq dirsMade' /\ plain' = plain /\ Len(dirs) \in Nat
  BY <1>1 DEF MkdirsMake, FilesInv, MakerInv, PathsAreSound
<1>3. PICK r \in MakerRecord :
        /\ r = Onward(m) /\ r.text = old.text
        /\ \/ old.at < Len(dirs) /\ r.at = old.at + 1 /\ r.next = "stat"
           \/ old.at = Len(dirs) /\ r.at = old.at /\ r.next = "done"
  <2>1. PICK text \in Texts, at \in Nat, exit \in BOOLEAN, isDir \in BOOLEAN,
             next \in {"idle", "stat", "make", "done"} :
          old = [text |-> text, at |-> at, exit |-> exit, isDir |-> isDir, next |-> next]
    BY DEF MakerRecord
  <2>2. CASE at < Len(dirs)
    <3>1. Onward(m) = [text |-> text, at |-> at + 1, exit |-> exit, isDir |-> isDir, next |-> "stat"]
      <4>1. Onward(m) = [old EXCEPT !.at = at + 1, !.next = "stat"]
        BY <1>1, <2>1, <2>2 DEF Onward
      <4> QED
        BY <2>1, <4>1
    <3>2. Onward(m) \in MakerRecord
      BY <3>1 DEF MakerRecord
    <3> QED
      BY <2>1, <2>2, <3>1, <3>2
  <2>3. CASE ~(at < Len(dirs))
    <3>1. Onward(m) = [text |-> text, at |-> at, exit |-> exit, isDir |-> isDir, next |-> "done"]
      BY <1>1, <2>1, <2>3 DEF Onward
    <3>2. Onward(m) \in MakerRecord
      BY <3>1 DEF MakerRecord
    <3>3. at = Len(dirs)
      BY <1>2, <2>1, <2>3
    <3> QED
      BY <2>1, <3>1, <3>2, <3>3
  <2> QED
    BY <2>2, <2>3
<1>4. maker' = [maker EXCEPT ![m] = r] /\ maker'[m] = r
  BY <1>3 DEF MkdirsMake, FilesInv
<1>5. \A j \in 1..old.at : Settled(dirs, j)'
  <2>1. Settled(dirs, old.at)'
    BY <1>1, MakeSettles
  <2>2. ASSUME NEW j \in 1..old.at, j # old.at PROVE Settled(dirs, j)'
    <3>1. j < old.at
      BY <1>2, <2>2
    <3>2. Settled(dirs, j)
      BY <1>1, <1>2, <3>1 DEF MakerInv
    <3> QED
      BY <1>2, <3>2, SettledStays
  <2> QED
    BY <2>1, <2>2
<1>6. MakerInv(m)'
  <2>1. DirsOf(maker'[m].text) = dirs /\ maker'[m].text = old.text /\ r.at \in 1..Len(dirs)
    BY <1>1, <1>2, <1>3, <1>4
  <2>2. \A j \in 1..r.at : j < r.at \/ r.next = "done" => j \in 1..old.at
    BY <1>2, <1>3
  <2>3. r.text \in PathTexts[m] /\ Defined(r.text) /\ r.next # "make" /\ (r.next = "done" => r.at = Len(dirs))
    BY <1>1, <1>2, <1>3 DEF MakerInv
  <2> QED
    BY <1>4, <1>5, <2>1, <2>2, <2>3 DEF MakerInv
<1> QED
  BY <1>2, <1>4, <1>6, OneMaker

LEMMA IntrudeKeeps ==
    ASSUME FilesInv, Intrude
    PROVE  FilesInv'
<1>1. dirsMade' = dirsMade /\ maker' = maker /\ plain \subseteq plain'
  BY DEF Intrude
<1> QED
  BY <1>1, OthersStay DEF FilesInv

\* For any makers, paths, working directory and plain files, as long as getdirs
\* gives each path its names: when mkdirs returns, the directory that was meant
\* is there, unless a plain file is in the way.
THEOREM DirectoriesAreMade == PathsAreSplit => (FilesSpec => []MkdirsMakes)
<1> SUFFICES ASSUME PathsAreSplit PROVE FilesSpec => []MkdirsMakes
  OBVIOUS
<1>0. PathsAreSound
  BY SplitIsSound
<1>1. FilesInit => FilesInv
  <2>1. Idle \in MakerRecord /\ Idle.next = "idle"
    BY DEF Idle, MakerRecord, Texts
  <2> QED
    BY <2>1 DEF FilesInit, FilesInv, MakerInv
<1>2. FilesInv /\ [FilesNext]_fileVars => FilesInv'
  <2> SUFFICES ASSUME FilesInv, [FilesNext]_fileVars PROVE FilesInv'
    OBVIOUS
  <2>1. CASE FilesNext
    BY <1>0, <2>1, BeginKeeps, StatStepKeeps, MakeKeeps, IntrudeKeeps DEF FilesNext
  <2>2. CASE UNCHANGED fileVars
    BY <2>2, OthersStay DEF fileVars, FilesInv
  <2> QED
    BY <2>1, <2>2
<1>3. FilesInv => MkdirsMakes
  <2> SUFFICES ASSUME FilesInv, NEW m \in Makers, maker[m].next = "done"
               PROVE  LET dirs == DirsOf(maker[m].text)
                      IN  /\ DoubledUp(maker[m].text) \/ Lead(dirs) = Meant(maker[m].text)
                          /\ \/ IsDir(Lead(dirs))
                             \/ \E i \in 1..Len(dirs) : Lead(SubSeq(dirs, 1, i)) \in plain
    BY DEF MkdirsMakes
  <2>0. PICK text \in PathTexts[m] : text = maker[m].text
    BY DEF FilesInv, MakerInv
  <2>1. PICK dirs : text = maker[m].text /\ dirs = DirsOf(text)
    BY <2>0
  <2>2. /\ dirs \in Seq(STRING) /\ Len(dirs) \in 1..Len(dirs) /\ Settled(dirs, Len(dirs))
        /\ DoubledUp(text) \/ Lead(dirs) = Meant(text)
    BY <1>0, <2>1 DEF FilesInv, MakerInv, PathsAreSound
  <2>3. SubSeq(dirs, 1, Len(dirs)) = dirs
    BY <2>2, PrefixOf
  <2> QED
    BY <2>1, <2>2, <2>3 DEF Settled
<1> QED
  BY <1>1, <1>2, <1>3, PTL DEF FilesSpec

----------------------------------------------------------------------------
(* The project generator, ProjectMaker: the names there are.                *)

LEMMA FrontStays ==
    ASSUME NEW S, NEW s \in Seq(S), s # <<>>
    PROVE  Front(s) \in Seq(S)
<1>1. PICK short \in Seq(S), last \in S : s = Append(short, last)
  BY LastApart
<1> QED
  BY <1>1, FrontIs

LEMMA PrefixOfAppend ==
    ASSUME NEW S, NEW s \in Seq(S), NEW e \in S
    PROVE  /\ \A i \in 0..Len(s) : SubSeq(Append(s, e), 1, i) = SubSeq(s, 1, i)
           /\ SubSeq(s, 1, Len(s)) = s
<1>1. ASSUME NEW i \in 0..Len(s) PROVE SubSeq(Append(s, e), 1, i) = SubSeq(s, 1, i)
  OBVIOUS
<1>2. SubSeq(s, 1, Len(s)) = s
  OBVIOUS
<1> QED
  BY <1>1, <1>2

\* A file's name is one of four.
LEMMA FileNamesAre == FileNames = {".h", ".cc", "test_func.cc", "mk"}
<1>1. DOMAIN PjtFiles = {1, 2, 3, 4}
  BY DEF PjtFiles
<1>2. /\ PjtFiles[1][1] = ".h" /\ PjtFiles[2][1] = ".cc"
      /\ PjtFiles[3][1] = "test_func.cc" /\ PjtFiles[4][1] = "mk"
  BY DEF PjtFiles
<1> QED
  BY <1>1, <1>2 DEF FileNames

LEMMA Earlier ==
    ASSUME NEW n \in Nat, NEW i \in 1..n, NEW j \in 1..n, i <= j, i # j
    PROVE  i < j
  OBVIOUS

----------------------------------------------------------------------------
(* The commands of the project generator, ProjectMaker: where paths lead.   *)

\* The names there can be.  (No prover is told that a name it is shown is a string.)
SltNames == {"bin", "doc", "src", "depend", "include", "lib", "test", "examples"}
AnyName == STRING \cup FileNames \cup SltNames \cup {"?"}
DirNames == AnyName \ FileNames

LEMMA UndefinedIsDirs == Undefined \in Seq(DirNames)
<1>1. "?" \in DirNames
  <2>1. "?" # ".h" /\ "?" # ".cc" /\ "?" # "test_func.cc" /\ "?" # "mk"
    OBVIOUS
  <2>2. "?" \notin FileNames
    BY <2>1, FileNamesAre
  <2> QED
    BY <2>2 DEF DirNames, AnyName
<1> QED
  BY <1>1 DEF Undefined

\* Neither walk invents a name.
LEMMA AlongStays ==
    ASSUME NEW kind, NEW start \in Seq(DirNames), NEW names \in Seq(DirNames)
    PROVE  Along(kind, start, names) = Undefined \/ Along(kind, start, names) \in Seq(DirNames)
<1> DEFINE Strange == {n \in Nat : \E d \in Seq(DirNames) :
                          Len(d) = n /\ Along(kind, start, d) # Undefined
                                     /\ Along(kind, start, d) \notin Seq(DirNames)}
<1> SUFFICES ASSUME Strange # {} PROVE FALSE
  <2>1. Len(names) \in Nat
    OBVIOUS
  <2> QED
    BY <2>1
<1>1. PICK n \in Strange : \A k \in Strange : n <= k
  <2>1. Strange \subseteq Nat
    OBVIOUS
  <2> HIDE DEF Strange
  <2> QED
    BY <2>1, Least
<1>2. PICK d \in Seq(DirNames) : /\ Len(d) = n /\ Along(kind, start, d) # Undefined
                                 /\ Along(kind, start, d) \notin Seq(DirNames)
  BY <1>1
<1>3. CASE d = <<>>
  BY <1>2, <1>3, AlongNone
<1>4. CASE d # <<>>
  <2>1. PICK short \in Seq(DirNames), last \in DirNames : d = Append(short, last) /\ Len(d) = Len(short) + 1
    BY <1>4, LastApart
  <2>2. Len(short) \in Nat /\ ~(n <= Len(short))
    BY <1>2, <2>1
  <2>3. PICK old : old = Along(kind, start, short)
    OBVIOUS
  <2>4. old = Undefined \/ old \in Seq(DirNames)
    BY <1>1, <2>2, <2>3
  <2>7. Along(kind, start, d) = Onto(kind, old, last)
    BY <2>1, <2>3, AlongAppend
  <2>8. old # <<>> /\ old \in Seq(DirNames) => Front(old) \in Seq(DirNames)
    BY FrontStays
  <2>9. old \in Seq(DirNames) => Append(old, last) \in Seq(DirNames)
    BY AppendIs
  <2>10. Undefined \in Seq(DirNames)
    BY UndefinedIsDirs
  <2>11. old \in Seq(DirNames)
    BY <2>4, <2>10
  <2>12. CASE kind = "kernel"
    <3>1. <<>> \in Seq(DirNames)
      OBVIOUS
    <3>2. Walk(old, last) \in Seq(DirNames)
      BY <2>8, <2>9, <2>11, <3>1 DEF Walk
    <3> QED
      BY <1>2, <2>7, <2>12, <3>2 DEF Onto
  <2>13. CASE kind # "kernel"
    <3>1. StepInto(old, last) \in Seq(DirNames)
      BY <2>8, <2>9, <2>10, <2>11 DEF StepInto
    <3> QED
      BY <1>2, <2>7, <2>13, <3>1 DEF Onto
  <2> QED
    BY <2>12, <2>13
<1> QED
  BY <1>3, <1>4

LEMMA PathsStay ==
    ASSUME NEW names \in Seq(DirNames)
    PROVE  /\ Lead(names) \in Seq(DirNames)
           /\ Cwd \in Seq(DirNames) => Inner(names) \in Seq(DirNames)
<1>1. Undefined \in Seq(DirNames) /\ <<>> \in Seq(DirNames)
  BY UndefinedIsDirs
<1>2. Lead(names) = Along("kernel", <<>>, names)
  BY DEF Lead, Along
<1> QED
  BY <1>1, <1>2, AlongStays DEF Inner

\* All along names there are directories.
Walkable(names) == Reachable(names) /\ IsDir(Lead(names))

LEMMA NowhereWalkable == Walkable(<<>>)
<1>1. Lead(<<>>) = <<>>
  BY LeadNowhere
<1>2. Reachable(<<>>)
  BY DEF Reachable
<1> QED
  BY <1>1, <1>2 DEF Walkable, IsDir

LEMMA WalkableAppend ==
    ASSUME NEW S, NEW names \in Seq(S), NEW name \in S
    PROVE  /\ Reachable(Append(names, name)) <=> Walkable(names)
           /\ Walkable(Append(names, name)) <=> Walkable(names) /\ IsDir(Lead(Append(names, name)))
<1>1. PICK more \in Seq(S), n \in Nat : more = Append(names, name) /\ n = Len(names) /\ Len(more) = n + 1
  <2>1. Append(names, name) \in Seq(S) /\ Len(names) \in Nat /\ Len(Append(names, name)) = Len(names) + 1
    BY AppendIs
  <2> QED
    BY <2>1
<1>2. /\ \A i \in 0..n : SubSeq(more, 1, i) = SubSeq(names, 1, i)
      /\ SubSeq(names, 1, n) = names
  BY <1>1, PrefixOfAppend
<1>4. Reachable(more) <=> \A i \in 0..n : IsDir(Lead(SubSeq(names, 1, i)))
  <2>1. Len(more) - 1 = n
    BY <1>1
  <2> QED
    BY <1>2, <2>1 DEF Reachable
<1>5. (\A i \in 0..n : IsDir(Lead(SubSeq(names, 1, i)))) <=>
        (\A i \in 0..n - 1 : IsDir(Lead(SubSeq(names, 1, i)))) /\ IsDir(Lead(SubSeq(names, 1, n)))
  <2>1. \A i \in 0..n : i \in 0..n - 1 \/ i = n
    BY <1>1
  <2>2. n \in 0..n /\ \A i \in 0..n - 1 : i \in 0..n
    BY <1>1
  <2> QED
    BY <2>1, <2>2
<1>6. Reachable(names) <=> \A i \in 0..n - 1 : IsDir(Lead(SubSeq(names, 1, i)))
  BY <1>1 DEF Reachable
<1> QED
  BY <1>1, <1>2, <1>4, <1>5, <1>6 DEF Walkable

\* No ".." behind a name.
Straight(names) ==
    ~\E i, j \in 1..Len(names) : i < j /\ names[i] \notin {".", ".."} /\ names[j] = ".."
Upward(names) == \A i \in 1..Len(names) : names[i] \in {".", ".."}

LEMMA StraightAppend ==
    ASSUME NEW names \in Seq(STRING), NEW name \in STRING
    PROVE  /\ Straight(names) => Undoubled(names)
           /\ Straight(Append(names, name)) => Straight(names) /\ (name = ".." => Upward(names))
           /\ Upward(Append(names, name)) <=> Upward(names) /\ name \in {".", ".."}
<1>1. PICK more \in Seq(STRING), n \in Nat : more = Append(names, name) /\ n = Len(names)
  <2>1. Append(names, name) \in Seq(STRING) /\ Len(names) \in Nat
    BY AppendIs
  <2> QED
    BY <2>1
<1>2. Len(more) = n + 1 /\ more[n + 1] = name /\ \A i \in 1..n : more[i] = names[i]
  <2>1. Len(Append(names, name)) = Len(names) + 1 /\ Append(names, name)[Len(names) + 1] = name
    BY AppendIs
  <2>2. \A i \in 1..Len(names) : Append(names, name)[i] = names[i]
    OBVIOUS
  <2> QED
    BY <1>1, <2>1, <2>2
<1>3. n + 1 \in 1..n + 1 /\ \A i \in 1..n : i \in 1..n + 1 /\ i < n + 1
  OBVIOUS
<1>4. \A i \in 1..n + 1 : i \in 1..n \/ i = n + 1
  OBVIOUS
<1>5. ASSUME Straight(names) PROVE Undoubled(names)
  <2> SUFFICES ASSUME NEW i \in 1..n, NEW j \in 1..n, i <= j, names[i] = "", names[j] = ".." PROVE FALSE
    BY <1>1 DEF Undoubled
  <2>1. i # j
    OBVIOUS
  <2>2. i < j
    BY <2>1, Earlier
  <2> QED
    BY <1>1, <1>5, <2>2 DEF Straight
<1>6. ASSUME Straight(more) PROVE Straight(names) /\ (name = ".." => Upward(names))
  <2>1. ASSUME NEW i \in 1..n, NEW j \in 1..n, i < j, names[i] \notin {".", ".."}, names[j] = ".." PROVE FALSE
    BY <1>2, <1>3, <1>6, <2>1 DEF Straight
  <2>2. ASSUME name = "..", NEW i \in 1..n, names[i] \notin {".", ".."} PROVE FALSE
    BY <1>2, <1>3, <1>6, <2>2 DEF Straight
  <2> QED
    BY <1>1, <2>1, <2>2 DEF Straight, Upward
<1>7. Upward(more) <=> Upward(names) /\ name \in {".", ".."}
  BY <1>1, <1>2, <1>3, <1>4 DEF Upward
<1> QED
  BY <1>1, <1>5, <1>6, <1>7

LEMMA InnerAppend ==
    ASSUME NEW names \in Seq(STRING), NEW name \in STRING
    PROVE  /\ Inner(Append(names, name)) = StepInto(Inner(names), name)
           /\ Inner(names) = Undefined => Inner(Append(names, name)) = Undefined
<1>1. Inner(Append(names, name)) = StepInto(Inner(names), name)
  BY AlongAppend DEF Inner, Onto
<1> QED
  BY <1>1 DEF StepInto

\* Where mkdirs can walk, the kernel can walk from the working directory.
Follows(names) ==
    Inner(names) # Undefined /\ Straight(names) =>
        /\ Upward(names) => Walkable(Inner(names))
        /\ Walkable(Inner(names)) => Walkable(Cwd \o names)

LEMMA CwdAppend ==
    ASSUME NEW names \in Seq(STRING), NEW name \in STRING
    PROVE  Cwd \o Append(names, name) = Append(Cwd \o names, name)
<1>1. PICK start \in Seq(STRING) : start = Cwd
  BY FilesAssumption, WiderSeq
<1>2. start \o Append(names, name) = Append(start \o names, name) /\ start \o names \in Seq(STRING)
  BY ConcatAppend, Zenon
<1> QED
  BY <1>1, <1>2

LEMMA FollowsAppend ==
    ASSUME NEW names \in Seq(STRING), NEW name \in STRING, Follows(names)
    PROVE  Follows(Append(names, name))
<1>0. Cwd \in Seq(STRING) /\ Cwd \o names \in Seq(STRING)
  <2>1. Cwd \in Seq(STRING)
    BY FilesAssumption, WiderSeq
  <2> QED
    BY <2>1, ConcatAppend
<1>1. PICK more \in Seq(STRING) : more = Append(names, name)
  BY AppendIs
<1> SUFFICES ASSUME Inner(more) # Undefined, Straight(more)
             PROVE  /\ Upward(more) => Walkable(Inner(more))
                    /\ Walkable(Inner(more)) => Walkable(Cwd \o more)
  BY <1>1 DEF Follows
<1>2. PICK old, new : old = Inner(names) /\ new = Inner(more)
  OBVIOUS
<1>3. old # Undefined /\ new # Undefined /\ new = StepInto(old, name)
  BY <1>1, <1>2, InnerAppend
<1>4. old \in Seq(STRING) /\ new \in Seq(STRING)
  BY <1>1, <1>2, <1>3, AllAlike DEF Alike
<1>5. Straight(names) /\ (name = ".." => Upward(names)) /\ Undoubled(more)
      /\ (Upward(more) <=> Upward(names) /\ name \in {".", ".."})
  <2>1. Straight(more) => Undoubled(more)
    BY StraightAppend
  <2> QED
    BY <1>1, <2>1, StraightAppend
<1>6. (Upward(names) => Walkable(old)) /\ (Walkable(old) => Walkable(Cwd \o names))
  BY <1>2, <1>3, <1>5 DEF Follows
<1>7. Lead(new) = Lead(Cwd \o more)
  BY <1>1, <1>2, <1>3, <1>5, AllAlike, OuterIsLead DEF Alike
<1>8. Walkable(Cwd \o more) <=> Walkable(Cwd \o names) /\ IsDir(Lead(Cwd \o more))
  <2>1. Cwd \o more = Append(Cwd \o names, name)
    <3>1. Cwd \o Append(names, name) = Append(Cwd \o names, name)
      BY CwdAppend
    <3> QED
      BY <1>1, <3>1
  <2> QED
    BY <1>0, <2>1, WalkableAppend
<1>9. CASE name = "."
  <2>1. new = old
    BY <1>3, <1>9 DEF StepInto
  <2> QED
    BY <1>2, <1>5, <1>6, <1>7, <1>8, <2>1 DEF Walkable
<1>10. CASE name = ".."
  <2>1. old # <<>> /\ new = Front(old)
    BY <1>3, <1>10 DEF StepInto
  <2>2. PICK short \in Seq(STRING), last \in STRING : old = Append(short, last)
    BY <1>4, <2>1, LastApart, Zenon, SMTT(30)
  <2>3. new = short
    BY <2>1, <2>2, FrontIs
  <2>4. Walkable(old) => Walkable(new)
    BY <2>2, <2>3, WalkableAppend
  <2> QED
    BY <1>2, <1>5, <1>6, <1>7, <1>8, <1>10, <2>4 DEF Walkable
<1>11. CASE name \notin {".", ".."}
  <2>1. new = Append(old, name)
    BY <1>3, <1>11 DEF StepInto
  <2>2. Walkable(new) => Walkable(old)
    BY <1>4, <2>1, WalkableAppend
  <2> QED
    BY <1>2, <1>5, <1>6, <1>7, <1>8, <1>11, <2>2 DEF Walkable
<1> QED
  BY <1>9, <1>10, <1>11

LEMMA AllFollow ==
    ASSUME NEW names \in Seq(STRING), Walkable(Cwd)
    PROVE  Follows(names)
<1> DEFINE Lost == {n \in Nat : \E d \in Seq(STRING) : Len(d) = n /\ ~Follows(d)}
<1> SUFFICES ASSUME Lost # {} PROVE FALSE
  <2>1. Len(names) \in Nat
    OBVIOUS
  <2> QED
    BY <2>1
<1>1. PICK n \in Lost : \A k \in Lost : n <= k
  <2>1. Lost \subseteq Nat
    OBVIOUS
  <2> HIDE DEF Lost
  <2> QED
    BY <2>1, Least
<1>2. PICK d \in Seq(STRING) : Len(d) = n /\ ~Follows(d)
  BY <1>1
<1>3. CASE d = <<>>
  <2>1. Cwd \in Seq(STRING)
    BY FilesAssumption, WiderSeq
  <2>2. Inner(<<>>) = Cwd /\ Cwd \o <<>> = Cwd
    BY <2>1, AlongNone DEF Inner
  <2> QED
    BY <1>2, <1>3, <2>2 DEF Follows
<1>4. CASE d # <<>>
  <2>1. PICK short \in Seq(STRING), last \in STRING : d = Append(short, last) /\ Len(d) = Len(short) + 1
    BY <1>4, LastApart
  <2>2. Len(short) \in Nat /\ ~(n <= Len(short))
    BY <1>2, <2>1
  <2>3. Follows(short)
    BY <1>1, <2>2
  <2> QED
    BY <1>2, <2>1, <2>3, FollowsAppend
<1> QED
  BY <1>3, <1>4

LEMMA LeadOfName ==
    ASSUME NEW S, NEW names \in Seq(S), NEW name \in S, name \notin {"", ".", ".."}
    PROVE  Lead(Append(names, name)) = Append(Lead(names), name)
  BY LeadAppend DEF Walk

LEMMA ConcatFew ==
    ASSUME NEW S, NEW s \in Seq(S), NEW a \in S, NEW b \in S
    PROVE  s \o <<a>> = Append(s, a) /\ s \o <<a, b>> = Append(Append(s, a), b)
  OBVIOUS

LEMMA SltNamesAre ==
    /\ SltNames \subseteq DirNames
    /\ FileNames \subseteq AnyName /\ DirNames \subseteq AnyName
    /\ \A name \in SltNames \cup FileNames : name \notin {"", ".", ".."}
<1>1. SltNames \cap {".h", ".cc", "test_func.cc", "mk"} = {}
  BY DEF SltNames
<1>2. \A name \in SltNames : name \notin {"", ".", ".."}
  BY DEF SltNames
<1>3. \A name \in {".h", ".cc", "test_func.cc", "mk"} : name \notin {"", ".", ".."}
  OBVIOUS
<1> QED
  BY <1>1, <1>2, <1>3, FileNamesAre DEF DirNames, AnyName

\* Each subdirectory is one name below, or one below depend.
LEMMA SltDirsAre ==
    /\ DOMAIN SltDirs = 1..8 /\ Len(SltDirs) = 8 /\ SltDirs[4] = <<"depend">> /\ "depend" \in SltNames
    /\ \A i \in 1..8 : \E name \in SltNames :
        SltDirs[i] = <<name>> \/ (i \in {5, 6} /\ SltDirs[i] = <<"depend", name>>)
<1>1. /\ SltDirs[1] = <<"bin">> /\ SltDirs[2] = <<"doc">> /\ SltDirs[3] = <<"src">>
      /\ SltDirs[4] = <<"depend">> /\ SltDirs[5] = <<"depend", "include">>
      /\ SltDirs[6] = <<"depend", "lib">> /\ SltDirs[7] = <<"test">> /\ SltDirs[8] = <<"examples">>
      /\ DOMAIN SltDirs = 1..8 /\ Len(SltDirs) = 8
  BY DEF SltDirs
<1>2. /\ "bin" \in SltNames /\ "doc" \in SltNames /\ "src" \in SltNames /\ "depend" \in SltNames
      /\ "include" \in SltNames /\ "lib" \in SltNames /\ "test" \in SltNames /\ "examples" \in SltNames
  BY DEF SltNames
<1>3. \A i \in 1..8 : i = 1 \/ i = 2 \/ i = 3 \/ i = 4 \/ i = 5 \/ i = 6 \/ i = 7 \/ i = 8
  OBVIOUS
<1> QED
  BY <1>1, <1>2, <1>3

LEMMA PjtFilesAre ==
    /\ DOMAIN PjtFiles = 1..4 /\ Len(PjtFiles) = 4
    /\ \A i \in 1..4 : \E name \in FileNames : PjtFiles[i] = <<name>>
<1>1. /\ PjtFiles[1] = <<".h">> /\ PjtFiles[2] = <<".cc">>
      /\ PjtFiles[3] = <<"test_func.cc">> /\ PjtFiles[4] = <<"mk">>
      /\ DOMAIN PjtFiles = 1..4 /\ Len(PjtFiles) = 4
  BY DEF PjtFiles
<1>2. \A i \in 1..4 : i = 1 \/ i = 2 \/ i = 3 \/ i = 4
  OBVIOUS
<1> QED
  BY <1>1, <1>2, FileNamesAre

----------------------------------------------------------------------------
(* The commands of the project generator: the inductive invariant.          *)

\* No directory is called like a file of a project, and every plain file is; a
\* directory is in one that is there.
PlacesInv ==
    /\ Walkable(Cwd)
    /\ \A d \in dirsMade : IsDir(Front(d))
    /\ \A d \in dirsMade : d \in Seq(DirNames)
    /\ \A f \in plain : \E above \in Seq(DirNames), name \in FileNames : f = Append(above, name)

JobStages == {"idle", "look", "stat", "missing", "all there", "rest", "slt", "pjt", "open", "done", "died"}
JobRecord == [op : {"none", "slt", "pjt"}, text : {<<>>} \cup ProjectPaths, at : Nat,
              next : JobStages, sub : Nat, raced : BOOLEAN]

\* A command from whose outcome something follows.
Fair(r) == ~r.raced /\ ~Detour(r.text) /\ ~Halted(r.text, r.at)
Steps(r) == IF r.op = "slt" THEN SltDirs ELSE PjtFiles

\* In mkdirs what is behind is there.
InMkdirs(r) ==
    r.next \in {"stat", "missing", "all there", "rest"} =>
        /\ r.at \in 1..Len(DirsOf(r.text))
        /\ Walkable(SubSeq(DirsOf(r.text), 1, r.at - 1))
        /\ r.next = "all there" =>
            r.at = Len(DirsOf(r.text)) /\ Walkable(SubSeq(DirsOf(r.text), 1, r.at))

\* After it the directory is there, and what was made below it.
AfterMkdirs(r, m) ==
    Fair(r) =>
        /\ r.next # "died"
        /\ r.next \in {"slt", "pjt", "open", "done"} =>
            /\ Walkable(DirsOf(r.text)) \/ Walkable(NamesOf(r.text))
            /\ \A i \in DOMAIN Steps(r) : i < r.sub \/ r.next = "done" =>
                IF r.op = "slt" THEN IsDir(Lead(NamesOf(r.text) \o SltDirs[i]))
                ELSE <<Lead(NamesOf(r.text) \o PjtFiles[i]), m>> \in written

JobOK(r, m) ==
    /\ r.next # "idle" => r.text \in ProjectPaths /\ Defined(r.text) /\ r.op \in {"slt", "pjt"}
    /\ r.next = "look" => r.at = 1
    /\ r.next = "slt" => r.op = "slt"
    /\ r.next \in {"pjt", "open", "died"} => r.op = "pjt"
    /\ r.next \in {"slt", "pjt", "open"} => r.sub \in DOMAIN Steps(r)
    /\ InMkdirs(r)
    /\ r.next # "idle" => AfterMkdirs(r, m)

\* What mkdirs knows of when it is about to make a directory: the one it stands
\* in and whatever is above, but not the one it makes, if that has a name.
Knows(r, s) ==
    r.next \in {"missing", "rest"} =>
        /\ \A d \in s : Front(d) \in s \cup {<<>>}
        /\ Lead(SubSeq(DirsOf(r.text), 1, r.at - 1)) \in s \cup {<<>>}
        /\ DirsOf(r.text)[r.at] \notin Unnamed => Lead(SubSeq(DirsOf(r.text), 1, r.at)) \notin s
        /\ DirsOf(r.text)[r.at] \in Unnamed => r.next = "rest" /\ r.at # 1

ProjectInv ==
    /\ PlacesInv
    /\ job \in [Makers -> JobRecord] /\ known \in [Makers -> SUBSET Seq(DirNames)]
    /\ \A m \in Makers : JobOK(job[m], m) /\ Knows(job[m], known[m])

\* The step of m into r is remembered as it should.
KnowsNow(m, r) ==
    /\ known' \in [Makers -> SUBSET Seq(DirNames)]
    /\ \A o \in Makers \ {m} : known'[o] = known[o]
    /\ Knows(r, known'[m])

LEMMA KnownStays ==
    ASSUME ProjectInv, NEW m \in Makers, UNCHANGED known
    PROVE  \A r : r.next \notin {"missing", "rest"} => KnowsNow(m, r)
  BY DEF ProjectInv, KnowsNow, Knows

\* What others make disturbs nobody.
LEMMA MoreIsWelcome ==
    ASSUME dirsMade \subseteq dirsMade', written \subseteq written'
    PROVE  /\ \A names : IsDir(names) => IsDir(names)'
           /\ \A names : Walkable(names) => Walkable(names)'
           /\ \A r, m : JobOK(r, m) => JobOK(r, m)'
<1>1. \A names : IsDir(names) => IsDir(names)'
  BY DEF IsDir
<1>2. \A names : Walkable(names) => Walkable(names)'
  BY <1>1 DEF Walkable, Reachable
<1>3. ASSUME NEW r, NEW m, JobOK(r, m) PROVE JobOK(r, m)'
  <2>1. InMkdirs(r)'
    BY <1>2, <1>3 DEF JobOK, InMkdirs
  <2>2. AfterMkdirs(r, m) => AfterMkdirs(r, m)'
    BY <1>1, <1>2 DEF AfterMkdirs
  <2> QED
    BY <1>3, <2>1, <2>2 DEF JobOK
<1> QED
  BY <1>1, <1>2, <1>3

\* What a step has to show: about the one command that moves, and the file system.
LEMMA OneJob ==
    ASSUME ProjectInv, NEW m \in Makers, NEW r \in JobRecord, Goes(m, r),
           dirsMade \subseteq dirsMade', written \subseteq written', PlacesInv', JobOK(r, m)',
           KnowsNow(m, r)
    PROVE  ProjectInv'
<1>1. /\ job' \in [Makers -> JobRecord] /\ job'[m] = r
      /\ \A o \in Makers \ {m} : job'[o] = job[o]
  BY DEF ProjectInv, Goes
<1>2. ASSUME NEW o \in Makers PROVE JobOK(job[o], o)'
  <2>1. CASE o = m
    BY <1>1, <2>1 DEF JobOK, InMkdirs, AfterMkdirs, Fair, Steps
  <2>2. CASE o # m
    <3>1. PICK old : old = job[o] /\ job'[o] = old
      BY <1>1, <2>2
    <3>2. JobOK(old, o)'
      <4>1. JobOK(old, o)
        BY <3>1 DEF ProjectInv
      <4> QED
        BY <4>1, MoreIsWelcome
    <3> QED
      BY <3>1, <3>2 DEF JobOK, InMkdirs, AfterMkdirs, Fair, Steps
  <2> QED
    BY <2>1, <2>2
<1>3. ASSUME NEW o \in Makers PROVE Knows(job'[o], known'[o])
  <2>1. CASE o = m
    BY <1>1, <2>1 DEF KnowsNow
  <2>2. CASE o # m
    <3>1. job'[o] = job[o] /\ known'[o] = known[o]
      BY <1>1, <2>2 DEF KnowsNow
    <3> QED
      BY <3>1 DEF ProjectInv
  <2> QED
    BY <2>1, <2>2
<1>4. known' \in [Makers -> SUBSET Seq(DirNames)]
  BY DEF KnowsNow
<1> QED
  BY <1>1, <1>2, <1>3, <1>4 DEF ProjectInv, Knows

\* A directory is no plain file.
LEMMA PlainIsNoDir ==
    ASSUME PlacesInv, NEW d \in Seq(DirNames)
    PROVE  d \notin plain
<1> SUFFICES ASSUME d \in plain PROVE FALSE
  OBVIOUS
<1>1. PICK above \in Seq(DirNames), name \in FileNames : d = Append(above, name)
  BY DEF PlacesInv
<1>2. PICK n \in Nat : n = Len(above) /\ d[n + 1] = name /\ Len(d) = n + 1
  <2>1. above \in Seq(AnyName) /\ name \in AnyName
    BY SltNamesAre, WiderSeq
  <2>2. /\ Len(above) \in Nat /\ Len(Append(above, name)) = Len(above) + 1
        /\ Append(above, name)[Len(above) + 1] = name
    BY <2>1, AppendIs
  <2> QED
    BY <1>1, <2>2
<1>3. \A i \in 1..Len(d) : d[i] \in DirNames
  OBVIOUS
<1>4. n + 1 \in 1..Len(d)
  BY <1>2
<1> QED
  BY <1>2, <1>3, <1>4 DEF DirNames

\* What is missing below a directory that is there has a name of its own.
LEMMA NewIsNamed ==
    ASSUME PlacesInv, NEW above \in Seq(DirNames), NEW name \in DirNames, Walkable(above),
           ~IsDir(Lead(Append(above, name)))
    PROVE  name \notin Unnamed /\ Lead(Append(above, name)) = Append(Lead(above), name)
<1>1. Lead(Append(above, name)) = Walk(Lead(above), name)
  BY LeadAppend
<1>2. IsDir(Lead(above))
  BY DEF Walkable
<1>3. IsDir(<<>>) /\ (Lead(above) # <<>> => IsDir(Front(Lead(above))))
  BY <1>2 DEF IsDir, PlacesInv
<1> QED
  BY <1>1, <1>2, <1>3 DEF Walk, Unnamed

\* After a mkdir below what is there, the directory is there.
LEMMA MkdirMakes ==
    ASSUME PlacesInv, NEW names \in Seq(DirNames), Mkdir(names), UNCHANGED plain
    PROVE  /\ PlacesInv' /\ dirsMade \subseteq dirsMade'
           /\ Reachable(names) => IsDir(Lead(names))'
           /\ CanMake(names) => Reachable(names)
<1>1. dirsMade \subseteq dirsMade'
  BY DEF Mkdir
<1>2. Lead(names) \in Seq(DirNames) /\ Lead(names) \notin plain
  BY PathsStay, PlainIsNoDir
<1>3. PlacesInv'
  <2>1. Walkable(Cwd)'
    <3>1. Walkable(Cwd)
      BY DEF PlacesInv
    <3>2. \A names_1 : IsDir(names_1) => IsDir(names_1)'
      BY <1>1 DEF IsDir
    <3> QED
      BY <3>1, <3>2 DEF Walkable, Reachable
  <2>2. \A d \in dirsMade' : d \in dirsMade \/ (d = Lead(names) /\ CanMake(names))
    BY DEF Mkdir
  <2>3. ASSUME CanMake(names) PROVE IsDir(Front(Lead(names)))
    <3>1. names # <<>>
      <4>1. <<>> = names => IsDir(Lead(names))
        BY LeadNowhere DEF IsDir
      <4> QED
        BY <2>3, <4>1 DEF CanMake, Exists
    <3>2. PICK above \in Seq(DirNames), name \in DirNames : names = Append(above, name)
      BY <3>1, LastApart
    <3>3. Walkable(above) /\ ~IsDir(Lead(Append(above, name)))
      BY <2>3, <3>2, WalkableAppend DEF CanMake, Exists
    <3>4. Lead(names) = Append(Lead(above), name)
      BY <3>2, <3>3, NewIsNamed
    <3>5. Front(Lead(names)) = Lead(above)
      BY <3>4, PathsStay, FrontIs
    <3> QED
      BY <3>3, <3>5 DEF Walkable
  <2>4. \A d \in dirsMade' : IsDir(Front(d))'
    <3>1. \A d : IsDir(d) => IsDir(d)'
      BY <1>1 DEF IsDir
    <3> QED
      BY <2>2, <2>3, <3>1 DEF PlacesInv
  <2> QED
    BY <1>2, <2>1, <2>2, <2>4 DEF PlacesInv
<1>4. ASSUME Reachable(names) PROVE IsDir(Lead(names))'
  <2>1. CASE CanMake(names)
    BY <2>1 DEF Mkdir, IsDir
  <2>2. CASE ~CanMake(names)
    <3>1. IsDir(Lead(names))
      BY <1>2, <1>4, <2>2 DEF CanMake, Exists
    <3> QED
      BY <1>1, <3>1 DEF IsDir
  <2> QED
    BY <2>1, <2>2
<1> QED
  BY <1>1, <1>3, <1>4 DEF CanMake

\* What a command is given: names of directories, and where mkdirs can walk the
\* kernel can walk.
LEMMA TextsArePlaces ==
    ASSUME PathsArePlaces, NEW text \in ProjectPaths, Defined(text)
    PROVE  /\ DirsOf(text) \in Seq(DirNames) /\ DirsOf(text) # <<>>
           /\ NamesOf(text) \in Seq(DirNames)
           /\ PlacesInv /\ Walkable(DirsOf(text)) /\ ~Detour(text) => Walkable(NamesOf(text))
<1>1. PICK names \in Seq(STRING \ FileNames) : names = GetDirs(text)
  BY DEF PathsArePlaces
<1>2. STRING \ FileNames \subseteq DirNames /\ STRING \ FileNames \subseteq STRING
  BY DEF DirNames, AnyName
<1>3. /\ names \in Seq(DirNames) /\ names \in Seq(STRING)
      /\ Cwd \in Seq(DirNames)
  BY <1>2, WiderSeq DEF PathsArePlaces
<1>4. DirsOf(text) # <<>> /\ DirsOf(text) # Undefined
  BY DEF Defined
<1>5. CASE IsAbs(text)
  <2>1. DirsOf(text) = names /\ NamesOf(text) = names
    BY <1>1, <1>3, <1>5 DEF DirsOf, NamesOf
  <2> QED
    BY <1>3, <1>4, <2>1
<1>6. CASE ~IsAbs(text)
  <2>1. DirsOf(text) = Inner(names) /\ NamesOf(text) = Cwd \o names
    BY <1>1, <1>6 DEF DirsOf, NamesOf, Inner, Along
  <2>2. Inner(names) \in Seq(DirNames)
    BY <1>3, PathsStay
  <2>3. Cwd \o names \in Seq(DirNames)
    BY <1>3
  <2>4. ~Detour(text) => Straight(names)
    BY <1>1 DEF Detour, Straight
  <2>5. PlacesInv => Follows(names)
    BY <1>3, AllFollow DEF PlacesInv
  <2> QED
    BY <1>4, <2>1, <2>2, <2>3, <2>4, <2>5 DEF Follows
<1> QED
  BY <1>5, <1>6

LEMMA BelowIsPlace ==
    ASSUME NEW names \in Seq(DirNames), NEW i \in 1..8
    PROVE  /\ names \o SltDirs[i] \in Seq(DirNames)
           /\ Walkable(names) /\ (i \in {5, 6} => IsDir(Lead(names \o SltDirs[4]))) =>
                Reachable(names \o SltDirs[i])
<1>1. PICK name \in SltNames : SltDirs[i] = <<name>> \/ (i \in {5, 6} /\ SltDirs[i] = <<"depend", name>>)
  BY SltDirsAre
<1>2. name \in DirNames /\ "depend" \in DirNames
  BY SltDirsAre, SltNamesAre
<1>3. PICK one \in Seq(DirNames) : one = Append(names, "depend") /\ one = names \o SltDirs[4]
  <2>1. names \o <<"depend">> = Append(names, "depend") /\ Append(names, "depend") \in Seq(DirNames)
    BY <1>2, ConcatFew, AppendIs
  <2> QED
    BY <2>1, SltDirsAre
<1>4. CASE SltDirs[i] = <<name>>
  <2>1. names \o SltDirs[i] = Append(names, name)
    BY <1>2, <1>4, ConcatFew
  <2> QED
    BY <1>2, <2>1, AppendIs, WalkableAppend
<1>5. CASE i \in {5, 6} /\ SltDirs[i] = <<"depend", name>>
  <2>1. names \o SltDirs[i] = Append(one, name)
    BY <1>2, <1>3, <1>5, ConcatFew
  <2>2. Walkable(one) <=> Walkable(names) /\ IsDir(Lead(one))
    BY <1>2, <1>3, WalkableAppend
  <2>3. Append(one, name) \in Seq(DirNames) /\ (Reachable(Append(one, name)) <=> Walkable(one))
    BY <1>2, <1>3, AppendIs, WalkableAppend
  <2> QED
    BY <1>3, <1>5, <2>1, <2>2, <2>3
<1> QED
  BY <1>1, <1>4, <1>5

\* A file below a directory that is there can be opened.
LEMMA FileIsPlace ==
    ASSUME NEW names \in Seq(DirNames), NEW i \in 1..4
    PROVE  /\ \E above \in Seq(DirNames), name \in FileNames :
                Lead(names \o PjtFiles[i]) = Append(above, name)
           /\ PlacesInv /\ Walkable(names) =>
                Reachable(names \o PjtFiles[i]) /\ ~IsDir(Lead(names \o PjtFiles[i]))
<1>1. PICK name \in FileNames : PjtFiles[i] = <<name>>
  BY PjtFilesAre
<1>2. names \in Seq(AnyName) /\ name \in AnyName /\ name \notin {"", ".", ".."}
  BY SltNamesAre, WiderSeq
<1>3. PICK f : f = names \o PjtFiles[i] /\ f = Append(names, name)
  BY <1>1, <1>2, ConcatFew
<1>4. PICK above \in Seq(DirNames) : above = Lead(names)
  BY PathsStay
<1>5. Lead(f) = Append(above, name)
  BY <1>2, <1>3, <1>4, LeadOfName
<1>6. Reachable(f) <=> Walkable(names)
  BY <1>2, <1>3, WalkableAppend
<1>7. ASSUME PlacesInv PROVE ~IsDir(Append(above, name))
  <2>0. PICK d : d = Append(above, name)
    OBVIOUS
  <2>1. PICK n \in Nat : d = Append(above, name) /\ n = Len(above) /\ d[n + 1] = name /\ Len(d) = n + 1
    <3>1. above \in Seq(AnyName) /\ name \in AnyName
      BY <1>2, SltNamesAre, WiderSeq
    <3>2. /\ Len(above) \in Nat /\ Len(Append(above, name)) = Len(above) + 1
          /\ Append(above, name)[Len(above) + 1] = name
      BY <3>1, AppendIs
    <3> QED
      BY <2>0, <3>2
  <2>2. d # <<>>
    BY <2>1
  <2>3. ASSUME d \in Seq(DirNames) PROVE FALSE
    <3>1. \A k \in 1..Len(d) : d[k] \in DirNames
      BY <2>3
    <3>2. n + 1 \in 1..Len(d)
      BY <2>1
    <3> QED
      BY <2>1, <3>1, <3>2 DEF DirNames
  <2> QED
    BY <1>7, <2>1, <2>2, <2>3 DEF PlacesInv, IsDir
<1> QED
  BY <1>3, <1>4, <1>5, <1>6, <1>7

\* The prefixes of a path, one name longer at a time.
LEMMA PrefixGrows ==
    ASSUME NEW S, NEW dirs \in Seq(S), NEW n \in 1..Len(dirs)
    PROVE  /\ SubSeq(dirs, 1, n - 1) \in Seq(S) /\ SubSeq(dirs, 1, n) \in Seq(S) /\ dirs[n] \in S
           /\ SubSeq(dirs, 1, n) = Append(SubSeq(dirs, 1, n - 1), dirs[n])
           /\ SubSeq(dirs, 1, 0) = <<>> /\ SubSeq(dirs, 1, Len(dirs)) = dirs
<1>1. SubSeq(dirs, 1, n - 1) \in Seq(S) /\ SubSeq(dirs, 1, n) \in Seq(S) /\ dirs[n] \in S
  OBVIOUS
<1>2. SubSeq(dirs, 1, n) = Append(SubSeq(dirs, 1, n - 1), dirs[n])
  OBVIOUS
<1>3. SubSeq(dirs, 1, 0) = <<>> /\ SubSeq(dirs, 1, Len(dirs)) = dirs
  OBVIOUS
<1> QED
  BY <1>1, <1>2, <1>3

LEMMA PlacesStay ==
    ASSUME PlacesInv, UNCHANGED <<dirsMade, plain>>
    PROVE  PlacesInv'
  BY DEF PlacesInv, Walkable, Reachable, IsDir

\* A step that makes nothing.
LEMMA StayingKeeps ==
    ASSUME ProjectInv, NEW m \in Makers, NEW r \in JobRecord, Goes(m, r),
           UNCHANGED <<dirsMade, plain, written>>, JobOK(r, m), KnowsNow(m, r)
    PROVE  ProjectInv'
<1>1. PlacesInv'
  BY PlacesStay DEF ProjectInv
<1>2. JobOK(r, m)'
  BY MoreIsWelcome
<1> QED
  BY <1>1, <1>2, OneJob

\* What EXCEPT makes of a command.
FieldsAre(r, op, text, at, next, sub, raced) ==
    /\ r \in JobRecord
    /\ r.op = op /\ r.text = text /\ r.at = at /\ r.next = next /\ r.sub = sub /\ r.raced = raced

LEMMA EditFields ==
    ASSUME NEW old \in JobRecord, NEW next \in JobStages, NEW k \in Nat, NEW lost \in BOOLEAN
    PROVE  /\ FieldsAre([old EXCEPT !.next = next], old.op, old.text, old.at, next, old.sub, old.raced)
           /\ FieldsAre([old EXCEPT !.at = k], old.op, old.text, k, old.next, old.sub, old.raced)
           /\ FieldsAre([old EXCEPT !.next = next, !.at = k],
                        old.op, old.text, k, next, old.sub, old.raced)
           /\ FieldsAre([old EXCEPT !.next = next, !.sub = k],
                        old.op, old.text, old.at, next, k, old.raced)
           /\ FieldsAre([old EXCEPT !.sub = k, !.next = next],
                        old.op, old.text, old.at, next, k, old.raced)
           /\ FieldsAre([[old EXCEPT !.next = next, !.sub = k] EXCEPT !.raced = lost],
                        old.op, old.text, old.at, next, k, lost)
<1>1. PICK op, text, at, was, sub, raced :
        old = [op |-> op, text |-> text, at |-> at, next |-> was, sub |-> sub, raced |-> raced]
  BY DEF JobRecord
<1>2. /\ old.op = op /\ old.text = text /\ old.at = at /\ old.next = was /\ old.sub = sub /\ old.raced = raced
  BY <1>1
<1>3. PICK r1, r2, r3, r4, r5 :
        /\ r1 = [op |-> op, text |-> text, at |-> at, next |-> next, sub |-> sub, raced |-> raced]
        /\ r2 = [op |-> op, text |-> text, at |-> at, next |-> next, sub |-> k, raced |-> raced]
        /\ r3 = [op |-> op, text |-> text, at |-> at, next |-> was, sub |-> k, raced |-> raced]
        /\ r4 = [op |-> op, text |-> text, at |-> k, next |-> was, sub |-> sub, raced |-> raced]
        /\ r5 = [op |-> op, text |-> text, at |-> at, next |-> next, sub |-> k, raced |-> lost]
  OBVIOUS
<1>4. PICK r6 : r6 = [op |-> op, text |-> text, at |-> k, next |-> next, sub |-> sub, raced |-> raced]
  OBVIOUS
<1>5. /\ r1 \in JobRecord /\ r2 \in JobRecord /\ r4 \in JobRecord /\ r5 \in JobRecord /\ r6 \in JobRecord
  BY <1>1, <1>3, <1>4 DEF JobRecord
<1>6. [old EXCEPT !.next = next] = r1 /\ [r1 EXCEPT !.sub = k] = r2 /\ [r1 EXCEPT !.at = k] = r6
  BY <1>1, <1>3, <1>4
<1>7. [old EXCEPT !.at = k] = r4
  BY <1>1, <1>3
<1>8. [old EXCEPT !.next = next, !.sub = k] = r2 /\ [old EXCEPT !.next = next, !.at = k] = r6
  BY <1>6
<1>9. [old EXCEPT !.sub = k, !.next = next] = r2
  <2>1. [old EXCEPT !.sub = k] = r3
    BY <1>1, <1>3
  <2>2. [r3 EXCEPT !.next = next] = r2
    BY <1>3
  <2> QED
    BY <2>1, <2>2
<1>10. [r2 EXCEPT !.raced = lost] = r5
  BY <1>3
<1>11. FieldsAre(r1, op, text, at, next, sub, raced) /\ FieldsAre(r2, op, text, at, next, k, raced)
  BY <1>3, <1>5 DEF FieldsAre
<1>12. FieldsAre(r4, op, text, k, was, sub, raced) /\ FieldsAre(r5, op, text, at, next, k, lost)
  BY <1>3, <1>5 DEF FieldsAre
<1>13. FieldsAre(r6, op, text, k, next, sub, raced)
  BY <1>4, <1>5 DEF FieldsAre
<1> QED
  BY <1>2, <1>6, <1>7, <1>8, <1>9, <1>10, <1>11, <1>12, <1>13

LEMMA NewFields ==
    ASSUME NEW op \in {"slt", "pjt"}, NEW text \in ProjectPaths, NEW next \in JobStages
    PROVE  FieldsAre([NoJob EXCEPT !.op = op, !.text = text, !.at = 1, !.next = next],
                     op, text, 1, next, 0, FALSE)
<1>1. PICK zero, one, none, idle, no, empty :
        zero = 0 /\ one = 1 /\ none = "none" /\ idle = "idle" /\ no = FALSE /\ empty = <<>>
  OBVIOUS
<1>2. PICK r0, r1, r2, r3, r4 :
        /\ r0 = [op |-> none, text |-> empty, at |-> zero, next |-> idle, sub |-> zero, raced |-> no]
        /\ r1 = [op |-> op, text |-> empty, at |-> zero, next |-> idle, sub |-> zero, raced |-> no]
        /\ r2 = [op |-> op, text |-> text, at |-> zero, next |-> idle, sub |-> zero, raced |-> no]
        /\ r3 = [op |-> op, text |-> text, at |-> one, next |-> idle, sub |-> zero, raced |-> no]
        /\ r4 = [op |-> op, text |-> text, at |-> one, next |-> next, sub |-> zero, raced |-> no]
  OBVIOUS
<1>3. NoJob = r0
  BY <1>1, <1>2, Zenon DEF NoJob
<1>4. [r0 EXCEPT !.op = op] = r1 /\ [r1 EXCEPT !.text = text] = r2
  BY ONLY <1>2
<1>5. [r2 EXCEPT !.at = one] = r3 /\ [r3 EXCEPT !.next = next] = r4
  BY ONLY <1>2
<1>6. [NoJob EXCEPT !.op = op, !.text = text, !.at = 1, !.next = next] = r4
  BY <1>1, <1>3, <1>4, <1>5
<1>7. one \in Nat /\ zero \in Nat /\ no \in BOOLEAN
  BY <1>1
<1>8. r4 \in JobRecord
  BY <1>2, <1>7 DEF JobRecord
<1>9. r4.op = op /\ r4.text = text /\ r4.at = one /\ r4.next = next /\ r4.sub = zero /\ r4.raced = no
  BY ONLY <1>2
<1> QED
  BY <1>1, <1>6, <1>8, <1>9 DEF FieldsAre

----------------------------------------------------------------------------
(* The commands of the project generator: every step.                       *)

\* Who moves, and what is known of it.
LEMMA Mover ==
    ASSUME PathsArePlaces, ProjectInv, NEW m \in Makers, job[m].next # "idle"
    PROVE  \E old \in JobRecord :
            /\ old = job[m] /\ JobOK(old, m)
            /\ old.text \in ProjectPaths /\ Defined(old.text) /\ old.op \in {"slt", "pjt"}
            /\ DirsOf(old.text) \in Seq(DirNames) /\ Len(DirsOf(old.text)) \in Nat \ {0}
            /\ NamesOf(old.text) \in Seq(DirNames)
            /\ AfterMkdirs(old, m)
            /\ Fair(old) /\ Walkable(DirsOf(old.text)) => Walkable(NamesOf(old.text))
<1>1. PICK old \in JobRecord : old = job[m] /\ JobOK(old, m) /\ old.next # "idle"
  BY DEF ProjectInv
<1>2. old.text \in ProjectPaths /\ Defined(old.text) /\ old.op \in {"slt", "pjt"} /\ AfterMkdirs(old, m)
  BY <1>1 DEF JobOK
<1>3. PICK dirs \in Seq(DirNames) : dirs = DirsOf(old.text) /\ dirs # <<>>
  BY <1>2, TextsArePlaces
<1>4. Len(dirs) \in Nat /\ Len(dirs) # 0
  BY <1>3
<1>5. /\ NamesOf(old.text) \in Seq(DirNames)
      /\ Fair(old) /\ Walkable(DirsOf(old.text)) => Walkable(NamesOf(old.text))
  BY <1>2, TextsArePlaces DEF ProjectInv, Fair
<1> QED
  BY <1>1, <1>2, <1>3, <1>4, <1>5

LEMMA CommandKeeps ==
    ASSUME PathsArePlaces, ProjectInv, NEW m \in Makers, Command(m)
    PROVE  ProjectInv'
<1>1. PICK text \in ProjectPaths, op \in {"slt", "pjt"} :
        /\ Defined(text)
        /\ Goes(m, [NoJob EXCEPT !.op = op, !.text = text, !.at = 1,
                                 !.next = IF op = "slt" THEN "stat" ELSE "look"])
  BY DEF Command
<1>2. PICK next \in JobStages : next = IF op = "slt" THEN "stat" ELSE "look"
  BY DEF JobStages
<1>3. PICK r : r = [NoJob EXCEPT !.op = op, !.text = text, !.at = 1, !.next = next]
  OBVIOUS
<1>4. FieldsAre(r, op, text, 1, next, 0, FALSE) /\ Goes(m, r) /\ next \in {"stat", "look"}
  <2>1. FieldsAre(r, op, text, 1, next, 0, FALSE)
    BY <1>3, NewFields
  <2> QED
    BY <1>1, <1>2, <1>3, <2>1
<1>5. PICK dirs \in Seq(DirNames) : dirs = DirsOf(text) /\ dirs # <<>>
  BY <1>1, TextsArePlaces
<1>6. 1 \in 1..Len(dirs) /\ SubSeq(dirs, 1, 0) = <<>>
  BY <1>5
<1>7. UNCHANGED <<dirsMade, plain, written>> /\ KnowsNow(m, r)
  <2>1. UNCHANGED <<dirsMade, plain, written, known>>
    BY DEF Command
  <2>2. r.next \notin {"missing", "rest"}
    BY <1>4 DEF FieldsAre
  <2> QED
    BY <2>1, <2>2, KnownStays
<1>8. JobOK(r, m)
  <2>1. InMkdirs(r)
    <3>1. r.next # "all there" /\ r.at = 1 /\ r.text = text
      BY <1>4 DEF FieldsAre
    <3>2. 1 - 1 = 0
      OBVIOUS
    <3> QED
      BY <1>5, <1>6, <3>1, <3>2, NowhereWalkable DEF InMkdirs
  <2>2. AfterMkdirs(r, m)
    BY <1>4 DEF AfterMkdirs, FieldsAre
  <2> QED
    BY <1>1, <1>4, <2>1, <2>2 DEF JobOK, FieldsAre
<1> QED
  BY <1>4, <1>7, <1>8, StayingKeeps DEF FieldsAre

\* mkdirs returns, and the directory is there unless the command has lost.
LEMMA ReturnedOK ==
    ASSUME NEW m \in Makers, NEW r \in JobRecord, r.text \in ProjectPaths, Defined(r.text),
           r.op \in {"slt", "pjt"}, r.next = r.op, r.sub = 1
    PROVE  /\ (Fair(r) => Walkable(DirsOf(r.text)) \/ Walkable(NamesOf(r.text))) => JobOK(r, m)
           /\ (Fair(r) => Walkable(DirsOf(r.text))') => JobOK(r, m)'
<1>1. InMkdirs(r) /\ InMkdirs(r)'
  BY DEF InMkdirs
<1>2. \A i \in DOMAIN Steps(r) : i \in 1..8 /\ ~(i < r.sub)
  BY SltDirsAre, PjtFilesAre DEF Steps
<1>3. r.next # "done" /\ r.next # "died"
  OBVIOUS
<1>4. ASSUME Fair(r) => Walkable(DirsOf(r.text)) \/ Walkable(NamesOf(r.text)) PROVE AfterMkdirs(r, m)
  BY <1>2, <1>3, <1>4 DEF AfterMkdirs
<1>5. ASSUME Fair(r) => Walkable(DirsOf(r.text))' PROVE AfterMkdirs(r, m)'
  BY <1>2, <1>3, <1>5 DEF AfterMkdirs
<1>6. r.sub \in DOMAIN Steps(r)
  BY SltDirsAre, PjtFilesAre DEF Steps
<1> QED
  BY <1>1, <1>4, <1>5, <1>6 DEF JobOK

LEMMA ReturnedFields ==
    ASSUME NEW m, NEW old \in JobRecord, old = job[m], old.op \in {"slt", "pjt"}
    PROVE  /\ FieldsAre(Returned(m), old.op, old.text, old.at, old.op, 1, old.raced)
           /\ \A lost \in BOOLEAN :
                FieldsAre([Returned(m) EXCEPT !.raced = lost], old.op, old.text, old.at, old.op, 1, lost)
<1>1. PICK to \in JobStages : to = old.op
  BY DEF JobStages
<1>2. PICK one \in Nat : one = 1
  OBVIOUS
<1>3. Returned(m) = [old EXCEPT !.next = to, !.sub = one]
  BY <1>1, <1>2 DEF Returned
<1>4. FieldsAre([old EXCEPT !.next = to, !.sub = one], old.op, old.text, old.at, to, one, old.raced)
  BY EditFields, Zenon
<1>5. ASSUME NEW lost \in BOOLEAN
      PROVE  FieldsAre([[old EXCEPT !.next = to, !.sub = one] EXCEPT !.raced = lost],
                       old.op, old.text, old.at, to, one, lost)
  BY EditFields, Zenon
<1> QED
  BY <1>1, <1>2, <1>3, <1>4, <1>5

LEMMA LookKeeps ==
    ASSUME PathsArePlaces, ProjectInv, NEW m \in Makers, Look(m)
    PROVE  ProjectInv'
<1>1. job[m].next = "look" /\ UNCHANGED <<dirsMade, plain, written, known>>
  BY DEF Look
<1>2. PICK old \in JobRecord :
        /\ old = job[m] /\ JobOK(old, m)
        /\ old.text \in ProjectPaths /\ Defined(old.text) /\ old.op \in {"slt", "pjt"}
        /\ DirsOf(old.text) \in Seq(DirNames) /\ Len(DirsOf(old.text)) \in Nat \ {0}
  BY <1>1, Mover
<1>3. PICK there \in BOOLEAN :
        there <=> Exists(NamesOf(old.text)) /\ IsDir(Lead(NamesOf(old.text)))
  OBVIOUS
<1>4. CASE there
  <2>1. Goes(m, Returned(m))
    BY <1>2, <1>3, <1>4 DEF Look
  <2>2. PICK r : r = Returned(m) /\ FieldsAre(r, old.op, old.text, old.at, old.op, 1, old.raced)
    BY <1>2, ReturnedFields
  <2>3. Walkable(NamesOf(r.text))
    BY <1>2, <1>3, <1>4, <2>2 DEF Walkable, Exists, FieldsAre
  <2>4. JobOK(r, m)
    BY <1>2, <2>2, <2>3, ReturnedOK DEF FieldsAre
  <2>5. KnowsNow(m, r)
    BY <1>1, <1>2, <2>2, KnownStays DEF FieldsAre
  <2> QED
    BY <1>1, <2>1, <2>2, <2>4, <2>5, StayingKeeps DEF FieldsAre
<1>5. CASE ~there
  <2>1. Goes(m, [job[m] EXCEPT !.next = "stat"])
    BY <1>2, <1>3, <1>5 DEF Look
  <2>2. PICK r : /\ r = [old EXCEPT !.next = "stat"]
                 /\ FieldsAre(r, old.op, old.text, old.at, "stat", old.sub, old.raced)
    <3>1. "stat" \in JobStages
      BY DEF JobStages
    <3> QED
      BY <3>1, EditFields, Zenon
  <2>3. old.at = 1 /\ 1 \in 1..Len(DirsOf(old.text)) /\ SubSeq(DirsOf(old.text), 1, 0) = <<>>
    BY <1>1, <1>2 DEF JobOK
  <2>4. InMkdirs(r)
    <3>1. 1 - 1 = 0
      OBVIOUS
    <3> QED
      BY <2>2, <2>3, <3>1, NowhereWalkable DEF InMkdirs, FieldsAre
  <2>5. AfterMkdirs(r, m)
    BY <2>2 DEF AfterMkdirs, FieldsAre
  <2>6. JobOK(r, m)
    BY <1>2, <2>2, <2>4, <2>5 DEF JobOK, FieldsAre
  <2>7. KnowsNow(m, r)
    BY <1>1, <2>2, KnownStays DEF FieldsAre
  <2> QED
    BY <1>1, <1>2, <2>1, <2>2, <2>6, <2>7, StayingKeeps DEF FieldsAre
<1> QED
  BY <1>4, <1>5

LEMMA SkipDirsKeeps ==
    ASSUME PathsArePlaces, ProjectInv, NEW m \in Makers, SkipDirs(m)
    PROVE  ProjectInv'
<1>1. job[m].next = "stat" /\ UNCHANGED <<dirsMade, plain, written>>
  BY DEF SkipDirs
<1>2. PICK old \in JobRecord :
        /\ old = job[m] /\ JobOK(old, m)
        /\ old.text \in ProjectPaths /\ Defined(old.text) /\ old.op \in {"slt", "pjt"}
        /\ DirsOf(old.text) \in Seq(DirNames) /\ Len(DirsOf(old.text)) \in Nat \ {0}
  BY <1>1, Mover
<1>3. PICK dirs \in Seq(DirNames) : dirs = DirsOf(old.text)
  BY <1>2
<1>4. PICK at \in 1..Len(dirs) : at = old.at /\ Walkable(SubSeq(dirs, 1, at - 1))
  BY <1>1, <1>2, <1>3 DEF JobOK, InMkdirs
<1>5. At(m) = SubSeq(dirs, 1, at) /\ (AtLast(m) <=> at = Len(dirs))
  BY <1>2, <1>3, <1>4 DEF At, AtLast
<1>6. PICK there \in BOOLEAN : there <=> Exists(SubSeq(dirs, 1, at)) /\ IsDir(Lead(SubSeq(dirs, 1, at)))
  OBVIOUS
<1>7. there => Walkable(SubSeq(dirs, 1, at))
  BY <1>6 DEF Walkable, Exists
<1>8. /\ ~there => Goes(m, [old EXCEPT !.next = "missing"])
      /\ there /\ at = Len(dirs) => Goes(m, [old EXCEPT !.next = "all there"])
      /\ there /\ at # Len(dirs) => Goes(m, [old EXCEPT !.at = at + 1])
  BY <1>2, <1>4, <1>5, <1>6 DEF SkipDirs
<1>13. known' = [known EXCEPT ![m] = IF there /\ at # Len(dirs) THEN known[m] ELSE dirsMade]
  BY <1>4, <1>5, <1>6 DEF SkipDirs
<1>14. known' \in [Makers -> SUBSET Seq(DirNames)] /\ \A o \in Makers \ {m} : known'[o] = known[o]
  BY <1>13 DEF ProjectInv, PlacesInv
<1>9. "missing" \in JobStages /\ "all there" \in JobStages /\ FALSE \in BOOLEAN /\ 0 \in Nat /\ at + 1 \in Nat
  BY DEF JobStages
<1>10. CASE ~there
  <2>1. PICK r : /\ r = [old EXCEPT !.next = "missing"]
                 /\ FieldsAre(r, old.op, old.text, old.at, "missing", old.sub, old.raced)
    BY <1>9, EditFields, Zenon
  <2>2. InMkdirs(r)
    BY <1>3, <1>4, <2>1 DEF InMkdirs, FieldsAre
  <2>3. AfterMkdirs(r, m)
    BY <2>1 DEF AfterMkdirs, FieldsAre
  <2>4. JobOK(r, m)
    BY <1>2, <2>1, <2>2, <2>3 DEF JobOK, FieldsAre
  <2>5. PICK above \in Seq(DirNames), name \in DirNames :
          /\ above = SubSeq(dirs, 1, at - 1) /\ name = dirs[at]
          /\ SubSeq(dirs, 1, at) = Append(above, name)
    <3>1. SubSeq(dirs, 1, at - 1) \in Seq(DirNames) /\ dirs[at] \in DirNames
      BY PrefixGrows
    <3>2. SubSeq(dirs, 1, at) = Append(SubSeq(dirs, 1, at - 1), dirs[at])
      BY PrefixGrows
    <3> QED
      BY <3>1, <3>2, Zenon
  <2>6. ~IsDir(Lead(Append(above, name)))
    <3>1. Reachable(Append(above, name))
      BY <1>4, <2>5, WalkableAppend
    <3> QED
      BY <1>6, <1>10, <2>5, <3>1 DEF Exists
  <2>7. name \notin Unnamed
    BY <1>4, <2>5, <2>6, NewIsNamed DEF ProjectInv
  <2>8. /\ \A d \in dirsMade : Front(d) \in dirsMade \cup {<<>>}
        /\ Lead(above) \in dirsMade \cup {<<>>} /\ Lead(Append(above, name)) \notin dirsMade
    BY <1>4, <2>5, <2>6 DEF ProjectInv, PlacesInv, Walkable, IsDir
  <2>9. known'[m] = dirsMade /\ r.text = old.text /\ r.at = at /\ r.next = "missing"
    BY <1>4, <1>10, <1>13, <2>1 DEF ProjectInv, FieldsAre
  <2>10. KnowsNow(m, r)
    BY <1>3, <1>14, <2>5, <2>7, <2>8, <2>9 DEF KnowsNow, Knows
  <2> QED
    BY <1>1, <1>8, <1>10, <2>1, <2>4, <2>10, StayingKeeps DEF FieldsAre
<1>11. CASE there /\ at = Len(dirs)
  <2>1. PICK r : /\ r = [old EXCEPT !.next = "all there"]
                 /\ FieldsAre(r, old.op, old.text, old.at, "all there", old.sub, old.raced)
    BY <1>9, EditFields, Zenon
  <2>2. InMkdirs(r)
    BY <1>3, <1>4, <1>7, <1>11, <2>1 DEF InMkdirs, FieldsAre
  <2>3. AfterMkdirs(r, m)
    BY <2>1 DEF AfterMkdirs, FieldsAre
  <2>4. JobOK(r, m)
    BY <1>2, <2>1, <2>2, <2>3 DEF JobOK, FieldsAre
  <2>5. KnowsNow(m, r)
    BY <1>14, <2>1 DEF KnowsNow, Knows, FieldsAre
  <2> QED
    BY <1>1, <1>8, <1>11, <2>1, <2>4, <2>5, StayingKeeps DEF FieldsAre
<1>12. CASE there /\ at # Len(dirs)
  <2>1. PICK r : /\ r = [old EXCEPT !.at = at + 1]
                 /\ FieldsAre(r, old.op, old.text, at + 1, old.next, old.sub, old.raced)
    <3>1. PICK next \in JobStages : TRUE
      BY <1>9
    <3> QED
      BY <1>9, <3>1, EditFields, Zenon
  <2>2. at + 1 \in 1..Len(dirs) /\ (at + 1) - 1 = at
    BY <1>12
  <2>3. InMkdirs(r)
    BY <1>1, <1>2, <1>3, <1>7, <1>12, <2>1, <2>2 DEF InMkdirs, FieldsAre
  <2>4. AfterMkdirs(r, m)
    BY <1>1, <1>2, <2>1 DEF AfterMkdirs, FieldsAre
  <2>5. JobOK(r, m)
    BY <1>1, <1>2, <2>1, <2>3, <2>4 DEF JobOK, FieldsAre
  <2>6. KnowsNow(m, r)
    BY <1>1, <1>2, <1>14, <2>1 DEF KnowsNow, Knows, FieldsAre
  <2> QED
    BY <1>1, <1>8, <1>12, <2>1, <2>5, <2>6, StayingKeeps DEF FieldsAre
<1> QED
  BY <1>10, <1>11, <1>12

LEMMA MakeDirsKeeps ==
    ASSUME PathsArePlaces, ProjectInv, NEW m \in Makers, MakeDirs(m)
    PROVE  ProjectInv'
<1>1. job[m].next \in {"missing", "all there", "rest"} /\ UNCHANGED <<plain, written>> /\ Mkdir(At(m))
  BY DEF MakeDirs
<1>2. PICK old \in JobRecord :
        /\ old = job[m] /\ JobOK(old, m)
        /\ old.text \in ProjectPaths /\ Defined(old.text) /\ old.op \in {"slt", "pjt"}
        /\ DirsOf(old.text) \in Seq(DirNames) /\ Len(DirsOf(old.text)) \in Nat \ {0}
  <2>1. job[m].next # "idle"
    BY <1>1
  <2> QED
    BY <2>1, Mover
<1>3. PICK dirs \in Seq(DirNames) : dirs = DirsOf(old.text)
  BY <1>2
<1>4. PICK at \in 1..Len(dirs) :
        /\ at = old.at /\ Walkable(SubSeq(dirs, 1, at - 1))
        /\ old.next = "all there" => at = Len(dirs) /\ Walkable(SubSeq(dirs, 1, at))
  BY <1>1, <1>2, <1>3 DEF JobOK, InMkdirs
<1>5. PICK names \in Seq(DirNames) :
        /\ names = SubSeq(dirs, 1, at)
        /\ dirs[at] \in DirNames /\ names = Append(SubSeq(dirs, 1, at - 1), dirs[at])
        /\ at = Len(dirs) => names = dirs
  <2>1. SubSeq(dirs, 1, at) \in Seq(DirNames) /\ dirs[at] \in DirNames
    BY PrefixGrows
  <2>2. SubSeq(dirs, 1, at) = Append(SubSeq(dirs, 1, at - 1), dirs[at])
    BY PrefixGrows
  <2>3. SubSeq(dirs, 1, Len(dirs)) = dirs
    BY PrefixGrows
  <2> QED
    BY <2>1, <2>2, <2>3, Zenon
<1>6. At(m) = names /\ (AtLast(m) <=> at = Len(dirs))
  BY <1>2, <1>3, <1>4, <1>5 DEF At, AtLast
<1>7. Reachable(names)
  <2>1. SubSeq(dirs, 1, at - 1) \in Seq(DirNames)
    BY PrefixGrows
  <2> QED
    BY <1>4, <1>5, <2>1, WalkableAppend
<1>8. PlacesInv' /\ dirsMade \subseteq dirsMade' /\ IsDir(Lead(names))'
  BY <1>1, <1>5, <1>6, <1>7, MkdirMakes DEF ProjectInv
<1>9. Walkable(names)'
  <2>1. \A d : IsDir(d) => IsDir(d)'
    BY <1>8 DEF IsDir
  <2>2. Reachable(names)'
    BY <1>7, <2>1 DEF Reachable
  <2> QED
    BY <1>8, <2>2 DEF Walkable
<1>10. written \subseteq written'
  BY <1>1
<1>15. PICK above \in Seq(DirNames), name \in DirNames :
          /\ above = SubSeq(dirs, 1, at - 1) /\ name = dirs[at] /\ names = Append(above, name)
  <2>1. SubSeq(dirs, 1, at - 1) \in Seq(DirNames)
    BY PrefixGrows
  <2> QED
    BY <1>5, <2>1
<1>16. PICK there, s : there = Lead(names) /\ s = known[m] /\ s \in SUBSET Seq(DirNames)
  BY DEF ProjectInv
<1>17. there \in Seq(DirNames)
  BY <1>16, PathsStay
<1>18. old.next # "all there" =>
        /\ \A d \in s : Front(d) \in s \cup {<<>>}
        /\ Lead(above) \in s \cup {<<>>} /\ (name \notin Unnamed => there \notin s)
        /\ name \in Unnamed => at # 1
  <2>1. Knows(old, s)
    BY <1>2, <1>16 DEF ProjectInv
  <2> QED
    BY <1>1, <1>2, <1>3, <1>4, <1>5, <1>15, <1>16, <2>1 DEF Knows
<1>19. known' = [known EXCEPT ![m] = IF CanMake(names) THEN s \cup {there} ELSE {}]
  BY <1>6, <1>16 DEF MakeDirs, Remembers
<1>20. known' \in [Makers -> SUBSET Seq(DirNames)] /\ \A o \in Makers \ {m} : known'[o] = known[o]
  BY <1>16, <1>17, <1>19 DEF ProjectInv
<1>11. /\ ~CanMake(names) => Goes(m, [Returned(m) EXCEPT !.raced = Raced(m)])
       /\ CanMake(names) /\ at = Len(dirs) => Goes(m, Returned(m))
       /\ CanMake(names) /\ at # Len(dirs) => Goes(m, [old EXCEPT !.next = "rest", !.at = at + 1])
  BY <1>2, <1>4, <1>6 DEF MakeDirs
<1>12. CASE ~CanMake(names)
  <2>1. PICK lost \in BOOLEAN : lost = Raced(m) /\ (lost <=> there \in dirsMade \ s)
    <3>1. Raced(m) = (there \in dirsMade \ s)
      BY <1>6, <1>16, Zenon DEF Raced
    <3>2. (there \in dirsMade \ s) \in BOOLEAN
      OBVIOUS
    <3> QED
      BY <3>1, <3>2, Zenon
  <2>2. PICK r : /\ r = [Returned(m) EXCEPT !.raced = lost]
                 /\ FieldsAre(r, old.op, old.text, old.at, old.op, 1, lost)
    BY <1>2, ReturnedFields
  <2>6. IsDir(there) /\ Walkable(names)
    <3>1. dirsMade' = dirsMade
      BY <1>1, <1>6, <1>12 DEF Mkdir
    <3> QED
      BY <1>7, <1>8, <1>16, <3>1 DEF IsDir, Walkable
  <2>7. ASSUME Fair(r), old.next # "all there" PROVE name \in Unnamed /\ at = Len(dirs)
    <3>1. there \notin dirsMade \ s /\ ~Halted(old.text, at)
      BY <1>4, <2>1, <2>2, <2>7 DEF Fair, FieldsAre
    <3>2. name \in Unnamed
      <4> SUFFICES ASSUME name \notin Unnamed PROVE FALSE
        OBVIOUS
      <4>1. there = Append(Lead(above), name)
        BY <1>15, <1>16, LeadOfName DEF Unnamed
      <4>2. there # <<>>
        BY <4>1, <1>15, PathsStay, FrontIs
      <4> QED
        BY <1>18, <2>6, <2>7, <3>1, <4>2 DEF IsDir
    <3>3. at # 1
      BY <1>18, <2>7, <3>2
    <3>4. at \notin 2..Len(dirs) - 1
      BY <1>3, <1>15, <3>1, <3>2 DEF Halted
    <3> QED
      BY <3>2, <3>3, <3>4
  <2>3. Fair(r) => Walkable(DirsOf(r.text))
    BY <1>3, <1>4, <1>5, <2>2, <2>6, <2>7 DEF FieldsAre
  <2>4. JobOK(r, m)
    BY <1>2, <2>2, <2>3, ReturnedOK DEF FieldsAre
  <2>5. JobOK(r, m)'
    BY <1>8, <1>10, <2>4, MoreIsWelcome
  <2>8. KnowsNow(m, r)
    BY <1>2, <1>20, <2>2 DEF KnowsNow, Knows, FieldsAre
  <2> QED
    BY <1>8, <1>10, <1>11, <1>12, <2>1, <2>2, <2>5, <2>8, OneJob DEF FieldsAre
<1>13. CASE CanMake(names) /\ at = Len(dirs)
  <2>1. PICK r : r = Returned(m) /\ FieldsAre(r, old.op, old.text, old.at, old.op, 1, old.raced)
    BY <1>2, ReturnedFields
  <2>2. Walkable(dirs)'
    BY <1>5, <1>9, <1>13
  <2>3. DirsOf(r.text) = dirs
    BY <1>3, <2>1 DEF FieldsAre
  <2>4. Walkable(DirsOf(r.text))'
    BY <2>2, <2>3
  <2>5. JobOK(r, m)'
    BY <1>2, <2>1, <2>4, ReturnedOK DEF FieldsAre
  <2>6. KnowsNow(m, r)
    BY <1>2, <1>20, <2>1 DEF KnowsNow, Knows, FieldsAre
  <2> QED
    BY <1>8, <1>10, <1>11, <1>13, <2>1, <2>5, <2>6, OneJob DEF FieldsAre
<1>14. CASE CanMake(names) /\ at # Len(dirs)
  <2>1. PICK r : /\ r = [old EXCEPT !.next = "rest", !.at = at + 1]
                 /\ FieldsAre(r, old.op, old.text, at + 1, "rest", old.sub, old.raced)
    <3>1. "rest" \in JobStages /\ at + 1 \in Nat /\ FALSE \in BOOLEAN
      BY DEF JobStages
    <3> QED
      BY <3>1, EditFields, Zenon
  <2>2. at + 1 \in 1..Len(dirs) /\ (at + 1) - 1 = at
    BY <1>14
  <2>3. InMkdirs(r)'
    <3>1. r.at = at + 1 /\ r.next # "all there" /\ DirsOf(r.text) = dirs
      BY <1>3, <2>1 DEF FieldsAre
    <3> QED
      BY <1>5, <1>9, <2>2, <3>1 DEF InMkdirs
  <2>4. AfterMkdirs(r, m)'
    BY <2>1 DEF AfterMkdirs, FieldsAre
  <2>5. JobOK(r, m)'
    BY <1>2, <2>1, <2>3, <2>4 DEF JobOK, FieldsAre
  <2>6. name \notin Unnamed /\ there = Append(Lead(above), name)
    <3>1. Walkable(above) /\ ~IsDir(Lead(names))
      BY <1>4, <1>7, <1>14, <1>15 DEF CanMake, Exists
    <3> QED
      BY <1>15, <1>16, <3>1, NewIsNamed DEF ProjectInv
  <2>7. old.next # "all there"
    <3>1. ~IsDir(Lead(names))
      BY <1>7, <1>14 DEF CanMake, Exists
    <3> QED
      BY <1>4, <1>5, <3>1 DEF Walkable
  <2>8. /\ there # <<>> /\ Front(there) \in s \cup {<<>>} /\ there \notin s
        /\ \A d \in s : Front(d) \in s \cup {<<>>}
    <3>1. Front(there) = Lead(above) /\ there # <<>>
      BY <1>15, <2>6, PathsStay, FrontIs
    <3> QED
      BY <1>18, <2>6, <2>7, <3>1
  <2>9. PICK next \in DirNames : /\ next = dirs[at + 1]
                                /\ SubSeq(dirs, 1, at + 1) = Append(names, next)
    <3>1. dirs[at + 1] \in DirNames /\ SubSeq(dirs, 1, at + 1) = Append(SubSeq(dirs, 1, (at + 1) - 1), dirs[at + 1])
      BY <2>2, PrefixGrows
    <3> QED
      BY <1>5, <2>2, <3>1
  <2>10. next \notin Unnamed => Lead(Append(names, next)) \notin s \cup {there}
    <3> SUFFICES ASSUME next \notin Unnamed PROVE Lead(Append(names, next)) \notin s \cup {there}
      OBVIOUS
    <3>1. Lead(Append(names, next)) = Append(there, next)
      BY <1>16, LeadOfName DEF Unnamed
    <3>2. Front(Append(there, next)) = there
      BY <1>17, FrontIs
    <3>3. Append(there, next) # there
      BY <1>17, AppendIs
    <3> QED
      BY <2>8, <3>1, <3>2, <3>3
  <2>11. known'[m] = s \cup {there}
    BY <1>14, <1>19 DEF ProjectInv
  <2>12. r.next = "rest" /\ r.at = at + 1 /\ r.at - 1 = at /\ r.at # 1 /\ DirsOf(r.text) = dirs
    BY <1>3, <2>1, <2>2 DEF FieldsAre
  <2>13. Knows(r, s \cup {there})
    BY <1>5, <1>16, <2>8, <2>9, <2>10, <2>12 DEF Knows
  <2>14. KnowsNow(m, r)
    BY <1>20, <2>11, <2>13 DEF KnowsNow
  <2> QED
    BY <1>8, <1>10, <1>11, <1>14, <2>1, <2>5, <2>14, OneJob DEF FieldsAre
<1> QED
  BY <1>12, <1>13, <1>14

\* The next step, or the end.
LEMMA NextFields ==
    ASSUME NEW m, NEW list, NEW old \in JobRecord, old = job[m], old.op \in JobStages, Len(list) \in Nat
    PROVE  /\ old.sub < Len(list) =>
                FieldsAre(NextSub(m, list), old.op, old.text, old.at, old.op, old.sub + 1, old.raced)
           /\ ~(old.sub < Len(list)) =>
                FieldsAre(NextSub(m, list), old.op, old.text, old.at, "done", old.sub, old.raced)
<1>1. PICK more \in Nat : more = old.sub + 1
  BY DEF JobRecord
<1>2. PICK op \in JobStages : op = old.op
  OBVIOUS
<1>3. PICK done \in JobStages : done = "done"
  BY DEF JobStages
<1>4. FieldsAre([old EXCEPT !.sub = more, !.next = op], old.op, old.text, old.at, op, more, old.raced)
  <2>1. PICK no \in BOOLEAN : TRUE
    OBVIOUS
  <2> QED
    BY <2>1, EditFields, Zenon
<1>5. FieldsAre([old EXCEPT !.next = done], old.op, old.text, old.at, done, old.sub, old.raced)
  <2>1. PICK no \in BOOLEAN : TRUE
    OBVIOUS
  <2> QED
    BY <1>1, <2>1, EditFields, Zenon
<1>6. /\ old.sub < Len(list) => NextSub(m, list) = [old EXCEPT !.sub = more, !.next = op]
      /\ ~(old.sub < Len(list)) => NextSub(m, list) = [old EXCEPT !.next = done]
  BY <1>1, <1>2, <1>3 DEF NextSub
<1> QED
  BY <1>1, <1>2, <1>3, <1>4, <1>5, <1>6

LEMMA MakeSubKeeps ==
    ASSUME PathsArePlaces, ProjectInv, NEW m \in Makers, MakeSub(m)
    PROVE  ProjectInv'
<1>1. job[m].next = "slt" /\ UNCHANGED <<plain, written, known>>
  BY DEF MakeSub
<1>2. PICK old \in JobRecord :
        /\ old = job[m] /\ JobOK(old, m)
        /\ old.text \in ProjectPaths /\ Defined(old.text)
        /\ NamesOf(old.text) \in Seq(DirNames) /\ AfterMkdirs(old, m)
        /\ Fair(old) /\ Walkable(DirsOf(old.text)) => Walkable(NamesOf(old.text))
  <2>1. job[m].next # "idle"
    BY <1>1
  <2> QED
    BY <2>1, Mover
<1>3. PICK names \in Seq(DirNames) : names = NamesOf(old.text)
  BY <1>2
<1>4. old.next = "slt" /\ old.op = "slt" /\ Steps(old) = SltDirs
  BY <1>1, <1>2 DEF JobOK, Steps
<1>5. PICK sub \in 1..8 : sub = old.sub
  BY <1>2, <1>4, SltDirsAre DEF JobOK
<1>6. Fair(old) => Walkable(names) /\ \A i \in 1..8 : i < sub => IsDir(Lead(names \o SltDirs[i]))
  BY <1>2, <1>3, <1>4, <1>5, SltDirsAre DEF AfterMkdirs
<1>7. PICK below \in Seq(DirNames) : below = names \o SltDirs[sub]
  BY BelowIsPlace
<1>8. Below(m, SltDirs) = below /\ Mkdir(below) /\ Goes(m, NextSub(m, SltDirs))
  BY <1>2, <1>3, <1>5, <1>7 DEF Below, MakeSub
<1>9. /\ PlacesInv' /\ dirsMade \subseteq dirsMade'
      /\ Reachable(below) => IsDir(Lead(below))'
  BY <1>1, <1>8, MkdirMakes DEF ProjectInv
<1>10. ASSUME Fair(old)
       PROVE  Walkable(names)' /\ \A i \in 1..8 : i <= sub => IsDir(Lead(names \o SltDirs[i]))'
  <2>1. sub \in {5, 6} => IsDir(Lead(names \o SltDirs[4]))
    <3>1. sub \in {5, 6} => 4 \in 1..8 /\ 4 < sub
      OBVIOUS
    <3> QED
      BY <1>6, <1>10, <3>1
  <2>2. Reachable(below)
    BY <1>6, <1>7, <1>10, <2>1, BelowIsPlace
  <2>3. /\ \A d : IsDir(d) => IsDir(d)'
        /\ Walkable(names)'
    <3>1. written \subseteq written'
      BY <1>1
    <3> QED
      BY <1>6, <1>9, <1>10, <3>1, MoreIsWelcome
  <2>4. ASSUME NEW i \in 1..8, i <= sub PROVE IsDir(Lead(names \o SltDirs[i]))'
    <3>1. CASE i = sub
      BY <1>7, <1>9, <2>2, <3>1
    <3>2. CASE i # sub
      <4>1. i < sub
        BY <2>4, <3>2
      <4> QED
        BY <1>6, <1>10, <2>3, <4>1
    <3> QED
      BY <3>1, <3>2
  <2> QED
    BY <2>3, <2>4
<1>11. PICK r : /\ r = NextSub(m, SltDirs) /\ r \in JobRecord
                /\ r.op = "slt" /\ r.text = old.text /\ r.at = old.at /\ r.raced = old.raced
                /\ \/ r.next = "slt" /\ r.sub = sub + 1 /\ sub < 8
                   \/ r.next = "done" /\ sub = 8
  <2>1. old.op \in JobStages /\ Len(SltDirs) = 8 /\ 8 \in Nat
    BY <1>4, SltDirsAre DEF JobStages
  <2>2. PICK r : r = NextSub(m, SltDirs)
    OBVIOUS
  <2>3. CASE sub < 8
    <3>1. FieldsAre(r, old.op, old.text, old.at, old.op, old.sub + 1, old.raced)
      BY <1>2, <1>4, <1>5, <2>1, <2>2, <2>3, NextFields
    <3> QED
      BY <1>2, <1>4, <1>5, <2>2, <2>3, <3>1 DEF FieldsAre
  <2>4. CASE ~(sub < 8)
    <3>1. FieldsAre(r, old.op, old.text, old.at, "done", old.sub, old.raced)
      BY <1>2, <1>4, <1>5, <2>1, <2>2, <2>4, NextFields
    <3>2. sub = 8
      BY <2>4
    <3> QED
      BY <1>2, <1>4, <1>5, <2>2, <3>1, <3>2 DEF FieldsAre
  <2> QED
    BY <2>3, <2>4
<1>12. AfterMkdirs(r, m)'
  <2> SUFFICES ASSUME Fair(r)
               PROVE  /\ Walkable(NamesOf(r.text))'
                      /\ \A i \in 1..8 : i < r.sub \/ r.next = "done" => IsDir(Lead(NamesOf(r.text) \o SltDirs[i]))'
    BY <1>11, SltDirsAre DEF AfterMkdirs, Steps
  <2>1. Fair(old)
    BY <1>11 DEF Fair
  <2>2. NamesOf(r.text) = names
    BY <1>3, <1>11
  <2>3. \A i \in 1..8 : i < r.sub \/ r.next = "done" => i <= sub
    BY <1>11
  <2> QED
    BY <1>10, <2>1, <2>2, <2>3
<1>13. JobOK(r, m)'
  <2>1. r.next = "slt" => r.sub \in 1..8
    BY <1>11
  <2> QED
    BY <1>2, <1>11, <1>12, <2>1, SltDirsAre DEF JobOK, InMkdirs, Steps
<1>14. KnowsNow(m, r)
  BY <1>1, <1>11, KnownStays
<1> QED
  BY <1>1, <1>8, <1>9, <1>11, <1>13, <1>14, OneJob

\* Who is at a project's files.
LEMMA FileMover ==
    ASSUME PathsArePlaces, ProjectInv, NEW m \in Makers, job[m].next \in {"pjt", "open"}
    PROVE  \E old \in JobRecord, names \in Seq(DirNames), sub \in 1..4 :
            /\ old = job[m] /\ JobOK(old, m) /\ old.op = "pjt"
            /\ old.text \in ProjectPaths /\ Defined(old.text)
            /\ names = NamesOf(old.text) /\ sub = old.sub
            /\ Below(m, PjtFiles) = names \o PjtFiles[sub]
            /\ Fair(old) =>
                /\ Walkable(names)
                /\ \A i \in 1..4 : i < sub => <<Lead(names \o PjtFiles[i]), m>> \in written
<1>1. PICK old \in JobRecord :
        /\ old = job[m] /\ JobOK(old, m)
        /\ old.text \in ProjectPaths /\ Defined(old.text)
        /\ NamesOf(old.text) \in Seq(DirNames) /\ AfterMkdirs(old, m)
        /\ Fair(old) /\ Walkable(DirsOf(old.text)) => Walkable(NamesOf(old.text))
  <2>1. job[m].next # "idle"
    OBVIOUS
  <2> QED
    BY <2>1, Mover
<1>2. PICK names \in Seq(DirNames) : names = NamesOf(old.text)
  BY <1>1
<1>3. old.next \in {"pjt", "open"} /\ old.op = "pjt" /\ Steps(old) = PjtFiles
  BY <1>1 DEF JobOK, Steps
<1>4. PICK sub \in 1..4 : sub = old.sub
  BY <1>1, <1>3, PjtFilesAre DEF JobOK
<1>5. Fair(old) => /\ Walkable(names)
                   /\ \A i \in 1..4 : i < sub => <<Lead(names \o PjtFiles[i]), m>> \in written
  BY <1>1, <1>2, <1>3, <1>4, PjtFilesAre DEF AfterMkdirs
<1>6. Below(m, PjtFiles) = names \o PjtFiles[sub]
  BY <1>1, <1>2, <1>4 DEF Below
<1> QED
  BY <1>1, <1>2, <1>3, <1>4, <1>5, <1>6, Zenon

LEMMA OpenFileKeeps ==
    ASSUME PathsArePlaces, ProjectInv, NEW m \in Makers, OpenFile(m)
    PROVE  ProjectInv'
<1>1. job[m].next = "pjt" /\ UNCHANGED <<dirsMade, written, known>>
  BY DEF OpenFile
<1>2. PICK old \in JobRecord, names \in Seq(DirNames), sub \in 1..4 :
        /\ old = job[m] /\ JobOK(old, m) /\ old.op = "pjt"
        /\ old.text \in ProjectPaths /\ Defined(old.text)
        /\ names = NamesOf(old.text) /\ sub = old.sub
        /\ Below(m, PjtFiles) = names \o PjtFiles[sub]
        /\ Fair(old) => Walkable(names)
        /\ Fair(old) => \A i \in 1..4 : i < sub => <<Lead(names \o PjtFiles[i]), m>> \in written
  <2>1. job[m].next \in {"pjt", "open"}
    BY <1>1
  <2> QED
    BY <2>1, FileMover
<1>3. PICK file : file = names \o PjtFiles[sub]
  OBVIOUS
<1>4. PICK above \in Seq(DirNames), name \in FileNames : Lead(file) = Append(above, name)
  BY <1>3, FileIsPlace
<1>5. Fair(old) => Reachable(file) /\ ~IsDir(Lead(file))
  BY <1>2, <1>3, FileIsPlace DEF ProjectInv
<1>6. CASE Reachable(file) /\ ~IsDir(Lead(file))
  <2>1. plain' = plain \cup {Lead(file)} /\ Goes(m, [old EXCEPT !.next = "open"])
    BY <1>2, <1>3, <1>6 DEF OpenFile
  <2>2. PICK r : /\ r = [old EXCEPT !.next = "open"]
                 /\ FieldsAre(r, old.op, old.text, old.at, "open", old.sub, old.raced)
    <3>1. "open" \in JobStages /\ 0 \in Nat /\ FALSE \in BOOLEAN
      BY DEF JobStages
    <3> QED
      BY <3>1, EditFields, Zenon
  <2>3. PlacesInv'
    <3>1. Walkable(Cwd)'
      BY <1>1 DEF ProjectInv, PlacesInv, Walkable, Reachable, IsDir
    <3>2. \A f \in plain' : f \in plain \/ f = Append(above, name)
      BY <1>4, <2>1
    <3>3. \A d \in dirsMade' : IsDir(Front(d))' /\ d \in Seq(DirNames)
      BY <1>1 DEF ProjectInv, PlacesInv, IsDir
    <3>4. \A f \in plain' : \E a \in Seq(DirNames), n \in FileNames : f = Append(a, n)
      BY <3>2 DEF ProjectInv, PlacesInv
    <3> QED
      BY <3>1, <3>3, <3>4 DEF PlacesInv
  <2>4. JobOK(r, m)
    <3>1. /\ r \in JobRecord /\ r.op = "pjt" /\ r.text = old.text /\ r.next = "open"
          /\ r.sub = sub /\ r.at = old.at /\ r.raced = old.raced
      BY <1>2, <2>2 DEF FieldsAre
    <3>2. AfterMkdirs(r, m)
      <4>1. Fair(r) => Fair(old)
        BY <3>1 DEF Fair
      <4>2. Steps(r) = PjtFiles /\ NamesOf(r.text) = names
        BY <1>2, <3>1 DEF Steps
      <4> QED
        BY <1>2, <3>1, <4>1, <4>2, PjtFilesAre DEF AfterMkdirs
    <3> QED
      BY <1>2, <3>1, <3>2, PjtFilesAre DEF JobOK, InMkdirs, Steps
  <2>5. dirsMade \subseteq dirsMade' /\ written \subseteq written'
    BY <1>1
  <2>6. JobOK(r, m)'
    BY <2>4, <2>5, MoreIsWelcome
  <2>7. KnowsNow(m, r)
    BY <1>1, <2>2, KnownStays DEF FieldsAre
  <2> QED
    BY <2>1, <2>2, <2>3, <2>5, <2>6, <2>7, OneJob DEF FieldsAre
<1>7. CASE ~(Reachable(file) /\ ~IsDir(Lead(file)))
  <2>1. UNCHANGED plain /\ Goes(m, [old EXCEPT !.next = "died"])
    BY <1>2, <1>3, <1>7 DEF OpenFile
  <2>2. PICK r : /\ r = [old EXCEPT !.next = "died"]
                 /\ FieldsAre(r, old.op, old.text, old.at, "died", old.sub, old.raced)
    <3>1. "died" \in JobStages /\ 0 \in Nat /\ FALSE \in BOOLEAN
      BY DEF JobStages
    <3> QED
      BY <3>1, EditFields, Zenon
  <2>3. ~Fair(r)
    BY <1>5, <1>7, <2>2 DEF Fair, FieldsAre
  <2>4. JobOK(r, m)
    BY <1>2, <2>2, <2>3 DEF JobOK, InMkdirs, AfterMkdirs, FieldsAre
  <2>5. KnowsNow(m, r)
    BY <1>1, <2>2, KnownStays DEF FieldsAre
  <2> QED
    BY <1>1, <2>1, <2>2, <2>4, <2>5, StayingKeeps DEF FieldsAre
<1> QED
  BY <1>6, <1>7

LEMMA CloseFileKeeps ==
    ASSUME PathsArePlaces, ProjectInv, NEW m \in Makers, CloseFile(m)
    PROVE  ProjectInv'
<1>1. job[m].next = "open" /\ UNCHANGED <<dirsMade, plain, known>>
  BY DEF CloseFile
<1>2. PICK old \in JobRecord, names \in Seq(DirNames), sub \in 1..4 :
        /\ old = job[m] /\ JobOK(old, m) /\ old.op = "pjt"
        /\ old.text \in ProjectPaths /\ Defined(old.text)
        /\ names = NamesOf(old.text) /\ sub = old.sub
        /\ Below(m, PjtFiles) = names \o PjtFiles[sub]
        /\ Fair(old) => Walkable(names)
        /\ Fair(old) => \A i \in 1..4 : i < sub => <<Lead(names \o PjtFiles[i]), m>> \in written
  <2>1. job[m].next \in {"pjt", "open"}
    BY <1>1
  <2> QED
    BY <2>1, FileMover
<1>3. written' = written \cup {<<Lead(names \o PjtFiles[sub]), m>>} /\ Goes(m, NextSub(m, PjtFiles))
  BY <1>2 DEF CloseFile
<1>4. PICK r : /\ r = NextSub(m, PjtFiles) /\ r \in JobRecord
               /\ r.op = "pjt" /\ r.text = old.text /\ r.at = old.at /\ r.raced = old.raced
               /\ \/ r.next = "pjt" /\ r.sub = sub + 1 /\ sub < 4
                  \/ r.next = "done" /\ sub = 4
  <2>1. old.op \in JobStages /\ Len(PjtFiles) = 4 /\ 4 \in Nat
    BY <1>2, PjtFilesAre DEF JobStages
  <2>2. PICK r : r = NextSub(m, PjtFiles)
    OBVIOUS
  <2>3. CASE sub < 4
    <3>1. FieldsAre(r, old.op, old.text, old.at, old.op, old.sub + 1, old.raced)
      BY <1>2, <2>1, <2>2, <2>3, NextFields
    <3> QED
      BY <1>2, <2>2, <2>3, <3>1 DEF FieldsAre
  <2>4. CASE ~(sub < 4)
    <3>1. FieldsAre(r, old.op, old.text, old.at, "done", old.sub, old.raced)
      BY <1>2, <2>1, <2>2, <2>4, NextFields
    <3>2. sub = 4
      BY <2>4
    <3> QED
      BY <1>2, <2>2, <3>1, <3>2 DEF FieldsAre
  <2> QED
    BY <2>3, <2>4
<1>5. PlacesInv' /\ dirsMade \subseteq dirsMade' /\ written \subseteq written'
  BY <1>1, <1>3, PlacesStay DEF ProjectInv
<1>6. ASSUME Fair(old)
      PROVE  Walkable(names)' /\ \A i \in 1..4 : i <= sub => <<Lead(names \o PjtFiles[i]), m>> \in written'
  <2>1. Walkable(names)'
    BY <1>2, <1>5, <1>6, MoreIsWelcome
  <2>2. ASSUME NEW i \in 1..4, i <= sub PROVE <<Lead(names \o PjtFiles[i]), m>> \in written'
    <3>1. CASE i = sub
      BY <1>3, <3>1
    <3>2. CASE i # sub
      <4>1. i < sub
        BY <2>2, <3>2
      <4> QED
        BY <1>2, <1>5, <1>6, <4>1
    <3> QED
      BY <3>1, <3>2
  <2> QED
    BY <2>1, <2>2
<1>7. AfterMkdirs(r, m)'
  <2> SUFFICES ASSUME Fair(r)
               PROVE  /\ Walkable(NamesOf(r.text))'
                      /\ \A i \in 1..4 : i < r.sub \/ r.next = "done" =>
                            <<Lead(NamesOf(r.text) \o PjtFiles[i]), m>> \in written'
    BY <1>4, PjtFilesAre DEF AfterMkdirs, Steps
  <2>1. Fair(old)
    BY <1>4 DEF Fair
  <2>2. NamesOf(r.text) = names
    BY <1>2, <1>4
  <2>3. \A i \in 1..4 : i < r.sub \/ r.next = "done" => i <= sub
    BY <1>4
  <2> QED
    BY <1>6, <2>1, <2>2, <2>3
<1>8. JobOK(r, m)'
  <2>1. r.next = "pjt" => r.sub \in 1..4
    BY <1>4
  <2> QED
    BY <1>2, <1>4, <1>7, <2>1, PjtFilesAre DEF JobOK, InMkdirs, Steps
<1>9. KnowsNow(m, r)
  BY <1>1, <1>4, KnownStays
<1> QED
  BY <1>3, <1>4, <1>5, <1>8, <1>9, OneJob

LEMMA InitPlaces ==
    ASSUME PathsArePlaces, ProjectInit
    PROVE  PlacesInv
<1>1. dirsMade = {SubSeq(Cwd, 1, i) : i \in 1..Len(Cwd)} /\ plain = {}
  BY DEF ProjectInit, FilesInit
<1>2. Cwd \in Seq(Proper) /\ Cwd \in Seq(DirNames)
  <2>1. STRING \ FileNames \subseteq DirNames
    BY DEF DirNames, AnyName
  <2> QED
    BY <2>1, FilesAssumption, WiderSeq DEF PathsArePlaces, Proper
<1>3. PICK cwd \in Seq(Proper), n \in Nat : cwd = Cwd /\ n = Len(cwd)
  BY <1>2
<1>4. ASSUME NEW i \in 0..n PROVE IsDir(Lead(SubSeq(cwd, 1, i)))
  <2>1. CASE i = 0
    <3>1. SubSeq(cwd, 1, 0) = <<>>
      BY <1>3
    <3> QED
      BY <2>1, <3>1, LeadNowhere DEF IsDir
  <2>2. CASE i # 0
    <3>1. SubSeq(cwd, 1, i) \in Seq(Proper)
      BY <1>3
    <3>2. Lead(SubSeq(cwd, 1, i)) = SubSeq(cwd, 1, i)
      BY <3>1, ProperLead
    <3>3. i \in 1..n
      BY <2>2
    <3>4. SubSeq(cwd, 1, i) \in dirsMade
      BY <1>1, <1>3, <3>3
    <3> QED
      BY <3>2, <3>4 DEF IsDir
  <2> QED
    BY <2>1, <2>2
<1>5. Walkable(Cwd)
  <2>1. n \in 0..n /\ \A i \in 0..n - 1 : i \in 0..n
    OBVIOUS
  <2>2. SubSeq(cwd, 1, n) = cwd
    BY <1>3
  <2> QED
    BY <1>3, <1>4, <2>1, <2>2 DEF Walkable, Reachable
<1>7. ASSUME NEW d \in dirsMade PROVE IsDir(Front(d))
  <2>1. PICK i \in 1..n : d = SubSeq(cwd, 1, i)
    BY <1>1, <1>3
  <2>2. PICK short \in Seq(Proper), last \in Proper :
          short = SubSeq(cwd, 1, i - 1) /\ SubSeq(cwd, 1, i) = Append(short, last)
    <3>1. SubSeq(cwd, 1, i - 1) \in Seq(Proper) /\ cwd[i] \in Proper
      BY <1>3, PrefixGrows
    <3>2. SubSeq(cwd, 1, i) = Append(SubSeq(cwd, 1, i - 1), cwd[i])
      BY <1>3, PrefixGrows
    <3> QED
      BY <3>1, <3>2, Zenon
  <2>3. Front(d) = SubSeq(cwd, 1, i - 1)
    BY <2>1, <2>2, FrontIs
  <2>4. Lead(SubSeq(cwd, 1, i - 1)) = SubSeq(cwd, 1, i - 1)
    BY <2>2, ProperLead
  <2>5. i - 1 \in 0..n
    OBVIOUS
  <2> QED
    BY <1>4, <2>3, <2>4, <2>5
<1>6. \A d \in dirsMade : d \in Seq(DirNames)
  <2>1. \A i \in 1..Len(Cwd) : SubSeq(Cwd, 1, i) \in Seq(DirNames)
    BY <1>2
  <2> QED
    BY <1>1, <2>1
<1> QED
  BY <1>1, <1>5, <1>6, <1>7 DEF PlacesInv

\* For any makers, paths and working directory, as long as no directory is called
\* like a file of a project: a command that ends has made all it was to make, and
\* none dies, but where another command made a directory between its stat and its
\* mkdir, or its path has a detour, or mkdirs stopped at a "." or a doubled
\* separator behind a directory it had made.
THEOREM CommandsAreComplete == PathsArePlaces => (ProjectSpec => []CommandsComplete)
<1> SUFFICES ASSUME PathsArePlaces PROVE ProjectSpec => []CommandsComplete
  OBVIOUS
<1>1. ProjectInit => ProjectInv
  <2> SUFFICES ASSUME ProjectInit PROVE ProjectInv
    OBVIOUS
  <2>1. PICK none : none = NoJob
    OBVIOUS
  <2>2. none \in JobRecord /\ none.next = "idle"
    <3>1. NoJob.next = "idle"
      BY DEF NoJob
    <3>2. NoJob \in JobRecord
      BY DEF NoJob, JobRecord, JobStages
    <3> QED
      BY <2>1, <3>1, <3>2
  <2>3. job = [m \in Makers |-> none]
    BY <2>1 DEF ProjectInit
  <2>4. \A m \in Makers : JobOK(none, m) /\ \A s : Knows(none, s)
    BY <2>2 DEF JobOK, InMkdirs, Knows
  <2>5. job \in [Makers -> JobRecord] /\ \A m \in Makers : job[m] = none
    BY <2>2, <2>3
  <2>6. known \in [Makers -> SUBSET Seq(DirNames)]
    BY DEF ProjectInit
  <2> QED
    BY <2>4, <2>5, <2>6, InitPlaces DEF ProjectInv
<1>2. ProjectInv /\ [ProjectNext]_<<projectVars, maker>> => ProjectInv'
  <2> SUFFICES ASSUME ProjectInv, [ProjectNext]_<<projectVars, maker>> PROVE ProjectInv'
    OBVIOUS
  <2>1. ASSUME NEW m \in Makers, Command(m) PROVE ProjectInv'
    BY <2>1, CommandKeeps
  <2>2. ASSUME NEW m \in Makers, Look(m) PROVE ProjectInv'
    BY <2>2, LookKeeps
  <2>3. ASSUME NEW m \in Makers, SkipDirs(m) PROVE ProjectInv'
    BY <2>3, SkipDirsKeeps
  <2>4. ASSUME NEW m \in Makers, MakeDirs(m) PROVE ProjectInv'
    BY <2>4, MakeDirsKeeps
  <2>5. ASSUME NEW m \in Makers, MakeSub(m) PROVE ProjectInv'
    BY <2>5, MakeSubKeeps
  <2>6. ASSUME NEW m \in Makers, OpenFile(m) PROVE ProjectInv'
    BY <2>6, OpenFileKeeps
  <2>7. ASSUME NEW m \in Makers, CloseFile(m) PROVE ProjectInv'
    BY <2>7, CloseFileKeeps
  <2>8. CASE UNCHANGED <<projectVars, maker>>
    <3>1. UNCHANGED <<dirsMade, plain, job, written, known>>
      BY <2>8 DEF projectVars
    <3>2. ASSUME NEW m \in Makers PROVE JobOK(job[m], m)'
      <4>1. PICK old : old = job[m] /\ job'[m] = old
        BY <3>1
      <4>2. JobOK(old, m)
        BY <4>1 DEF ProjectInv
      <4>3. JobOK(old, m)'
        BY <3>1, <4>2, MoreIsWelcome
      <4> QED
        BY <4>1, <4>3 DEF JobOK, InMkdirs, AfterMkdirs, Fair, Steps
    <3>3. \A m \in Makers : Knows(job'[m], known'[m])
      BY <3>1 DEF ProjectInv
    <3> QED
      BY <3>1, <3>2, <3>3, PlacesStay DEF ProjectInv, Knows
  <2> QED
    BY <2>1, <2>2, <2>3, <2>4, <2>5, <2>6, <2>7, <2>8 DEF ProjectNext
<1>3. ProjectInv => CommandsComplete
  <2> SUFFICES ASSUME ProjectInv, NEW m \in Makers, job[m].next \in {"done", "died"},
                      ~job[m].raced, ~Detour(job[m].text), ~Halted(job[m].text, job[m].at)
               PROVE  /\ job[m].next # "died"
                      /\ LET names == NamesOf(job[m].text) IN
                          IF job[m].op = "slt" THEN \A i \in DOMAIN SltDirs : IsDir(Lead(names \o SltDirs[i]))
                          ELSE \A i \in DOMAIN PjtFiles : <<Lead(names \o PjtFiles[i]), m>> \in written
    BY DEF CommandsComplete
  <2>1. PICK r : r = job[m] /\ JobOK(r, m)
    BY DEF ProjectInv
  <2>2. Fair(r) /\ AfterMkdirs(r, m)
    BY <2>1 DEF Fair, JobOK
  <2>3. r.next # "died" /\ r.next = "done"
    BY <2>1, <2>2 DEF AfterMkdirs
  <2> QED
    BY <2>1, <2>2, <2>3 DEF AfterMkdirs, Steps
<1> QED
  BY <1>1, <1>2, <1>3, PTL DEF ProjectSpec

----------------------------------------------------------------------------
(* Sequences of sequences. *)

\* FlattenSeq, unfolded: what goes before is flattened first.
Flat(seqs, f) == f = [i \in 1..Len(seqs) |-> IF i = 1 THEN seqs[i] ELSE f[i - 1] \o seqs[i]]

\* Two ways to flatten what is the same up to n.
FlatAlike(S, one, two, f, g, n) ==
    /\ one \in Seq(Seq(S)) /\ two \in Seq(Seq(S)) /\ Flat(one, f) /\ Flat(two, g)
    /\ n \in Nat /\ n <= Len(one) /\ n <= Len(two) /\ \A i \in 1..n : one[i] = two[i]

LEMMA FlatIsOne ==
    ASSUME NEW S, NEW one, NEW two, NEW f, NEW g, NEW n, FlatAlike(S, one, two, f, g, n)
    PROVE  \A i \in 1..n : f[i] = g[i]
<1> USE DEF FlatAlike
<1> SUFFICES ASSUME {i \in 1..n : f[i] # g[i]} # {} PROVE FALSE
  OBVIOUS
<1>1. PICK k \in 1..n : f[k] # g[k] /\ \A i \in 1..n : f[i] # g[i] => k <= i
  <2>1. PICK T : T = {i \in 1..n : f[i] # g[i]}
    OBVIOUS
  <2>2. T \subseteq Nat /\ T # {}
    BY <2>1
  <2>3. PICK k \in T : \A i \in T : k <= i
    BY <2>2, Least
  <2> QED
    BY <2>1, <2>3
<1>2. /\ f[k] = IF k = 1 THEN one[k] ELSE f[k - 1] \o one[k]
      /\ g[k] = IF k = 1 THEN two[k] ELSE g[k - 1] \o two[k]
  <2>1. Len(one) \in Nat /\ Len(two) \in Nat
    OBVIOUS
  <2>2. k \in 1..Len(one) /\ k \in 1..Len(two)
    BY <2>1
  <2> QED
    BY <2>2 DEF Flat
<1>3. CASE k = 1
  BY <1>1, <1>2, <1>3
<1>4. CASE k # 1
  <2>1. k - 1 \in 1..n /\ ~(k <= k - 1)
    BY <1>4
  <2>2. f[k - 1] = g[k - 1]
    BY <1>1, <2>1
  <2> QED
    BY <1>1, <1>2, <1>4, <2>2
<1> QED
  BY <1>3, <1>4

LEMMA FlatExists ==
    ASSUME NEW S, NEW seqs \in Seq(Seq(S))
    PROVE  \E f : Flat(seqs, f)
<1> DEFINE Upto(n, f) == f = [i \in 1..n |-> IF i = 1 THEN seqs[i] ELSE f[i - 1] \o seqs[i]]
           Missing == {n \in 0..Len(seqs) : ~\E f : Upto(n, f)}
<1>1. Missing = {}
  <2> SUFFICES ASSUME Missing # {} PROVE FALSE
    OBVIOUS
  <2>0. Missing \subseteq Nat
    <3>1. Missing \subseteq 0..Len(seqs)
      BY Zenon
    <3>2. 0..Len(seqs) \subseteq Nat
      OBVIOUS
    <3> QED
      BY <3>1, <3>2, Zenon
  <2> HIDE DEF Missing
  <2>1. PICK n \in Missing : \A k \in Missing : n <= k
    BY <2>0, Least
  <2> USE DEF Missing
  <2>2. n # 0
    <3>1. Upto(0, [i \in 1..0 |-> <<>>])
      OBVIOUS
    <3> QED
      BY <3>1
  <2>3. n - 1 \in 0..Len(seqs) /\ n - 1 \notin Missing /\ n \in Nat
    <3>1. Len(seqs) \in Nat /\ n \in 0..Len(seqs)
      BY <2>1
    <3>2. n - 1 \in 0..Len(seqs) /\ n \in Nat /\ ~(n <= n - 1)
      BY <2>2, <3>1
    <3> HIDE DEF Missing
    <3> QED
      BY <2>1, <3>2
  <2>4. PICK f : Upto(n - 1, f)
    BY <2>3
  <2> DEFINE g == [i \in 1..n |-> IF i = 1 THEN seqs[i] ELSE f[i - 1] \o seqs[i]]
  <2>5. \A i \in 1..n - 1 : f[i] = IF i = 1 THEN seqs[i] ELSE f[i - 1] \o seqs[i]
    BY <2>4
  <2>6. \A i \in 1..n - 1 : g[i] = f[i]
    BY <2>3, <2>5
  <2>7. \A i \in 1..n : i # 1 => i - 1 \in 1..n - 1
    BY <2>3
  <2>8. Upto(n, g)
    BY <2>6, <2>7
  <2> QED
    BY <2>1, <2>8
<1>2. PICK f : Upto(Len(seqs), f)
  <2>1. Len(seqs) \in 0..Len(seqs)
    OBVIOUS
  <2> HIDE DEF Upto
  <2> QED
    BY <1>1, <2>1
<1> QED
  BY <1>2 DEF Flat

LEMMA FlattenIs ==
    ASSUME NEW S, NEW seqs \in Seq(Seq(S)), seqs # <<>>
    PROVE  \E f : Flat(seqs, f) /\ FlattenSeq(seqs) = f[Len(seqs)]
<1> DEFINE f == CHOOSE f : Flat(seqs, f)
<1>1. Flat(seqs, f)
  BY FlatExists, Zenon
<1>2. FlattenSeq(seqs) = f[Len(seqs)]
  BY DEF FlattenSeq, Flat
<1> QED
  BY <1>1, <1>2

\* What is put behind the sequences is behind what they flatten to.
LEMMA FlattenAppend ==
    ASSUME NEW S, NEW seqs \in Seq(Seq(S)), NEW x \in Seq(S)
    PROVE  FlattenSeq(Append(seqs, x)) = FlattenSeq(seqs) \o x
<1>0. PICK more, n : more = Append(seqs, x) /\ n = Len(seqs)
  OBVIOUS
<1>1. more \in Seq(Seq(S)) /\ more # <<>> /\ Len(more) = n + 1 /\ more[n + 1] = x
      /\ n \in Nat /\ \A i \in 1..n : more[i] = seqs[i]
  <2>1. more \in Seq(Seq(S)) /\ Len(more) = n + 1 /\ n \in Nat
    BY <1>0
  <2>2. more[n + 1] = x /\ \A i \in 1..n : more[i] = seqs[i]
    BY <1>0
  <2> QED
    BY <2>1, <2>2
<1>2. PICK g : Flat(more, g) /\ FlattenSeq(more) = g[n + 1]
  BY <1>1, FlattenIs
<1>3. g[n + 1] = IF n + 1 = 1 THEN x ELSE g[n] \o x
  <2>1. n + 1 \in 1..Len(more) /\ n + 1 - 1 = n
    BY <1>1
  <2>2. PICK k \in 1..Len(more) : k = n + 1
    BY <2>1
  <2>3. g[k] = IF k = 1 THEN more[k] ELSE g[k - 1] \o more[k]
    BY <1>2 DEF Flat
  <2> QED
    BY <1>1, <2>1, <2>2, <2>3
<1>4. CASE n = 0
  <2>1. FlattenSeq(seqs) = <<>>
    <3>1. Len(seqs) = 0
      BY <1>0, <1>4
    <3>2. FlattenSeq(seqs) = seqs
      BY <3>1, Zenon DEF FlattenSeq
    <3> QED
      BY <3>1, <3>2
  <2> QED
    BY <1>0, <1>2, <1>3, <1>4, <2>1
<1>5. CASE n # 0
  <2>1. PICK f : Flat(seqs, f) /\ FlattenSeq(seqs) = f[n]
    BY <1>0, <1>5, FlattenIs
  <2>2. \A i \in 1..n : f[i] = g[i]
    <3>1. n <= Len(seqs) /\ n <= Len(more) /\ \A i \in 1..n : seqs[i] = more[i]
      BY <1>0, <1>1
    <3> QED
      <4>1. seqs \in Seq(Seq(S)) /\ more \in Seq(Seq(S)) /\ Flat(seqs, f) /\ Flat(more, g) /\ n \in Nat
        BY <1>1, <1>2, <2>1
      <4>2. FlatAlike(S, seqs, more, f, g, n)
        BY <3>1, <4>1 DEF FlatAlike
      <4> QED
        BY <4>2, FlatIsOne
  <2>3. n \in 1..n
    BY <1>1, <1>5
  <2> QED
    <3>1. FlattenSeq(more) = g[n] \o x
      BY <1>2, <1>3, <1>1, <1>5
    <3>2. FlattenSeq(seqs) = g[n]
      BY <2>1, <2>2, <2>3
    <3> QED
      BY <1>0, <3>1, <3>2
<1> QED
  BY <1>4, <1>5

----------------------------------------------------------------------------
(* Logging. *)

Patterns == [key : Seq(STRING), arg : Seq(STRING)]
Events == [length : Nat, width : Nat]
\* What told a formatter makes it print.
Read(formats) == [k \in DOMAIN formats |-> Understood(formats[k])]
\* The lines that say what LinesAsTold promises.
ToldLines == {line \in [event : Events, items : Seq(Patterns), told : Seq(Formats)] :
                /\ line.items = FlattenSeq(Read(line.told))
                /\ line.event.width % 56 = 0 /\ line.event.length < line.event.width}

LogInv ==
    /\ m_format \in [Loggers -> {Written(format) : format \in Formats}]
    /\ m_items \in [Loggers -> Seq(Patterns)]
    /\ told \in [Loggers -> Seq(Formats)]
    /\ formatter \in [Loggers -> Loggers]
    /\ m_appandars \in [Loggers -> Seq(Appandars)]
    /\ \A f \in Loggers : m_items[f] = FlattenSeq(Read(told[f]))
    /\ printed \in [Appandars \cup Loggers -> Seq(ToldLines)]

\* One format more is read behind the others.
LEMMA ReadAppend ==
    ASSUME FormatsAreRead, NEW formats \in Seq(Formats), NEW format \in Formats
    PROVE  FlattenSeq(Read(Append(formats, format))) = FlattenSeq(Read(formats)) \o Understood(format)
<1>1. PICK more \in Seq(Formats), n \in Nat : more = Append(formats, format) /\ n = Len(formats)
  <2>1. Append(formats, format) \in Seq(Formats) /\ Len(formats) \in Nat
    OBVIOUS
  <2> QED
    BY <2>1
<1>2. /\ more \in Seq(Formats) /\ DOMAIN more = 1..n + 1 /\ DOMAIN formats = 1..n
      /\ more[n + 1] = format /\ \A k \in 1..n : more[k] = formats[k]
  BY <1>1
<1>3. PICK u \in Seq(Patterns) : u = Understood(format)
  BY DEF FormatsAreRead, Patterns
<1>4. Read(formats) \in Seq(Seq(Patterns)) /\ Len(Read(formats)) = n
  <2>1. \A k \in 1..n : Understood(formats[k]) \in Seq(Patterns)
    BY <1>2 DEF FormatsAreRead, Patterns
  <2>2. Read(formats) \in [1..n -> Seq(Patterns)]
    BY <1>2, <2>1 DEF Read
  <2> QED
    BY <2>2
<1>5. Read(more) = Append(Read(formats), u)
  <2>1. PICK read \in Seq(Seq(Patterns)) : read = Read(formats) /\ Len(read) = n
    BY <1>4
  <2>2. \A k \in 1..n : Read(more)[k] = read[k]
    BY <1>2, <2>1 DEF Read
  <2>3. Read(more)[n + 1] = u /\ DOMAIN Read(more) = 1..n + 1
    BY <1>2, <1>3 DEF Read
  <2>4. PICK new : new = Read(more)
    OBVIOUS
  <2>5. new = [k \in 1..n + 1 |-> new[k]]
    BY <1>2, <2>4 DEF Read
  <2>6. PICK appended : appended = Append(read, u)
    OBVIOUS
  <2>7. appended = [k \in 1..n + 1 |-> appended[k]] /\ appended[n + 1] = u
        /\ \A k \in 1..n : appended[k] = read[k]
    <3>1. appended \in Seq(Seq(Patterns)) /\ Len(appended) = n + 1
      BY <1>3, <2>1, <2>6
    <3>2. appended[n + 1] = u
      BY <2>1, <2>6
    <3>3. \A k \in 1..n : appended[k] = read[k]
      BY <2>1, <2>6
    <3>4. appended = [k \in 1..n + 1 |-> appended[k]]
      BY <3>1
    <3> QED
      BY <3>2, <3>3, <3>4
  <2>8. ASSUME NEW k \in 1..n + 1 PROVE new[k] = appended[k]
    <3>1. k \in 1..n \/ k = n + 1
      OBVIOUS
    <3> QED
      BY <2>2, <2>3, <2>4, <2>7, <3>1
  <2> QED
    BY <2>1, <2>4, <2>5, <2>6, <2>7, <2>8
<1> QED
  BY <1>1, <1>3, <1>4, <1>5, FlattenAppend

LEMMA ReadOne ==
    ASSUME FormatsAreRead, NEW format \in Formats
    PROVE  /\ FlattenSeq(Read(<<format>>)) = Understood(format)
           /\ Understood(format) \in Seq(Patterns) /\ FormatItems(Written(format)) = Understood(format)
<1>1. PICK u \in Seq(Patterns) : u = Understood(format) /\ FormatItems(Written(format)) = u
  BY DEF FormatsAreRead, Patterns
<1>2. Append(<<>>, format) = <<format>> /\ <<>> \in Seq(Formats) /\ Len(<<>>) = 0
  OBVIOUS
<1>3. Read(<<>>) = <<>>
  BY DEF Read
<1>4. FlattenSeq(<<>>) = <<>>
  BY <1>2, Zenon DEF FlattenSeq
<1>5. <<>> \o u = u
  OBVIOUS
<1> QED
  BY <1>1, <1>2, <1>3, <1>4, <1>5, ReadAppend

LEMMA ResetKeeps ==
    ASSUME FormatsAreRead, LogInv, NEW f \in Loggers, ResetFormat(f)
    PROVE  LogInv'
<1>1. PICK format \in Formats, u \in Seq(Patterns) :
        /\ m_format' = [m_format EXCEPT ![f] = Written(format)] /\ told' = [told EXCEPT ![f] = Append(@, format)]
        /\ m_items' = [m_items EXCEPT ![f] = @ \o FormatItems(m_format'[f])]
        /\ u = Understood(format) /\ FormatItems(Written(format)) = u
  BY ReadOne DEF ResetFormat
<1>2. m_format' \in [Loggers -> {Written(g) : g \in Formats}] /\ m_format'[f] = Written(format)
  BY <1>1 DEF LogInv
<1>3. PICK old \in Seq(Patterns), formats \in Seq(Formats) :
        old = m_items[f] /\ formats = told[f] /\ old = FlattenSeq(Read(formats))
  BY DEF LogInv
<1>4. PICK items \in Seq(Patterns), more \in Seq(Formats) :
        items = old \o u /\ more = Append(formats, format) /\ items = FlattenSeq(Read(more))
  <2>1. old \o u \in Seq(Patterns) /\ Append(formats, format) \in Seq(Formats)
    OBVIOUS
  <2> QED
    BY <1>1, <1>3, <2>1, ReadAppend
<1>5. m_items' = [m_items EXCEPT ![f] = items] /\ told' = [told EXCEPT ![f] = more]
  BY <1>1, <1>2, <1>3, <1>4 DEF LogInv
<1>6. m_items' \in [Loggers -> Seq(Patterns)] /\ told' \in [Loggers -> Seq(Formats)]
  BY <1>5 DEF LogInv
<1>7. \A g \in Loggers : m_items'[g] = FlattenSeq(Read(told'[g]))
  BY <1>4, <1>5 DEF LogInv
<1>8. UNCHANGED <<formatter, m_appandars, printed>>
  BY DEF ResetFormat
<1> QED
  BY <1>2, <1>6, <1>7, <1>8 DEF LogInv

LEMMA NewFormatterKeeps ==
    ASSUME FormatsAreRead, LogInv, NEW l \in Loggers, NewFormatter(l)
    PROVE  LogInv'
<1>1. PICK format \in Formats :
        /\ m_format' = [m_format EXCEPT ![l] = Written(format)]
        /\ m_items' = [m_items EXCEPT ![l] = FormatItems(Written(format))]
        /\ told' = [told EXCEPT ![l] = <<format>>]
  BY DEF NewFormatter
<1>2. /\ FormatItems(Written(format)) \in Seq(Patterns) /\ <<format>> \in Seq(Formats)
      /\ FormatItems(Written(format)) = FlattenSeq(Read(<<format>>))
  BY ReadOne
<1>3. m_format' \in [Loggers -> {Written(g) : g \in Formats}]
  BY <1>1 DEF LogInv
<1>4. m_items' \in [Loggers -> Seq(Patterns)] /\ told' \in [Loggers -> Seq(Formats)]
  BY <1>1, <1>2 DEF LogInv
<1>5. \A g \in Loggers : m_items'[g] = FlattenSeq(Read(told'[g]))
  BY <1>1, <1>2 DEF LogInv
<1>6. formatter' \in [Loggers -> Loggers] /\ UNCHANGED <<m_appandars, printed>>
  BY DEF NewFormatter, LogInv
<1> QED
  BY <1>3, <1>4, <1>5, <1>6 DEF LogInv

LEMMA SettersKeep ==
    ASSUME LogInv, NEW l \in Loggers,
           SetFormat(l) \/ SetFormatter(l) \/ AddAppandar(l)
    PROVE  LogInv'
<1>1. CASE SetFormat(l)
  BY <1>1 DEF LogInv, SetFormat
<1>2. CASE SetFormatter(l)
  BY <1>2 DEF LogInv, SetFormatter
<1>3. CASE AddAppandar(l)
  <2>1. PICK a \in Appandars : m_appandars' = [m_appandars EXCEPT ![l] = Append(@, a)]
    BY <1>3 DEF AddAppandar
  <2>2. Append(m_appandars[l], a) \in Seq(Appandars)
    BY DEF LogInv
  <2>3. m_appandars' \in [Loggers -> Seq(Appandars)]
    BY <2>1, <2>2 DEF LogInv
  <2> QED
    BY <1>3, <2>3 DEF LogInv, AddAppandar
<1> QED
  BY <1>1, <1>2, <1>3

\* The message never touches the column behind it.
LEMMA PaddedFits ==
    ASSUME NEW length \in Nat
    PROVE  Padded(length) \in Nat /\ Padded(length) % 56 = 0 /\ length < Padded(length)
<1>1. PICK q \in Nat : q = length \div 56 /\ length < 56 * (q + 1)
  OBVIOUS
<1>2. Padded(length) = 56 * (q + 1)
  BY <1>1 DEF Padded
<1>3. (56 * (q + 1)) % 56 = 0
  OBVIOUS
<1> QED
  BY <1>1, <1>2, <1>3

LEMMA LogKeeps ==
    ASSUME LogInv, NEW l \in Loggers, Log(l)
    PROVE  LogInv'
<1>1. PICK level \in LogLevels, length \in Lengths :
        LET line == Generate(formatter[l], Event(length))
            times(a) == IF a \in Loggers
                        THEN IF a = l /\ m_appandars[l] = <<>> THEN 1 ELSE 0
                        ELSE Takes(l, a, level)
        IN  printed' = [a \in DOMAIN printed |-> printed[a] \o [i \in 1..times(a) |-> line]]
  BY DEF Log
<1> DEFINE times(a) == IF a \in Loggers
                       THEN IF a = l /\ m_appandars[l] = <<>> THEN 1 ELSE 0
                       ELSE Takes(l, a, level)
<1>2. PICK line : line = Generate(formatter[l], Event(length))
  OBVIOUS
<1>3. line \in ToldLines
  <2>1. Event(length) \in Events
    BY PaddedFits, LoggingAssumption DEF Event, Events
  <2>2. Event(length).width % 56 = 0
        /\ Event(length).length < Event(length).width
    BY PaddedFits, LoggingAssumption DEF Event
  <2>3. /\ m_items[formatter[l]] \in Seq(Patterns) /\ told[formatter[l]] \in Seq(Formats)
        /\ m_items[formatter[l]] = FlattenSeq(Read(told[formatter[l]]))
    BY DEF LogInv
  <2> QED
    BY <1>2, <2>1, <2>2, <2>3 DEF Generate, Line, ToldLines
<1>4. \A a \in Appandars \cup Loggers : times(a) \in Nat
  <2> SUFFICES ASSUME NEW a PROVE Takes(l, a, level) \in Nat
    OBVIOUS
  <2>1. PICK list \in Seq(Appandars), n \in Nat : list = m_appandars[l] /\ n = Len(list) /\ DOMAIN list = 1..n
    BY DEF LogInv
  <2>2. PICK here : here = {i \in DOMAIN list : list[i] = a}
    OBVIOUS
  <2>3. here \subseteq 1..n /\ IsFiniteSet(1..n)
    BY <2>1, <2>2, FS_Interval
  <2>4. Cardinality(here) \in Nat
    BY <2>3, FS_Subset, FS_CardinalityType
  <2> QED
    BY <2>1, <2>2, <2>4 DEF Takes
<1>5. \A a \in Appandars \cup Loggers : printed'[a] = printed[a] \o [i \in 1..times(a) |-> line]
  BY <1>1, <1>2 DEF LogInv
<1>6. ASSUME NEW a \in Appandars \cup Loggers PROVE printed'[a] \in Seq(ToldLines)
  <2>1. PICK n \in Nat, lines \in Seq(ToldLines) : n = times(a) /\ lines = printed[a]
    BY <1>4 DEF LogInv
  <2>2. [i \in 1..n |-> line] \in Seq(ToldLines)
    BY <1>3
  <2>3. lines \o [i \in 1..n |-> line] \in Seq(ToldLines)
    BY <2>2
  <2> HIDE DEF times
  <2> QED
    BY <1>5, <2>1, <2>3
<1>7. printed' \in [Appandars \cup Loggers -> Seq(ToldLines)]
  <2>1. \E g : printed' = [a \in Appandars \cup Loggers |-> g[a]]
    <3>1. printed' = [a \in DOMAIN printed |-> printed[a] \o [i \in 1..times(a) |-> line]]
      BY <1>1, <1>2
    <3>2. DOMAIN printed = Appandars \cup Loggers
      BY DEF LogInv
    <3>3. PICK g : g = printed'
      OBVIOUS
    <3>4. g = [a \in Appandars \cup Loggers |-> g[a]]
      BY <3>1, <3>2, <3>3
    <3> QED
      BY <3>3, <3>4
  <2> QED
    BY <1>6, <2>1
<1>8. UNCHANGED <<m_items, m_format, formatter, m_appandars, m_level, told>>
  BY DEF Log
<1> QED
  BY <1>7, <1>8 DEF LogInv

\* For any loggers, appandars and formats, as long as each format by itself is
\* read as it was meant: every line is printed by the formats its formatter was
\* told, in that order.
THEOREM LinesSayWhatWasTold == FormatsAreRead => (LogSpec => []LinesAsTold)
<1> SUFFICES ASSUME FormatsAreRead PROVE LogSpec => []LinesAsTold
  OBVIOUS
<1>1. LogInit => LogInv
  <2> SUFFICES ASSUME LogInit PROVE LogInv
    OBVIOUS
  <2>1. PICK first \in Formats :
          /\ m_format = [l \in Loggers |-> Written(first)] /\ told = [l \in Loggers |-> <<first>>]
          /\ m_items = [l \in Loggers |-> FormatItems(Written(first))]
    BY LoggingAssumption DEF LogInit
  <2>2. /\ FormatItems(Written(first)) \in Seq(Patterns) /\ <<first>> \in Seq(Formats)
        /\ FormatItems(Written(first)) = FlattenSeq(Read(<<first>>))
    BY ReadOne
  <2>3. \A S : <<>> \in Seq(S)
    OBVIOUS
  <2>4. m_appandars \in [Loggers -> Seq(Appandars)] /\ printed \in [Appandars \cup Loggers -> Seq(ToldLines)]
        /\ formatter \in [Loggers -> Loggers]
    BY <2>3 DEF LogInit
  <2> QED
    BY <2>1, <2>2, <2>4 DEF LogInv
<1>2. LogInv /\ [LogNext]_logVars => LogInv'
  <2> SUFFICES ASSUME LogInv, [LogNext]_logVars PROVE LogInv'
    OBVIOUS
  <2>1. ASSUME NEW a \in Appandars, SetLevel(a) PROVE LogInv'
    BY <2>1 DEF SetLevel, LogInv
  <2>2. CASE UNCHANGED logVars
    BY <2>2 DEF logVars, LogInv
  <2> QED
    BY <2>1, <2>2, ResetKeeps, NewFormatterKeeps, SettersKeep, LogKeeps DEF LogNext
<1>3. LogInv => LinesAsTold
  <2> SUFFICES ASSUME LogInv, NEW a \in DOMAIN printed, NEW i \in DOMAIN printed[a]
               PROVE  printed[a][i] \in ToldLines
    BY DEF LinesAsTold, ToldLines, Read
  <2> QED
    BY DEF LogInv
<1> QED
  BY <1>1, <1>2, <1>3, PTL DEF LogSpec

----------------------------------------------------------------------------
(* The search for paths, PathPrinter. *)

\* The paths of n points from the beginning, as functions.
PathsTo(n) ==
    {p \in [1..n -> Points] :
        /\ p[1] = Begin
        /\ \A i \in 1..n - 1 : p[i + 1] \in Sides(p[i])
        /\ \A i, j \in 1..n : p[i] = p[j] => i = j}
OpenPaths == {p \in PathsTo(8) : Begin \notin Sides(p[8])}

\* The search has been where q parts from the path, at its point k.
Passed(q, k) ==
    /\ \A i \in 1..k : q[i] = vec[i]
    /\ q[k + 1] \in Sides(vec[k]) \ frames[k]
    /\ k < Len(vec) => q[k + 1] # vec[k + 1]
Tried(q) ==
    \/ ~entering /\ Len(frames) = 0
    \/ \E k \in 1..Len(frames) : k < 8 /\ Passed(q, k)

\* The path and the calls of pp go together, the marks are those of the path
\* without the beginning, and what was tried has been printed.
PathInv ==
    /\ vec \in Seq(Points) /\ Len(vec) > 0 /\ vec \in PathsTo(Len(vec))
    /\ hp = {vec[i] : i \in 2..Len(vec)}
    /\ frames \in Seq(SUBSET Points) /\ entering \in BOOLEAN
    /\ Len(vec) = IF entering THEN Len(frames) + 1 ELSE IF Len(frames) = 0 THEN 1 ELSE Len(frames)
    /\ \A k \in 1..Len(frames) : /\ frames[k] \subseteq Sides(vec[k])
                                 /\ k < Len(vec) => vec[k + 1] \notin frames[k]
    /\ Len(frames) = 8 => Begin \in Sides(vec[8])
    /\ prints = {q \in OpenPaths : Tried(q)}
    /\ IsFiniteSet(prints) /\ total_print = Cardinality(prints)

LEMMA SeqsAre ==
    ASSUME NEW S, NEW n \in Nat
    PROVE  /\ \A s \in Seq(S) : Len(s) = n => s \in [1..n -> S]
           /\ \A f \in [1..n -> S] : f \in Seq(S) /\ Len(f) = n
<1>1. ASSUME NEW s \in Seq(S), Len(s) = n PROVE s \in [1..n -> S]
  BY <1>1, LenProperties
<1> QED
  BY <1>1

LEMMA SidesArePoints ==
    /\ \A p \in Points : Sides(p) \subseteq Points
    /\ Begin \in Points /\ Sides(Begin) # {} /\ Begin \notin Sides(Begin)
<1>1. \A p \in Points : Sides(p) \subseteq Points
  <2> SUFFICES ASSUME NEW p \in Points PROVE Sides(p) \subseteq Points
    OBVIOUS
  <2>1. \/ p = 0 \/ p = 1 \/ p = 2 \/ p = 3 \/ p = 4 \/ p = 5 \/ p = 6 \/ p = 7
    BY DEF Points
  <2>2. p + 1 \in 1..8
    BY <2>1
  <2>3. \A i \in 1..8 : Grap[i] \subseteq 0..7
    BY DEF Grap
  <2> QED
    BY <2>2, <2>3 DEF Sides, Points
<1>2. Sides(Begin) = {1, 4, 7}
  BY DEF Sides, Grap, Begin
<1> QED
  BY <1>1, <1>2 DEF Points, Begin

\* A path has no more points than there are, and one with as many has all.
LEMMA PathFits ==
    ASSUME NEW n \in Nat, n > 0, NEW p \in PathsTo(n)
    PROVE  n <= 8 /\ (n = 8 => \A s \in Points : \E i \in 1..n : p[i] = s)
<1>1. p \in Injection(1..n, Points)
  BY DEF PathsTo, Injection, IsInjective
<1>2. IsFiniteSet(Points) /\ Cardinality(Points) = 8
  <2>1. IsFiniteSet(0..7) /\ Cardinality(0..7) = IF 0 > 7 THEN 0 ELSE 7 - 0 + 1
    BY FS_Interval, 0 \in Int, 7 \in Int, Zenon
  <2>2. ~(0 > 7) /\ 7 - 0 + 1 = 8
    OBVIOUS
  <2> QED
    BY <2>1, <2>2, Zenon DEF Points
<1>3. IsFiniteSet(1..n) /\ Cardinality(1..n) = n
  BY FS_Interval, 1 \in Int, n \in Int
<1>4. Cardinality(1..n) <= Cardinality(Points)
      /\ (Cardinality(1..n) = Cardinality(Points) <=> p \in Surjection(1..n, Points))
  BY <1>1, <1>2, FS_Injection
<1> QED
  BY <1>2, <1>3, <1>4 DEF Surjection

\* A path of n points is one of n - 1 points and a side from there.
LEMMA PathsGrow ==
    ASSUME NEW n \in Nat, n > 1
    PROVE  PathsTo(n) = UNION {{Append(p, q) : q \in Sides(p[n - 1]) \ {p[i] : i \in 1..n - 1}} :
                                 p \in PathsTo(n - 1)}
<1> DEFINE More(p) == {Append(p, q) : q \in Sides(p[n - 1]) \ {p[i] : i \in 1..n - 1}}
<1>1. ASSUME NEW p \in PathsTo(n - 1), NEW q \in Sides(p[n - 1]) \ {p[i] : i \in 1..n - 1}
      PROVE  Append(p, q) \in PathsTo(n)
  <2>1. /\ p \in [1..n - 1 -> Points] /\ p[1] = Begin
        /\ \A i \in 1..(n - 1) - 1 : p[i + 1] \in Sides(p[i])
        /\ \A i, j \in 1..n - 1 : p[i] = p[j] => i = j
    BY <1>1 DEF PathsTo
  <2>2. n - 1 \in Nat /\ n - 1 \in 1..n - 1 /\ 1 \in 1..n - 1 /\ (n - 1) + 1 = n
    OBVIOUS
  <2>3. p[n - 1] \in Points
    BY <2>1, <2>2
  <2>4. q \in Points
    BY <1>1, <2>3, SidesArePoints
  <2>5. p \in Seq(Points) /\ Len(p) = n - 1
    BY <2>1, <2>2
  <2> DEFINE r == Append(p, q)
  <2>6. /\ r \in Seq(Points) /\ Len(r) = n /\ r[n] = q
        /\ \A i \in 1..n - 1 : r[i] = p[i]
    <3>1. /\ r \in Seq(Points) /\ Len(r) = Len(p) + 1 /\ r[Len(p) + 1] = q
          /\ \A i \in 1..Len(p) : r[i] = p[i]
      BY <2>4, <2>5, AppendIs
    <3> QED
      BY <2>2, <2>5, <3>1
  <2> HIDE DEF r
  <2>7. r \in [1..n -> Points]
    BY <2>6, SeqsAre
  <2>8. r[1] = Begin
    BY <2>1, <2>2, <2>6
  <2>9. ASSUME NEW i \in 1..n - 1 PROVE r[i + 1] \in Sides(r[i])
    <3>1. CASE i = n - 1
      BY <1>1, <2>2, <2>6, <3>1
    <3>2. CASE i # n - 1
      <4>1. i \in 1..(n - 1) - 1 /\ i + 1 \in 1..n - 1
        BY <3>2
      <4> QED
        BY <2>1, <2>6, <4>1
    <3> QED
      BY <3>1, <3>2
  <2>10. ASSUME NEW i \in 1..n, NEW j \in 1..n, r[i] = r[j] PROVE i = j
    <3>1. \A k \in 1..n : k = n \/ k \in 1..n - 1
      OBVIOUS
    <3>2. \A k \in 1..n - 1 : p[k] # q
      BY <1>1
    <3> QED
      BY <2>1, <2>6, <2>10, <3>1, <3>2
  <2> QED
    BY <2>7, <2>8, <2>9, <2>10 DEF PathsTo, r
<1>2. ASSUME NEW r \in PathsTo(n) PROVE \E p \in PathsTo(n - 1) : r \in More(p)
  <2>1. /\ r \in [1..n -> Points] /\ r[1] = Begin
        /\ \A i \in 1..n - 1 : r[i + 1] \in Sides(r[i])
        /\ \A i, j \in 1..n : r[i] = r[j] => i = j
    BY <1>2 DEF PathsTo
  <2>2. n - 1 \in Nat /\ n - 1 \in 1..n - 1 /\ n \in 1..n /\ 1 \in 1..n - 1 /\ (n - 1) + 1 = n
        /\ \A i \in 1..n - 1 : i \in 1..n /\ i # n
    OBVIOUS
  <2> DEFINE p == [i \in 1..n - 1 |-> r[i]]
  <2>3. p \in [1..n - 1 -> Points] /\ \A i \in 1..n - 1 : p[i] = r[i]
    BY <2>1, <2>2
  <2>4. p \in Seq(Points) /\ Len(p) = n - 1
    BY <2>2, <2>3
  <2> HIDE DEF p
  <2>5. p \in PathsTo(n - 1)
    <3>1. p[1] = Begin
      BY <2>1, <2>2, <2>3
    <3>2. \A i \in 1..(n - 1) - 1 : i \in 1..n - 1 /\ i + 1 \in 1..n - 1
      OBVIOUS
    <3>3. \A i \in 1..(n - 1) - 1 : p[i + 1] \in Sides(p[i])
      BY <2>1, <2>3, <3>2
    <3>4. \A i, j \in 1..n - 1 : p[i] = p[j] => i = j
      BY <2>1, <2>2, <2>3
    <3> QED
      BY <2>3, <3>1, <3>3, <3>4 DEF PathsTo
  <2>6. r[n] \in Sides(p[n - 1])
    BY <2>1, <2>2, <2>3
  <2>7. \A i \in 1..n - 1 : p[i] # r[n]
    BY <2>1, <2>2, <2>3
  <2>8. r[n] \in Points
    BY <2>1, <2>2
  <2>9. Append(p, r[n]) = r
    <3> DEFINE a == Append(p, r[n])
    <3>1. /\ a \in Seq(Points) /\ Len(a) = n /\ a[n] = r[n]
          /\ \A i \in 1..n - 1 : a[i] = p[i]
      <4>1. /\ a \in Seq(Points) /\ Len(a) = Len(p) + 1 /\ a[Len(p) + 1] = r[n]
            /\ \A i \in 1..Len(p) : a[i] = p[i]
        BY <2>4, <2>8, AppendIs
      <4> QED
        BY <2>2, <2>4, <4>1
    <3>2. a \in [1..n -> Points]
      <4> HIDE DEF a
      <4> QED
        BY <3>1, SeqsAre
    <3>3. \A i \in 1..n : a[i] = r[i]
      <4>1. \A i \in 1..n : i = n \/ i \in 1..n - 1
        OBVIOUS
      <4> HIDE DEF a
      <4> QED
        BY <2>3, <3>1, <4>1
    <3> HIDE DEF a
    <3>4. a = r
      BY <2>1, <3>2, <3>3
    <3> QED
      BY <3>4 DEF a
  <2> QED
    BY <2>5, <2>6, <2>7, <2>9
<1> HIDE DEF More
<1>3. \A p \in PathsTo(n - 1) : More(p) \subseteq PathsTo(n)
  BY <1>1 DEF More
<1>4. PathsTo(n) = UNION {More(p) : p \in PathsTo(n - 1)}
  BY <1>2, <1>3
<1> QED
  BY <1>4 DEF More

\* What the property calls the paths are these functions.
LEMMA PathsOfIs == PathsOf[8] = PathsTo(8)
<1> DEFINE Longer(n, set) ==
             UNION {{Append(p, q) : q \in Sides(p[n - 1]) \ {p[i] : i \in 1..n - 1}} : p \in set}
           Grows(f) == f = [n \in 1..8 |-> IF n = 1 THEN {<<Begin>>} ELSE Longer(n, f[n - 1])]
           g == [n \in 1..8 |-> PathsTo(n)]
<1>1. PathsTo(1) = {<<Begin>>}
  <2>1. ASSUME NEW p \in PathsTo(1) PROVE p = <<Begin>>
    <3>1. p \in [1..1 -> Points] /\ p[1] = Begin
      BY <2>1 DEF PathsTo
    <3>2. p \in Seq(Points) /\ Len(p) = 1
      BY <3>1, SeqsAre, 1 \in Nat
    <3> QED
      BY <3>1, <3>2
  <2>2. <<Begin>> \in PathsTo(1)
    <3>1. <<Begin>> \in [1..1 -> Points] /\ <<Begin>>[1] = Begin
      BY SidesArePoints
    <3>2. \A i \in 1..1 - 1 : FALSE
      OBVIOUS
    <3>3. \A i, j \in 1..1 : i = j
      OBVIOUS
    <3> QED
      BY <3>1, <3>2, <3>3 DEF PathsTo
  <2> QED
    BY <2>1, <2>2
<1>2. \A n \in 1..8 : n # 1 => PathsTo(n) = Longer(n, PathsTo(n - 1)) /\ n - 1 \in 1..8
  <2> SUFFICES ASSUME NEW n \in 1..8, n # 1 PROVE PathsTo(n) = Longer(n, PathsTo(n - 1)) /\ n - 1 \in 1..8
    OBVIOUS
  <2>1. n \in Nat /\ n > 1 /\ n - 1 \in 1..8
    OBVIOUS
  <2> QED
    BY <2>1, PathsGrow
<1> HIDE DEF Longer
<1>3. Grows(g)
  BY <1>1, <1>2
<1>4. PathsOf = CHOOSE f : Grows(f)
  BY Zenon DEF PathsOf, Longer
<1>5. Grows(PathsOf)
  <2> HIDE DEF Grows
  <2> QED
    BY <1>3, <1>4
<1>6. PathsOf[1] = PathsTo(1) /\ \A n \in 1..8 : n # 1 => PathsOf[n] = Longer(n, PathsOf[n - 1])
  BY <1>1, <1>5
<1>7. \A n \in 1..8 : n # 1 /\ PathsOf[n - 1] = PathsTo(n - 1) => PathsOf[n] = PathsTo(n)
  BY <1>2, <1>6
<1> DEFINE Wrong == {n \in 1..8 : PathsOf[n] # PathsTo(n)}
<1>8. Wrong = {}
  <2> SUFFICES ASSUME Wrong # {} PROVE FALSE
    OBVIOUS
  <2>1. PICK n \in Wrong : \A k \in Wrong : n <= k
    <3>1. Wrong \subseteq Nat
      OBVIOUS
    <3> HIDE DEF Wrong
    <3> QED
      BY <3>1, Least
  <2>2. n \in 1..8 /\ n # 1 /\ n - 1 \in 1..8 /\ ~(n <= n - 1)
    BY <1>6, <2>1
  <2>3. PathsOf[n - 1] = PathsTo(n - 1)
    BY <2>1, <2>2
  <2> QED
    BY <1>7, <2>1, <2>2, <2>3
<1> QED
  BY <1>8

LEMMA BeginIsPath ==
    /\ <<Begin>> \in Seq(Points) /\ Len(<<Begin>>) = 1 /\ <<Begin>> \in PathsTo(1) /\ <<Begin>>[1] = Begin
<1>1. <<Begin>> \in [1..1 -> Points] /\ <<Begin>>[1] = Begin
  BY SidesArePoints
<1>2. \A i \in 1..1 - 1 : FALSE
  OBVIOUS
<1>3. \A i, j \in 1..1 : i = j
  OBVIOUS
<1>4. <<Begin>> \in PathsTo(1)
  BY <1>1, <1>2, <1>3 DEF PathsTo
<1> QED
  BY <1>1, <1>4, SidesArePoints

\* What is known of the path and of one that is complete.
LEMMA PathIs ==
    ASSUME NEW n \in Nat, NEW p \in PathsTo(n)
    PROVE  /\ p \in [1..n -> Points]
           /\ n > 0 => p[1] = Begin
           /\ \A i \in 1..n - 1 : i \in 1..n /\ i + 1 \in 1..n /\ p[i + 1] \in Sides(p[i])
           /\ \A i, j \in 1..n : p[i] = p[j] => i = j
BY DEF PathsTo

LEMMA OpenIs ==
    ASSUME NEW q \in OpenPaths
    PROVE  /\ q \in [1..8 -> Points] /\ q[1] = Begin /\ Begin \notin Sides(q[8])
           /\ \A i \in 1..7 : q[i + 1] \in Sides(q[i])
           /\ \A i, j \in 1..8 : q[i] = q[j] => i = j
BY DEF PathsTo, OpenPaths

LEMMA PathStarts == PathInit => PathInv
<1> SUFFICES ASSUME PathInit PROVE PathInv
  OBVIOUS
<1>1. /\ vec = <<Begin>> /\ hp = {} /\ frames = <<>> /\ entering = TRUE
      /\ prints = {} /\ total_print = 0
  BY DEF PathInit
<1>2. vec \in Seq(Points) /\ Len(vec) = 1 /\ vec \in PathsTo(Len(vec))
  BY <1>1, BeginIsPath
<1>3. frames \in Seq(SUBSET Points) /\ Len(frames) = 0
  BY <1>1
<1>4. hp = {vec[i] : i \in 2..Len(vec)}
  <2>1. 2..1 = {}
    OBVIOUS
  <2> QED
    BY <1>1, <1>2, <2>1
<1>5. \A k \in 1..0 : FALSE
  OBVIOUS
<1>6. \A q \in OpenPaths : ~Tried(q)
  BY <1>1, <1>3, <1>5 DEF Tried
<1>7. IsFiniteSet(prints) /\ total_print = Cardinality(prints)
  BY <1>1, FS_EmptySet
<1> QED
  BY <1>1, <1>2, <1>3, <1>4, <1>5, <1>6, <1>7 DEF PathInv

\* The last point is taken off the path.
LEMMA BackIs ==
    ASSUME vec \in Seq(Points), NEW n \in Nat, n = Len(vec), n > 1, vec \in PathsTo(n),
           hp = {vec[i] : i \in 2..n}, Back
    PROVE  /\ vec' \in Seq(Points) /\ Len(vec') = n - 1 /\ vec' \in PathsTo(n - 1)
           /\ \A i \in 1..n - 1 : vec'[i] = vec[i]
           /\ hp' = {vec'[i] : i \in 2..n - 1}
<1>1. vec' = SubSeq(vec, 1, n - 1) /\ hp' = hp \ {vec[n]}
  BY DEF Back
<1>2. /\ n - 1 \in Nat /\ n - 1 > 0 /\ n \in 1..n /\ 1 \in 1..n - 1
      /\ \A i \in 1..n - 1 : i \in 1..n /\ i # n
      /\ \A i \in 1..(n - 1) - 1 : i \in 1..n - 1 /\ i + 1 \in 1..n - 1
      /\ \A i \in 2..n : i \in 1..n /\ (i = n \/ i \in 2..n - 1)
      /\ \A i \in 2..n - 1 : i \in 2..n /\ i \in 1..n - 1
  OBVIOUS
<1>3. /\ vec' \in Seq(Points) /\ Len(vec') = n - 1
      /\ \A i \in 1..n - 1 : vec'[i] = vec[i]
  <2>1. 1 \in 1..Len(vec) + 1 /\ n - 1 \in 0..Len(vec) /\ 1 <= n - 1 /\ (n - 1) - 1 + 1 = n - 1
        /\ \A i \in 1..n - 1 : 1 + i - 1 = i /\ i \in 1..((n - 1) - 1 + 1)
    BY <1>2
  <2>2. vec' \in Seq(Points)
    BY <1>1, <1>2
  <2>3. Len(vec') = n - 1 /\ \A i \in 1..n - 1 : vec'[i] = vec[i]
    BY <1>1, <1>2, <2>1
  <2> QED
    BY <2>2, <2>3
<1>4. vec' \in [1..n - 1 -> Points]
  BY <1>2, <1>3, SeqsAre
<1>5. /\ vec[1] = Begin /\ \A i \in 1..n - 1 : vec[i + 1] \in Sides(vec[i])
      /\ \A i, j \in 1..n : vec[i] = vec[j] => i = j
  BY PathIs
<1>6. vec' \in PathsTo(n - 1)
  <2>1. vec'[1] = Begin
    BY <1>2, <1>3, <1>5
  <2>2. \A i \in 1..(n - 1) - 1 : vec'[i + 1] \in Sides(vec'[i])
    BY <1>2, <1>3, <1>5
  <2>3. \A i, j \in 1..n - 1 : vec'[i] = vec'[j] => i = j
    BY <1>2, <1>3, <1>5
  <2> QED
    BY <1>4, <2>1, <2>2, <2>3 DEF PathsTo
<1>7. hp' = {vec'[i] : i \in 2..n - 1}
  <2>1. ASSUME NEW s \in hp' PROVE s \in {vec'[i] : i \in 2..n - 1}
    <3>1. PICK i \in 2..n : s = vec[i]
      BY <1>1, <2>1
    <3>2. i # n
      BY <1>1, <2>1, <3>1
    <3>3. i \in 2..n - 1 /\ vec'[i] = s
      BY <1>2, <1>3, <3>1, <3>2
    <3> QED
      BY <3>3
  <2>2. ASSUME NEW i \in 2..n - 1 PROVE vec'[i] \in hp'
    <3>1. vec'[i] = vec[i] /\ vec[i] \in hp /\ vec[i] # vec[n]
      BY <1>2, <1>3, <1>5
    <3> QED
      BY <1>1, <3>1
  <2> QED
    BY <2>1, <2>2
<1> QED
  BY <1>3, <1>6, <1>7

LEMMA DescendKeeps ==
    ASSUME PathInv, Descend
    PROVE  PathInv'
<1>0. PICK n, d : n = Len(vec) /\ d = Len(frames)
  OBVIOUS
<1>1. /\ entering /\ entering' = FALSE /\ Sides(vec[n]) \ hp # {}
      /\ frames' = Append(frames, Sides(vec[n]))
      /\ vec' = vec /\ hp' = hp /\ prints' = prints /\ total_print' = total_print
  BY <1>0 DEF Descend
<1>2. /\ vec \in Seq(Points) /\ n > 0 /\ vec \in PathsTo(n) /\ hp = {vec[i] : i \in 2..n}
      /\ frames \in Seq(SUBSET Points) /\ n = d + 1
      /\ \A k \in 1..d : /\ frames[k] \subseteq Sides(vec[k])
                         /\ k < n => vec[k + 1] \notin frames[k]
      /\ prints = {q \in OpenPaths : Tried(q)}
      /\ IsFiniteSet(prints) /\ total_print = Cardinality(prints)
  BY <1>0, <1>1 DEF PathInv
<1>3. d \in Nat /\ n \in Nat /\ n \in 1..n /\ \A k \in 1..n : k = n \/ k \in 1..d
  BY <1>0, <1>2
<1>4. vec[n] \in Points /\ Sides(vec[n]) \in SUBSET Points
  <2>1. vec[n] \in Points
    BY <1>0, <1>2, <1>3, PathIs
  <2> QED
    BY <2>1, SidesArePoints
<1>5. /\ frames' \in Seq(SUBSET Points) /\ Len(frames') = n /\ frames'[n] = Sides(vec[n])
      /\ \A k \in 1..d : frames'[k] = frames[k]
  <2>1. /\ frames' \in Seq(SUBSET Points) /\ Len(frames') = d + 1 /\ frames'[d + 1] = Sides(vec[n])
        /\ \A k \in 1..d : frames'[k] = frames[k]
    BY <1>0, <1>1, <1>2, <1>4, AppendIs
  <2> QED
    BY <1>2, <2>1
<1>6. n = 8 => Begin \in Sides(vec[8])
  <2> SUFFICES ASSUME n = 8 PROVE Begin \in Sides(vec[8])
    OBVIOUS
  <2>1. PICK s : s \in Sides(vec[n]) /\ s \notin hp
    BY <1>1
  <2>2. s \in Points
    BY <1>4, <2>1
  <2>3. PICK i \in 1..n : vec[i] = s
    BY <1>2, <1>3, <2>2, PathFits
  <2>4. i = 1
    <3>1. i = 1 \/ i \in 2..n
      BY <1>3
    <3> QED
      BY <1>2, <2>1, <2>3, <3>1
  <2>5. s = Begin
    BY <1>2, <1>3, <2>3, <2>4, PathIs
  <2> QED
    BY <2>1, <2>5
<1>7. ASSUME NEW q \in OpenPaths PROVE Tried(q)' <=> Tried(q)
  <2>1. \A k \in 1..d : Passed(q, k)' <=> Passed(q, k)
    BY <1>1, <1>5 DEF Passed
  <2>2. ~Passed(q, n)'
    BY <1>1, <1>5 DEF Passed
  <2>3. Tried(q)' <=> \E k \in 1..n : k < 8 /\ Passed(q, k)'
    BY <1>2, <1>3, <1>5 DEF Tried
  <2>4. Tried(q) <=> \E k \in 1..d : k < 8 /\ Passed(q, k)
    BY <1>0, <1>1 DEF Tried
  <2>5. \A k \in 1..d : k \in 1..n
    BY <1>2, <1>3
  <2> QED
    BY <1>3, <2>1, <2>2, <2>3, <2>4, <2>5
<1>8. prints' = {q \in OpenPaths : Tried(q)'}
  BY <1>1, <1>2, <1>7
<1>9. Len(vec') = IF entering' THEN Len(frames') + 1 ELSE IF Len(frames') = 0 THEN 1 ELSE Len(frames')
  BY <1>0, <1>1, <1>2, <1>5
<1>10. \A k \in 1..Len(frames') : /\ frames'[k] \subseteq Sides(vec'[k])
                                  /\ k < Len(vec') => vec'[k + 1] \notin frames'[k]
  <2> SUFFICES ASSUME NEW k \in 1..n
               PROVE  frames'[k] \subseteq Sides(vec[k]) /\ (k < n => vec[k + 1] \notin frames'[k])
    BY <1>0, <1>1, <1>5
  <2>1. CASE k = n
    BY <1>3, <1>5, <2>1
  <2>2. CASE k # n
    BY <1>2, <1>3, <1>5, <2>2
  <2> QED
    BY <2>1, <2>2
<1>11. /\ vec' \in Seq(Points) /\ Len(vec') > 0 /\ vec' \in PathsTo(Len(vec'))
       /\ hp' = {vec'[i] : i \in 2..Len(vec')} /\ entering' \in BOOLEAN
       /\ IsFiniteSet(prints') /\ total_print' = Cardinality(prints')
  BY <1>0, <1>1, <1>2
<1>12. Len(frames') = 8 => Begin \in Sides(vec'[8])
  BY <1>1, <1>5, <1>6
<1> QED
  BY <1>5, <1>8, <1>9, <1>10, <1>11, <1>12 DEF PathInv

LEMMA PrintPathKeeps ==
    ASSUME PathInv, PrintPath
    PROVE  PathInv'
<1>0. PICK n, d, v : n = Len(vec) /\ d = Len(frames) /\ v = vec
  OBVIOUS
<1>1. /\ entering /\ entering' = FALSE /\ Sides(vec[n]) \ hp = {} /\ Back /\ frames' = frames
      /\ IF n = 8 THEN prints' = prints \cup {vec} /\ total_print' = total_print + 1
         ELSE prints' = prints /\ total_print' = total_print
  BY <1>0 DEF PrintPath
<1>2. /\ vec \in Seq(Points) /\ n > 0 /\ vec \in PathsTo(n) /\ hp = {vec[i] : i \in 2..n}
      /\ frames \in Seq(SUBSET Points) /\ n = d + 1
      /\ \A k \in 1..d : /\ frames[k] \subseteq Sides(vec[k])
                         /\ k < n => vec[k + 1] \notin frames[k]
      /\ prints = {q \in OpenPaths : Tried(q)}
      /\ IsFiniteSet(prints) /\ total_print = Cardinality(prints)
  BY <1>0, <1>1 DEF PathInv
<1>3. d \in Nat /\ n \in Nat /\ n \in 1..n /\ n <= 8 /\ d < 8
  <2>1. d \in Nat /\ n \in Nat /\ n \in 1..n
    BY <1>0, <1>2
  <2>2. n <= 8
    BY <1>2, <2>1, PathFits
  <2> QED
    BY <1>2, <2>1, <2>2
<1>4. /\ vec \in [1..n -> Points] /\ vec[1] = Begin
      /\ \A i \in 1..n - 1 : vec[i + 1] \in Sides(vec[i])
      /\ \A i, j \in 1..n : vec[i] = vec[j] => i = j
  BY <1>2, <1>3, PathIs
<1>5. \A i \in 2..n : i \in 1..n /\ i # 1
  OBVIOUS
<1>6. Begin \notin hp /\ Begin \notin Sides(vec[n])
  <2>1. 1 \in 1..n
    BY <1>2, <1>3
  <2>2. Begin \notin hp
    BY <1>2, <1>4, <1>5, <2>1
  <2> QED
    BY <1>1, <2>2
<1>7. n > 1 /\ d > 0 /\ d \in 1..d /\ n - 1 = d /\ n # d /\ 1..n - 1 = 1..d
  <2>1. n # 1
    <3> SUFFICES ASSUME n = 1 PROVE FALSE
      OBVIOUS
    <3>1. 2..1 = {}
      OBVIOUS
    <3>2. hp = {} /\ vec[n] = Begin
      BY <1>2, <1>4, <3>1
    <3> QED
      BY <1>1, <3>2, SidesArePoints
  <2> QED
    BY <1>2, <1>3, <2>1
<1>8. /\ vec' \in Seq(Points) /\ Len(vec') = d /\ vec' \in PathsTo(d)
      /\ \A i \in 1..d : vec'[i] = vec[i]
      /\ hp' = {vec'[i] : i \in 2..d}
  <2>1. /\ vec' \in Seq(Points) /\ Len(vec') = n - 1 /\ vec' \in PathsTo(n - 1)
        /\ \A i \in 1..n - 1 : vec'[i] = vec[i]
        /\ hp' = {vec'[i] : i \in 2..n - 1}
    BY <1>0, <1>1, <1>2, <1>3, <1>7, BackIs
  <2> QED
    BY <1>7, <2>1
<1>9. \A k \in 1..d : k < n /\ (k = d \/ (k < d /\ k + 1 \in 1..d))
  BY <1>2, <1>3
<1>10. ASSUME NEW q, NEW k \in 1..d
       PROVE  /\ Passed(q, k) => Passed(q, k)'
              /\ k # d /\ Passed(q, k)' => Passed(q, k)
  <2>1. /\ Passed(q, k) <=> /\ \A i \in 1..k : q[i] = vec[i]
                            /\ q[k + 1] \in Sides(vec[k]) \ frames[k]
                            /\ q[k + 1] # vec[k + 1]
        /\ Passed(q, k)' <=> /\ \A i \in 1..k : q[i] = vec'[i]
                             /\ q[k + 1] \in Sides(vec'[k]) \ frames[k]
                             /\ k < d => q[k + 1] # vec'[k + 1]
    BY <1>0, <1>1, <1>8, <1>9 DEF Passed
  <2>2. \A i \in 1..k : i \in 1..d
    BY <1>3
  <2> QED
    BY <1>8, <1>9, <2>1, <2>2
<1>11. ASSUME NEW q \in OpenPaths
       PROVE  /\ Tried(q)' <=> \E k \in 1..d : Passed(q, k)'
              /\ Tried(q) <=> \E k \in 1..d : Passed(q, k)
  <2>1. \A k \in 1..d : k < 8
    BY <1>3
  <2>2. Tried(q)' <=> \E k \in 1..d : k < 8 /\ Passed(q, k)'
    BY <1>0, <1>1, <1>7 DEF Tried
  <2>3. Tried(q) <=> \E k \in 1..d : k < 8 /\ Passed(q, k)
    BY <1>0, <1>1 DEF Tried
  <2> QED
    BY <2>1, <2>2, <2>3
<1>12. ASSUME NEW q \in OpenPaths, Tried(q)', ~Tried(q)
       PROVE  n = 8 /\ q = v
  <2>1. Passed(q, d)' /\ ~Passed(q, d)
    BY <1>10, <1>11, <1>12
  <2>2. /\ \A i \in 1..d : q[i] = vec[i]
        /\ q[d + 1] = vec[d + 1]
    <3>1. /\ \A i \in 1..d : q[i] = vec'[i]
          /\ q[d + 1] \in Sides(vec'[d]) \ frames[d]
      BY <1>1, <2>1 DEF Passed
    <3>2. /\ \A i \in 1..d : q[i] = vec[i]
          /\ q[d + 1] \in Sides(vec[d]) \ frames[d]
      BY <1>7, <1>8, <3>1
    <3> QED
      BY <2>1, <3>2 DEF Passed
  <2>3. \A i \in 1..n : i = n \/ i \in 1..d
    BY <1>2, <1>3
  <2>4. \A i \in 1..n : q[i] = vec[i]
    BY <1>2, <2>2, <2>3
  <2>5. n = 8
    <3> SUFFICES ASSUME n # 8 PROVE FALSE
      OBVIOUS
    <3>1. n \in 1..7 /\ n + 1 \in 1..8 /\ n + 1 # n /\ \A i \in 1..n : i \in 1..8 /\ i # n + 1
      BY <1>2, <1>3
    <3>2. q[n + 1] \in Sides(vec[n])
      BY <1>3, <2>4, <3>1, OpenIs
    <3>3. PICK i \in 2..n : q[n + 1] = vec[i]
      BY <1>1, <1>2, <3>2
    <3>4. q[i] = q[n + 1] /\ i \in 1..n
      BY <1>5, <2>4, <3>3
    <3> QED
      BY <3>1, <3>4, OpenIs
  <2>6. q = v
    BY <1>0, <1>4, <2>4, <2>5, OpenIs, SMTT(30)
  <2> QED
    BY <2>5, <2>6
<1>13. n = 8 => v \in OpenPaths /\ ~Tried(v) /\ Tried(v)'
  <2> SUFFICES ASSUME n = 8 PROVE v \in OpenPaths /\ ~Tried(v) /\ Tried(v)'
    OBVIOUS
  <2>1. v \in OpenPaths
    BY <1>0, <1>2, <1>6 DEF OpenPaths
  <2>2. ~Tried(v)
    <3>1. \A k \in 1..d : ~Passed(v, k)
      BY <1>0, <1>9 DEF Passed
    <3> QED
      BY <1>11, <2>1, <3>1
  <2>3. Tried(v)'
    <3>1. v[d + 1] \in Sides(vec[d]) \ frames[d]
      BY <1>0, <1>2, <1>4, <1>7, <1>9
    <3>2. \A i \in 1..d : v[i] = vec'[i]
      BY <1>0, <1>8
    <3>3. v[d + 1] \in Sides(vec'[d]) \ frames'[d] /\ ~(d < Len(vec'))
      BY <1>1, <1>7, <1>8, <1>9, <3>1
    <3>4. Passed(v, d)'
      BY <3>2, <3>3 DEF Passed
    <3> QED
      BY <1>7, <1>11, <2>1, <3>4
  <2> QED
    BY <2>1, <2>2, <2>3
<1>14. \A q \in OpenPaths : Tried(q) => Tried(q)'
  BY <1>10, <1>11
<1>15. /\ prints' = {q \in OpenPaths : Tried(q)'}
       /\ IsFiniteSet(prints') /\ total_print' = Cardinality(prints')
  <2>1. CASE n = 8
    <3>1. prints' = prints \cup {v} /\ total_print' = total_print + 1 /\ v \notin prints
      BY <1>0, <1>1, <1>2, <1>13, <2>1
    <3>2. prints' = {q \in OpenPaths : Tried(q)'}
      BY <1>2, <1>12, <1>13, <1>14, <2>1, <3>1
    <3>3. IsFiniteSet(prints') /\ Cardinality(prints') = Cardinality(prints) + 1
      BY <1>2, <3>1, FS_AddElement
    <3> QED
      BY <1>2, <3>1, <3>2, <3>3
  <2>2. CASE n # 8
    BY <1>1, <1>2, <1>12, <1>14, <2>2
  <2> QED
    BY <2>1, <2>2
<1>16. /\ frames' \in Seq(SUBSET Points) /\ entering' \in BOOLEAN /\ Len(vec') > 0
       /\ Len(vec') = IF entering' THEN Len(frames') + 1 ELSE IF Len(frames') = 0 THEN 1 ELSE Len(frames')
       /\ ~(Len(frames') = 8)
  <2>1. Len(frames') = d /\ Len(vec') = d /\ entering' = FALSE /\ d # 0 /\ d # 8 /\ d > 0
    BY <1>0, <1>1, <1>3, <1>7, <1>8
  <2> QED
    BY <1>1, <1>2, <2>1
<1>17. \A k \in 1..Len(frames') : /\ frames'[k] \subseteq Sides(vec'[k])
                                  /\ k < Len(vec') => vec'[k + 1] \notin frames'[k]
  <2> SUFFICES ASSUME NEW k \in 1..d
               PROVE  frames[k] \subseteq Sides(vec'[k]) /\ (k < d => vec'[k + 1] \notin frames[k])
    BY <1>0, <1>1, <1>8
  <2>1. vec'[k] = vec[k] /\ (k < d => vec'[k + 1] = vec[k + 1])
    BY <1>8, <1>9
  <2> QED
    BY <1>2, <1>9, <2>1
<1> QED
  BY <1>8, <1>15, <1>16, <1>17 DEF PathInv

LEMMA NextSideKeeps ==
    ASSUME PathInv, NextSide
    PROVE  PathInv'
<1>0. PICK n, d : n = Len(vec) /\ d = Len(frames)
  OBVIOUS
<1>1. /\ ~entering /\ d > 0 /\ prints' = prints /\ total_print' = total_print
      /\ \E s \in frames[d] :
            /\ frames' = [frames EXCEPT ![d] = @ \ {s}]
            /\ IF InVec(s)
               THEN vec' = vec /\ hp' = hp /\ entering' = entering
               ELSE vec' = Append(vec, s) /\ hp' = hp \cup {s} /\ entering' = TRUE
  BY <1>0 DEF NextSide
<1>2. PICK s \in frames[d] :
            /\ frames' = [frames EXCEPT ![d] = @ \ {s}]
            /\ IF InVec(s)
               THEN vec' = vec /\ hp' = hp /\ entering' = entering
               ELSE vec' = Append(vec, s) /\ hp' = hp \cup {s} /\ entering' = TRUE
  BY <1>1
<1>3. /\ vec \in Seq(Points) /\ n > 0 /\ vec \in PathsTo(n) /\ hp = {vec[i] : i \in 2..n}
      /\ frames \in Seq(SUBSET Points) /\ n = d /\ entering = FALSE
      /\ \A k \in 1..d : /\ frames[k] \subseteq Sides(vec[k])
                         /\ k < n => vec[k + 1] \notin frames[k]
      /\ d = 8 => Begin \in Sides(vec[8])
      /\ prints = {q \in OpenPaths : Tried(q)}
      /\ IsFiniteSet(prints) /\ total_print = Cardinality(prints)
  <2>1. entering = FALSE
    BY <1>1 DEF PathInv
  <2>2. n = d
    BY <1>0, <1>1, <2>1 DEF PathInv
  <2> QED
    BY <1>0, <2>1, <2>2 DEF PathInv
<1>4. /\ d \in Nat /\ d \in 1..d /\ d # 0
      /\ \A k \in 1..d : k = d \/ (k < d /\ k # d /\ k + 1 \in 1..d)
  BY <1>0, <1>1, <1>3
<1>5. /\ vec \in [1..d -> Points] /\ vec[1] = Begin
      /\ \A i \in 1..d - 1 : vec[i + 1] \in Sides(vec[i])
      /\ \A i, j \in 1..d : vec[i] = vec[j] => i = j
  BY <1>3, <1>4, PathIs
<1>6. s \in Sides(vec[d]) /\ s \in Points
  <2>1. vec[d] \in Points
    BY <1>4, <1>5
  <2> QED
    BY <1>3, <1>4, <2>1, SidesArePoints
<1>7. /\ frames' \in Seq(SUBSET Points) /\ Len(frames') = d /\ frames'[d] = frames[d] \ {s}
      /\ \A k \in 1..d : k # d => frames'[k] = frames[k]
  <2>1. DOMAIN frames = 1..d /\ frames \in [1..d -> SUBSET Points]
    BY <1>0, <1>3, <1>4, SeqsAre
  <2>2. frames' \in [1..d -> SUBSET Points]
    BY <1>2, <1>4, <2>1
  <2>3. frames' \in Seq(SUBSET Points) /\ Len(frames') = d
    BY <1>4, <2>2, SeqsAre
  <2> QED
    BY <1>2, <1>4, <2>1, <2>3
<1>8. InVec(s) <=> \E i \in 1..d : vec[i] = s
  BY <1>5 DEF InVec
<1>9. ASSUME NEW q \in OpenPaths
      PROVE  /\ Tried(q)' <=> \E k \in 1..d : k < 8 /\ Passed(q, k)'
             /\ Tried(q) <=> \E k \in 1..d : k < 8 /\ Passed(q, k)
  BY <1>0, <1>4, <1>7 DEF Tried
<1>10. CASE InVec(s)
  <2>1. vec' = vec /\ hp' = hp /\ entering' = entering
    BY <1>2, <1>10
  <2>2. ASSUME NEW q \in OpenPaths, NEW k \in 1..d, k < 8 PROVE Passed(q, k)' <=> Passed(q, k)
    <3>1. CASE k # d
      BY <1>7, <2>1, <3>1 DEF Passed
    <3>2. CASE k = d
      <4>1. ASSUME \A i \in 1..d : q[i] = vec[i] PROVE q[d + 1] # s
        <5>1. PICK i \in 1..d : vec[i] = s
          BY <1>8, <1>10
        <5>2. i \in 1..8 /\ d + 1 \in 1..8 /\ i # d + 1
          BY <1>4, <2>2, <3>2
        <5> QED
          BY <4>1, <5>1, <5>2, OpenIs
      <4> QED
        BY <1>7, <2>1, <3>2, <4>1 DEF Passed
    <3> QED
      BY <3>1, <3>2
  <2>3. \A q \in OpenPaths : Tried(q)' <=> Tried(q)
    BY <1>9, <2>2
  <2>4. prints' = {q \in OpenPaths : Tried(q)'}
    BY <1>1, <1>3, <2>3
  <2>5. /\ vec' \in Seq(Points) /\ Len(vec') > 0 /\ vec' \in PathsTo(Len(vec'))
        /\ hp' = {vec'[i] : i \in 2..Len(vec')} /\ entering' \in BOOLEAN
        /\ IsFiniteSet(prints') /\ total_print' = Cardinality(prints')
    <3>1. Len(vec') = n
      BY <1>0, <2>1
    <3> QED
      BY <1>1, <1>3, <2>1, <3>1
  <2>6. Len(vec') = IF entering' THEN Len(frames') + 1 ELSE IF Len(frames') = 0 THEN 1 ELSE Len(frames')
    BY <1>0, <1>3, <1>4, <1>7, <2>1
  <2>7. \A k \in 1..Len(frames') : /\ frames'[k] \subseteq Sides(vec'[k])
                                   /\ k < Len(vec') => vec'[k + 1] \notin frames'[k]
    BY <1>0, <1>3, <1>4, <1>7, <2>1
  <2>8. Len(frames') = 8 => Begin \in Sides(vec'[8])
    BY <1>3, <1>7, <2>1
  <2> QED
    BY <1>7, <2>4, <2>5, <2>6, <2>7, <2>8 DEF PathInv
<1>11. CASE ~InVec(s)
  <2>1. vec' = Append(vec, s) /\ hp' = hp \cup {s} /\ entering' = TRUE
    BY <1>2, <1>11
  <2>2. \A i \in 1..d : vec[i] # s
    BY <1>8, <1>11
  <2>3. d # 8 /\ d < 8
    BY <1>3, <1>4, <1>6, <2>2, PathFits
  <2>4. /\ vec' \in Seq(Points) /\ Len(vec') = d + 1 /\ vec'[d + 1] = s
        /\ \A i \in 1..d : vec'[i] = vec[i]
    <3>1. /\ vec' \in Seq(Points) /\ Len(vec') = Len(vec) + 1 /\ vec'[Len(vec) + 1] = s
          /\ \A i \in 1..Len(vec) : vec'[i] = vec[i]
      BY <1>3, <1>6, <2>1, AppendIs
    <3> QED
      BY <1>0, <1>3, <3>1
  <2>5. vec' \in PathsTo(d + 1)
    <3>1. vec' \in [1..d + 1 -> Points]
      BY <1>4, <2>4, SeqsAre
    <3>2. \A i \in 1..d + 1 : i = d + 1 \/ i \in 1..d
      BY <1>4
    <3>3. ASSUME NEW i \in 1..(d + 1) - 1 PROVE vec'[i + 1] \in Sides(vec'[i])
      <4>1. i \in 1..d /\ (i = d \/ (i \in 1..d - 1 /\ i + 1 \in 1..d))
        BY <1>4
      <4> QED
        BY <1>5, <1>6, <2>4, <4>1
    <3>4. \A i, j \in 1..d + 1 : vec'[i] = vec'[j] => i = j
      BY <1>5, <2>2, <2>4, <3>2
    <3>5. 1 \in 1..d
      BY <1>4
    <3> QED
      BY <1>5, <2>4, <3>1, <3>3, <3>4, <3>5 DEF PathsTo
  <2>6. hp' = {vec'[i] : i \in 2..d + 1}
    <3>1. /\ d + 1 \in 2..d + 1 /\ \A i \in 2..d : i \in 1..d /\ i \in 2..d + 1
          /\ \A i \in 2..d + 1 : i = d + 1 \/ (i \in 2..d /\ i \in 1..d)
      BY <1>4
    <3>2. \A x \in hp' : x \in {vec'[i] : i \in 2..d + 1}
      BY <1>3, <2>1, <2>4, <3>1
    <3>3. \A i \in 2..d + 1 : vec'[i] \in hp'
      BY <1>3, <2>1, <2>4, <3>1
    <3> QED
      BY <3>2, <3>3
  <2>7. ASSUME NEW q, NEW k \in 1..d PROVE Passed(q, k)' <=> Passed(q, k)
    <3>1. /\ Passed(q, k) <=> /\ \A i \in 1..k : q[i] = vec[i]
                              /\ q[k + 1] \in Sides(vec[k]) \ frames[k]
                              /\ k < d => q[k + 1] # vec[k + 1]
          /\ Passed(q, k)' <=> /\ \A i \in 1..k : q[i] = vec'[i]
                               /\ q[k + 1] \in Sides(vec'[k]) \ frames'[k]
                               /\ q[k + 1] # vec'[k + 1]
      <4>1. k < d + 1
        BY <1>4
      <4> QED
        BY <1>0, <1>3, <2>4, <4>1 DEF Passed
    <3>2. \A i \in 1..k : i \in 1..d
      BY <1>4
    <3>3. CASE k # d
      BY <1>4, <1>7, <2>4, <3>1, <3>2, <3>3
    <3>4. CASE k = d
      BY <1>4, <1>7, <2>4, <3>1, <3>2, <3>4
    <3> QED
      BY <3>3, <3>4
  <2>8. prints' = {q \in OpenPaths : Tried(q)'}
    BY <1>1, <1>3, <1>9, <2>7
  <2>9. \A k \in 1..Len(frames') : /\ frames'[k] \subseteq Sides(vec'[k])
                                   /\ k < Len(vec') => vec'[k + 1] \notin frames'[k]
    <3> SUFFICES ASSUME NEW k \in 1..d
                 PROVE  frames'[k] \subseteq Sides(vec'[k]) /\ vec'[k + 1] \notin frames'[k]
      BY <1>7
    <3>1. CASE k # d
      BY <1>3, <1>4, <1>7, <2>4, <3>1
    <3>2. CASE k = d
      BY <1>3, <1>4, <1>7, <2>4, <3>2
    <3> QED
      BY <3>1, <3>2
  <2>10. /\ Len(vec') > 0 /\ entering' \in BOOLEAN /\ ~(Len(frames') = 8)
         /\ Len(vec') = IF entering' THEN Len(frames') + 1 ELSE IF Len(frames') = 0 THEN 1 ELSE Len(frames')
    BY <1>4, <1>7, <2>1, <2>3, <2>4
  <2>11. vec' \in PathsTo(Len(vec')) /\ hp' = {vec'[i] : i \in 2..Len(vec')}
         /\ IsFiniteSet(prints') /\ total_print' = Cardinality(prints')
    BY <1>1, <1>3, <2>4, <2>5, <2>6
  <2> QED
    BY <1>7, <2>4, <2>8, <2>9, <2>10, <2>11 DEF PathInv
<1> QED
  BY <1>10, <1>11

LEMMA ReturnKeeps ==
    ASSUME PathInv, Return
    PROVE  PathInv'
<1>0. PICK n, d : n = Len(vec) /\ d = Len(frames)
  OBVIOUS
<1>1. /\ ~entering /\ d > 0 /\ frames[d] = {} /\ frames' = SubSeq(frames, 1, d - 1)
      /\ entering' = entering /\ prints' = prints /\ total_print' = total_print
      /\ IF d > 1 THEN Back ELSE vec' = vec /\ hp' = hp
  BY <1>0 DEF Return
<1>2. /\ vec \in Seq(Points) /\ n > 0 /\ vec \in PathsTo(n) /\ hp = {vec[i] : i \in 2..n}
      /\ frames \in Seq(SUBSET Points) /\ n = d /\ entering = FALSE
      /\ \A k \in 1..d : /\ frames[k] \subseteq Sides(vec[k])
                         /\ k < n => vec[k + 1] \notin frames[k]
      /\ d = 8 => Begin \in Sides(vec[8])
      /\ prints = {q \in OpenPaths : Tried(q)}
      /\ IsFiniteSet(prints) /\ total_print = Cardinality(prints)
  <2>1. entering = FALSE
    BY <1>1 DEF PathInv
  <2>2. n = d
    BY <1>0, <1>1, <2>1 DEF PathInv
  <2> QED
    BY <1>0, <2>1, <2>2 DEF PathInv
<1>3. /\ d \in Nat /\ d - 1 \in Nat /\ d \in 1..d /\ d # 0 /\ ~(d < d) /\ (d - 1) + 1 = d
      /\ \A k \in 1..d - 1 : k \in 1..d /\ k # d /\ k < d /\ k + 1 \in 1..d
      /\ \A k \in 1..d : k = d \/ k \in 1..d - 1
  BY <1>0, <1>1, <1>2
<1>4. /\ vec \in [1..d -> Points] /\ vec[1] = Begin
      /\ \A i \in 1..d - 1 : vec[i + 1] \in Sides(vec[i])
      /\ \A i, j \in 1..d : vec[i] = vec[j] => i = j
  BY <1>2, <1>3, PathIs
<1>5. d <= 8
  BY <1>2, <1>3, PathFits
<1>6. /\ frames' \in Seq(SUBSET Points) /\ Len(frames') = d - 1
      /\ \A k \in 1..d - 1 : frames'[k] = frames[k]
  <2>1. frames' \in Seq(SUBSET Points)
    <3>1. CASE d - 1 = 0
      <4>1. frames' = << >>
        BY <1>1, <1>2, <3>1
      <4> QED
        BY <4>1
    <3>2. CASE d - 1 # 0
      <4>1. 1 \in 1..Len(frames) /\ d - 1 \in 1..Len(frames)
        BY <1>0, <1>3, <3>2
      <4> QED
        BY <1>1, <1>2, <4>1, SubSeqProperties
    <3> QED
      BY <3>1, <3>2
  <2>2. Len(frames') = d - 1 /\ \A k \in 1..d - 1 : frames'[k] = frames[k]
    BY <1>0, <1>1, <1>2, <1>3
  <2> QED
    BY <2>1, <2>2
\* Who has the whole path in front has been tried: its last point has no sides left.
<1>7. ASSUME NEW q \in OpenPaths, \A i \in 1..d : q[i] = vec[i] PROVE d < 8 /\ Passed(q, d)
  <2>1. d # 8
    <3> SUFFICES ASSUME d = 8 PROVE FALSE
      OBVIOUS
    <3> QED
      BY <1>2, <1>3, <1>7, OpenIs
  <2>2. d < 8 /\ d \in 1..7
    BY <1>3, <1>5, <2>1
  <2>3. q[d + 1] \in Sides(vec[d])
    BY <1>3, <1>7, <2>2, OpenIs
  <2>4. Passed(q, d)
    BY <1>0, <1>1, <1>2, <1>3, <1>7, <2>3 DEF Passed
  <2> QED
    BY <2>2, <2>4
<1>8. CASE d = 1
  <2>1. vec' = vec /\ hp' = hp /\ Len(frames') = 0 /\ entering' = FALSE
    BY <1>1, <1>2, <1>6, <1>8
  <2>2. \A q \in OpenPaths : Tried(q)'
    BY <2>1 DEF Tried
  <2>3. ASSUME NEW q \in OpenPaths PROVE Tried(q)
    <3>1. \A i \in 1..d : q[i] = vec[i]
      <4>1. \A i \in 1..1 : i = 1
        OBVIOUS
      <4> QED
        BY <1>4, <1>8, <4>1, OpenIs
    <3>2. d < 8 /\ Passed(q, d)
      BY <1>7, <3>1
    <3> QED
      BY <1>0, <1>3, <3>2 DEF Tried
  <2>4. prints' = {q \in OpenPaths : Tried(q)'}
    BY <1>1, <1>2, <2>2, <2>3
  <2>5. Len(vec') = 1
    BY <1>0, <1>2, <1>8, <2>1
  <2>6. /\ vec' \in Seq(Points) /\ Len(vec') > 0 /\ vec' \in PathsTo(Len(vec'))
        /\ hp' = {vec'[i] : i \in 2..Len(vec')} /\ entering' \in BOOLEAN
        /\ IsFiniteSet(prints') /\ total_print' = Cardinality(prints')
    BY <1>1, <1>2, <1>8, <2>1, <2>5
  <2>7. Len(vec') = IF entering' THEN Len(frames') + 1 ELSE IF Len(frames') = 0 THEN 1 ELSE Len(frames')
    BY <2>1, <2>5
  <2>8. \A k \in 1..Len(frames') : FALSE
    BY <2>1
  <2>9. ~(Len(frames') = 8)
    BY <2>1
  <2> QED
    BY <1>6, <2>4, <2>6, <2>7, <2>8, <2>9 DEF PathInv
<1>9. CASE d # 1
  <2>1. d > 1 /\ d - 1 \in 1..d - 1 /\ d - 1 > 0 /\ d - 1 < 8 /\ d - 1 # 0
    BY <1>3, <1>5, <1>9
  <2>2. /\ vec' \in Seq(Points) /\ Len(vec') = d - 1 /\ vec' \in PathsTo(d - 1)
        /\ \A i \in 1..d - 1 : vec'[i] = vec[i]
        /\ hp' = {vec'[i] : i \in 2..d - 1}
    BY <1>0, <1>1, <1>2, <1>3, <2>1, BackIs
  <2>3. ASSUME NEW q, NEW k \in 1..d - 1
        PROVE  /\ Passed(q, k) <=> /\ \A i \in 1..k : q[i] = vec[i]
                                   /\ q[k + 1] \in Sides(vec[k]) \ frames[k]
                                   /\ q[k + 1] # vec[k + 1]
               /\ Passed(q, k)' <=> /\ \A i \in 1..k : q[i] = vec[i]
                                    /\ q[k + 1] \in Sides(vec[k]) \ frames[k]
                                    /\ k # d - 1 => q[k + 1] # vec[k + 1]
    <3>1. Passed(q, k) <=> /\ \A i \in 1..k : q[i] = vec[i]
                           /\ q[k + 1] \in Sides(vec[k]) \ frames[k]
                           /\ q[k + 1] # vec[k + 1]
      BY <1>0, <1>2, <1>3 DEF Passed
    <3>2. /\ \A i \in 1..k : i \in 1..d - 1
          /\ k # d - 1 => k < d - 1 /\ k + 1 \in 1..d - 1
          /\ k = d - 1 => ~(k < d - 1)
      BY <1>3
    <3>3. vec'[k] = vec[k] /\ frames'[k] = frames[k] /\ \A i \in 1..k : vec'[i] = vec[i]
      BY <1>6, <2>2, <3>2
    <3>4. k # d - 1 => vec'[k + 1] = vec[k + 1]
      BY <2>2, <3>2
    <3>5. Passed(q, k)' <=> /\ \A i \in 1..k : q[i] = vec[i]
                            /\ q[k + 1] \in Sides(vec[k]) \ frames[k]
                            /\ k # d - 1 => q[k + 1] # vec[k + 1]
      BY <2>2, <3>2, <3>3, <3>4 DEF Passed
    <3> QED
      BY <3>1, <3>5
  <2>4. ASSUME NEW q \in OpenPaths
        PROVE  /\ Tried(q)' <=> \E k \in 1..d - 1 : k < 8 /\ Passed(q, k)'
               /\ Tried(q) <=> \E k \in 1..d : k < 8 /\ Passed(q, k)
    BY <1>0, <1>1, <1>3, <1>6, <2>1 DEF Tried
  <2>5. ASSUME NEW q \in OpenPaths, Tried(q) PROVE Tried(q)'
    <3>1. PICK k \in 1..d : k < 8 /\ Passed(q, k)
      BY <2>4, <2>5
    <3>2. CASE k # d
      BY <1>3, <2>3, <2>4, <3>1, <3>2
    <3>3. CASE k = d
      <4>1. \A i \in 1..d : q[i] = vec[i]
        BY <3>1, <3>3 DEF Passed
      <4>2. \A i \in 1..d - 1 : q[i] = vec[i]
        BY <1>3, <4>1
      <4>3. q[(d - 1) + 1] \in Sides(vec[d - 1]) \ frames[d - 1]
        BY <1>2, <1>3, <1>4, <2>1, <4>1
      <4>4. Passed(q, d - 1)'
        BY <2>1, <2>3, <4>2, <4>3
      <4> QED
        BY <2>1, <2>4, <4>4
    <3> QED
      BY <3>2, <3>3
  <2>6. ASSUME NEW q \in OpenPaths, Tried(q)' PROVE Tried(q)
    <3>1. PICK k \in 1..d - 1 : k < 8 /\ Passed(q, k)'
      BY <2>4, <2>6
    <3>2. CASE Passed(q, k)
      BY <1>3, <2>4, <3>1, <3>2
    <3>3. CASE ~Passed(q, k)
      <4>1. k = d - 1 /\ q[k + 1] = vec[k + 1] /\ \A i \in 1..k : q[i] = vec[i]
        BY <2>3, <3>1, <3>3
      <4>2. \A i \in 1..d : q[i] = vec[i]
        BY <1>3, <4>1
      <4>3. d < 8 /\ Passed(q, d)
        BY <1>7, <4>2
      <4> QED
        BY <1>3, <2>4, <4>3
    <3> QED
      BY <3>2, <3>3
  <2>7. prints' = {q \in OpenPaths : Tried(q)'}
    BY <1>1, <1>2, <2>5, <2>6
  <2>8. /\ Len(vec') > 0 /\ entering' \in BOOLEAN /\ ~(Len(frames') = 8)
        /\ Len(vec') = IF entering' THEN Len(frames') + 1 ELSE IF Len(frames') = 0 THEN 1 ELSE Len(frames')
    <3>1. /\ Len(frames') = d - 1 /\ Len(vec') = d - 1 /\ entering' = FALSE
          /\ d - 1 # 0 /\ d - 1 # 8 /\ d - 1 > 0
      BY <1>1, <1>2, <1>3, <1>6, <2>1, <2>2
    <3> QED
      BY <3>1
  <2>9. \A k \in 1..Len(frames') : /\ frames'[k] \subseteq Sides(vec'[k])
                                   /\ k < Len(vec') => vec'[k + 1] \notin frames'[k]
    <3> SUFFICES ASSUME NEW k \in 1..d - 1
                 PROVE  frames[k] \subseteq Sides(vec'[k]) /\ (k < d - 1 => vec'[k + 1] \notin frames[k])
      BY <1>6, <2>2
    <3>1. k < d - 1 => k + 1 \in 1..d - 1
      BY <1>3
    <3>2. vec'[k] = vec[k] /\ (k < d - 1 => vec'[k + 1] = vec[k + 1])
      BY <2>2, <3>1
    <3> QED
      BY <1>2, <1>3, <3>2
  <2>10. vec' \in PathsTo(Len(vec')) /\ hp' = {vec'[i] : i \in 2..Len(vec')}
         /\ IsFiniteSet(prints') /\ total_print' = Cardinality(prints')
    BY <1>1, <1>2, <2>2
  <2> QED
    BY <1>6, <2>2, <2>7, <2>8, <2>9, <2>10 DEF PathInv
<1> QED
  BY <1>8, <1>9

\* tct.cc prints, each once, the paths through all points from whose end no side
\* leads back to the beginning, and counts them.
THEOREM OpenPathsArePrinted == PathSpec => []PrintsOpenPaths
<1>1. PathInit => PathInv
  BY PathStarts
<1>2. PathInv /\ [PathNext]_pathVars => PathInv'
  <2> SUFFICES ASSUME PathInv, [PathNext]_pathVars PROVE PathInv'
    OBVIOUS
  <2>1. CASE Descend
    BY <2>1, DescendKeeps
  <2>2. CASE PrintPath
    BY <2>2, PrintPathKeeps
  <2>3. CASE NextSide
    BY <2>3, NextSideKeeps
  <2>4. CASE Return
    BY <2>4, ReturnKeeps
  <2>5. CASE UNCHANGED pathVars
    <3>1. /\ vec' = vec /\ hp' = hp /\ frames' = frames /\ entering' = entering
          /\ prints' = prints /\ total_print' = total_print
      BY <2>5 DEF pathVars
    <3>2. \A q \in OpenPaths : Tried(q)' <=> Tried(q)
      BY <3>1 DEF Tried, Passed
    <3> QED
      BY <3>1, <3>2 DEF PathInv
  <2> QED
    BY <2>1, <2>2, <2>3, <2>4, <2>5 DEF PathNext
<1>3. PathInv => PrintsOpenPaths
  <2> SUFFICES ASSUME PathInv, ~entering, frames = <<>>
               PROVE  /\ prints = {p \in PathsOf[8] : Begin \notin Sides(p[8])}
                      /\ total_print = Cardinality(prints)
    BY DEF PrintsOpenPaths
  <2>1. Len(frames) = 0
    OBVIOUS
  <2>2. \A q \in OpenPaths : Tried(q)
    BY <2>1 DEF Tried
  <2>3. prints = OpenPaths /\ total_print = Cardinality(prints)
    BY <2>2 DEF PathInv
  <2> QED
    BY <2>3, PathsOfIs DEF OpenPaths
<1> QED
  BY <1>1, <1>2, <1>3, PTL DEF PathSpec

----------------------------------------------------------------------------
(* The array container, Array: it implements ArrayList. *)

\* The list is inside the block, and its items have been written.
ArrayInv ==
    /\ room \in Nat /\ m_size \in Nat /\ m_capacity \in Nat
    /\ m_head \in [0..room - 1 -> Values \cup {Garbage}]
    /\ m_size <= room /\ room <= m_capacity /\ m_size <= MaxItems
    /\ \A i \in 0..m_size - 1 : m_head[i] # Garbage

Listed == [i \in 0..m_size - 1 |-> m_head[i]]
ListStep == [Listing!ListNext]_(Listing!listVars)

\* What is put in stands at its place, what was behind it one further back.
LEMMA PutIn ==
    ASSUME ArrayInv, NEW val \in Values, NEW pos \in 0..m_size, NEW n \in Nat, n > m_size
    PROVE  /\ Put(n, val, pos) \in [0..n - 1 -> Values \cup {Garbage}]
           /\ \A i \in 0..m_size : Put(n, val, pos)[i] =
                 IF i < pos THEN m_head[i] ELSE IF i = pos THEN val ELSE m_head[i - 1]
<1>1. \A i \in 0..n - 1 : i > pos /\ i <= m_size => i - 1 \in 0..room - 1
    BY DEF ArrayInv
<1>2. \A i \in 0..n - 1 : i < room => i \in 0..room - 1
    BY DEF ArrayInv
<1> QED
    BY <1>1, <1>2 DEF Put, ArrayInv

LEMMA PutStep ==
    ASSUME ArrayInv, NEW val \in Values, NEW at, NEW pos \in 0..m_size, NEW n \in Nat,
           pos = (IF at = Nowhere THEN m_size ELSE at), n > m_size, m_size < MaxItems,
           m_head' = Put(n, val, pos), room' = n, m_size' = m_size + 1,
           m_capacity' \in Nat, n <= m_capacity', Answers("add", val, at, 0, 1)
    PROVE  ArrayInv' /\ ListStep
<1>1. /\ m_head' \in [0..n - 1 -> Values \cup {Garbage}]
      /\ \A i \in 0..m_size : m_head'[i] =
            IF i < pos THEN m_head[i] ELSE IF i = pos THEN val ELSE m_head[i - 1]
    BY PutIn
<1>2. \A i \in 0..m_size : m_head'[i] # Garbage
    BY <1>1, GarbageAssumption DEF ArrayInv
<1>3. ArrayInv'
    BY <1>1, <1>2, ArrayAssumption DEF ArrayInv
<1>4. Listed' = [i \in 0..m_size |-> IF i < pos THEN Listed[i] ELSE IF i = pos THEN val ELSE Listed[i - 1]]
    <2>1. 0..m_size' - 1 = 0..m_size
        BY DEF ArrayInv
    <2>2. \A i \in 0..m_size : i > pos => i - 1 \in 0..m_size - 1
        BY DEF ArrayInv
    <2>3. \A i \in 0..m_size : i < pos => i \in 0..m_size - 1
        BY DEF ArrayInv
    <2> QED
        BY <1>1, <2>1, <2>2, <2>3 DEF Listed
<1>5. lastCall' = [op |-> "add", val |-> val, pos |-> at, len |-> 0, ret |-> 1]
    BY DEF Answers
<1>6. Listing!ListNext
    BY <1>4, <1>5 DEF Listed, Listing!ListNext, Listing!ListAdd, Listing!Returns, Listing!Inserted,
                      Listing!None, Nowhere
<1> QED
    BY <1>3, <1>6 DEF ListStep

LEMMA AddStep ==
    ASSUME ArrayInv, NEW val \in Values, NEW at \in Indices \cup {Nowhere}, Add(val, at)
    PROVE  ArrayInv' /\ ListStep
<1>1. PICK pos : pos = (IF at = Nowhere THEN m_size ELSE at)
    OBVIOUS
<1>2. pos \in 0..m_size /\ m_size < MaxItems
    BY <1>1, ArrayAssumption DEF Add, ArrayInv, Indices, Nowhere
<1>3. CASE /\ m_head' = Put(room, val, pos) /\ m_size' = m_size + 1 /\ m_size < room
           /\ UNCHANGED <<room, m_capacity>> /\ Answers("add", val, at, 0, 1)
    BY <1>1, <1>2, <1>3, PutStep DEF ArrayInv
<1>4. CASE /\ ~(m_capacity > m_size)
           /\ m_head' = Put(GrownBlock, val, pos) /\ room' = GrownBlock
           /\ m_capacity' = GrownBlock /\ m_size' = m_size + 1 /\ Answers("add", val, at, 0, 1)
    <2>1. GrownBlock \in Nat /\ GrownBlock > m_size
        BY <1>4, ArrayAssumption DEF GrownBlock, ArrayInv
    <2> QED
        BY <1>1, <1>2, <1>4, <2>1, PutStep
<1>5. CASE Refuses /\ Answers("add", val, at, 0, 0)
    <2>1. ArrayInv'
        BY <1>5, ArrayAssumption DEF Refuses, ArrayInv
    <2>2. Listed' = Listed
        BY <1>5 DEF Refuses, Listed
    <2>3. lastCall' = [op |-> "add", val |-> val, pos |-> at, len |-> 0, ret |-> 0]
        BY <1>5 DEF Answers
    <2>4. Listing!ListNext
        BY <1>5, <2>2, <2>3 DEF Refuses, Listed, Listing!ListNext, Listing!ListAdd, Listing!Returns
    <2> QED
        BY <2>1, <2>4 DEF ListStep
<1>6. CASE Faults
    BY <1>6 DEF Faults, ArrayInv, ListStep, Listing!listVars
<1> QED
    BY <1>1, <1>3, <1>4, <1>5, <1>6 DEF Add

LEMMA DelStep ==
    ASSUME ArrayInv, NEW pos \in Indices, Del(pos)
    PROVE  ArrayInv' /\ ListStep
<1>1. lastCall' = [op |-> "del", val |-> -1, pos |-> pos, len |-> 0, ret |-> Bool(pos < m_size)]
    BY DEF Del, Answers, Nowhere
<1>2. room' = room /\ m_capacity' = m_capacity
    BY DEF Del
<1>3. CASE pos < m_size
    <2>1. m_size' = m_size - 1 /\ m_size' \in Nat /\ pos \in 0..m_size - 1
        BY <1>3, ArrayAssumption DEF Del, ArrayInv, Indices
    <2>2. m_head' = [i \in 0..room - 1 |-> IF i >= pos /\ i < m_size - 1 THEN m_head[i + 1] ELSE m_head[i]]
        BY <1>3 DEF Del
    <2>3. \A i \in 0..room - 1 : i < m_size - 1 => i + 1 \in 0..m_size - 1 /\ i + 1 \in 0..room - 1
        BY DEF ArrayInv
    <2>4. m_head' \in [0..room - 1 -> Values \cup {Garbage}]
        BY <2>2, <2>3 DEF ArrayInv
    <2>5. \A i \in 0..m_size' - 1 : i \in 0..room - 1 /\ i \in 0..m_size - 1 /\ i < m_size - 1
        BY <2>1 DEF ArrayInv
    <2>6. \A i \in 0..m_size' - 1 : m_head'[i] = (IF i >= pos THEN m_head[i + 1] ELSE m_head[i])
        BY <2>2, <2>5
    <2>7. ArrayInv'
        <3>1. \A i \in 0..m_size' - 1 : m_head'[i] # Garbage
            BY <2>1, <2>3, <2>5, <2>6 DEF ArrayInv
        <3>2. m_size' <= room' /\ room' <= m_capacity' /\ m_size' <= MaxItems
            BY <1>2, <2>1, ArrayAssumption DEF ArrayInv
        <3> QED
            BY <1>2, <2>1, <2>4, <3>1, <3>2 DEF ArrayInv
    <2>8. Listed' = [i \in 0..m_size - 2 |-> IF i < pos THEN Listed[i] ELSE Listed[i + 1]]
        <3>1. 0..m_size' - 1 = 0..m_size - 2
            BY <2>1 DEF ArrayInv
        <3>2. \A i \in 0..m_size' - 1 : i >= pos <=> ~(i < pos)
            BY <2>1
        <3> QED
            BY <2>3, <2>5, <2>6, <3>1, <3>2 DEF Listed
    <2>9. Listing!ListNext
        BY <1>1, <1>3, <2>1, <2>8 DEF Listed, Bool, Listing!ListNext, Listing!ListDel, Listing!Returns,
                                  Listing!Removed, Listing!None, Listing!Truth
    <2> QED
        BY <2>7, <2>9 DEF ListStep
<1>4. CASE ~(pos < m_size)
    <2>1. m_head' = m_head /\ m_size' = m_size
        BY <1>4 DEF Del
    <2>2. ArrayInv'
        BY <1>2, <2>1 DEF ArrayInv
    <2>3. Listing!ListNext
        BY <1>1, <1>4, <2>1 DEF Bool, Listing!ListNext, Listing!ListDel, Listing!Returns, Listing!None,
                                Listing!Truth
    <2> QED
        BY <2>2, <2>3 DEF ListStep
<1> QED
    BY <1>3, <1>4

LEMMA AlterStep ==
    ASSUME ArrayInv, NEW val \in Values, NEW pos \in Indices, Alter(pos, val)
    PROVE  ArrayInv' /\ ListStep
<1>1. CASE pos > m_size
    <2>1. /\ UNCHANGED <<m_head, room, m_size, m_capacity>>
          /\ lastCall' = [op |-> "alter", val |-> val, pos |-> pos, len |-> 0, ret |-> 0]
        BY <1>1 DEF Alter, Answers
    <2>2. ArrayInv'
        BY <2>1 DEF ArrayInv
    <2>3. ~(pos <= m_size) /\ \A i \in 0..m_size - 1 : i # pos
        BY <1>1 DEF ArrayInv, Indices
    <2>4. Listing!ListNext
        BY <2>1, <2>3 DEF Listing!ListNext, Listing!ListAlter, Listing!Returns, Listing!Truth
    <2> QED
        BY <2>2, <2>4 DEF ListStep
<1>2. CASE ~(pos > m_size) /\ pos < room
    <2>1. /\ m_head' = [m_head EXCEPT ![pos] = val] /\ UNCHANGED <<room, m_size, m_capacity>>
          /\ lastCall' = [op |-> "alter", val |-> val, pos |-> pos, len |-> 0, ret |-> 1]
        BY <1>2 DEF Alter, Answers
    <2>2. ArrayInv'
        <3>1. m_head' \in [0..room - 1 -> Values \cup {Garbage}]
            BY <2>1 DEF ArrayInv
        <3>2. \A i \in 0..m_size - 1 : m_head'[i] # Garbage
            BY <2>1, GarbageAssumption DEF ArrayInv
        <3> QED
            BY <2>1, <3>1, <3>2 DEF ArrayInv
    <2>3. \A i \in 0..m_size - 1 : m_head'[i] = IF i = pos THEN val ELSE m_head[i]
        BY <2>1 DEF ArrayInv
    <2>4. Listed' = [i \in 0..m_size - 1 |-> IF i = pos THEN val ELSE Listed[i]]
        BY <2>1, <2>3 DEF Listed
    <2>5. pos <= m_size
        BY <1>2 DEF ArrayInv, Indices
    <2>6. Listing!ListNext
        BY <2>1, <2>4, <2>5 DEF Listed, Listing!ListNext, Listing!ListAlter, Listing!Returns, Listing!Truth
    <2> QED
        BY <2>2, <2>6 DEF ListStep
<1>3. CASE Faults
    BY <1>3 DEF Faults, ArrayInv, ListStep, Listing!listVars
<1> QED
    BY <1>1, <1>2, <1>3 DEF Alter

LEMMA ClearStep ==
    ASSUME ArrayInv, NEW op \in {"clean", "reset"}, NEW n \in Nat, m_head' = Block(n), room' = n, m_size' = 0,
           m_capacity' = n, Answers(op, Nowhere, Nowhere, 0, 0)
    PROVE  ArrayInv' /\ ListStep
<1>1. ArrayInv'
    BY ArrayAssumption DEF ArrayInv, Block
<1>2. Listed' = [i \in {} |-> -1]
    BY DEF Listed
<1>3. lastCall' = [op |-> op, val |-> -1, pos |-> -1, len |-> 0, ret |-> 0]
    BY DEF Answers, Nowhere
<1>4. Listing!ListNext
    BY <1>2, <1>3 DEF Listed, Listing!ListNext, Listing!ListClear, Listing!Returns, Listing!None
<1> QED
    BY <1>1, <1>4 DEF ListStep

\* What Seek returns is where val is first in the list, as far as it looks there:
\* only behind the list garbage may be taken for val.
LEMMA SeekFinds ==
    ASSUME ArrayInv, NEW val \in Values, NEW op, NEW pos, NEW reach, NEW from \in Nat, NEW to \in Int,
           Seek(op, val, pos, reach, from..to)
    PROVE  \E ret \in {-1} \cup from..to :
              /\ lastCall' = [op |-> op, val |-> val, pos |-> pos, len |-> reach, ret |-> ret]
              /\ \A i \in from..to : i < m_size /\ m_head[i] = val => ret # -1 /\ ret <= i
              /\ ret # -1 /\ ret < m_size => m_head[ret] = val
<1>1. PICK g \in SUBSET {i \in from..to : m_head[i] = Garbage} :
        LET hits == {i \in from..to : m_head[i] = val} \cup g IN
        \/ \E i \in hits : (\A j \in hits : i <= j) /\ Answers(op, val, pos, reach, i)
        \/ hits = {} /\ Answers(op, val, pos, reach, Nowhere)
    BY DEF Seek
<1>2. PICK hits : hits = {i \in from..to : m_head[i] = val} \cup g
    OBVIOUS
<1>3. \A i \in from..to : m_head[i] = val => i \in hits
    BY <1>2
<1>4. \A i \in hits : i \in from..to /\ (i < m_size => m_head[i] = val)
    BY <1>1, <1>2 DEF ArrayInv
<1>5. CASE \E i \in hits : (\A j \in hits : i <= j) /\ Answers(op, val, pos, reach, i)
    <2>1. PICK i \in hits : (\A j \in hits : i <= j) /\ Answers(op, val, pos, reach, i)
        BY <1>5
    <2>2. i \in from..to /\ i # -1
        BY <1>4
    <2> QED
        BY <1>3, <1>4, <2>1, <2>2 DEF Answers
<1>6. CASE hits = {} /\ Answers(op, val, pos, reach, Nowhere)
    <2> WITNESS -1 \in {-1} \cup from..to
    <2> QED
        BY <1>3, <1>6 DEF Answers, Nowhere
<1> QED
    BY <1>1, <1>2, <1>5, <1>6

LEMMA FindStep ==
    ASSUME ArrayInv, NEW val \in Values, NEW pos \in Indices, Find(val, pos)
    PROVE  ArrayInv' /\ ListStep
<1>1. PICK ret \in {-1} \cup pos..m_size - 1 :
        /\ lastCall' = [op |-> "find", val |-> val, pos |-> pos, len |-> 0, ret |-> ret]
        /\ \A i \in pos..m_size - 1 : i < m_size /\ m_head[i] = val => ret # -1 /\ ret <= i
        /\ ret # -1 /\ ret < m_size => m_head[ret] = val
    BY SeekFinds, ArrayAssumption DEF Find, ArrayInv, Indices
<1>2. UNCHANGED <<m_head, room, m_size, m_capacity>>
    BY DEF Find, Seek
<1>3. ArrayInv'
    BY <1>2 DEF ArrayInv
<1>4. \A i \in pos..m_size - 1 : i < m_size /\ i \in 0..m_size - 1 /\ Listed[i] = m_head[i]
    BY ArrayAssumption DEF Indices, ArrayInv, Listed
<1>5. Listed' = Listed
    BY <1>2 DEF Listed
<1>6. \/ ret \in {i \in pos..m_size - 1 : Listed[i] = val /\ \A j \in pos..m_size - 1 : j < i => Listed[j] # val}
      \/ /\ {i \in pos..m_size - 1 : Listed[i] = val /\ \A j \in pos..m_size - 1 : j < i => Listed[j] # val} = {}
         /\ ret = -1
    <2>1. CASE ret = -1
        BY <1>1, <1>4, <2>1
    <2>2. CASE ret # -1
        <3>1. ret \in pos..m_size - 1 /\ Listed[ret] = val
            BY <1>1, <1>4, <2>2
        <3>2. \A j \in pos..m_size - 1 : j < ret => Listed[j] # val
            BY <1>1, <1>4, <3>1 DEF ArrayInv, Indices
        <3> QED
            BY <3>1, <3>2
    <2> QED
        BY <2>1, <2>2
<1>7. lastCall'.op = "find" /\ lastCall'.val = val /\ lastCall'.pos = pos
    BY <1>1
<1>8. /\ UNCHANGED <<Listed, m_size>>
      /\ \/ \E i \in Listing!FirstIn(lastCall'.val, lastCall'.pos..m_size - 1) :
               lastCall' = [op |-> "find", val |-> lastCall'.val, pos |-> lastCall'.pos, len |-> 0, ret |-> i]
         \/ /\ Listing!FirstIn(lastCall'.val, lastCall'.pos..m_size - 1) = {}
            /\ lastCall' = [op |-> "find", val |-> lastCall'.val, pos |-> lastCall'.pos, len |-> 0, ret |-> -1]
    <2>1. \A i : i \in Listing!FirstIn(lastCall'.val, lastCall'.pos..m_size - 1) <=>
             i \in pos..m_size - 1 /\ Listed[i] = val /\ \A j \in pos..m_size - 1 : j < i => Listed[j] # val
        BY <1>7 DEF Listing!FirstIn, Listed
    <2> QED
        BY <1>1, <1>2, <1>5, <1>6, <1>7, <2>1
<1>9. Listing!ListNext
    BY <1>7, <1>8 DEF Listed, Listing!ListNext, Listing!ListFind, Listing!Returns, Listing!None
<1> QED
    BY <1>3, <1>9 DEF ListStep

\* What the code makes of the length a caller gives.
LEMMA FindInReach ==
    ASSUME NEW size \in Nat, NEW block \in Nat, size <= block, NEW pos \in Nat, pos <= size, NEW reach \in Nat,
           NEW n \in Int, n = (IF size - pos > reach THEN reach ELSE size - reach),
           NEW end \in Int, end = (IF pos + n <= block THEN pos + n ELSE block)
    PROVE  /\ \A i \in pos..end - 1 : i < pos + reach \/ i < pos + size
           /\ \A i \in pos..end - 1 : i < pos + reach \/ pos > reach
           /\ \A i \in pos..end - 1 : i >= size => pos > reach /\ pos + reach >= size
           /\ \A i \in pos..size - 1 : i < pos + reach => i < end \/ (pos < reach /\ pos + reach >= size)
<1>1. CASE size - pos > reach
    BY <1>1
<1>2. CASE ~(size - pos > reach)
    BY <1>2
<1> QED
    BY <1>1, <1>2

LEMMA FindInStep ==
    ASSUME ArrayInv, NEW val \in Values, NEW pos \in Indices, NEW reach \in Indices, FindIn(val, pos, reach)
    PROVE  ArrayInv' /\ ListStep
<1>1. CASE Faults
    BY <1>1 DEF Faults, ArrayInv, ListStep, Listing!listVars
<1>2. CASE ~Faults
    <2>1. PICK n : n = (IF m_size - pos > reach THEN reach ELSE m_size - reach)
        OBVIOUS
    <2>2. PICK end : end = (IF pos + n <= room THEN pos + n ELSE room)
        OBVIOUS
    <2>3. /\ pos <= m_size /\ Seek("findIn", val, pos, reach, pos..end - 1)
          /\ end = pos + n \/ lastCall'.ret # Nowhere
        BY <1>2, <2>1, <2>2 DEF FindIn
    <2>4. n \in Int /\ end \in Int /\ pos \in Nat /\ reach \in Nat
        BY <2>1, <2>2, ArrayAssumption DEF Indices, ArrayInv
    <2>5. PICK ret \in {-1} \cup pos..end - 1 :
            /\ lastCall' = [op |-> "findIn", val |-> val, pos |-> pos, len |-> reach, ret |-> ret]
            /\ \A i \in pos..end - 1 : i < m_size /\ m_head[i] = val => ret # -1 /\ ret <= i
            /\ ret # -1 /\ ret < m_size => m_head[ret] = val
        BY <2>3, <2>4, SeekFinds
    <2>6. UNCHANGED <<m_head, room, m_size, m_capacity>>
        BY <2>3 DEF Seek
    <2>7. ArrayInv'
        BY <2>6 DEF ArrayInv
    <2>8. \A i \in 0..m_size - 1 : Listed[i] = m_head[i]
        BY DEF Listed
    <2>9. Listed' = Listed
        BY <2>6 DEF Listed
    <2>10. ret \in 0..m_size - 1 =>
              /\ ret \in pos..m_size - 1 /\ Listed[ret] = val
              /\ \A j \in pos..m_size - 1 : j < ret => Listed[j] # val
        BY <2>4, <2>5, <2>8 DEF ArrayInv
    <2>11. /\ m_size \in Nat /\ room \in Nat /\ m_size <= room /\ m_size <= MaxItems
           /\ MaxItems \in Nat /\ pos <= MaxItems /\ reach <= MaxItems
        BY ArrayAssumption DEF ArrayInv, Indices
    <2>12. /\ \A i \in pos..end - 1 : i < pos + reach \/ i < pos + m_size
           /\ \A i \in pos..end - 1 : i < pos + reach \/ pos > reach
           /\ \A i \in pos..end - 1 : i >= m_size => pos > reach /\ pos + reach >= m_size
           /\ \A i \in pos..m_size - 1 : i < pos + reach => i < end \/ (pos < reach /\ pos + reach >= m_size)
        BY <2>1, <2>2, <2>3, <2>4, <2>11, FindInReach
    <2>13. ret \in {-1} \cup 0..2 * MaxItems
        BY <2>4, <2>5, <2>11, <2>12
    <2>14. ret # -1 => ret < pos + reach \/ pos > reach
        BY <2>5, <2>12
    <2>15. ret >= m_size => pos > reach /\ pos + reach >= m_size
        BY <2>5, <2>11, <2>12
    <2>16. ASSUME NEW i \in pos..m_size - 1, i < pos + reach, Listed[i] = val
           PROVE  ret \in 0..i \/ (pos < reach /\ pos + reach >= m_size)
        <3>1. i < end => ret # -1 /\ ret <= i
            BY <2>4, <2>5, <2>8, <2>11, <2>16
        <3> QED
            BY <2>4, <2>5, <2>11, <2>12, <2>16, <3>1
    <2>17. Listing!ListNext
        BY <2>5, <2>6, <2>9, <2>10, <2>13, <2>14, <2>15, <2>16
           DEF Listed, Listing!ListNext, Listing!ListFindIn, Listing!Returns, Listing!None, Listing!FirstIn
    <2> QED
        BY <2>7, <2>17 DEF ListStep
<1> QED
    BY <1>1, <1>2

\* However the block grows, shrinks and is lost, and whatever memory refuses, every
\* call does to the list what ArrayList says.
THEOREM ArrayIsList == ArraySpec => ImplementsList
<1>1. ArrayInit => ArrayInv /\ Listing!ListInit
    <2> SUFFICES ASSUME ArrayInit PROVE ArrayInv /\ Listing!ListInit
        OBVIOUS
    <2>1. ArrayInv
        BY ArrayAssumption DEF ArrayInit, ArrayInv, Block
    <2>2. Listed = [i \in {} |-> -1]
        BY DEF ArrayInit, Listed
    <2> QED
        BY <2>1, <2>2 DEF ArrayInit, Listed, Listing!ListInit, Listing!None
<1>2. ArrayInv /\ [ArrayNext]_arrayVars => ArrayInv' /\ ListStep
    <2> SUFFICES ASSUME ArrayInv, [ArrayNext]_arrayVars PROVE ArrayInv' /\ ListStep
        OBVIOUS
    <2>1. ASSUME NEW val \in Values, NEW pos \in Indices, Alter(pos, val) \/ Find(val, pos)
          PROVE  ArrayInv' /\ ListStep
        BY <2>1, AlterStep, FindStep
    <2>2. ASSUME Clean PROVE ArrayInv' /\ ListStep
        BY <2>2, ClearStep DEF Clean
    <2>3. ASSUME NEW n \in Indices, Reset(n) PROVE ArrayInv' /\ ListStep
        BY <2>3, ClearStep, ArrayAssumption DEF Reset, Indices
    <2>4. ASSUME UNCHANGED arrayVars PROVE ArrayInv' /\ ListStep
        BY <2>4 DEF arrayVars, ArrayInv, ListStep, Listing!listVars
    <2> QED
        BY <2>1, <2>2, <2>3, <2>4, AddStep, DelStep, FindInStep DEF ArrayNext
<1> QED
    BY <1>1, <1>2, PTL DEF ArraySpec, ImplementsList, Listing!ListSpec, ListStep

----------------------------------------------------------------------------
(* The handshake of Threads, for any set of Thread objects.                *)
(*                                                                         *)
(* The properties hold because the semaphore's two posts are told apart:   *)
(* what was posted is always what is left in the semaphore and what the    *)
(* owner has taken, so the constructor can only have had the first post    *)
(* and the destructor the second.                                          *)

\* Posts of run() so far, and posts the owner has waited for so far.
Posted(t) ==
    IF body[t] \in {"ending", "returned"} THEN 2
    ELSE IF body[t] \in {"running", "done"} THEN 1 ELSE 0
TakenPosts(t) ==
    IF owner[t] = "gone" THEN 2
    ELSE IF owner[t] \in {"absent", "constructing"} THEN 0 ELSE 1

NotYetStarted == \A t \in Threads : owner[t] = "absent" => body[t] = "none"
IdStored == \A t \in Threads : body[t] \notin {"none", "started"} => mId[t] = t
PostsAddUp == \A t \in Threads : Posted(t) = sem[t] + TakenPosts(t)

ThreadInv == ThreadTypeOK /\ NotYetStarted /\ IdStored /\ PostsAddUp

(* No object exists and nothing was posted at first. *)
THEOREM ThreadStarts == ThreadInit => ThreadInv
BY DEF ThreadInit, ThreadInv, ThreadTypeOK, NotYetStarted, IdStored, PostsAddUp, Posted, TakenPosts

USE DEF ThreadInv, ThreadTypeOK, NotYetStarted, IdStored, PostsAddUp, Posted, TakenPosts,
        OwnerMoves, BodyMoves

(* What the owner of one object does keeps the count of the posts: it takes *)
(* one with each of its two waits.                                          *)
LEMMA OwnerKeeps ==
    ASSUME ThreadInv, NEW t \in Threads, OwnerStep(t)
    PROVE  ThreadInv'
<1>1. CASE Construct(t)
    BY <1>1 DEF Construct
<1>2. CASE ConstructFails(t)
    BY <1>2 DEF ConstructFails
<1>3. CASE ConstructReturns(t)
    BY <1>3 DEF ConstructReturns
<1>4. CASE Join(t)
    BY <1>4 DEF Join
<1>5. CASE JoinReturns(t)
    BY <1>5 DEF JoinReturns
<1>6. CASE Destroy(t)
    BY <1>6 DEF Destroy
<1>7. CASE DestroyReturns(t)
    BY <1>7 DEF DestroyReturns
<1> QED
    BY <1>1, <1>2, <1>3, <1>4, <1>5, <1>6, <1>7 DEF OwnerStep

(* What the thread does keeps it too: it stores its id, then posts before   *)
(* and after the callback.                                                  *)
LEMMA BodyKeeps ==
    ASSUME ThreadInv, NEW t \in Threads, BodyStep(t)
    PROVE  ThreadInv'
<1>1. CASE BodyEnter(t)
    BY <1>1 DEF BodyEnter
<1>2. CASE PostStarted(t)
    BY <1>2 DEF PostStarted, Post
<1>3. CASE CallbackReturns(t)
    BY <1>3 DEF CallbackReturns
<1>4. CASE PostFinished(t)
    BY <1>4 DEF PostFinished, Post
<1>5. CASE BodyReturns(t)
    BY <1>5 DEF BodyReturns
<1> QED
    BY <1>1, <1>2, <1>3, <1>4, <1>5 DEF BodyStep, Handshake

(* The invariant is inductive. *)
THEOREM ThreadSteps == ThreadInv /\ [ThreadNext]_threadVars => ThreadInv'
<1> SUFFICES ASSUME ThreadInv, [ThreadNext]_threadVars PROVE ThreadInv'
    OBVIOUS
<1>1. CASE UNCHANGED threadVars
    BY <1>1 DEF threadVars
<1>2. ASSUME NEW t \in Threads, OwnerStep(t) PROVE ThreadInv'
    BY <1>2, OwnerKeeps
<1>3. ASSUME NEW t \in Threads, BodyStep(t) PROVE ThreadInv'
    BY <1>3, BodyKeeps
<1> QED
    BY <1>1, <1>2, <1>3 DEF ThreadNext

LEMMA ThreadInvariant == ThreadSpec => []ThreadInv
BY ThreadStarts, ThreadSteps, PTL DEF ThreadSpec

(* Every variable keeps its type; the semaphore never holds more than two. *)
THEOREM ThreadTypeCorrect == ThreadSpec => []ThreadTypeOK
<1>1. ThreadInv => ThreadTypeOK
    OBVIOUS
<1> QED
    BY <1>1, ThreadInvariant, PTL

(* A Thread that was constructed has its id and has taken its callback.    *)
THEOREM ConstructorMeetsThread == ThreadSpec => []BuiltHasId
<1>1. ThreadInv => BuiltHasId
    BY DEF BuiltHasId
<1> QED
    BY <1>1, ThreadInvariant, PTL

(* ~Thread returns only after the callback did (Thread.cc, line 55).       *)
THEOREM DestructorWaits == ThreadSpec => []GoneAfterCallback
<1>1. ThreadInv => GoneAfterCallback
    BY DEF GoneAfterCallback
<1> QED
    BY <1>1, ThreadInvariant, PTL

(* run() does not write into an object after its destructor returned.      *)
THEOREM DestroyedIsLeftAlone == ThreadSpec => NoWriteAfterDestroy
<1> DEFINE A == \A t \in Threads :
                    owner[t] = "gone" => sem'[t] = sem[t] /\ mId'[t] = mId[t]
<1>1. ASSUME ThreadInv, [ThreadNext]_threadVars PROVE [A]_threadVars
    <2>1. CASE UNCHANGED threadVars
        BY <2>1
    <2>2. ASSUME NEW t \in Threads, OwnerStep(t) PROVE A
        BY <1>1, <2>2 DEF OwnerStep, Construct, ConstructFails, ConstructReturns, Join,
                          JoinReturns, Destroy, DestroyReturns
    <2>3. ASSUME NEW t \in Threads, BodyStep(t) PROVE A
        BY <1>1, <2>3 DEF BodyStep, Handshake, BodyEnter, Post, PostStarted,
                          CallbackReturns, PostFinished, BodyReturns
    <2> QED
        BY <1>1, <2>1, <2>2, <2>3 DEF ThreadNext
<1> QED
    BY <1>1, ThreadInvariant, PTL DEF ThreadSpec, NoWriteAfterDestroy
=============================================================================
