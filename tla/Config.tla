------------------------------- MODULE Config -------------------------------
(***************************************************************************)
(* Config::LookUp and ConfigVar of lsylar/include/Config.h, from several   *)
(* threads.  s_mutex is never used: two accesses to the map may overlap,   *)
(* and when one of them inserts the map is broken and the model stops.     *)
(*                                                                         *)
(* A variable is an object that somebody's LookUp has made; the            *)
(* description is "for test" whatever the caller says, and left out.       *)
(***************************************************************************)
EXTENDS Naturals

CONSTANTS
    Users,          \* threads that look variables up
    Names, Defaults,
    Misread,        \* what from_string makes of a text: ChangeClass reinterprets its bytes
    MaxVars         \* bound on the objects made

ASSUME ConfigAssumption == MaxVars \in Nat \ {0} /\ Misread \notin Defaults

VARIABLES
    s_datas,        \* name: the object in the map, 0 for none
    m_val,          \* object: its value
    made,           \* objects made so far
    looking,        \* each thread: in which call it is, and at which access to the map
    holds,          \* history: objects that LookUp gave each thread for a name
    firstValue,     \* history: object: the default it was made with
    broken          \* an insert has overlapped another access

configVars == <<s_datas, m_val, made, looking, holds, firstValue, broken>>

Away == [at |-> "away"]

ConfigInit ==
    /\ s_datas = [n \in Names |-> 0]
    /\ m_val = [v \in 1..MaxVars |-> Misread] /\ made = 0
    /\ looking = [u \in Users |-> Away]
    /\ holds = [u \in Users |-> [n \in Names |-> {}]]
    /\ firstValue = [v \in 1..MaxVars |-> Misread]
    /\ broken = FALSE

\* The next access of u; the map is broken when an insert is not alone.
InMap(u) == looking[u].at \in {"find", "insert", "findAgain"}
Accesses(u, state) ==
    /\ looking' = [looking EXCEPT ![u] = state]
    /\ broken' = (broken \/ \E other \in Users \ {u} :
                    InMap(other) /\ "insert" \in {state.at, looking[other].at})

\* A thread in LookUp(n, d), at its next access with the object it has made.
InLookUp(at, n, d, v) == [at |-> at, name |-> n, default |-> d, var |-> v]
GoesOn(u, at, v) == InLookUp(at, looking[u].name, looking[u].default, v)

\* LookUp(name, default): s_datas.find begins.
LookUp(u) ==
    /\ ~broken /\ looking[u] = Away
    /\ \E n \in Names, d \in Defaults : Accesses(u, InLookUp("find", n, d, 0))
    /\ UNCHANGED <<s_datas, m_val, made, holds, firstValue>>

Gives(u) ==
    /\ looking' = [looking EXCEPT ![u] = Away] /\ UNCHANGED broken
    /\ holds' = [holds EXCEPT ![u][looking[u].name] = @ \cup {s_datas[looking[u].name]}]

\* find ends: the variable is there, or it will be made.
Found(u) ==
    /\ ~broken /\ looking[u].at = "find"
    /\ IF s_datas[looking[u].name] # 0
       THEN Gives(u) /\ UNCHANGED <<m_val, made, firstValue>>
       ELSE /\ made < MaxVars /\ made' = made + 1
            /\ m_val' = [m_val EXCEPT ![made'] = looking[u].default]
            /\ firstValue' = [firstValue EXCEPT ![made'] = looking[u].default]
            /\ looking' = [looking EXCEPT ![u] = GoesOn(u, "made", made')]
            /\ UNCHANGED <<holds, broken>>
    /\ UNCHANGED s_datas

\* s_datas.insert begins.
Insert(u) ==
    /\ ~broken /\ looking[u].at = "made"
    /\ Accesses(u, GoesOn(u, "insert", looking[u].var))
    /\ UNCHANGED <<s_datas, m_val, made, holds, firstValue>>

\* Mutant: the map is assigned to, which replaces what another thread has put there.
KeptReplaced(n, v) == v

\* What a name has after an insert: map::insert keeps what is there.
Kept(n, v) == IF s_datas[n] = 0 THEN v ELSE s_datas[n]

\* insert ends, and the last find begins.
Inserted(u) ==
    /\ ~broken /\ looking[u].at = "insert"
    /\ s_datas' = [s_datas EXCEPT ![looking[u].name] = Kept(looking[u].name, looking[u].var)]
    /\ Accesses(u, GoesOn(u, "findAgain", looking[u].var))
    /\ UNCHANGED <<m_val, made, holds, firstValue>>

FoundAgain(u) ==
    /\ ~broken /\ looking[u].at = "findAgain" /\ Gives(u)
    /\ UNCHANGED <<s_datas, m_val, made, firstValue>>

\* from_string on a variable that was given; nothing is locked.
FromString(u) ==
    /\ ~broken /\ looking[u] = Away
    /\ \E n \in Names : \E v \in holds[u][n] : m_val' = [m_val EXCEPT ![v] = Misread]
    /\ UNCHANGED <<s_datas, made, looking, holds, firstValue, broken>>

\* set_val calls m_cb, which nothing can set: it throws, the lock is released,
\* and the value stays.
SetVal(u) ==
    /\ ~broken /\ looking[u] = Away /\ \E n \in Names : holds[u][n] # {}
    /\ UNCHANGED configVars

ConfigNext ==
    \E u \in Users :
        LookUp(u) \/ Found(u) \/ Insert(u) \/ Inserted(u) \/ FoundAgain(u) \/ FromString(u) \/ SetVal(u)

ConfigSpec == ConfigInit /\ [][ConfigNext]_configVars

-----------------------------------------------------------------------------
\* As long as the map is whole, all who looked a name up share one variable, also
\* if several of them have made one for it; it has the default of the thread
\* whose variable went in, unless from_string has been called on it.
LookUpAgrees ==
    \A n \in Names :
        LET given == UNION {holds[u][n] : u \in Users} IN
        \A v \in given : given = {v} /\ v = s_datas[n] /\ m_val[v] \in {firstValue[v], Misread}
=============================================================================
