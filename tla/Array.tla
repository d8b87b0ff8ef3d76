------------------------------- MODULE Array -------------------------------
(***************************************************************************)
(* Array of DataStruct/src/structrue/structrue.h on a block from malloc.   *)
(*                                                                         *)
(* A position is an index from the head.  Callers give add() a position    *)
(* inside the list, find() a start inside the list and no negative length: *)
(* the code checks none of these.  m_head is null when room is 0.  Where the program writes  *)
(* through null or behind its block, fault is set and it stops.            *)
(***************************************************************************)
EXTENDS Integers

CONSTANTS
    Values,
    MaxItems,       \* bound on the size a caller grows an array to
    FirstCapacity,  \* the constructor's default, and what relloc takes for 0
    Growth          \* m_add_base of ContainerStrategies

ASSUME ArrayAssumption ==
    MaxItems \in Nat /\ FirstCapacity \in Nat \ {0} /\ Growth \in Nat \ {0}

VARIABLES
    m_head,         \* the block's contents, indexed from 0
    room,           \* the size the block was allocated with
    m_size, m_capacity,
    lastCall,       \* the last call, and what it returned
    fault

arrayVars == <<m_head, room, m_size, m_capacity, lastCall, fault>>

Garbage == -1
ASSUME GarbageAssumption == Garbage \notin Values
Nowhere == -1       \* a null position, and add's default position
Indices == 0..MaxItems
Bool(p) == IF p THEN 1 ELSE 0

Block(n) == [i \in 0..n - 1 |-> Garbage]

ArrayInit ==
    /\ m_head = Block(FirstCapacity) /\ room = FirstCapacity
    /\ m_size = 0 /\ m_capacity = FirstCapacity
    /\ lastCall = [op |-> "none"] /\ fault = FALSE

Answers(op, val, pos, len, ret) ==
    lastCall' = [op |-> op, val |-> val, pos |-> pos, len |-> len, ret |-> ret] /\ UNCHANGED fault
Faults == fault' = TRUE /\ UNCHANGED <<m_head, room, m_size, m_capacity, lastCall>>

-----------------------------------------------------------------------------
(* relloc *)

\* The copy cannot be allocated: a capacity of 0 has been replaced by then.
Refuses ==
    /\ m_capacity' = IF m_capacity = 0 THEN FirstCapacity ELSE m_capacity
    /\ UNCHANGED <<m_head, room, m_size>>

\* ContainerStrategies::get_new_size_add, whose base is the same for all arrays.
GrownBlock == (IF m_capacity = 0 THEN FirstCapacity ELSE m_capacity) + Growth

\* The items up to m_size in a block of n, with val put in at pos.
Put(n, val, pos) ==
    [i \in 0..n - 1 |->
        IF i = pos THEN val
        ELSE IF i > pos /\ i <= m_size THEN m_head[i - 1]
        ELSE IF i < room /\ (i < m_size \/ n = room) THEN m_head[i] ELSE Garbage]

-----------------------------------------------------------------------------
Add(val, at) ==
    LET pos == IF at = Nowhere THEN m_size ELSE at IN
    /\ pos <= m_size /\ m_size < MaxItems
    /\ IF m_capacity > m_size
       THEN IF m_size < room
            THEN /\ m_head' = Put(room, val, pos) /\ m_size' = m_size + 1
                 /\ UNCHANGED <<room, m_capacity>>
                 /\ Answers("add", val, at, 0, 1)
            ELSE Faults
       ELSE \/ Refuses /\ Answers("add", val, at, 0, 0)
            \/ /\ m_head' = Put(GrownBlock, val, pos) /\ room' = GrownBlock
               /\ m_capacity' = GrownBlock /\ m_size' = m_size + 1
               /\ Answers("add", val, at, 0, 1)
            \/ Faults       \* the new block cannot be allocated

\* Mutant: the last item is not moved.
DelShiftsShort(pos) ==
    /\ IF pos < m_size
       THEN /\ m_head' = [i \in 0..room - 1 |->
                            IF i >= pos /\ i < m_size - 2 THEN m_head[i + 1] ELSE m_head[i]]
            /\ m_size' = m_size - 1
       ELSE UNCHANGED <<m_head, m_size>>
    /\ Answers("del", Nowhere, pos, 0, Bool(pos < m_size))
    /\ UNCHANGED <<room, m_capacity>>

Del(pos) ==
    /\ IF pos < m_size
       THEN /\ m_head' = [i \in 0..room - 1 |->
                            IF i >= pos /\ i < m_size - 1 THEN m_head[i + 1] ELSE m_head[i]]
            /\ m_size' = m_size - 1
       ELSE UNCHANGED <<m_head, m_size>>
    /\ Answers("del", Nowhere, pos, 0, Bool(pos < m_size))
    /\ UNCHANGED <<room, m_capacity>>

\* The position behind the last item is let through.
Alter(pos, val) ==
    IF pos > m_size
    THEN UNCHANGED <<m_head, room, m_size, m_capacity>> /\ Answers("alter", val, pos, 0, 0)
    ELSE IF pos < room
    THEN /\ m_head' = [m_head EXCEPT ![pos] = val]
         /\ UNCHANGED <<room, m_size, m_capacity>>
         /\ Answers("alter", val, pos, 0, 1)
    ELSE Faults

\* clean(), and reset(n), which returns m_size, that is false, in any case.
Clean ==
    /\ m_head' = Block(0) /\ room' = 0 /\ m_size' = 0 /\ m_capacity' = 0
    /\ Answers("clean", Nowhere, Nowhere, 0, 0)

Reset(n) ==
    /\ \E got \in {0, n} :
        m_head' = Block(got) /\ room' = got /\ m_capacity' = got
    /\ m_size' = 0
    /\ Answers("reset", Nowhere, Nowhere, 0, 0)

\* The first of the indices where val is found; garbage may look like anything.
Seek(op, val, pos, len, indices) ==
    /\ \E g \in SUBSET {i \in indices : m_head[i] = Garbage} :
        LET hits == {i \in indices : m_head[i] = val} \cup g IN
        \/ \E i \in hits : (\A j \in hits : i <= j) /\ Answers(op, val, pos, len, i)
        \/ hits = {} /\ Answers(op, val, pos, len, Nowhere)
    /\ UNCHANGED <<m_head, room, m_size, m_capacity>>

Find(val, ins) == Seek("find", val, ins, 0, ins..m_size - 1)

\* find with a length: for a range that reaches the end, len becomes
\* m_size - len where m_size - ins was due.  Reading behind the block is a fault,
\* unless val is found before.
FindIn(val, ins, len) ==
    LET n == IF m_size - ins > len THEN len ELSE m_size - len
        end == IF ins + n <= room THEN ins + n ELSE room
    IN  /\ ins <= m_size
        /\ \/ Seek("findIn", val, ins, len, ins..end - 1) /\ (end = ins + n \/ lastCall'.ret # Nowhere)
           \/ end < ins + n /\ (\A i \in ins..room - 1 : m_head[i] # val) /\ Faults

ArrayNext ==
    /\ ~fault
    /\ \/ \E val \in Values : \E pos \in Indices \cup {Nowhere} : Add(val, pos)
       \/ \E val \in Values, pos \in Indices : Alter(pos, val) \/ Find(val, pos)
       \/ \E val \in Values, pos \in Indices, len \in Indices : FindIn(val, pos, len)
       \/ \E pos \in Indices : Del(pos)
       \/ Clean
       \/ \E n \in Indices : Reset(n)

ArraySpec == ArrayInit /\ [][ArrayNext]_arrayVars

-----------------------------------------------------------------------------
Listing == INSTANCE ArrayList WITH
    item <- [i \in 0..m_size - 1 |-> m_head[i]], size <- m_size, call <- lastCall

\* Every call does to the list in the block, and answers, what ArrayList says of
\* it, across growing, shrinking, refusing and resetting.  ArrayList has find's
\* range with a length and alter's position behind the end as the code has them;
\* where the program would write outside its block it only stops.
ImplementsList == Listing!ListSpec
=============================================================================
