----------------------------- MODULE ArrayList -----------------------------
(***************************************************************************)
(* What the container of DataStruct/src/structrue/structrue.h promises: a  *)
(* list of items, numbered from 0, and an answer to every call.  The two   *)
(* calls that do something else than their names say are stated as they    *)
(* are: alter accepts the position behind the last item and changes        *)
(* nothing, find with a length goes wrong if its range reaches the end.    *)
(***************************************************************************)
EXTENDS Integers

CONSTANT MaxItems   \* bound on the size a caller grows a list to

VARIABLES
    item,       \* the items
    size,       \* their number
    call        \* the last call, and what it returned

listVars == <<item, size, call>>

None == -1      \* a null position, and the position nobody gives
Truth(p) == IF p THEN 1 ELSE 0

Returns(op, val, pos, len, ret) ==
    call' = [op |-> op, val |-> val, pos |-> pos, len |-> len, ret |-> ret]

ListInit == item = [i \in {} |-> None] /\ size = 0 /\ call = [op |-> "none"]

Inserted(val, pos) ==
    [i \in 0..size |-> IF i < pos THEN item[i] ELSE IF i = pos THEN val ELSE item[i - 1]]
Removed(pos) == [i \in 0..size - 2 |-> IF i < pos THEN item[i] ELSE item[i + 1]]

\* A list that cannot grow refuses and stays as it is.
ListAdd(val, pos) ==
    \/ /\ Returns("add", val, pos, 0, 1)
       /\ item' = Inserted(val, IF pos = None THEN size ELSE pos) /\ size' = size + 1
    \/ Returns("add", val, pos, 0, 0) /\ UNCHANGED <<item, size>>

ListDel(pos) ==
    /\ Returns("del", None, pos, 0, Truth(pos < size))
    /\ IF pos < size
       THEN item' = Removed(pos) /\ size' = size - 1
       ELSE UNCHANGED <<item, size>>

ListAlter(val, pos) ==
    /\ Returns("alter", val, pos, 0, Truth(pos <= size))
    /\ item' = [i \in 0..size - 1 |-> IF i = pos THEN val ELSE item[i]] /\ UNCHANGED size

ListClear(op) ==
    /\ Returns(op, None, None, 0, 0)
    /\ item' = [i \in {} |-> None] /\ size' = 0

FirstIn(val, range) == {i \in range : item[i] = val /\ \A j \in range : j < i => item[j] # val}

ListFind(val, pos) ==
    /\ UNCHANGED <<item, size>>
    /\ \/ \E i \in FirstIn(val, pos..size - 1) : Returns("find", val, pos, 0, i)
       \/ FirstIn(val, pos..size - 1) = {} /\ Returns("find", val, pos, 0, None)

\* Of a range that reaches the end the last items are missed if it starts in
\* front of len, and what was there before is found if it starts behind.
ListFindIn(val, pos, len, ret) ==
    /\ UNCHANGED <<item, size>>
    /\ Returns("findIn", val, pos, len, ret)
    /\ ret \in {None} \cup 0..2 * MaxItems
    /\ ret \in 0..size - 1 => ret \in FirstIn(val, pos..size - 1)
    /\ ret # None => ret < pos + len \/ pos > len
    /\ ret >= size => pos > len /\ pos + len >= size
    /\ \A i \in pos..size - 1 :
          i < pos + len /\ item[i] = val =>
              ret \in 0..i \/ (pos < len /\ pos + len >= size)

\* Whatever call a step makes, it is answered like that.
ListNext ==
    LET c == call' IN
    \/ c.op = "add" /\ ListAdd(c.val, c.pos)
    \/ c.op = "alter" /\ ListAlter(c.val, c.pos)
    \/ c.op = "del" /\ ListDel(c.pos)
    \/ c.op = "find" /\ ListFind(c.val, c.pos)
    \/ c.op = "findIn" /\ ListFindIn(c.val, c.pos, c.len, c.ret)
    \/ c.op \in {"clean", "reset"} /\ ListClear(c.op)

ListSpec == ListInit /\ [][ListNext]_listVars
=============================================================================
