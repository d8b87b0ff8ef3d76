-------------------------------- MODULE Yaml --------------------------------
(***************************************************************************)
(* The configuration reader of DataStruct/src/fyaml: fyaml_loader makes    *)
(* one node of each line of a file, and to_string prints a tree of nodes.  *)
(*                                                                         *)
(* A line is its level, which is one more than its tabs, its name, and     *)
(* what follows the name: nothing ("scala"), ":" alone ("header"), a value *)
(* ("map") or a bracketed list ("queue").  A node is named by its line,    *)
(* the root by 0.  Nodes of the values of one line are never looked at.    *)
(* Only what fits the buffer of 2048 bytes is read; the rest of the buffer *)
(* is zeros, and load_from_file takes them for text: they make a line of   *)
(* their own, of level 1, behind a file that ends its last line, and are   *)
(* part of the last line of any other.                                     *)
(***************************************************************************)
EXTENDS Integers, SequencesExt

CONSTANT YamlTexts      \* the files: sequences of lines

VARIABLES
    lines,          \* m_levels and m_confs
    ended,          \* the file ends its last line
    cursor,         \* auto_make_data: its line, 0 before it begins
    nodes,          \* the nodes made, by line
    latest,         \* level_cur_new, 0 for null except at level 0
    crashed,        \* a null node was used, or an exception left load_line
    output          \* what to_string has printed

yamlVars == <<lines, ended, cursor, nodes, latest, crashed, output>>

Root == 0
Zeros == [level |-> 1, name |-> "", kind |-> "scala", vals |-> <<>>]
Level(i) == lines[i].level
MaxLevel == 3

YamlInit ==
    /\ lines = <<>> /\ ended = TRUE /\ cursor = 0
    /\ nodes = <<>> /\ latest = [l \in 0..MaxLevel |-> 0]
    /\ crashed = FALSE /\ output = <<>>

\* The constructor without parameters
RootNode == [type |-> "ERROR", level |-> 0, len |-> 0, sons |-> <<>>, of |-> <<>>]

\* load_from_file
LoadFile ==
    /\ cursor = 0
    /\ \E text \in YamlTexts, e \in BOOLEAN :
        lines' = (IF e THEN Append(text, Zeros) ELSE text) /\ ended' = e
    /\ cursor' = 1
    /\ nodes' = [i \in {Root} |-> RootNode]
    /\ UNCHANGED <<latest, crashed, output>>

-----------------------------------------------------------------------------
(* fyaml_data::load of line i and the n - 1 lines below it. *)

\* load_line: the values of one line.  A list of one value is taken for empty:
\* the loop wants a comma behind the first.
ValuesOf(line) ==
    CASE line.kind = "map" -> line.vals
      [] line.kind = "queue" /\ Len(line.vals) > 1 -> line.vals
      [] OTHER -> <<>>
\* A header without lines below has no value: substr throws.
Throws(i, n) == n = 1 /\ lines[i].kind = "header"

Kids(i, n) == SelectSeq([k \in 1..n - 1 |-> i + k], LAMBDA k : Level(k) = Level(i) + 1)

Loaded(i, n) ==
    [level |-> Level(i), len |-> n, of |-> <<>>,
     type |-> IF lines[i].kind = "scala" THEN "SCALA"
              ELSE IF Len(Kids(i, n)) > 1 THEN "QUEUE"
              ELSE IF Len(Kids(i, n)) = 1 THEN "MAP"
              ELSE IF n > 1 THEN "ERROR"
              ELSE IF lines[i].kind = "queue" THEN "QUEUE" ELSE "MAP",
     sons |-> IF lines[i].kind = "scala" THEN <<>>
              ELSE IF n = 1 THEN ValuesOf(lines[i])
              ELSE [k \in DOMAIN Kids(i, n) |-> lines[Kids(i, n)[k]].name]]

\* add_son(name, node): a map, where the first one stays.  A node's map is kept as
\* the sequence of its entries.
WithSon(node, i) ==
    IF \E k \in DOMAIN node.of : lines[node.of[k]].name = lines[i].name THEN node
    ELSE [node EXCEPT !.of = Append(@, i)]

\* Mutant: any line of the same level ends a block, one of a higher level does not.
ClosingSame(i) == {j \in i + 1..Len(lines) : Level(j) = Level(i) /\ \A k \in i + 1..j - 1 : Level(k) # Level(i)}

\* The next line that is not below line i.
Closing(i) == {j \in i + 1..Len(lines) : Level(j) <= Level(i) /\ \A k \in i + 1..j - 1 : Level(k) > Level(i)}

\* One line in auto_make_data.  A line that nothing closes is passed over.
MakeData ==
    /\ cursor \in 1..Len(lines) /\ ~crashed
    /\ cursor' = cursor + 1
    /\ IF Closing(cursor) = {} THEN UNCHANGED <<nodes, latest, crashed>>
       ELSE \E j \in Closing(cursor) :
            LET parent == latest[Level(cursor) - 1]
                node == Loaded(cursor, j - cursor)
            IN  IF Throws(cursor, j - cursor) \/ (parent = 0 /\ Level(cursor) > 1)
                THEN crashed' = TRUE /\ UNCHANGED <<nodes, latest>>
                ELSE /\ nodes' = [i \in DOMAIN nodes \cup {cursor} |->
                            IF i = cursor THEN node
                            ELSE IF i # parent THEN nodes[i]
                            ELSE IF parent # Root THEN WithSon(nodes[i], cursor)
                            ELSE [WithSon(nodes[i], cursor) EXCEPT !.sons = Append(@, lines[cursor].name)]]
                     /\ latest' = [latest EXCEPT ![Level(cursor)] = cursor]
                     /\ UNCHANGED crashed
    /\ UNCHANGED <<lines, ended, output>>

-----------------------------------------------------------------------------
\* The son of a node that a name leads to, if any.
Son(i, name) == {k \in Range(nodes[i].of) : lines[k].name = name}

\* What to_string prints for a node, as lines.
RECURSIVE Printed(_)
Printed(i) ==
    LET below == [k \in DOMAIN nodes[i].sons |-> Printed(CHOOSE s \in Son(i, nodes[i].sons[k]) : TRUE)]
        line(kind, vals) ==
            [level |-> nodes[i].level, name |-> lines[i].name, kind |-> kind, vals |-> vals]
    IN  IF i = Root THEN FlattenSeq(below)
        ELSE IF nodes[i].type = "SCALA" THEN <<line("scala", <<>>)>>
        ELSE IF nodes[i].len > 1 THEN <<line("header", <<>>)>> \o FlattenSeq(below)
        ELSE <<line(IF nodes[i].type = "MAP" THEN "map" ELSE "queue", nodes[i].sons)>>

\* Every name in m_sons leads to a node: operator[] makes a null one otherwise.
Whole == \A i \in DOMAIN nodes : nodes[i].len # 1 =>
            \A k \in DOMAIN nodes[i].sons : Son(i, nodes[i].sons[k]) # {}

\* root->to_string
PrintRoot ==
    /\ cursor = Len(lines) + 1 /\ ~crashed
    /\ cursor' = cursor + 1
    /\ crashed' = ~Whole
    /\ output' = IF Whole THEN Printed(Root) ELSE output
    /\ UNCHANGED <<lines, ended, nodes, latest>>

YamlNext == LoadFile \/ MakeData \/ PrintRoot

YamlSpec == YamlInit /\ [][YamlNext]_yamlVars

-----------------------------------------------------------------------------
\* Levels go down one at a time, names differ where a node has several sons,
\* headers have lines below and no other line has, lists have two values.
WellFormed(text) ==
    LET level(i) == text[i].level
        below(i) == i < Len(text) /\ level(i + 1) > level(i)
        parent(i) == {j \in 0..i - 1 : (j = 0 \/ level(j) = level(i) - 1)
                                       /\ \A k \in j + 1..i - 1 : level(k) >= level(i)}
    IN  /\ level(1) = 1
        /\ \A i \in 1..Len(text) :
            /\ below(i) => level(i + 1) = level(i) + 1
            /\ below(i) <=> text[i].kind = "header"
            /\ text[i].kind = "queue" => Len(text[i].vals) > 1
            /\ \A j \in 1..i - 1 : text[j].name = text[i].name => parent(i) \cap parent(j) = {}

\* The text up to its last line of level 1, without it.
BeforeLastBlock(text) ==
    SelectSeq([i \in 1..Len(text) |-> IF \E j \in i + 1..Len(text) : text[j].level = 1
                                      THEN text[i] ELSE Zeros], LAMBDA line : line # Zeros)

\* A well-formed file is read and printed back line by line, and brings nothing
\* down.  If it does not end its last line, the block that line is in is not
\* printed, and may bring the reader down.
PrintsBack ==
    LET text == IF ended THEN SubSeq(lines, 1, Len(lines) - 1) ELSE lines IN
    (cursor > 1 /\ WellFormed(text)) =>
        /\ ended => ~crashed
        /\ (cursor = Len(lines) + 2 /\ ~crashed) =>
              output = IF ended THEN text ELSE BeforeLastBlock(text)
=============================================================================
