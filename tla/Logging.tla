------------------------------ MODULE Logging ------------------------------
(***************************************************************************)
(* Loggers, formatters and appandars of lsylar/include/Log.h and Log.cc,   *)
(* called one at a time: nothing in them is locked.                        *)
(*                                                                         *)
(* A format is a sequence of separators, braces, blanks and words; a line  *)
(* is the items that printed it and the width of its message.  A format is *)
(* written as a list of patterns, each a key and an argument.              *)
(***************************************************************************)
EXTENDS Naturals, FiniteSetsExt, Functions, SequencesExt

CONSTANTS
    Loggers, Appandars,
    FileAppandars,          \* appandars that are FileAppandar, which prints nothing
    Formats,        \* the formats programs write, as lists of patterns
    LogLevels,      \* levels in use: the position in the enum, FATAL is 0
    Lengths,        \* lengths of messages
    MaxLines,       \* bound on the lines printed
    MaxListed,      \* bound on a logger's list
    MaxTold         \* bound on the formats a formatter is told

ASSUME LoggingAssumption ==
    /\ Loggers \cap Appandars = {} /\ Formats # {} /\ Lengths \subseteq Nat

VARIABLES
    m_items,        \* a formatter's items; formatters are named by the logger that made them
    m_format,       \* a formatter's format
    formatter,      \* a logger's m_def_formatter
    m_appandars,    \* a logger's list
    m_level,        \* an appandar's level
    printed,        \* appandar, or logger for its default one: lines printed
    told            \* history: the formats a formatter was made with and reset to

logVars == <<m_items, m_format, formatter, m_appandars, m_level, printed, told>>

Split == "/"
DEBUG == 4
Keys == {"l", "tab", "nl", "m", "fn", "s", "ln", "lm", "func", "sp"}

\* How a format of patterns is written; blanks are for the reader.
Written(format) ==
    FlattenSeq([i \in DOMAIN format |->
        <<Split, format[i].key>>
        \o (IF format[i].arg = <<>> THEN <<>> ELSE <<"{">> \o format[i].arg \o <<"}">>) \o <<" ">>])

-----------------------------------------------------------------------------
(* Formatter::initFormatItem *)

\* What stands between the braces; nothing after the first closing one counts.
Argument(str) ==
    LET at(c) == {i \in DOMAIN str : str[i] = c}
        end == IF Min(at("}")) < Min(at("{")) THEN Len(str) ELSE Min(at("}")) - 1
    IN  SubSeq(str, Min(at("{")) + 1, end)

\* One pattern: its key, and an argument if both braces are there.
Item(str) ==
    IF Contains(str, "{") /\ Contains(str, "}")
    THEN [key |-> SubSeq(str, 1, Min({i \in DOMAIN str : str[i] = "{"}) - 1), arg |-> Argument(str)]
    ELSE [key |-> str, arg |-> <<>>]

\* The items of a format: patterns begin at a separator; what precedes the first
\* is dropped, and so is a pattern whose key is unknown.
FormatItems(text) ==
    LET pure == SelectSeq(text, LAMBDA c : c # " ")
        splits == SetToSortSeq({i \in DOMAIN pure : pure[i] = Split} \cup {Len(pure) + 1}, <)
        patterns == [k \in 1..Len(splits) - 1 |-> Item(SubSeq(pure, splits[k] + 1, splits[k + 1] - 1))]
    IN  SelectSeq(patterns, LAMBDA p : \E key \in Keys : p.key = <<key>>)

-----------------------------------------------------------------------------
LogInit ==
    LET first == CHOOSE f \in Formats : TRUE IN
    /\ m_format = [l \in Loggers |-> Written(first)]
    /\ m_items = [l \in Loggers |-> FormatItems(Written(first))]
    /\ told = [l \in Loggers |-> <<first>>]
    /\ formatter = [l \in Loggers |-> l]
    /\ m_appandars = [l \in Loggers |-> <<>>]
    /\ m_level = [a \in Appandars |-> DEBUG]
    /\ printed = [a \in Appandars \cup Loggers |-> <<>>]

\* setFormat: nothing looks at m_format until the next resetFormat, which sets it too.
SetFormat(f) ==
    /\ \E format \in Formats : m_format' = [m_format EXCEPT ![f] = Written(format)]
    /\ UNCHANGED <<m_items, formatter, m_appandars, m_level, printed, told>>

\* Mutant: the items are made before the format is set.
ResetFormatForgets(f) ==
    /\ Len(told[f]) < MaxTold
    /\ \E format \in Formats :
        /\ m_format' = [m_format EXCEPT ![f] = Written(format)]
        /\ m_items' = [m_items EXCEPT ![f] = @ \o FormatItems(m_format[f])]
        /\ told' = [told EXCEPT ![f] = Append(@, format)]
    /\ UNCHANGED <<formatter, m_appandars, m_level, printed>>

\* resetFormat: the new items come behind the old ones.
ResetFormat(f) ==
    /\ Len(told[f]) < MaxTold
    /\ \E format \in Formats :
        /\ m_format' = [m_format EXCEPT ![f] = Written(format)]
        /\ m_items' = [m_items EXCEPT ![f] = @ \o FormatItems(m_format'[f])]
        /\ told' = [told EXCEPT ![f] = Append(@, format)]
    /\ UNCHANGED <<formatter, m_appandars, m_level, printed>>

\* setFormatter with a format makes a new formatter for the logger, and so may a
\* caller who hands one over by pointer.  It takes the logger's name, which has
\* to be free.
NewFormatter(l) ==
    /\ \A o \in Loggers \ {l} : formatter[o] # l
    /\ formatter' = [formatter EXCEPT ![l] = l]
    /\ \E format \in Formats :
        /\ m_format' = [m_format EXCEPT ![l] = Written(format)]
        /\ m_items' = [m_items EXCEPT ![l] = FormatItems(Written(format))]
        /\ told' = [told EXCEPT ![l] = <<format>>]
    /\ UNCHANGED <<m_appandars, m_level, printed>>

\* setFormatter with a formatter somebody has; two loggers may share one.
SetFormatter(l) ==
    /\ \E f \in Loggers : formatter' = [formatter EXCEPT ![l] = f]
    /\ UNCHANGED <<m_items, m_format, m_appandars, m_level, printed, told>>

AddAppandar(l) ==
    /\ Len(m_appandars[l]) < MaxListed
    /\ \E a \in Appandars : m_appandars' = [m_appandars EXCEPT ![l] = Append(@, a)]
    /\ UNCHANGED <<m_items, m_format, formatter, m_level, printed, told>>

SetLevel(a) ==
    /\ \E level \in LogLevels : m_level' = [m_level EXCEPT ![a] = level]
    /\ UNCHANGED <<m_items, m_format, formatter, m_appandars, printed, told>>

-----------------------------------------------------------------------------
\* Event::getMessage: the message and blanks up to the next multiple of 56.
Padded(length) == 56 * (length \div 56 + 1)

\* An event and the stream its message is written to; its other fields are not
\* told apart.
Event(length) == [length |-> length, width |-> Padded(length)]

\* How often a logger's list has an appandar that takes the level.
Takes(l, a, level) ==
    IF m_level[a] >= level /\ a \notin FileAppandars
    THEN Cardinality({i \in DOMAIN m_appandars[l] : m_appandars[l][i] = a}) ELSE 0

\* FormatItem and its classes: what is printed is the event's, item by item, and
\* the class of an item is its key.
Line(event, items, formats) == [event |-> event, items |-> items, told |-> formats]

\* Formatter::generate: every item prints the event, one behind the other.
Generate(f, event) == Line(event, m_items[f], told[f])

\* ~EventVar: the line goes to the logger's appandars, or to its default one,
\* which has no level to compare.
Log(l) ==
    \E level \in LogLevels, length \in Lengths :
        LET line == Generate(formatter[l], Event(length))
            times(a) == IF a \in Loggers
                        THEN IF a = l /\ m_appandars[l] = <<>> THEN 1 ELSE 0
                        ELSE Takes(l, a, level)
        IN  /\ printed' = [a \in DOMAIN printed |-> printed[a] \o [i \in 1..times(a) |-> line]]
            /\ FoldFunction(LAMBDA lines, n : Len(lines) + n, 0, printed') <= MaxLines
            /\ UNCHANGED <<m_items, m_format, formatter, m_appandars, m_level, told>>

LogNext ==
    \/ \E l \in Loggers :
        \/ SetFormat(l) \/ ResetFormat(l) \/ NewFormatter(l) \/ SetFormatter(l)
        \/ AddAppandar(l) \/ Log(l)
    \/ \E a \in Appandars : SetLevel(a)

LogSpec == LogInit /\ [][LogNext]_logVars

-----------------------------------------------------------------------------
\* The patterns of a format that are understood: those with a known key and no
\* separator in the argument, which ends at a closing brace.
Understood(format) ==
    LET kept == SelectSeq(format, LAMBDA p : p.key \in Keys /\ ~Contains(p.arg, Split))
        arg(p) == SelectSeq(SubSeq(p.arg, 1, Min({i \in DOMAIN p.arg : p.arg[i] = "}"}
                                                   \cup {Len(p.arg) + 1}) - 1), LAMBDA c : c # " ")
    IN  [i \in DOMAIN kept |-> [key |-> <<kept[i].key>>, arg |-> arg(kept[i])]]

\* By itself, each format is read as it was meant.
FormatsAreRead ==
    \A format \in Formats :
        /\ Understood(format) \in Seq([key : Seq(STRING), arg : Seq(STRING)])
        /\ FormatItems(Written(format)) = Understood(format)

\* A line is printed by every format its formatter was ever told, one behind the
\* other, as it was written, whoever told it and whichever logger printed; the
\* column behind the message is at a multiple of 56, never touching the message.
LinesAsTold ==
    \A a \in DOMAIN printed : \A i \in DOMAIN printed[a] :
        LET line == printed[a][i] IN
        /\ line.items = FlattenSeq([k \in DOMAIN line.told |-> Understood(line.told[k])])
        /\ line.event.width % 56 = 0 /\ line.event.length < line.event.width
=============================================================================
