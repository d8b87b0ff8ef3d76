---------------------------- MODULE PathPrinter ----------------------------
(***************************************************************************)
(* The program lsylar/src/tct.cc: a depth-first search over a graph of     *)
(* eight points that prints paths through all of them.  Weights are only   *)
(* printed and left out.                                                   *)
(***************************************************************************)
EXTENDS Naturals, Sequences, FiniteSets

VARIABLES
    vec,            \* the path
    hp,             \* points marked as visited
    frames,         \* calls of pp: the sides each has still to try
    entering,       \* a call of pp has just begun
    prints,         \* the paths printed
    total_print

pathVars == <<vec, hp, frames, entering, prints, total_print>>

\* init_grap: point p has sides to Grap[p + 1].
Grap == <<
    {2, 4, 6, 7}, {2, 3, 5, 7}, {0, 1, 3, 6, 7}, {1, 2, 6},
    {0, 5, 6, 7}, {1, 4, 7}, {0, 2, 3, 4}, {0, 1, 2, 4, 5}>>
Points == 0..7
Begin == 5
Sides(p) == Grap[p + 1]
InVec(p) == \E i \in DOMAIN vec : vec[i] = p

\* print_tree
PathInit ==
    /\ vec = <<Begin>> /\ hp = {} /\ frames = <<>> /\ entering = TRUE
    /\ prints = {} /\ total_print = 0

\* Mutant: the mark stays.
BackKeepsMark == vec' = SubSeq(vec, 1, Len(vec) - 1) /\ UNCHANGED hp

\* Back in the caller: the point is unmarked and taken off.
Back ==
    /\ hp' = hp \ {vec[Len(vec)]}
    /\ vec' = SubSeq(vec, 1, Len(vec) - 1)

\* have_end: there is a side to a point that is not marked, so pp goes through
\* the sides of the last point, in ascending order.
Descend ==
    /\ entering /\ entering' = FALSE
    /\ Sides(vec[Len(vec)]) \ hp # {}
    /\ frames' = Append(frames, Sides(vec[Len(vec)]))
    /\ UNCHANGED <<vec, hp, prints, total_print>>

\* No such side: full_print, and back.
PrintPath ==
    /\ entering /\ entering' = FALSE
    /\ Sides(vec[Len(vec)]) \ hp = {}
    /\ IF Len(vec) = 8
       THEN prints' = prints \cup {vec} /\ total_print' = total_print + 1
       ELSE UNCHANGED <<prints, total_print>>
    /\ Back
    /\ UNCHANGED frames

\* The next side: on to its point, unless that is in the path.
NextSide ==
    LET d == Len(frames) IN
    /\ ~entering /\ d > 0
    /\ \E s \in frames[d] :
        /\ \A t \in frames[d] : s <= t
        /\ frames' = [frames EXCEPT ![d] = @ \ {s}]
        /\ IF InVec(s)
           THEN UNCHANGED <<vec, hp, entering>>
           ELSE vec' = Append(vec, s) /\ hp' = hp \cup {s} /\ entering' = TRUE
    /\ UNCHANGED <<prints, total_print>>

\* All sides tried: the call returns.
Return ==
    LET d == Len(frames) IN
    /\ ~entering /\ d > 0 /\ frames[d] = {}
    /\ frames' = SubSeq(frames, 1, d - 1)
    /\ IF d > 1 THEN Back ELSE UNCHANGED <<vec, hp>>
    /\ UNCHANGED <<entering, prints, total_print>>

PathNext == Descend \/ PrintPath \/ NextSide \/ Return

PathSpec == PathInit /\ [][PathNext]_pathVars

-----------------------------------------------------------------------------
\* All paths from Begin of n points, none of them twice.
PathsOf[n \in 1..8] ==
    IF n = 1 THEN {<<Begin>>}
    ELSE UNION {{Append(p, q) : q \in Sides(p[n - 1]) \ {p[i] : i \in 1..n - 1}} : p \in PathsOf[n - 1]}

\* When the search is over it has printed, each once, the paths through all points
\* from whose end no side leads back to the beginning: the beginning is never
\* marked, so that with such a side the search looks for more.
PrintsOpenPaths ==
    (~entering /\ frames = <<>>) =>
        /\ prints = {p \in PathsOf[8] : Begin \notin Sides(p[8])}
        /\ total_print = Cardinality(prints)
=============================================================================
