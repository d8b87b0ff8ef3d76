----------------------------- MODULE MCLibrary -----------------------------
(* The parts of the libraries that share no state, side by side: a behaviour *)
(* picks one of them at the start, which runs while the others rest.         *)
EXTENDS Sockets, NetSockets, Files, ProjectMaker, UdpFront, ReqPool, BaseFiber, Mleak, Array,
        Logging, Config, PathPrinter, Yaml

VARIABLE focus

Parts == {"Sockets", "NetSockets", "Files", "ProjectMaker", "UdpFront", "ReqPool", "BaseFiber",
          "Mleak", "Array", "Logging", "Config", "PathPrinter", "Yaml"}

LibraryInit ==
    /\ focus \in Parts
    /\ SocketsInit /\ NetInit /\ ProjectInit /\ FrontInit /\ PoolInit /\ BaseInit /\ LeakInit /\ ArrayInit
    /\ LogInit /\ ConfigInit /\ PathInit /\ YamlInit

OthersRest ==
    /\ UNCHANGED focus
    /\ IF focus = "Sockets" THEN TRUE ELSE UNCHANGED socketVars
    /\ IF focus = "NetSockets" THEN TRUE ELSE UNCHANGED netVars
    /\ IF focus \in {"Files", "ProjectMaker"} THEN TRUE ELSE UNCHANGED fileVars
    /\ IF focus = "ProjectMaker" THEN TRUE ELSE UNCHANGED <<job, written, known>>
    /\ IF focus = "UdpFront" THEN TRUE ELSE UNCHANGED frontVars
    /\ IF focus = "ReqPool" THEN TRUE ELSE UNCHANGED reqPoolVars
    /\ IF focus = "BaseFiber" THEN TRUE ELSE UNCHANGED baseVars
    /\ IF focus = "Mleak" THEN TRUE ELSE UNCHANGED leakVars
    /\ IF focus = "Array" THEN TRUE ELSE UNCHANGED arrayVars
    /\ IF focus = "Logging" THEN TRUE ELSE UNCHANGED logVars
    /\ IF focus = "Config" THEN TRUE ELSE UNCHANGED configVars
    /\ IF focus = "PathPrinter" THEN TRUE ELSE UNCHANGED pathVars
    /\ IF focus = "Yaml" THEN TRUE ELSE UNCHANGED yamlVars

\* Names of one kind are alike: the first request comes first and takes the first
\* buffer, the first of two makers is given its command first.
FirstRequest == CHOOSE r \in Requests : TRUE
RequestsInOrder ==
    /\ request[FirstRequest].buf = NoRequest.buf
    /\ \A r \in Requests : request[r].pc # "new" => request[FirstRequest].pc # "new"
CommandsInOrder == job["two"].next # "idle" => job["one"].next # "idle"

\* Bound: a line keeps what it was printed by, so that nothing is asked of the
\* loggers once MaxLines lines are out.
MoreLines == FoldFunction(LAMBDA out, n : Len(out) + n, 0, printed) < MaxLines

LibraryNext ==
    \/ focus = "Sockets" /\ SocketsNext /\ OthersRest
    \/ focus = "NetSockets" /\ NetNext /\ OthersRest
    \/ focus = "Files" /\ FilesNext /\ OthersRest
    \/ focus = "ProjectMaker" /\ ProjectNext /\ CommandsInOrder' /\ OthersRest
    \/ focus = "UdpFront" /\ FrontNext /\ OthersRest
    \/ focus = "ReqPool" /\ PoolNext /\ RequestsInOrder' /\ OthersRest
    \/ focus = "BaseFiber" /\ BaseNext /\ OthersRest
    \/ focus = "Mleak" /\ LeakNext /\ OthersRest
    \/ focus = "Array" /\ ArrayNext /\ OthersRest
    \/ focus = "Logging" /\ MoreLines /\ LogNext /\ OthersRest
    \/ focus = "Config" /\ ConfigNext /\ OthersRest
    \/ focus = "PathPrinter" /\ PathNext /\ OthersRest
    \/ focus = "Yaml" /\ YamlNext /\ OthersRest

LibrarySpec ==
    LibraryInit /\ [][LibraryNext]_<<focus, socketVars, netVars, fileVars, job, written, known, frontVars,
                                     reqPoolVars, baseVars, leakVars, arrayVars, logVars, configVars,
                                     pathVars, yamlVars>>

-----------------------------------------------------------------------------
(* Values of the constants. *)

\* All relative and absolute paths of up to four separators and names, one of
\* them made while another maker makes one of three.
Texts(n) ==
    LET names == {"a", "b", ".", ".."}
        proper(s) == \A i \in 1..Len(s) - 1 : s[i] = Slash \/ s[i + 1] = Slash
    IN  {s \in UNION {[1..k -> names \cup {Slash}] : k \in 1..n} : proper(s)}
MCPathTexts == [m \in Makers |->
    IF m = "one" THEN Texts(4)
    ELSE {<<"b", "/", "a">>, <<"..", "/", "b">>, <<".", "/", "a", "/">>}]
MCCwd == <<"a">>
MCIntruders == {<<"b">>, <<"a", "b">>, <<"a", "b", "a">>}

\* Two commands in one place or one above the other, by relative and absolute
\* paths, one with a detour, some with a "." or a doubled separator in the
\* middle or at the end.
MCProjectPaths ==
    { <<"b", "/", "a", "/">>, <<".", "/", "b", "/">>,
      <<"..", "/", "b", "/", "b", "/">>, <<"b", "/", "..", "/", "c", "/">>,
      <<"/", "b", "/", ".", "/", "a", "/">>, <<"b", "/", "/", "b", "/">>, <<"/", "b", "/", ".", "/">> }

\* One format with an unknown key and blanks in an argument, one with braces
\* and a separator in arguments.
MCFormats ==
    LET pattern(k, a) == [key |-> k, arg |-> a] IN
    { <<pattern("s", <<"[">>), pattern("l", <<>>), pattern("x", <<>>), pattern("s", <<"a", " ", "b">>)>>,
      <<pattern("s", <<"a", "}", "b">>), pattern("m", <<>>), pattern("s", <<"a", "/", "b">>)>> }

\* What the theorems about directories and loggers suppose of one path and of one
\* format holds of all these.
ASSUME EachByItself == PathsAreSplit /\ PathsArePlaces /\ FormatsAreRead

\* Texts of one and two lines in all ways, of three and four lines with headers
\* where they belong, and some with names twice or a list of one value.
MCYamlTexts ==
    LET line(l, n, k) ==
            [level |-> l, name |-> n, kind |-> k,
             vals |-> IF k = "map" THEN <<"v">> ELSE IF k = "queue" THEN <<"v", "w">> ELSE <<>>]
        names == <<"a", "b", "c", "d">>
        levels(n) == {f \in [1..n -> 1..MaxLevel] : f[1] = 1}
        under(f, i) == \E j \in {i + 1} \cap DOMAIN f : f[j] > f[i]
    IN  UNION {{[i \in 1..n |-> line(f[i], names[i], k[i])] :
                    f \in levels(n), k \in [1..n -> {"scala", "header", "map", "queue"}]} : n \in 1..2}
        \cup UNION {{[i \in 1..n |-> line(f[i], names[i], IF under(f, i) THEN "header" ELSE k[i])] :
                    f \in levels(n), k \in [1..n -> {"scala", "map"}]} : n \in 3..4}
        \cup {<<line(1, "a", "header"), line(2, "b", "map"), line(2, "b", "scala"),
                line(1, "c", "header"), line(2, "b", "queue")>>,
              <<line(1, "a", "map"), line(1, "a", "queue")>>,
              <<[line(1, "a", "queue") EXCEPT !.vals = <<"v">>]>>}
=============================================================================
