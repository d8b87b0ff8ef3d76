---------------------------- MODULE ProjectMaker ----------------------------
(***************************************************************************)
(* The project generator: AutoMake/examples/AutoMaker/AutoMaker.cc with    *)
(* AutoMake/include: commands that make a solution's directories or a      *)
(* project's files, several at a time in one file system, which is that of *)
(* Files, with its paths.  AutoMake's own FileManager::mkdirs is older     *)
(* than lsylar's: it stops at the first mkdir that fails.                  *)
(* AutoMaker.cc calls it through m_file_manager, which nothing sets; the   *)
(* methods touch no member, and the calls are modelled as they work then.  *)
(*                                                                         *)
(* The text of a path is <dir> with its separator, <name>, and a separator *)
(* more.  What a maker writes into a file is one text.                     *)
(***************************************************************************)
EXTENDS Files

CONSTANT ProjectPaths       \* what commands are given: <dir><name>/

VARIABLES
    job,            \* each maker's command, where it is, and whether it lost a race
    written,        \* the texts that were appended: the file and whose it is
    known           \* history: the directories each mkdirs found there, or has made

projectVars == <<dirsMade, plain, job, written, known>>

NoJob == [op |-> "none", text |-> <<>>, at |-> 0, next |-> "idle", sub |-> 0, raced |-> FALSE]

SltDirs == << <<"bin">>, <<"doc">>, <<"src">>, <<"depend">>, <<"depend", "include">>,
              <<"depend", "lib">>, <<"test">>, <<"examples">> >>
PjtFiles == << <<".h">>, <<".cc">>, <<"test_func.cc">>, <<"mk">> >>

ProjectInit ==
    /\ FilesInit /\ job = [m \in Makers |-> NoJob]
    /\ written = {} /\ known = [m \in Makers |-> {}]

\* A path's names to the kernel, from the root.
NamesOf(text) == (IF IsAbs(text) THEN <<>> ELSE Cwd) \o GetDirs(text)
\* The m-th command is at the directory that its mkdirs calls so.
At(m) == SubSeq(DirsOf(job[m].text), 1, job[m].at)
AtLast(m) == job[m].at = Len(DirsOf(job[m].text))
Below(m, list) == NamesOf(job[m].text) \o list[job[m].sub]

Mkdir(names) == dirsMade' = IF CanMake(names) THEN dirsMade \cup {Lead(names)} ELSE dirsMade
Goes(m, to) == job' = [job EXCEPT ![m] = to]
\* mkdirs returns: on to the subdirectories, or to the files.
Returned(m) == [job[m] EXCEPT !.next = job[m].op, !.sub = 1]

\* main: -s or -p.
Command(m) ==
    /\ job[m].next = "idle"
    /\ \E text \in ProjectPaths, op \in {"slt", "pjt"} :
        /\ Defined(text)
        /\ Goes(m, [NoJob EXCEPT !.op = op, !.text = text, !.at = 1,
                                 !.next = IF op = "slt" THEN "stat" ELSE "look"])
    /\ UNCHANGED <<dirsMade, plain, written, known>>

\* mkpjt looks whether its directory is there.
Look(m) ==
    /\ job[m].next = "look"
    /\ LET names == NamesOf(job[m].text) IN
        Goes(m, IF Exists(names) /\ IsDir(Lead(names)) THEN Returned(m)
                ELSE [job[m] EXCEPT !.next = "stat"])
    /\ UNCHANGED <<dirsMade, plain, written, known>>

\* mkdirs, the first loop: to the first directory that is missing, or the end.
SkipDirs(m) ==
    /\ job[m].next = "stat"
    /\ LET there == Exists(At(m)) /\ IsDir(Lead(At(m))) IN
        /\ Goes(m, CASE ~there -> [job[m] EXCEPT !.next = "missing"]
                     [] there /\ AtLast(m) -> [job[m] EXCEPT !.next = "all there"]
                     [] OTHER -> [job[m] EXCEPT !.at = @ + 1])
        /\ known' = [known EXCEPT ![m] = IF there /\ ~AtLast(m) THEN @ ELSE dirsMade]
    /\ UNCHANGED <<dirsMade, plain, written>>

\* The directory that mkdirs is about to make has been made by another command.
Raced(m) == Lead(At(m)) \in dirsMade \ known[m]
Remembers(m) == known' = [known EXCEPT ![m] = IF CanMake(At(m)) THEN @ \cup {Lead(At(m))} ELSE {}]

\* Mutant: without the dir_iter++ between the loops.
MakeDirsAgain(m) ==
    /\ job[m].next \in {"missing", "all there", "rest"}
    /\ Mkdir(At(m)) /\ Remembers(m)
    /\ Goes(m, IF ~CanMake(At(m)) \/ job[m].next = "rest"
               THEN [Returned(m) EXCEPT !.raced = Raced(m)]
               ELSE [job[m] EXCEPT !.next = "rest"])
    /\ UNCHANGED <<plain, written>>

\* mkdirs makes that directory, and in the second loop those below it; it
\* returns when a mkdir fails: the directory has come by now, or its name is
\* "." or empty and leads to the one before.
MakeDirs(m) ==
    /\ job[m].next \in {"missing", "all there", "rest"}
    /\ Mkdir(At(m)) /\ Remembers(m)
    /\ Goes(m, IF ~CanMake(At(m)) THEN [Returned(m) EXCEPT !.raced = Raced(m)]
               ELSE IF AtLast(m) THEN Returned(m)
               ELSE [job[m] EXCEPT !.next = "rest", !.at = @ + 1])
    /\ UNCHANGED <<plain, written>>

NextSub(m, list) ==
    IF job[m].sub < Len(list) THEN [job[m] EXCEPT !.sub = @ + 1, !.next = job[m].op]
    ELSE [job[m] EXCEPT !.next = "done"]

\* mkslt: one subdirectory after the other, in the order of addDir; a failure
\* is logged.
MakeSub(m) ==
    /\ job[m].next = "slt"
    /\ Mkdir(Below(m, SltDirs))
    /\ Goes(m, NextSub(m, SltDirs))
    /\ UNCHANGED <<plain, written, known>>

\* mkpjt, for each file: a new maker's text, and Entry::reopen in mode a+.  A
\* failed fopen is logged, and fwrite is called on the null stream.
OpenFile(m) ==
    /\ job[m].next = "pjt"
    /\ LET names == Below(m, PjtFiles) IN
        IF Reachable(names) /\ ~IsDir(Lead(names))
        THEN plain' = plain \cup {Lead(names)} /\ Goes(m, [job[m] EXCEPT !.next = "open"])
        ELSE UNCHANGED plain /\ Goes(m, [job[m] EXCEPT !.next = "died"])
    /\ UNCHANGED <<dirsMade, written, known>>

\* Entry::write fills the stream, Entry::close appends what is in it.
CloseFile(m) ==
    /\ job[m].next = "open"
    /\ written' = written \cup {<<Lead(Below(m, PjtFiles)), m>>}
    /\ Goes(m, NextSub(m, PjtFiles))
    /\ UNCHANGED <<dirsMade, plain, known>>

ProjectNext ==
    /\ \E m \in Makers :
        \/ Command(m) \/ Look(m) \/ SkipDirs(m) \/ MakeDirs(m)
        \/ MakeSub(m) \/ OpenFile(m) \/ CloseFile(m)
    /\ UNCHANGED maker

ProjectSpec == ProjectInit /\ [][ProjectNext]_<<projectVars, maker>>

-----------------------------------------------------------------------------
\* ".." behind a name: mkdirs takes the two away, the kernel walks through.
Detour(text) ==
    LET names == GetDirs(text) IN
    \E i, j \in 1..Len(names) : i < j /\ names[i] \notin {".", ".."} /\ names[j] = ".."

\* getdirs gives each path its names, and no directory is called like a file of
\* a project: where one is, the file cannot be opened.
FileNames == {PjtFiles[i][1] : i \in DOMAIN PjtFiles}
PathsArePlaces ==
    /\ Cwd \in Seq(STRING \ FileNames)
    /\ \A text \in ProjectPaths : Defined(text) => GetDirs(text) \in Seq(STRING \ FileNames)

\* mkdirs stopped at a name that makes no directory of its own, as in /b/./c/
\* or b//c/ where b was missing: it does not go on to what is below.
Unnamed == {"", ".", ".."}
Halted(text, at) == at \in 2..Len(DirsOf(text)) - 1 /\ DirsOf(text)[at] \in Unnamed

\* A command that ends has made all it was to make where it was meant, and none
\* dies on a file it cannot open: unless another command made a directory
\* between its stat and its mkdir, or its path has a detour, or mkdirs has
\* stopped at a "." or a doubled separator behind a directory it made.
CommandsComplete ==
    \A m \in Makers :
        /\ job[m].next \in {"done", "died"}
        /\ ~job[m].raced /\ ~Detour(job[m].text) /\ ~Halted(job[m].text, job[m].at)
        =>
        /\ job[m].next # "died"
        /\ LET names == NamesOf(job[m].text) IN
            IF job[m].op = "slt" THEN \A i \in DOMAIN SltDirs : IsDir(Lead(names \o SltDirs[i]))
            ELSE \A i \in DOMAIN PjtFiles : <<Lead(names \o PjtFiles[i]), m>> \in written
=============================================================================
