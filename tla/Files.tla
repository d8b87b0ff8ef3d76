------------------------------- MODULE Files -------------------------------
(***************************************************************************)
(* Path, Data and FileManager::mkdirs of lsylar/src/File.cc and File.h:    *)
(* several processes make directories in one file system at a time.        *)
(*                                                                         *)
(* The text of a path is a sequence of separators and names; "." and ".."  *)
(* are names.  Texts that make Path::init pop an empty vector (".." beyond *)
(* the root), or take the last of no directories, are undefined in C++ and *)
(* no maker is given one.                                                  *)
(***************************************************************************)
EXTENDS Integers, FiniteSetsExt, SequencesExt

CONSTANTS
    Makers,         \* processes that call mkdirs once
    PathTexts,      \* maker: the paths it may be asked to make
    Cwd,            \* directories of the working directory, from the root
    Intruders       \* directories where a plain file may appear

\* The kernel gives the working directory without detours.
ASSUME FilesAssumption == Cwd \in Seq(STRING \ {"", ".", ".."})

VARIABLES
    dirsMade,       \* the directories that exist, each by its names from the root
    plain,          \* plain files
    maker           \* each maker: its text, the directory it is at, its Data and what it does next

fileVars == <<dirsMade, plain, maker>>

Slash == "/"
Undefined == <<"?">>

-----------------------------------------------------------------------------
(* Path. *)

\* Path::getdirs: what is between the separators; one at either end is skipped.
GetDirs(path) ==
    LET cuts == {i \in 2..Len(path) : path[i] = Slash}
                \cup (IF path[Len(path)] = Slash THEN {} ELSE {Len(path) + 1})
        ends == SetToSortSeq(cuts, <)
        begin(k) == IF k > 1 THEN ends[k - 1] + 1 ELSE IF path[1] = Slash THEN 2 ELSE 1
    IN  [k \in 1..Len(ends) |-> IF begin(k) < ends[k] THEN path[begin(k)] ELSE ""]

IsAbs(path) == path[1] = Slash

\* One name of a relative path, in Path::init.
StepInto(dirs, name) ==
    IF dirs = Undefined \/ name = "." THEN dirs
    ELSE IF name # ".." THEN Append(dirs, name)
    ELSE IF dirs = <<>> THEN Undefined
    ELSE Front(dirs)

\* m_dirs after Path::reset(path): an absolute path is taken as it is.
DirsOf(path) ==
    IF IsAbs(path) THEN GetDirs(path) ELSE FoldLeft(StepInto, Cwd, GetDirs(path))

Defined(path) == DirsOf(path) \notin {<<>>, Undefined}

-----------------------------------------------------------------------------
(* The file system, external: how the kernel walks a path. *)

Walk(dirs, name) ==
    IF name \in {"", "."} THEN dirs
    ELSE IF name # ".." THEN Append(dirs, name)
    ELSE IF dirs = <<>> THEN <<>> ELSE Front(dirs)

\* Where a walk along names leads, from the root.
Lead(names) == FoldLeft(Walk, <<>>, names)
IsDir(dirs) == dirs = <<>> \/ dirs \in dirsMade
\* All but the last of names can be walked through.
Reachable(names) == \A i \in 0..Len(names) - 1 : IsDir(Lead(SubSeq(names, 1, i)))
Exists(names) == Reachable(names) /\ (IsDir(Lead(names)) \/ Lead(names) \in plain)

-----------------------------------------------------------------------------
Idle == [text |-> <<>>, at |-> 0, exit |-> FALSE, isDir |-> FALSE, next |-> "idle"]

FilesInit ==
    /\ dirsMade = {SubSeq(Cwd, 1, i) : i \in 1..Len(Cwd)}
    /\ plain = {}
    /\ maker = [m \in Makers |-> Idle]

\* The directory a maker is at, as it names it: what dir_ss holds.
Prefix(m) == SubSeq(DirsOf(maker[m].text), 1, maker[m].at)

\* Data::reset: m_data keeps the last file that was there, m_exit tells
\* whether that is the one asked for.
Stat(m, names) ==
    [maker[m] EXCEPT !.exit = Exists(names),
                     !.isDir = IF Exists(names) THEN IsDir(Lead(names)) ELSE @]

\* mkdirs(text): a Path, and a Data of its absolute path.
MkdirsBegin(m) ==
    /\ maker[m].next = "idle"
    /\ \E text \in PathTexts[m] :
        /\ Defined(text)
        /\ maker' = [maker EXCEPT ![m] =
                        [Stat(m, DirsOf(text)) EXCEPT !.text = text, !.next = "stat", !.at = 1]]
    /\ UNCHANGED <<dirsMade, plain>>

\* d->reset(dir_ss.str())
MkdirsStat(m) ==
    /\ maker[m].next = "stat"
    /\ maker' = [maker EXCEPT ![m] = [Stat(m, Prefix(m)) EXCEPT !.next = "make"]]
    /\ UNCHANGED <<dirsMade, plain>>

\* On to the next directory, or back to the caller after the last.
Onward(m) ==
    IF maker[m].at < Len(DirsOf(maker[m].text))
    THEN [maker[m] EXCEPT !.at = @ + 1, !.next = "stat"]
    ELSE [maker[m] EXCEPT !.next = "done"]

\* LinuxDirMaker::mkdir succeeds; its failure is logged.
CanMake(names) == ~Exists(names) /\ Reachable(names)

\* Mutant: isDir() alone is looked at, which may be about an earlier directory.
MkdirsMakeStale(m) ==
    /\ maker[m].next = "make"
    /\ dirsMade' = dirsMade \cup
            (IF ~maker[m].isDir /\ CanMake(Prefix(m)) THEN {Lead(Prefix(m))} ELSE {})
    /\ maker' = [maker EXCEPT ![m] = Onward(m)]
    /\ UNCHANGED plain

\* mkdir(), unless the directory was there; its failure does not end the loop.
MkdirsMake(m) ==
    /\ maker[m].next = "make"
    /\ dirsMade' = dirsMade \cup
            (IF ~(maker[m].exit /\ maker[m].isDir) /\ CanMake(Prefix(m))
             THEN {Lead(Prefix(m))} ELSE {})
    /\ maker' = [maker EXCEPT ![m] = Onward(m)]
    /\ UNCHANGED plain

\* Somebody else makes a plain file.
Intrude ==
    \E f \in Intruders :
        /\ ~Exists(f) /\ Reachable(f)
        /\ plain' = plain \cup {f}
        /\ UNCHANGED <<dirsMade, maker>>

FilesNext ==
    \/ \E m \in Makers : MkdirsBegin(m) \/ MkdirsStat(m) \/ MkdirsMake(m)
    \/ Intrude

FilesSpec == FilesInit /\ [][FilesNext]_fileVars

-----------------------------------------------------------------------------
\* What a maker's text means to the kernel, from the working directory.
Meant(text) == Lead((IF IsAbs(text) THEN <<>> ELSE Cwd) \o GetDirs(text))

\* ".." behind a doubled separator takes back the empty name between the two.
DoubledUp(text) ==
    \E i \in 1..Len(GetDirs(text)) : GetDirs(text)[i] = "" /\ ~IsAbs(text)
        /\ \E j \in i..Len(GetDirs(text)) : GetDirs(text)[j] = ".."

\* getdirs gives each path its names.
PathsAreSplit ==
    \A m \in Makers : \A text \in PathTexts[m] : Defined(text) => GetDirs(text) \in Seq(STRING)

\* When mkdirs returns, the directory that was meant exists, whoever else was
\* making directories at the same time, unless a plain file is in the way.
\* The path it made is the one that was meant, unless separators are doubled.
MkdirsMakes ==
    \A m \in Makers : maker[m].next = "done" =>
        LET dirs == DirsOf(maker[m].text)
        IN  /\ DoubledUp(maker[m].text) \/ Lead(dirs) = Meant(maker[m].text)
            /\ \/ IsDir(Lead(dirs))
               \/ \E i \in 1..Len(dirs) : Lead(SubSeq(dirs, 1, i)) \in plain
=============================================================================
