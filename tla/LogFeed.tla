------------------------------ MODULE LogFeed -------------------------------
(***************************************************************************)
(* Log lines on their way to a reader: MemoryLogHandler, setup_logging's   *)
(* rotating file and tail_follow of logs.py, the log buffer and watcher of *)
(* api.py, logs --follow of cli.py.  Lines are numbered as they are logged.*)
(* What a line says and its level are left out.                            *)
(***************************************************************************)
EXTENDS Integers, Sequences

CONSTANTS
    Closed,             \* no open file; no inode
    Capacity,           \* lines the memory handler and the window's buffer keep
    FileLines,          \* lines that fill the file
    MaxLines            \* lines logged

ASSUME LogFeedAssumption ==
    Closed \notin Nat /\ Capacity \in Nat \ {0} /\ FileLines \in Nat \ {0} /\ MaxLines \in Nat

VARIABLES
    logged,     \* lines logged so far
    memory,     \* the memory handler's buffer
    entries,    \* the buffer the window reads: sequence numbers and lines
    logSeq,
    watching,   \* "unbound", "backfilled" or "on"
    lastCount,  \* the watcher's
    logFiles,   \* the content of every file that had the name, in order
    moved,      \* the handler is between renaming the file and opening the next
    tail,       \* the follower: open file, position, inode it took, lines given
    recorded    \* history: the lines that went into entries
logVars == <<logged, memory, entries, logSeq, watching, lastCount, logFiles, moved, tail, recorded>>

Newest(n, s) == IF Len(s) <= n THEN s ELSE SubSeq(s, Len(s) - n + 1, Len(s))

LogInit ==
    /\ logged = 0 /\ memory = <<>> /\ entries = <<>> /\ logSeq = 0
    /\ watching = "unbound" /\ lastCount = 0
    /\ logFiles = <<<<>>>> /\ moved = FALSE
    /\ tail = [file |-> Closed, pos |-> 0, inode |-> Closed, first |-> TRUE, out |-> <<>>,
               at |-> "open"]
    /\ recorded = <<>>

\* The inode of the path: the newest file, unless it was just renamed.
PathInode == IF moved THEN Closed ELSE Len(logFiles)

-----------------------------------------------------------------------------
(* The logger: the memory handler keeps the last lines, the file handler rolls *)
(* over before the line that would not fit                                     *)

Log ==
    /\ logged < MaxLines
    /\ moved \/ Len(logFiles[Len(logFiles)]) < FileLines
    /\ logged' = logged + 1
    /\ memory' = Newest(Capacity, Append(memory, logged'))
    /\ logFiles' = IF moved THEN Append(logFiles, <<logged'>>)
                   ELSE [logFiles EXCEPT ![Len(logFiles)] = Append(@, logged')]
    /\ moved' = FALSE
    /\ UNCHANGED <<entries, logSeq, watching, lastCount, tail, recorded>>
RollOver ==
    /\ logged < MaxLines /\ ~moved /\ Len(logFiles[Len(logFiles)]) = FileLines
    /\ moved' = TRUE
    /\ UNCHANGED <<logged, memory, entries, logSeq, watching, lastCount, logFiles, tail, recorded>>

-----------------------------------------------------------------------------
(* The window *)

\* _record_log of each line
RecordLog(lines) ==
    /\ entries' = Newest(Capacity, entries \o [i \in 1..Len(lines) |->
                            [seq |-> logSeq + i, line |-> lines[i]]])
    /\ logSeq' = logSeq + Len(lines)
    /\ recorded' = recorded \o lines
\* bind_window
Backfill ==
    /\ watching = "unbound" /\ watching' = "backfilled"
    /\ RecordLog(memory)
    /\ UNCHANGED <<logged, memory, lastCount, logFiles, moved, tail>>
StartLogWatcher ==
    /\ watching = "backfilled" /\ watching' = "on"
    /\ lastCount' = Len(memory)
    /\ UNCHANGED <<logged, memory, entries, logSeq, logFiles, moved, tail, recorded>>
\* A turn of the loop: what the buffer has beyond the count of before.
\* A defect: the count is not kept.
WatchTurnForgetful ==
    /\ watching = "on" /\ Len(memory) > lastCount
    /\ RecordLog(SubSeq(memory, lastCount + 1, Len(memory)))
    /\ UNCHANGED <<logged, memory, watching, lastCount, logFiles, moved, tail>>
WatchTurn ==
    /\ watching = "on"
    /\ Len(memory) > lastCount
    /\ RecordLog(SubSeq(memory, lastCount + 1, Len(memory)))
    /\ lastCount' = Len(memory)
    /\ UNCHANGED <<logged, memory, watching, logFiles, moved, tail>>
\* clear_logs
ClearLogs ==
    /\ entries # <<>> /\ entries' = <<>>
    /\ UNCHANGED <<logged, memory, logSeq, watching, lastCount, logFiles, moved, tail, recorded>>

-----------------------------------------------------------------------------
(* tail_follow, with its awaits; a process beside the logger *)

Follow(next) ==
    /\ tail' = next
    /\ UNCHANGED <<logged, memory, entries, logSeq, watching, lastCount, logFiles, moved, recorded>>

\* The first open seeks to the end, a later one starts over.  The inode is asked
\* for afterwards.
TailOpen ==
    /\ tail.at = "open" /\ PathInode # Closed
    /\ Follow([tail EXCEPT !.file = PathInode, !.first = FALSE, !.at = "stat",
               !.pos = IF tail.first THEN Len(logFiles[PathInode]) ELSE 0])
\* A path that is not there leaves the inode unknown.
TailStat == tail.at = "stat" /\ Follow([tail EXCEPT !.inode = PathInode, !.at = "read"])
Rest == SubSeq(logFiles[tail.file], tail.pos + 1, Len(logFiles[tail.file]))
TailRead ==
    /\ tail.at = "read"
    /\ Rest # <<>>
    /\ Follow([tail EXCEPT !.out = @ \o Rest, !.pos = Len(logFiles[tail.file])])
\* Nothing to read before the sleep; after it the path may stand for another file,
\* whatever the open one got in between.
TailCheck ==
    /\ tail.at = "read" /\ tail.inode # PathInode
    /\ Follow([tail EXCEPT !.file = Closed, !.inode = Closed, !.at = "open"])

LogNext ==
    \/ Log \/ RollOver \/ Backfill \/ StartLogWatcher \/ WatchTurn \/ ClearLogs
    \/ TailOpen \/ TailStat \/ TailRead \/ TailCheck
LogSpec == LogInit /\ [][LogNext]_logVars

-----------------------------------------------------------------------------
(* Properties *)

Increasing(s) == \A i, j \in 1..Len(s) : i < j => s[i] < s[j]

\* The window's buffer and the follower get no line twice and none out of order,
\* through the backfill, a full buffer, a rotation and a follower that opened the
\* file just before it was renamed (_start_log_watcher, tail_follow).
LinesOnceInOrder == Increasing(recorded) /\ Increasing(tail.out)
=============================================================================
