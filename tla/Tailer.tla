------------------------------- MODULE Tailer -------------------------------
(***************************************************************************)
(* The SSH brute-force tailer, internal/logtail: Run of tail.go follows    *)
(* the auth log by polling, and the tracker of tracker.go counts the       *)
(* failed authentications per source address.                              *)
(*                                                                         *)
(* Files are inodes; a file is a sequence of half lines, so that the       *)
(* tailer can meet a line that is not complete yet.  The system logger     *)
(* appends to the inode it has open while the log is renamed, recreated    *)
(* and truncated under both programs.                                      *)
(***************************************************************************)
EXTENDS Integers, Sequences, FiniteSets, SequencesExt

CONSTANTS
    Ip,             \* source addresses
    NoIp,           \* of a line that is no failed authentication
    Threshold,      \* Config.Threshold
    Window,         \* Config.Window
    MaxLines,       \* bounds of the model: lines written,
    MaxRotations,   \*     renames,
    MaxTruncations, \*     truncations,
    MaxClock        \*     time

ASSUME TailerAssumption ==
    /\ NoIp \notin Ip
    /\ Threshold \in Nat \ {0} /\ Window \in Nat \ {0}
    /\ MaxLines \in Nat /\ MaxRotations \in Nat /\ MaxTruncations \in Nat /\ MaxClock \in Nat

VARIABLES
    content,    \* file system: the half lines of every inode
    path,       \* file system: the inode at Config.Path, 0 if there is none
    logger,     \* system logger: the inode it appends to
    lines,      \* lines begun so far
    rotations,  \* renames so far
    truncations, \* truncations so far
    clock,
    pc,         \* Run: waiting for the ticker, or where in the poll it is
    fd,         \* Run: f and its position, or Closed
    buf,        \* Run: what reader has buffered
    offset,     \* Run: offset
    hit,        \* tracker.hit: the times per address, oldest first
    handled,    \* history: the lines given to handleLine, and the alerts
    skipped,    \* history: the lines openAtEnd left out
    fails       \* history: per address, the failures since its last alert

fileVars == <<content, path, logger, lines, rotations, truncations>>
tailVars == <<pc, fd, buf, offset, skipped>>
trackVars == <<hit, handled, fails>>
vars == <<fileVars, clock, tailVars, trackVars>>

Inode == 1 .. MaxRotations + 1

Closed == [ino |-> 0, pos |-> 0]

-----------------------------------------------------------------------------
(* The file system and the system logger.                                  *)

Half(ip, end) == [line |-> lines', ip |-> ip, end |-> end]

Pending == content[logger] # <<>> /\ ~Last(content[logger]).end

AppendHalves(halves) ==
    /\ content' = [content EXCEPT ![logger] = @ \o halves]
    /\ UNCHANGED <<path, logger, rotations, truncations, clock, tailVars, trackVars>>

WriteHalf(ip) ==
    /\ lines < MaxLines /\ ~Pending
    /\ lines' = lines + 1
    /\ AppendHalves(<<Half(ip, FALSE)>>)

WriteRest ==
    /\ Pending
    /\ UNCHANGED lines
    /\ AppendHalves(<<[Last(content[logger]) EXCEPT !.end = TRUE]>>)

\* logrotate renames the log ...
RenameAway ==
    /\ path # 0
    /\ rotations < MaxRotations
    /\ rotations' = rotations + 1
    /\ path' = 0
    /\ UNCHANGED <<content, logger, lines, truncations, clock, tailVars, trackVars>>

\* ... creates a new one ...
Create ==
    /\ path = 0
    /\ path' = rotations + 1
    /\ UNCHANGED <<content, logger, lines, rotations, truncations, clock, tailVars, trackVars>>

\* ... and tells the logger to reopen it.
ReopenLogger ==
    /\ path # 0 /\ logger # path /\ ~Pending
    /\ logger' = path
    /\ UNCHANGED <<content, path, lines, rotations, truncations, clock, tailVars, trackVars>>

\* copytruncate.
Truncate ==
    /\ path # 0 /\ content[path] # <<>>
    /\ truncations < MaxTruncations
    /\ truncations' = truncations + 1
    /\ content' = [content EXCEPT ![path] = <<>>]
    /\ UNCHANGED <<path, logger, lines, rotations, clock, tailVars, trackVars>>

Tick ==
    /\ clock < MaxClock
    /\ clock' = clock + 1
    /\ UNCHANGED <<fileVars, tailVars, trackVars>>

-----------------------------------------------------------------------------
(* Run.                                                                    *)

Size(ino) == Len(content[ino])

TailStep == pc # "done" /\ UNCHANGED <<fileVars, clock>>

\* The ticker fired; without a file openAtEnd is tried first.
PollOpen ==
    /\ TailStep /\ pc = "wait" /\ fd = Closed
    /\ path # 0
    /\ fd' = [ino |-> path, pos |-> Size(path)]
    /\ offset' = Size(path)
    /\ buf' = <<>>
    /\ skipped' = skipped \cup {content[path][i].line : i \in {j \in 1 .. Size(path) : content[path][j].end}}
    /\ pc' = "stat"
    /\ UNCHANGED trackVars

Poll ==
    /\ TailStep /\ pc = "wait" /\ fd # Closed
    /\ pc' = "stat"
    /\ UNCHANGED <<fd, buf, offset, skipped, trackVars>>

\* os.Stat of the path: did the file shrink below our offset?
Stat ==
    /\ TailStep /\ pc = "stat"
    /\ pc' = IF path # 0 /\ Size(path) < offset THEN "reopen" ELSE "read"
    /\ UNCHANGED <<fd, buf, offset, skipped, trackVars>>

ReopenKeepingOffset ==
    /\ TailStep /\ pc = "reopen"
    /\ IF path = 0
       THEN fd' = Closed /\ pc' = "wait" /\ UNCHANGED buf
       ELSE fd' = [ino |-> path, pos |-> 0] /\ pc' = "read" /\ buf' = <<>>
    /\ UNCHANGED <<offset, skipped, trackVars>>

\* The file may be gone again; then the next poll starts over at the end.
Reopen ==
    /\ TailStep /\ pc = "reopen"
    /\ IF path = 0
       THEN fd' = Closed /\ pc' = "wait" /\ UNCHANGED <<buf, offset>>
       ELSE fd' = [ino |-> path, pos |-> 0] /\ pc' = "read" /\ buf' = <<>> /\ offset' = 0
    /\ UNCHANGED <<skipped, trackVars>>

LineEnd == SelectInSeq(buf, LAMBDA h : h.end)

\* ReadString has no whole line in its buffer and reads on.
ReadMore ==
    /\ TailStep /\ pc = "read" /\ LineEnd = 0
    /\ fd.pos < Size(fd.ino)
    /\ buf' = buf \o SubSeq(content[fd.ino], fd.pos + 1, Size(fd.ino))
    /\ fd' = [fd EXCEPT !.pos = Size(fd.ino)]
    /\ UNCHANGED <<pc, offset, skipped, trackVars>>

EndOfFileNoSeek ==
    /\ TailStep /\ pc = "read" /\ LineEnd = 0
    /\ fd.pos >= Size(fd.ino)
    /\ buf' = <<>>
    /\ pc' = "wait"
    /\ UNCHANGED <<fd, offset, skipped, trackVars>>

\* EOF.  A partial line is given back: seek to offset and a new reader.
EndOfFile ==
    /\ TailStep /\ pc = "read" /\ LineEnd = 0
    /\ fd.pos >= Size(fd.ino)
    /\ fd' = IF buf = <<>> THEN fd ELSE [fd EXCEPT !.pos = offset]
    /\ buf' = <<>>
    /\ pc' = "wait"
    /\ UNCHANGED <<offset, skipped, trackVars>>

-----------------------------------------------------------------------------
(* handleLine and the tracker.                                             *)

\* The loop over an address's times: those after the cutoff, in their order.
After(ts, cutoff) ==
    LET kept[i \in 0 .. Len(ts)] ==
          IF i = 0 THEN <<>>
          ELSE IF ts[i] > cutoff THEN Append(kept[i - 1], ts[i]) ELSE kept[i - 1]
    IN  kept[Len(ts)]

freshShort(ip) == After(hit[ip], clock - Window + 1)

fresh(ip) == After(hit[ip], clock - Window)

Fires(ip) == Len(fresh(ip)) + 1 >= Threshold

addNoReset(ip) ==
    /\ hit' = [hit EXCEPT ![ip] = Append(fresh(ip), clock)]
    /\ fails' = [fails EXCEPT ![ip] = IF Fires(ip) THEN <<>> ELSE Append(@, clock)]

\* tracker.add: the alert resets the address.
add(ip) ==
    /\ hit' = [hit EXCEPT ![ip] = IF Fires(ip) THEN <<>> ELSE Append(fresh(ip), clock)]
    /\ fails' = [fails EXCEPT ![ip] = IF Fires(ip) THEN <<>> ELSE Append(@, clock)]

\* A whole line names its address; pieces of lines may or may not match.
Line == SubSeq(buf, 1, LineEnd)

WholeLine == Len(Line) = 2 /\ Line[1].line = Line[2].line /\ ~Line[1].end

FailedAuthIP ==
    IF WholeLine THEN {Line[1].ip} ELSE {NoIp} \cup {Line[i].ip : i \in DOMAIN Line}

\* The alert that handleLine returns, by its address.
AlertFor(ip) == IF ip # NoIp /\ Fires(ip) THEN ip ELSE NoIp

HandleLine ==
    /\ TailStep /\ pc = "read" /\ LineEnd # 0
    /\ offset' = offset + LineEnd
    /\ buf' = SubSeq(buf, LineEnd + 1, Len(buf))
    /\ \E ip \in FailedAuthIP :
          /\ handled' = Append(handled, [line |-> Last(Line).line, alert |-> AlertFor(ip)])
          /\ IF ip = NoIp THEN UNCHANGED <<hit, fails>> ELSE add(ip)
    /\ UNCHANGED <<pc, fd, skipped>>

\* ctx is done; it is looked at between two polls only.
Cancel ==
    /\ pc = "wait"
    /\ pc' = "done"
    /\ UNCHANGED <<fileVars, clock, fd, buf, offset, skipped, trackVars>>

-----------------------------------------------------------------------------
OldLine == [line |-> 0, ip |-> NoIp, end |-> TRUE]

\* There is no log yet, or one with history in it.
Init ==
    /\ path \in {0, 1} /\ logger = 1
    /\ content = [i \in Inode |-> IF i = path THEN <<OldLine>> ELSE <<>>]
    /\ lines = 0 /\ rotations = 0 /\ truncations = 0 /\ clock = 1
    /\ pc = "wait" /\ fd = Closed /\ buf = <<>> /\ offset = 0
    /\ hit = [ip \in Ip |-> <<>>] /\ fails = [ip \in Ip |-> <<>>]
    /\ handled = <<>> /\ skipped = {}

Run == PollOpen \/ Poll \/ Stat \/ Reopen \/ ReadMore \/ EndOfFile \/ HandleLine

Write == \E ip \in Ip \cup {NoIp} : WriteHalf(ip)

Next ==
    \/ Run \/ Cancel \/ Tick
    \/ Write \/ WriteRest
    \/ RenameAway \/ Create \/ ReopenLogger \/ Truncate

Spec == Init /\ [][Next]_vars

\* The ticker keeps firing and reads of a local file return.
FairSpec == Spec /\ WF_vars(Run)

-----------------------------------------------------------------------------
(* Properties.                                                             *)

\* No line is handled twice or out of order, and none that was in the file when
\* the tailer opened it at its end, through partial lines, truncations under an
\* open descriptor and renames between the stat, the open and the read.
HandledOnce ==
    /\ \A i, j \in DOMAIN handled : i < j => handled[i].line < handled[j].line
    /\ \A i \in DOMAIN handled : handled[i].line \notin skipped

\* The offset is the position of the first byte not handled: it is what the
\* rotation check compares and where a partial line is re-read.
OffsetInSync == pc \in {"read", "wait"} /\ fd # Closed => offset + Len(buf) = fd.pos

\* A complete line after the offset has not been handled.
Unread == \E i \in offset + 1 .. Size(fd.ino) : content[fd.ino][i].end

\* While it has the log open the tailer catches up with it again and again,
\* partial lines and truncations included.
CatchesUp ==
    []<>(\/ pc = "done" \/ path = 0 \/ fd.ino # path
         \/ pc = "wait" /\ ~Unread)

\* No burst goes unreported: there are never Threshold failures of one address
\* within Window since its last alert.
BurstsReported ==
    \A ip \in Ip : \A i \in DOMAIN fails[ip] :
        LET last == i + Threshold - 1
        IN  last \in DOMAIN fails[ip] => fails[ip][last] - fails[ip][i] >= Window

\* An alert stands for Threshold failures of its own, the oldest within Window:
\* it never counts one that an earlier alert has counted.
AlertsJustified ==
    [][handled' # handled =>
          \A ip \in Ip : Last(handled').alert = ip =>
             /\ Len(fails[ip]) + 1 >= Threshold
             /\ Threshold > 1 => clock - fails[ip][Len(fails[ip]) - Threshold + 2] < Window]_vars

\* What Run says of itself: it re-opens the file on rotation.  While there is a
\* log, the tailer keeps coming back to the file that the logger writes.
FollowsRotation ==
    []<>(fd.ino = path \/ path = 0 \/ pc = "done")
=============================================================================
