------------------------------- MODULE LogFiles -------------------------------
(***************************************************************************)
(* One stream of log files (shared/diagnostics/src/output.rs), which the   *)
(* writer thread of Diagnostics writes through RotatingOutput, over        *)
(* restarts of the application and failures of the file system.            *)
(*                                                                         *)
(* The active file is rotated when it is full or, with a retention age, a  *)
(* rotation interval after it was started; it is removed with every stale  *)
(* file when it is as old as that age.  A line is its number, or 0 if its  *)
(* write failed half-way; the size of a file is its number of lines.       *)
(* Every step of a write may fail after those before it took effect.       *)
(* Permissions matter only in that setting them may fail, and the copy on  *)
(* stderr is left out.                                                     *)
(***************************************************************************)
EXTENDS Integers, Sequences, FiniteSets, SequencesExt

CONSTANTS
  MaxBytes,   \* max_file_bytes, in lines
  History,    \* max_log_files - 1
  MaxAge,     \* max_file_age: a set of at most one number
  Day,        \* MAX_ROTATION_INTERVAL
  MaxLines,   \* bound: lines written
  MaxNow      \* bound: the clock

LogFilesAssumption ==
  /\ {MaxBytes, Day, MaxLines, MaxNow} \subseteq Nat \ {0} /\ History \in Nat
  /\ MaxAge \subseteq Nat \ {0} /\ Cardinality(MaxAge) <= 1

VARIABLES
  now,
  active,       \* the active file, a set of at most one [lines, first, modified];
                \* `first` is of its first line, and kept no longer once it is rotated
  rotated,      \* the numbered files, .1 first
  running,      \* an application has a RotatingOutput
  file,         \* RotatingOutput::file is Some
  activeBytes,
  activeStarted,
  failure,      \* OutputFailure: what the writer thread remembers
  total         \* lines written so far

diskVars == <<active, rotated>>
ownVars  == <<file, activeBytes, activeStarted>>
vars == <<now, diskVars, running, ownVars, failure, total>>

Empty == [lines |-> <<>>, first |-> 0, modified |-> now]
Added(f, line) == [lines |-> Append(f.lines, line), modified |-> now,
                   first |-> IF f.lines = <<>> THEN now ELSE f.first]

\* prune_stale_logs removes these, or fails with some of them removed.
Stale(f)   == \E age \in MaxAge : now - f.modified >= age
Fresh(fs)  == SelectSeq(fs, LAMBDA f : ~Stale(f))
PruneFails == \E left \in SUBSET {i \in 1..Len(rotated) : Stale(rotated[i])} :
                rotated' = SelectSeq(rotated, LAMBDA f :
                  \E i \in 1..Len(rotated) : f = rotated[i] /\ (Stale(f) => i \in left))

(***************************************************************************)
(* RotatingOutput::with_stderr.                                            *)
(***************************************************************************)
NoBytes(f)   == 0
FileBytes(f) == Len(f.lines)

FreshActive == {f \in active : ~Stale(f)}
Prepared    == IF FreshActive = {} THEN {Empty} ELSE FreshActive   \* prepare_active_file

Start ==
  /\ ~running /\ running' = TRUE /\ failure' = FALSE
  /\ rotated' = Fresh(rotated) /\ active' = Prepared /\ file' = TRUE
  /\ \E f \in Prepared : activeBytes' = FileBytes(f) /\ activeStarted' = f.modified
  /\ UNCHANGED <<now, total>>

\* The application goes on without a file.
StartFails ==
  /\ ~running
  /\ \/ PruneFails /\ active' \in {active, FreshActive}
     \/ rotated' = Fresh(rotated) /\ active' = Prepared
  /\ UNCHANGED <<now, running, ownVars, failure, total>>

Stop ==
  /\ running /\ running' = FALSE /\ file' = FALSE
  /\ UNCHANGED <<now, diskVars, activeBytes, activeStarted, failure, total>>

(***************************************************************************)
(* RotatingOutput::write.                                                  *)
(***************************************************************************)
Age      == now - activeStarted
Interval == {IF age < Day THEN age ELSE Day : age \in MaxAge}   \* rotation_interval
Expired  == \E age \in MaxAge : Age >= age
Rotates  == \/ activeBytes > 0 /\ activeBytes + 1 > MaxBytes
            \/ \E interval \in Interval : Age >= interval

Written(f) == {Added(f, total + 1)}

\* FileRotate::rotate with AppendCount: the oldest file is removed.
Shifted(f) ==
  LET all == <<[f EXCEPT !.first = 0]>> \o rotated
  IN  SubSeq(all, 1, IF Len(all) > History THEN History ELSE Len(all))

Adds == total < MaxLines /\ total' = total + 1

\* reset_expired_active, then the line is written.
WriteExpired ==
  /\ running /\ Expired /\ Adds
  /\ rotated' = Fresh(rotated) /\ active' = Written(Empty)
  /\ file' = TRUE /\ activeBytes' = 1 /\ activeStarted' = now
  /\ UNCHANGED <<now, running, failure>>

\* The active file cannot be removed, or a stale one, or a new one not be opened
\* or not be made private.
ResetFails ==
  /\ running /\ Expired /\ file' = FALSE /\ failure' = TRUE
  /\ \/ UNCHANGED diskVars
     \/ active' = {} /\ PruneFails
     \/ active' = {Empty} /\ rotated' = Fresh(rotated)
  /\ UNCHANGED <<now, running, activeBytes, activeStarted, total>>

\* What write_all leaves of a line before it fails: nothing, or a part of it that
\* active_bytes does not count.  Parts in a row are one.
Fragment == 0
IsTorn(f) == f.lines # <<>> /\ Last(f.lines) = Fragment
Torn(f)   == {f, IF IsTorn(f) THEN [f EXCEPT !.modified = now] ELSE Added(f, Fragment)}

\* The file is new after the reset, but the line is not written.
ResetThenFails ==
  /\ running /\ Expired /\ failure' = TRUE
  /\ rotated' = Fresh(rotated) /\ \E f \in Torn(Empty) : active' = {f}
  /\ file' = TRUE /\ activeBytes' = 0 /\ activeStarted' = now
  /\ UNCHANGED <<now, running, total>>

WriteRotated ==
  /\ running /\ ~Expired /\ file /\ Rotates /\ Adds
  /\ \E f \in active : rotated' = Shifted(f)
  /\ active' = Written(Empty) /\ activeBytes' = 1 /\ activeStarted' = now
  /\ UNCHANGED <<now, running, file, failure>>

Write ==
  /\ running /\ ~Expired /\ file /\ ~Rotates /\ Adds
  /\ active' = UNION {Written(f) : f \in active}
  /\ activeBytes' = activeBytes + 1
  /\ UNCHANGED <<now, rotated, running, file, activeStarted, failure>>

\* Nothing is rotated; or the file is, but is not made private, and the counters
\* stay those of the old one; or it is rotated and private, but not written.
RotateFails ==
  /\ running /\ ~Expired /\ file /\ Rotates /\ failure' = TRUE
  /\ \/ UNCHANGED <<diskVars, activeBytes, activeStarted>>
     \/ /\ \E f \in active : rotated' = Shifted(f)
        /\ \/ active' = {Empty} /\ UNCHANGED <<activeBytes, activeStarted>>
           \/ /\ \E f \in Torn(Empty) : active' = {f}
              /\ activeBytes' = 0 /\ activeStarted' = now
  /\ UNCHANGED <<now, running, file, total>>

\* The disk is full, or the file was not open.
WriteFails ==
  /\ running /\ ~Expired /\ ~(file /\ Rotates) /\ failure' = TRUE
  /\ \E f \in active : active' \in {{g} : g \in IF file THEN Torn(f) ELSE {f}}
  /\ UNCHANGED <<now, rotated, running, ownVars, total>>

Tick ==
  /\ now < MaxNow /\ now' = now + 1
  /\ UNCHANGED <<diskVars, running, ownVars, failure, total>>

Init ==
  /\ now = 0 /\ active = {} /\ rotated = <<>>
  /\ running = FALSE /\ file = FALSE /\ activeBytes = 0 /\ activeStarted = 0
  /\ failure = FALSE /\ total = 0

Next == \/ Start \/ StartFails \/ Stop \/ Tick
        \/ WriteExpired \/ ResetFails \/ ResetThenFails
        \/ WriteRotated \/ RotateFails \/ Write \/ WriteFails

Spec == Init /\ [][Next]_vars

(***************************************************************************)
(* Properties.                                                             *)
(***************************************************************************)
Files    == [i \in 1..Len(rotated) |-> rotated[Len(rotated) + 1 - i]] \o SetToSeq(active)
Whole(f) == SelectSeq(f.lines, LAMBDA line : line # Fragment)
Kept     == FlattenSeq([i \in 1..Len(Files) |-> Whole(Files[i])])

\* Whatever is rotated, removed, failed half-way or restarted in between: an open
\* log is the latest lines that were written, without a gap and in order, in files
\* within their number and size, of which the writer counts no line too few; and
\* while a retention failure keeps it closed, every write tries again.
KeptLinesAreTheLatest ==
  /\ running /\ ~file => Expired
  /\ running /\ file => /\ \A i \in 1..Len(Kept) : Kept[i] = total - Len(Kept) + i
                       /\ Len(rotated) <= History
                       /\ \A i \in 1..Len(Files) : Len(Whole(Files[i])) <= MaxBytes
                       /\ \A f \in active : activeBytes >= Len(Whole(f))

\* "retained logs rotate at least daily even below the size limit": the lines of
\* the active file are of less than one rotation interval.
RotatesDaily ==
  \A f \in active, interval \in Interval : f.lines # <<>> => f.modified - f.first < interval
=============================================================================
