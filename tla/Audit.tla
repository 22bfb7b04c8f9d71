-------------------------------- MODULE Audit --------------------------------
(***************************************************************************)
(* The audit writer (internal/audit): one directory per day with a file of *)
(* rows and one of audio per utterance, written by the transcription       *)
(* goroutines, and the retention sweep, which takes a directory apart file *)
(* by file. The daemon stops, dies and starts again, also in the middle of *)
(* a sweep; what is on the disk stays.                                     *)
(***************************************************************************)
EXTENDS Integers

CONSTANTS Utterances,
          RetentionDays, \* 0 keeps for ever
          MaxDay         \* BOUND: days that pass

ASSUME AuditAssumption == RetentionDays \in Nat /\ MaxDay \in Nat

Days == 0..MaxDay

\* A day directory's date is its midnight; Hours later in the day are one.
Hours == 2

VARIABLES day, hour,
          up,      \* the writer: in the sweep of New or of Close, open, closed
          sweep,   \* the directories that sweep has still to remove
          stamp,   \* the timestamps of records not yet written, and of those done
          writing, \* the utterance whose Record holds mu, and how far it is
          file,    \* jsonlDay and whether jsonl is open
          dirs,    \* the day directories on the disk
          rows,    \* the rows in their files
          wavs     \* the audio files in their directories

vars == <<day, hour, up, sweep, stamp, writing, file, dirs, rows, wavs>>
disk == <<dirs, rows, wavs>>

Free == [utt |-> "none", step |-> "none", audio |-> "no"]

TypeOK ==
    /\ day \in Days /\ hour \in 0..(Hours - 1)
    /\ up \in {"none", "starting", "open", "closing", "closed"}
    /\ sweep \subseteq Days
    /\ stamp \in [Utterances -> [state : {"not yet", "stamped", "done"}, day : Days]]
    /\ writing \in [utt : Utterances \union {"none"}, step : {"none", "rotate", "wav", "row"},
                    audio : {"yes", "no"}]
    /\ file \in [day : Days, open : BOOLEAN]
    /\ dirs \subseteq Days
    /\ rows \subseteq [utt : Utterances, stamp : Days, dir : Days, audio : {"yes", "no"}]
    /\ wavs \subseteq [utt : Utterances, dir : Days]

Init ==
    /\ day = 0 /\ hour = 0
    /\ up = "none" /\ sweep = {}
    /\ stamp = [u \in Utterances |-> [state |-> "not yet", day |-> 0]]
    /\ writing = Free
    /\ file = [day |-> 0, open |-> FALSE]
    /\ dirs = {} /\ rows = {} /\ wavs = {}

Tick ==
    /\ IF hour < Hours - 1 THEN hour' = hour + 1 /\ UNCHANGED day
       ELSE day < MaxDay /\ day' = day + 1 /\ hour' = 0
    /\ UNCHANGED <<up, sweep, stamp, writing, file, disk>>

\* A day before now.AddDate(0, 0, -RetentionDays).
PastCutoff(d) ==
    RetentionDays > 0 /\ d * Hours < (day - RetentionDays) * Hours + hour

\* sweepRetention looks for what it is to remove; ReadDir may fail.
SweepBegins == sweep' \in {{}, {d \in dirs : PastCutoff(d)}}

New ==
    /\ up = "none"
    /\ up' = "starting"
    /\ SweepBegins
    /\ UNCHANGED <<day, hour, stamp, writing, file, disk>>

\* os.RemoveAll unlinks what is in a directory, in the order the disk has it ...
Unlink(d) ==
    /\ d \in sweep
    /\ \/ /\ \E w \in wavs : w.dir = d /\ wavs' = wavs \ {w}
          /\ UNCHANGED rows
       \/ /\ \E r \in rows : r.dir = d
          /\ rows' = {r \in rows : r.dir # d}
          /\ UNCHANGED wavs
    /\ UNCHANGED <<day, hour, up, sweep, stamp, writing, file, dirs>>

\* ... and then the directory,
RemoveDir(d) ==
    /\ d \in sweep
    /\ \A x \in rows \union wavs : x.dir # d
    /\ dirs' = dirs \ {d}
    /\ sweep' = sweep \ {d}
    /\ UNCHANGED <<day, hour, up, stamp, writing, file, rows, wavs>>

\* or fails with any part of it left, and the sweep goes on to the next one.
RemoveFails(d) ==
    /\ d \in sweep
    /\ sweep' = sweep \ {d}
    /\ UNCHANGED <<day, hour, up, stamp, writing, file, disk>>

\* New or Close returns.
SweepEnds ==
    /\ up \in {"starting", "closing"} /\ sweep = {}
    /\ up' = IF up = "starting" THEN "open" ELSE "closed"
    /\ UNCHANGED <<day, hour, sweep, stamp, writing, file, disk>>

\* A transcription is done: recordAudit takes the time, then calls Record.
Stamp(u) ==
    /\ up \notin {"none", "starting"} /\ stamp[u].state = "not yet"
    /\ stamp' = [stamp EXCEPT ![u] = [state |-> "stamped", day |-> day]]
    /\ UNCHANGED <<day, hour, up, sweep, writing, file, disk>>

\* Record takes mu, which Close holds through its sweep; a closed writer refuses.
Record(u) ==
    /\ up \in {"open", "closed"} /\ stamp[u].state = "stamped" /\ writing = Free
    /\ IF up = "closed"
       THEN stamp' = [stamp EXCEPT ![u].state = "done"] /\ UNCHANGED writing
       ELSE writing' = [Free EXCEPT !.utt = u, !.step = "rotate"] /\ UNCHANGED stamp
    /\ UNCHANGED <<day, hour, up, sweep, file, disk>>

\* Record returns.
Returns == /\ stamp' = [stamp EXCEPT ![writing.utt].state = "done"]
           /\ writing' = Free

Target == stamp[writing.utt].day

\* Fault: an open file is good for any day.
RotateOnlyOnce ==
    /\ writing.step = "rotate"
    /\ file' = IF file.open THEN file ELSE [day |-> Target, open |-> TRUE]
    /\ dirs' = dirs \union {file'.day}
    /\ writing' = [writing EXCEPT !.step = "wav"]
    /\ UNCHANGED <<day, hour, up, sweep, stamp, rows, wavs>>

\* The record's day has its file open already, or it is opened.
Rotate ==
    /\ writing.step = "rotate"
    /\ \/ /\ file = [day |-> Target, open |-> TRUE]
          /\ UNCHANGED <<file, dirs>>
       \/ /\ file # [day |-> Target, open |-> TRUE]
          /\ file' = [day |-> Target, open |-> TRUE]
          /\ dirs' = dirs \union {Target}
    /\ writing' = [writing EXCEPT !.step = "wav"]
    /\ UNCHANGED <<day, hour, up, sweep, stamp, rows, wavs>>

\* The directory or the file cannot be made: the old file is closed, the row lost.
RotateFails ==
    /\ writing.step = "rotate" /\ file # [day |-> Target, open |-> TRUE]
    /\ file' = [file EXCEPT !.open = FALSE]
    /\ dirs' \in {dirs, dirs \union {Target}}
    /\ Returns
    /\ UNCHANGED <<day, hour, up, sweep, rows, wavs>>

\* Fault: the row is marked before the audio is known to be written.
WriteWAVUnchecked ==
    /\ writing.step = "wav"
    /\ wavs' \in {wavs, wavs \union {[utt |-> writing.utt, dir |-> Target]}}
    /\ dirs' = dirs \union {Target}
    /\ writing' = [writing EXCEPT !.step = "row", !.audio = "yes"]
    /\ UNCHANGED <<day, hour, up, sweep, stamp, file, rows>>

\* The audio is written, or not kept, or fails and the row goes without.
\* MkdirAll makes the day directory again if it is gone.
WriteWAV ==
    /\ writing.step = "wav"
    /\ \/ /\ wavs' = wavs \union {[utt |-> writing.utt, dir |-> Target]}
          /\ dirs' = dirs \union {Target}
          /\ writing' = [writing EXCEPT !.step = "row", !.audio = "yes"]
       \/ /\ writing' = [writing EXCEPT !.step = "row"]
          /\ UNCHANGED <<wavs, dirs>>
    /\ UNCHANGED <<day, hour, up, sweep, stamp, file, rows>>

\* The row goes into the open file. No sweep unlinks an open file: it runs
\* before the first Record and after the file is closed.
EncodeRow ==
    /\ writing.step = "row"
    /\ \/ rows' = rows \union {[utt |-> writing.utt, stamp |-> Target, dir |-> file.day,
                                audio |-> writing.audio]}
       \/ UNCHANGED rows
    /\ Returns
    /\ UNCHANGED <<day, hour, up, sweep, file, dirs, wavs>>

\* Close takes mu, closes the file and sweeps.
Close ==
    /\ up = "open" /\ writing = Free
    /\ up' = "closing"
    /\ file' = [file EXCEPT !.open = FALSE]
    /\ SweepBegins
    /\ UNCHANGED <<day, hour, stamp, writing, disk>>

\* The process ends, after Close or by a crash at any point; what it had not
\* written is lost, and what its sweep had not removed stays.
Exit ==
    /\ up # "none"
    /\ up' = "none" /\ sweep' = {}
    /\ file' = [file EXCEPT !.open = FALSE]
    /\ writing' = Free
    /\ stamp' = [u \in Utterances |->
                    IF stamp[u].state = "stamped" THEN [stamp[u] EXCEPT !.state = "done"]
                    ELSE stamp[u]]
    /\ UNCHANGED <<day, hour, disk>>

Next ==
    \/ Tick \/ New \/ Close \/ Exit
    \/ (\E d \in Days : Unlink(d) \/ RemoveDir(d) \/ RemoveFails(d)) \/ SweepEnds
    \/ \E u \in Utterances : Stamp(u) \/ Record(u)
    \/ Rotate \/ RotateFails \/ WriteWAV \/ EncodeRow

Spec == Init /\ [][Next]_vars

\* Time passes, the daemon is started and ends after Close; a sweep and a Record
\* go on.
FairSpec ==
    /\ Spec
    /\ WF_vars(Tick) /\ WF_vars(New)
    /\ WF_vars(up = "closed" /\ Exit)
    /\ WF_vars((\E d \in Days : Unlink(d) \/ RemoveDir(d)) \/ SweepEnds)
    /\ WF_vars(Rotate \/ WriteWAV \/ EncodeRow)
-----------------------------------------------------------------------------

\* Two goroutines that stamp on either side of midnight may reach Record in
\* either order: each row is in the file of its own day, and its day directory
\* is there (audit.go:174).
RowInOwnDay == \A r \in rows : r.dir = r.stamp /\ r.dir \in dirs

\* A row that names an audio file has one next to it for as long as its day is
\* kept, whatever write failed, and wherever the daemon died: in Record or in a
\* sweep (audit.go:193, retention.go:48).
RowsHaveAudio ==
    \A r \in rows : r.audio = "yes" /\ ~PastCutoff(r.dir) =>
        [utt |-> r.utt, dir |-> r.dir] \in wavs

-----------------------------------------------------------------------------
(* What the code's comments say, and the code does not do.                 *)

\* A day within the retention is kept (retention.go:16).
KeepsRetentionDays ==
    [][\A d \in dirs : d \notin dirs' => day - d >= RetentionDays + 1]_vars

\* The sweep "just rm-rf's the whole day-dir" (retention.go:23). One that fails or
\* is cut short may leave the rows and not the audio they name.
DaysGoWhole ==
    \A r \in rows : r.audio = "yes" => [utt |-> r.utt, dir |-> r.dir] \in wavs

\* Days past their retention go, though the daemon runs on (audit.go:276).
OldDaysGo ==
    \A d \in Days : d \in dirs /\ day > d + RetentionDays + 1 ~> d \notin dirs
=============================================================================
