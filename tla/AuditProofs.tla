---------------------------- MODULE AuditProofs ----------------------------
(***************************************************************************)
(* The audit log over any utterances, any number of days, any retention    *)
(* and any sweep that fails half-way: a row is in its own day, with its    *)
(* audio for as long as that day is kept.                                  *)
(***************************************************************************)
EXTENDS Audit, TLAPS

Stamps == [state : {"not yet", "stamped", "done"}, day : Days]
Writings == [utt : Utterances \union {"none"}, step : {"none", "rotate", "wav", "row"},
             audio : {"yes", "no"}]

(***************************************************************************)
(* A Record that holds mu keeps the writer open and its utterance's stamp  *)
(* as it is, so the day it rotated to is still the day it writes to. The   *)
(* writer and its file are open together, and no sweep runs meanwhile. A   *)
(* sweep takes only days that are past the cutoff, and they stay past it.  *)
(***************************************************************************)
WriterInv ==
    /\ writing.step # "none" =>
        up = "open" /\ writing.utt \in Utterances /\ stamp[writing.utt].state = "stamped"
    /\ writing.step = "none" => writing = Free
    /\ file.open => up = "open" /\ file.day \in dirs
    /\ sweep # {} => up \in {"starting", "closing"}

SweepInv == \A d \in sweep : PastCutoff(d)

\* What Record has done when it comes to the row.
PlaceInv ==
    /\ writing.step \in {"wav", "row"} => file.day = Target /\ Target \in dirs
    /\ writing.audio = "yes" => writing.step = "row" /\ [utt |-> writing.utt, dir |-> Target] \in wavs

IInv == TypeOK /\ WriterInv /\ SweepInv /\ PlaceInv /\ RowInOwnDay /\ RowsHaveAudio

LEMMA InitIInv == Init => IInv
  <1> SUFFICES ASSUME Init PROVE IInv
    OBVIOUS
  <1>1. 0 \in Days /\ 0 \in 0..(Hours - 1)
    BY AuditAssumption DEF Days, Hours
  <1>2. stamp \in [Utterances -> Stamps]
    BY <1>1 DEF Init, Stamps
  <1>3. writing = Free /\ Free \in Writings /\ ~file.open /\ rows = {} /\ sweep = {}
    BY DEF Init, Free, Writings
  <1>4. TypeOK
    BY <1>1, <1>2, <1>3 DEF Init, TypeOK, Stamps, Writings
  <1>5. WriterInv /\ SweepInv /\ PlaceInv
    BY <1>3 DEF WriterInv, SweepInv, PlaceInv, Free
  <1> QED BY <1>3, <1>4, <1>5 DEF IInv, RowInOwnDay, RowsHaveAudio

\* Midnight brings no day back into the retention.
LEMMA CutoffMoves ==
    ASSUME TypeOK, Tick, NEW d \in Days, PastCutoff(d)
    PROVE  PastCutoff(d)'
  <1>1. d \in Nat /\ day \in Nat /\ hour \in 0..1 /\ RetentionDays \in Nat
    <2>1. day \in Days /\ hour \in 0..(Hours - 1)
      BY DEF TypeOK
    <2> QED BY <2>1, AuditAssumption DEF Days, Hours
  <1>2. \/ hour' = hour + 1 /\ day' = day
        \/ hour = 1 /\ hour' = 0 /\ day' = day + 1
    BY <1>1 DEF Tick, Hours
  <1>3. RetentionDays > 0 /\ d * 2 < (day - RetentionDays) * 2 + hour
    BY DEF PastCutoff, Hours
  <1>4. d * 2 < (day' - RetentionDays) * 2 + hour'
    BY <1>1, <1>2, <1>3
  <1> QED BY <1>3, <1>4 DEF PastCutoff, Hours

SweepSteps == (\E d \in Days : Unlink(d) \/ RemoveDir(d) \/ RemoveFails(d)) \/ SweepEnds

\* However much of a directory a sweep takes, it leaves every row its directory,
\* and takes audio of days past the cutoff only (retention.go:48).
LEMMA SweepKeeps ==
    ASSUME IInv, SweepSteps
    PROVE  IInv'
  <1>1. /\ UNCHANGED <<day, hour, stamp, writing, file>>
        /\ dirs' \subseteq dirs /\ rows' \subseteq rows /\ wavs' \subseteq wavs /\ sweep' \subseteq sweep
    BY DEF SweepSteps, Unlink, RemoveDir, RemoveFails, SweepEnds, disk
  <1>2. /\ up \in {"starting", "closing"}
        /\ up' = up \/ (sweep' = {} /\ up' \in {"open", "closed"})
    BY DEF SweepSteps, Unlink, RemoveDir, RemoveFails, SweepEnds, IInv, WriterInv
  <1>3. writing = Free /\ ~file.open
    BY <1>2 DEF IInv, WriterInv, TypeOK
  <1>4. TypeOK'
    <2>1. up' \in {"none", "starting", "open", "closing", "closed"}
      BY <1>2
    <2> QED BY <1>1, <2>1 DEF IInv, TypeOK
  <1>5. WriterInv' /\ PlaceInv'
    BY <1>1, <1>2, <1>3 DEF IInv, WriterInv, PlaceInv, Free
  <1>6. SweepInv'
    BY <1>1 DEF IInv, SweepInv, PastCutoff
  <1>7. RowInOwnDay'
    <2> SUFFICES ASSUME NEW r \in rows' PROVE r.dir \in dirs'
      BY <1>1 DEF IInv, RowInOwnDay
    <2>1. r \in rows /\ r.dir \in dirs
      BY <1>1 DEF IInv, RowInOwnDay
    <2> QED BY <2>1 DEF SweepSteps, Unlink, RemoveDir, RemoveFails, SweepEnds, disk
  <1>8. RowsHaveAudio'
    <2> SUFFICES ASSUME NEW r \in rows', r.audio = "yes", ~PastCutoff(r.dir)'
                 PROVE  [utt |-> r.utt, dir |-> r.dir] \in wavs'
      BY DEF RowsHaveAudio
    <2> DEFINE wav == [utt |-> r.utt, dir |-> r.dir]
    <2>1. ~PastCutoff(r.dir) /\ wav \in wavs /\ wav.dir = r.dir
      BY <1>1 DEF PastCutoff, IInv, RowsHaveAudio
    <2>2. \A d \in sweep : wav.dir # d
      BY <2>1 DEF IInv, SweepInv
    <2> HIDE DEF wav
    <2>3. wav \in wavs'
      BY <2>1, <2>2 DEF SweepSteps, Unlink, RemoveDir, RemoveFails, SweepEnds, disk
    <2> QED BY <2>3 DEF wav
  <1> QED BY <1>4, <1>5, <1>6, <1>7, <1>8 DEF IInv

\* The clock moves no record that has its stamp.
LEMMA TickKeeps ==
    ASSUME IInv, Tick
    PROVE  IInv'
  <1>1. TypeOK'
    <2>1. day \in 0..MaxDay /\ hour \in 0..1 /\ MaxDay \in Nat
      <3>1. day \in Days /\ hour \in 0..(Hours - 1)
        BY DEF IInv, TypeOK
      <3> QED BY <3>1, AuditAssumption DEF Days, Hours
    <2>2. day' \in 0..MaxDay /\ hour' \in 0..1
      <3>1. CASE hour < 1
        BY <2>1, <3>1 DEF Tick, Hours
      <3>2. CASE ~(hour < 1)
        BY <2>1, <3>2 DEF Tick, Hours
      <3> QED BY <3>1, <3>2
    <2>3. day' \in Days /\ hour' \in 0..(Hours - 1)
      BY <2>2 DEF Days, Hours
    <2> QED BY <2>3 DEF IInv, Tick, TypeOK, disk
  <1>2. WriterInv' /\ PlaceInv'
    BY DEF IInv, WriterInv, PlaceInv, Tick, disk, Target
  <1>3. SweepInv'
    <2>1. \A d \in sweep : PastCutoff(d)'
      BY CutoffMoves DEF IInv, TypeOK, SweepInv
    <2> QED BY <2>1 DEF Tick, SweepInv
  <1>4. RowInOwnDay'
    BY DEF IInv, RowInOwnDay, Tick, disk
  <1>5. RowsHaveAudio'
    <2> SUFFICES ASSUME NEW r \in rows', r.audio = "yes", ~PastCutoff(r.dir)'
                 PROVE  [utt |-> r.utt, dir |-> r.dir] \in wavs'
      BY DEF RowsHaveAudio
    <2>1. r \in rows /\ r.dir \in Days /\ wavs' = wavs
      BY DEF Tick, disk, IInv, TypeOK
    <2>2. ~PastCutoff(r.dir)
      BY <2>1, CutoffMoves DEF IInv
    <2> QED BY <2>1, <2>2 DEF IInv, RowsHaveAudio
  <1> QED BY <1>1, <1>2, <1>3, <1>4, <1>5 DEF IInv

\* The writer is made and closed while no Record holds mu.
LEMMA WriterKeeps ==
    ASSUME IInv, New \/ Close \/ Exit
    PROVE  IInv'
  <1>1. CASE New \/ Close
    <2>1. /\ UNCHANGED <<day, hour, stamp, writing, dirs, rows, wavs>>
          /\ up' \in {"starting", "closing"} /\ writing = Free
          /\ sweep' \subseteq {d \in dirs : PastCutoff(d)}
      BY <1>1 DEF New, Close, SweepBegins, disk, IInv, WriterInv, TypeOK
    <2>2. file' \in [day : Days, open : BOOLEAN] /\ ~file'.open
      BY <1>1 DEF New, Close, IInv, TypeOK, WriterInv
    <2>3. TypeOK'
      BY <2>1, <2>2 DEF IInv, TypeOK
    <2>4. WriterInv' /\ PlaceInv'
      BY <2>1, <2>2 DEF WriterInv, PlaceInv, Free
    <2>5. SweepInv'
      BY <2>1 DEF SweepInv, PastCutoff
    <2>6. RowInOwnDay' /\ RowsHaveAudio'
      BY <2>1 DEF IInv, RowInOwnDay, RowsHaveAudio, PastCutoff
    <2> QED BY <2>3, <2>4, <2>5, <2>6 DEF IInv
  <1>2. CASE Exit
    <2>1. TypeOK' /\ ~file'.open
      <3>1. TypeOK
        BY DEF IInv
      <3>2. ~file'.open
        BY <1>2, <3>1 DEF Exit, TypeOK
      <3>3. stamp' \in [Utterances -> Stamps]
        <4>1. \A u \in Utterances : stamp[u] \in Stamps
          BY <3>1 DEF TypeOK, Stamps
        <4>2. \A r \in Stamps : [r EXCEPT !.state = "done"] \in Stamps
          BY DEF Stamps
        <4> HIDE DEF Stamps
        <4> QED BY <1>2, <4>1, <4>2 DEF Exit
      <3>4. file' \in [day : Days, open : BOOLEAN]
        BY <1>2, <3>1 DEF Exit, TypeOK
      <3>5. TypeOK'
        BY <1>2, <3>1, <3>3, <3>4 DEF Exit, TypeOK, Free, Stamps, disk
      <3> QED BY <3>2, <3>5
    <2>2. WriterInv' /\ SweepInv' /\ PlaceInv'
      BY <1>2, <2>1 DEF Exit, WriterInv, SweepInv, PlaceInv, Free
    <2>3. RowInOwnDay' /\ RowsHaveAudio'
      BY <1>2 DEF IInv, Exit, RowInOwnDay, RowsHaveAudio, PastCutoff, disk
    <2> QED BY <2>1, <2>2, <2>3 DEF IInv
  <1> QED BY <1>1, <1>2

\* A transcription takes its time, and later the lock.
LEMMA StampKeeps ==
    ASSUME IInv, NEW u \in Utterances, Stamp(u) \/ Record(u)
    PROVE  IInv'
  <1>1. TypeOK'
    <2>1. stamp' \in [Utterances -> Stamps]
      <3>1. stamp \in [Utterances -> Stamps] /\ day \in Days
        BY DEF IInv, TypeOK, Stamps
      <3>2. [state |-> "stamped", day |-> day] \in Stamps /\ [stamp[u] EXCEPT !.state = "done"] \in Stamps
        BY <3>1 DEF Stamps
      <3> QED BY <3>1, <3>2 DEF Stamp, Record
    <2>2. writing' \in Writings
      <3>1. [Free EXCEPT !.utt = u, !.step = "rotate"] \in Writings
        BY DEF Free, Writings
      <3>2. writing \in Writings
        BY DEF IInv, TypeOK, Writings
      <3>3. writing' = writing \/ writing' = [Free EXCEPT !.utt = u, !.step = "rotate"]
        BY DEF Stamp, Record
      <3> QED BY <3>1, <3>2, <3>3
    <2> QED BY <2>1, <2>2 DEF IInv, Stamp, Record, TypeOK, disk, Stamps, Writings
  <1>2. SweepInv' /\ RowInOwnDay' /\ RowsHaveAudio'
    BY DEF IInv, Stamp, Record, SweepInv, RowInOwnDay, RowsHaveAudio, PastCutoff, disk
  <1>3. CASE Stamp(u)
    <2>1. writing.step # "none" => u # writing.utt
      BY <1>3 DEF IInv, WriterInv, Stamp
    <2>2. writing.step # "none" => stamp'[writing.utt] = stamp[writing.utt]
      BY <1>3, <2>1 DEF IInv, WriterInv, Stamp, TypeOK
    <2>3. writing.step = "none" => writing.audio = "no"
      BY DEF IInv, WriterInv, Free
    <2>4. WriterInv'
      BY <1>3, <2>2 DEF IInv, WriterInv, Stamp, disk
    <2>5. writing.step # "none" => Target' = Target
      BY <1>3, <2>2 DEF Stamp, Target
    <2>6. UNCHANGED <<writing, file, dirs, wavs>>
      BY <1>3 DEF Stamp, disk
    <2>7. PlaceInv'
      <3>1. CASE writing.step = "none"
        BY <2>3, <2>6, <3>1 DEF PlaceInv
      <3>2. CASE writing.step # "none"
        BY <2>5, <2>6, <3>2 DEF IInv, PlaceInv
      <3> QED BY <3>1, <3>2
    <2> QED BY <1>1, <1>2, <2>4, <2>7 DEF IInv
  <1>4. CASE Record(u)
    <2>1. CASE up = "closed"
      <3>1. writing' = writing /\ writing = Free /\ UNCHANGED <<file, dirs, up, sweep>>
        BY <1>4, <2>1 DEF Record, disk
      <3> QED BY <3>1, <1>1, <1>2 DEF IInv, WriterInv, PlaceInv, Free
    <2>2. CASE up # "closed"
      <3>1. /\ writing' = [utt |-> u, step |-> "rotate", audio |-> "no"]
            /\ UNCHANGED <<stamp, file, dirs, wavs, up, sweep>> /\ stamp[u].state = "stamped"
        BY <1>4, <2>2 DEF Record, disk, Free
      <3>2. up = "open"
        BY <1>4, <2>2 DEF Record, IInv, TypeOK
      <3>3. WriterInv' /\ PlaceInv'
        BY <3>1, <3>2 DEF IInv, WriterInv, PlaceInv
      <3> QED BY <1>1, <1>2, <3>3 DEF IInv
    <2> QED BY <2>1, <2>2
  <1> QED BY <1>3, <1>4

\* Record's own steps, with mu held.
LEMMA RecordKeeps ==
    ASSUME IInv, Rotate \/ RotateFails \/ WriteWAV \/ EncodeRow
    PROVE  IInv'
  <1>1. /\ writing.utt \in Utterances /\ Target \in Days /\ up = "open"
        /\ stamp[writing.utt].state = "stamped"
    BY DEF IInv, WriterInv, TypeOK, Rotate, RotateFails, WriteWAV, EncodeRow, Target
  <1>2. CASE Rotate
    <2>1. /\ file' = [day |-> Target, open |-> TRUE] /\ dirs \subseteq dirs'
          /\ dirs' \subseteq dirs \union {Target} /\ Target \in dirs'
      BY <1>2 DEF Rotate, IInv, WriterInv
    <2>2. writing' = [utt |-> writing.utt, step |-> "wav", audio |-> writing.audio]
      BY <1>2 DEF Rotate, IInv, TypeOK
    <2>3. TypeOK'
      BY <1>1, <1>2, <2>1, <2>2 DEF Rotate, IInv, TypeOK
    <2>4. WriterInv' /\ PlaceInv'
      BY <1>1, <1>2, <2>1, <2>2 DEF Rotate, IInv, WriterInv, PlaceInv, Target
    <2>5. SweepInv' /\ RowInOwnDay' /\ RowsHaveAudio'
      BY <1>2, <2>1 DEF Rotate, IInv, SweepInv, RowInOwnDay, RowsHaveAudio, PastCutoff
    <2> QED BY <2>3, <2>4, <2>5 DEF IInv
  <1>3. CASE RotateFails
    <2>1. writing' = Free /\ ~file'.open /\ dirs \subseteq dirs' /\ dirs' \subseteq dirs \union {Target}
      BY <1>3 DEF RotateFails, Returns, IInv, TypeOK
    <2>2. TypeOK'
      <3>1. stamp' \in [Utterances -> Stamps]
        <4>1. stamp \in [Utterances -> Stamps]
          BY DEF IInv, TypeOK, Stamps
        <4>2. stamp' = [stamp EXCEPT ![writing.utt].state = "done"]
          BY <1>3 DEF RotateFails, Returns
        <4> QED BY <4>1, <4>2 DEF Stamps
      <3>2. dirs' \subseteq Days /\ file' \in [day : Days, open : BOOLEAN]
        BY <1>1, <1>3, <2>1 DEF RotateFails, IInv, TypeOK
      <3> QED BY <1>3, <2>1, <3>1, <3>2 DEF RotateFails, IInv, TypeOK, Free, Stamps
    <2>3. WriterInv' /\ PlaceInv'
      BY <1>1, <1>3, <2>1 DEF RotateFails, IInv, WriterInv, PlaceInv, Free
    <2>4. SweepInv' /\ RowInOwnDay' /\ RowsHaveAudio'
      BY <1>3, <2>1 DEF RotateFails, IInv, SweepInv, RowInOwnDay, RowsHaveAudio, PastCutoff
    <2> QED BY <2>2, <2>3, <2>4 DEF IInv
  <1>4. CASE WriteWAV
    <2>1. dirs' = dirs /\ wavs \subseteq wavs' /\ UNCHANGED <<up, sweep, stamp, file, rows, day, hour>>
      BY <1>4 DEF WriteWAV, IInv, PlaceInv
    <2>2. PICK a \in {"yes", "no"} :
              /\ writing' = [utt |-> writing.utt, step |-> "row", audio |-> a]
              /\ a = "yes" => wavs' = wavs \union {[utt |-> writing.utt, dir |-> Target]}
              /\ a = "no" => wavs' = wavs
      <3>1. writing.audio = "no"
        BY <1>4 DEF WriteWAV, IInv, PlaceInv, TypeOK
      <3>2. writing' \in {[writing EXCEPT !.step = "row", !.audio = "yes"], [writing EXCEPT !.step = "row"]}
        BY <1>4 DEF WriteWAV
      <3>3. CASE writing' = [writing EXCEPT !.step = "row"]
        <4>1. writing' = [utt |-> writing.utt, step |-> "row", audio |-> "no"]
          BY <3>1, <3>3 DEF IInv, TypeOK
        <4>2. wavs' = wavs
          BY <1>4, <4>1 DEF WriteWAV, IInv, TypeOK
        <4> QED BY <4>1, <4>2
      <3>4. CASE writing' = [writing EXCEPT !.step = "row", !.audio = "yes"]
        <4>1. writing' = [utt |-> writing.utt, step |-> "row", audio |-> "yes"]
          BY <3>4 DEF IInv, TypeOK
        <4>2. wavs' = wavs \union {[utt |-> writing.utt, dir |-> Target]}
          BY <1>4, <3>1, <4>1 DEF WriteWAV, IInv, TypeOK
        <4> QED BY <4>1, <4>2
      <3> QED BY <3>2, <3>3, <3>4
    <2>3. TypeOK'
      <3>1. wavs' \subseteq [utt : Utterances, dir : Days]
        <4>1. wavs \subseteq [utt : Utterances, dir : Days]
          BY DEF IInv, TypeOK
        <4>2. [utt |-> writing.utt, dir |-> Target] \in [utt : Utterances, dir : Days]
          BY <1>1
        <4>3. wavs' = wavs \/ wavs' = wavs \union {[utt |-> writing.utt, dir |-> Target]}
          BY <2>2
        <4> QED BY <4>1, <4>2, <4>3
      <3>2. writing' \in Writings
        BY <1>1, <2>2 DEF Writings
      <3>3. UNCHANGED <<day, hour, up, sweep, stamp, file, dirs, rows>>
        BY <1>4, <2>1 DEF WriteWAV
      <3> QED BY <3>1, <3>2, <3>3 DEF IInv, TypeOK, Writings
    <2>4. WriterInv' /\ PlaceInv'
      BY <1>1, <1>4, <2>1, <2>2 DEF WriteWAV, IInv, WriterInv, PlaceInv, Target
    <2>5. SweepInv' /\ RowInOwnDay' /\ RowsHaveAudio'
      BY <2>1 DEF IInv, SweepInv, RowInOwnDay, RowsHaveAudio, PastCutoff
    <2> QED BY <2>3, <2>4, <2>5 DEF IInv
  <1>5. CASE EncodeRow
    <2> DEFINE row == [utt |-> writing.utt, stamp |-> Target, dir |-> file.day, audio |-> writing.audio]
    <2>1. writing' = Free /\ rows' \subseteq rows \union {row} /\ UNCHANGED <<up, sweep, file, dirs, wavs>>
      BY <1>5 DEF EncodeRow, Returns
    <2>2. file.day = Target /\ Target \in dirs
      BY <1>5 DEF EncodeRow, IInv, PlaceInv
    <2>3. row \in [utt : Utterances, stamp : Days, dir : Days, audio : {"yes", "no"}]
      BY <1>1, <2>2 DEF IInv, TypeOK
    <2>4. stamp' \in [Utterances -> [state : {"not yet", "stamped", "done"}, day : Days]]
      <3>1. stamp \in [Utterances -> [state : {"not yet", "stamped", "done"}, day : Days]]
        BY DEF IInv, TypeOK
      <3>2. stamp' = [stamp EXCEPT ![writing.utt].state = "done"]
        BY <1>5 DEF EncodeRow, Returns
      <3> QED BY <3>1, <3>2
    <2>5. TypeOK'
      BY <1>5, <2>1, <2>3, <2>4 DEF EncodeRow, IInv, TypeOK, Free
    <2>6. WriterInv' /\ PlaceInv'
      BY <1>1, <2>1 DEF IInv, WriterInv, PlaceInv, Free
    <2>7. SweepInv' /\ RowInOwnDay'
      BY <1>5, <2>1, <2>2 DEF EncodeRow, IInv, SweepInv, RowInOwnDay, PastCutoff
    <2>8. RowsHaveAudio'
      BY <1>5, <2>1, <2>2 DEF EncodeRow, IInv, PlaceInv, RowsHaveAudio, PastCutoff
    <2> QED BY <2>5, <2>6, <2>7, <2>8 DEF IInv
  <1> QED BY <1>2, <1>3, <1>4, <1>5

LEMMA NextIInv == IInv /\ [Next]_vars => IInv'
  <1> SUFFICES ASSUME IInv, [Next]_vars PROVE IInv'
    OBVIOUS
  <1>1. CASE UNCHANGED vars
    BY <1>1 DEF IInv, vars, disk, TypeOK, WriterInv, SweepInv, PlaceInv,
                     RowInOwnDay, RowsHaveAudio, PastCutoff, Target
  <1>2. CASE Next
    BY <1>2, TickKeeps, WriterKeeps, SweepKeeps, StampKeeps, RecordKeeps DEF Next, SweepSteps
  <1> QED BY <1>1, <1>2

LEMMA AlwaysIInv == Spec => []IInv
  BY InitIInv, NextIInv, PTL DEF Spec

\* Every variable of the writer and of the disk keeps its type, through crashes,
\* failing writes and sweeps (audit.go:174).
THEOREM TypeCorrect == Spec => []TypeOK
  <1>1. IInv => TypeOK
    BY DEF IInv
  <1> QED BY AlwaysIInv, <1>1, PTL

\* However many goroutines stamp their records on either side of midnight and
\* in whatever order they reach Record, a row is in the file of its own day.
THEOREM RowAlwaysInOwnDay == Spec => []RowInOwnDay
  <1>1. IInv => RowInOwnDay
    BY DEF IInv
  <1> QED BY AlwaysIInv, <1>1, PTL

\* Through every failing write, crash and restart, and whatever part of a day a
\* sweep removes, a row that names an audio file has it while its day is kept
\* (audit.go:193, retention.go:48).
THEOREM RowsAlwaysHaveAudio == Spec => []RowsHaveAudio
  <1>1. IInv => RowsHaveAudio
    BY DEF IInv
  <1> QED BY AlwaysIInv, <1>1, PTL
=============================================================================
