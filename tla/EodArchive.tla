------------------------------ MODULE EodArchive ------------------------------
(***************************************************************************)
(* From raw .bin to verified .bin.zst: the end-of-day sweep over the files *)
(* of one trading date (compress_raw_files), the steps of compress_file on *)
(* each, and what a failing step, a killed process or a power loss between *)
(* two of them leaves behind.  Capture appends to the raw files before the *)
(* sweep and, when it is started again on the same date, after it.         *)
(*                                                                         *)
(* A raw file is the sequence of its frames; an archive is the sequence it *)
(* decompresses to.  Byte sizes are compared as numbers of frames.         *)
(***************************************************************************)
EXTENDS Naturals, Sequences, FiniteSets, SequencesExt

CONSTANTS
  Files,         \* the capture files of the date
  Absent,        \* no such file
  MaxFrames,     \* bound: frames captured per file
  MaxTrouble     \* bound: failing steps, kills and power losses

ASSUME EodArchiveAssumption ==
  /\ MaxFrames \in Nat /\ MaxTrouble \in Nat
  /\ Absent \notin Seq(1..MaxFrames)

VARIABLES
  open,          \* is the session that owes frames still on?
  capturing,     \* is a capture process appending?
  raw,           \* [Files -> Seq or Absent]: <date>.bin, as processes see it
  archive,       \* [Files -> Seq or Absent]: <date>.bin.zst
  rawDurable,    \* what a power loss would leave under the two names
  archiveDurable,
  pc,            \* where the sweep is: "idle", "next" or a step of compress_file
  todo,          \* files listed by the sweep and not yet handled
  src,           \* the file at hand
  temp,          \* the temporary archive of the file at hand
  shots,         \* history: frames captured so far, per file
  resumed,       \* history: was the file begun again after it was archived?
  unsynced,      \* history: was the raw file given up for an archive whose name
                 \* had not been synced?
  unread,        \* history: is the file at hand copied over a longer archive that
                 \* could not be read?
  trouble

sweep == <<pc, todo, src, temp>>
store == <<raw, archive, rawDurable, archiveDurable>>
history == <<shots, resumed, unsynced, unread>>
vars == <<open, capturing, store, sweep, history, trouble>>

Steps == {"check", "copy", "verify", "publish", "syncDirectory", "unlink"}
Content == Seq(1..MaxFrames) \cup {Absent}

Init ==
  /\ open = TRUE /\ capturing = FALSE
  /\ raw = [f \in Files |-> Absent] /\ archive = [f \in Files |-> Absent]
  /\ rawDurable = raw /\ archiveDurable = archive
  /\ pc = "idle" /\ todo = {} /\ src \in Files /\ temp = Absent
  /\ shots = [f \in Files |-> 0] /\ resumed = [f \in Files |-> FALSE]
  /\ unsynced = [f \in Files |-> FALSE] /\ unread = FALSE
  /\ trouble = 0

----------------------------------------------------------------------------
(* Plausible slips, kept to show that the properties below notice them. *)

RefuseAnyExisting(f) == archive[f] # Absent

ExistenceIsEnough ==
  /\ pc = "check"
  /\ pc' = IF archive[src] # Absent THEN "unlink" ELSE "copy"
  /\ UNCHANGED <<open, capturing, store, todo, src, temp, history, trouble>>

NoDirectorySync ==
  /\ pc = "syncDirectory"
  /\ pc' = "unlink"
  /\ UNCHANGED <<open, capturing, store, todo, src, temp, history, trouble>>

----------------------------------------------------------------------------
(* Capture.  A frame is owed only while the session is open, and no process *)
(* captures into the files another one is sweeping.                         *)

StartCapture ==
  /\ open /\ ~capturing /\ pc = "idle"
  /\ capturing' = TRUE
  /\ UNCHANGED <<open, store, sweep, history, trouble>>

\* _write_framed with fsync; the first frame creates the file.
AppendFrame(f) ==
  /\ open /\ capturing /\ shots[f] < MaxFrames
  /\ shots' = [shots EXCEPT ![f] = @ + 1]
  /\ raw' = [raw EXCEPT ![f] =
       IF @ = Absent THEN <<shots[f] + 1>> ELSE Append(@, shots[f] + 1)]
  /\ rawDurable' = [rawDurable EXCEPT ![f] = raw'[f]]
  /\ resumed' = [resumed EXCEPT ![f] = @ \/ (raw[f] = Absent /\ archive[f] # Absent)]
  /\ UNCHANGED <<open, capturing, archive, archiveDurable, sweep, unsynced,
                 unread, trouble>>

StopCapture ==
  /\ capturing
  /\ capturing' = FALSE
  /\ UNCHANGED <<open, store, sweep, history, trouble>>

\* The closing time of the session passes.
CloseSession ==
  /\ open
  /\ open' = FALSE
  /\ UNCHANGED <<capturing, store, sweep, history, trouble>>

----------------------------------------------------------------------------
(* The sweep. *)

\* compress_raw_files lists every raw file under the root.  The daily
\* automation calls it after the close, md-capture --eod whenever its own
\* capture has ended.
StartSweep ==
  /\ ~capturing /\ pc = "idle"
  /\ todo' = {f \in Files : raw[f] # Absent}
  /\ todo' # {}
  /\ pc' = "next"
  /\ UNCHANGED <<open, capturing, store, src, temp, history, trouble>>

NextFile ==
  /\ pc = "next"
  /\ \/ \E f \in todo : src' = f /\ todo' = todo \ {f} /\ pc' = "check"
     \/ todo = {} /\ pc' = "idle" /\ UNCHANGED <<src, todo>>
  /\ UNCHANGED <<open, capturing, store, temp, history, trouble>>

\* An archive that decompresses to more than the raw file holds is not replaced.
Refused(f) == archive[f] # Absent /\ Len(archive[f]) > Len(raw[f])

\* verify_roundtrip against an archive that is already there: if it is the copy of the
\* raw file, that one goes, whether or not the archive's name was ever synced.
CheckExisting ==
  /\ pc = "check"
  /\ pc' = IF archive[src] = raw[src] THEN "unlink"
           ELSE IF Refused(src) THEN "next" ELSE "copy"
  /\ unsynced' = [unsynced EXCEPT ![src] = @ \/
       (archive[src] = raw[src] /\ archiveDurable[src] # archive[src])]
  /\ unread' = FALSE
  /\ UNCHANGED <<open, capturing, store, todo, src, temp, shots, resumed, trouble>>

\* Reading an archive that is already there raises, and compress_file takes it for one
\* that does not match: in the comparison only, or in decompressed_size too, which
\* leaves out the refusal.
CheckUnreadable ==
  /\ pc = "check" /\ archive[src] # Absent /\ trouble < MaxTrouble
  /\ trouble' = trouble + 1
  /\ \/ pc' = (IF Refused(src) THEN "next" ELSE "copy") /\ unread' = FALSE
     \/ pc' = "copy" /\ unread' = Refused(src)
  /\ UNCHANGED <<open, capturing, store, todo, src, temp, shots, resumed, unsynced>>

\* Compress into a temporary file beside the archive and fsync it.
CopyToTemp ==
  /\ pc = "copy"
  /\ temp' = raw[src] /\ pc' = "verify"
  /\ UNCHANGED <<open, capturing, store, todo, src, history, trouble>>

\* verify_roundtrip of the temporary file.
VerifyTemp ==
  /\ pc = "verify" /\ temp = raw[src]
  /\ pc' = "publish"
  /\ UNCHANGED <<open, capturing, store, todo, src, temp, history, trouble>>

\* os.replace: the archive appears, or changes, in one step.
Publish ==
  /\ pc = "publish"
  /\ archive' = [archive EXCEPT ![src] = temp]
  /\ temp' = Absent /\ pc' = "syncDirectory"
  /\ UNCHANGED <<open, capturing, raw, rawDurable, archiveDurable, todo, src,
                 history, trouble>>

\* _fsync_directory: the new name survives a power loss.
SyncDirectory ==
  /\ pc = "syncDirectory"
  /\ archiveDurable' = [archiveDurable EXCEPT ![src] = archive[src]]
  /\ pc' = "unlink"
  /\ UNCHANGED <<open, capturing, raw, archive, rawDurable, todo, src, temp,
                 history, trouble>>

\* _fsync_directory returns if the directory cannot be opened, and compress_file goes
\* on; an error of the fsync itself is a step that raises.
DirectoryNotOpened ==
  /\ pc = "syncDirectory" /\ trouble < MaxTrouble
  /\ trouble' = trouble + 1
  /\ unsynced' = [unsynced EXCEPT ![src] = @ \/ archiveDurable[src] # archive[src]]
  /\ pc' = "unlink"
  /\ UNCHANGED <<open, capturing, store, todo, src, temp, shots, resumed, unread>>

\* src.unlink(); that the name is gone is not fsynced.
Unlink ==
  /\ pc = "unlink"
  /\ raw' = [raw EXCEPT ![src] = Absent]
  /\ pc' = "next"
  /\ UNCHANGED <<open, capturing, archive, rawDurable, archiveDurable, todo, src,
                 temp, history, trouble>>

\* A step raises: the temporary file is removed, the raw one stays, and the
\* sweep goes on with the next file.
StepFails ==
  /\ pc \in Steps /\ trouble < MaxTrouble
  /\ trouble' = trouble + 1
  /\ temp' = Absent /\ pc' = "next"
  /\ UNCHANGED <<open, capturing, store, todo, src, history>>

\* The process is killed; what it renamed or removed stays so.
Killed ==
  /\ trouble < MaxTrouble /\ (capturing \/ pc # "idle")
  /\ trouble' = trouble + 1
  /\ capturing' = FALSE
  /\ pc' = "idle" /\ todo' = {} /\ temp' = Absent
  /\ UNCHANGED <<open, store, src, history>>

\* Power loss: names not yet durable may be what they were.
PowerLoss ==
  /\ trouble < MaxTrouble
  /\ trouble' = trouble + 1
  /\ \E R, A \in SUBSET Files :
       /\ raw' = [f \in Files |-> IF f \in R THEN rawDurable[f] ELSE raw[f]]
       /\ archive' = [f \in Files |-> IF f \in A THEN archiveDurable[f] ELSE archive[f]]
  /\ rawDurable' = raw' /\ archiveDurable' = archive'
  /\ capturing' = FALSE
  /\ pc' = "idle" /\ todo' = {} /\ temp' = Absent
  /\ UNCHANGED <<open, src, history>>

\* The date is over: swept, and the machine has had all its trouble.
DateOver ==
  /\ ~open /\ ~capturing /\ pc = "idle" /\ \A f \in Files : raw[f] = Absent
  /\ UNCHANGED vars

CompressFile ==
  CheckExisting \/ CopyToTemp \/ VerifyTemp \/ Publish \/ SyncDirectory \/ Unlink

Next ==
  \/ StartCapture \/ StopCapture \/ CloseSession
  \/ \E f \in Files : AppendFrame(f)
  \/ StartSweep \/ NextFile \/ CompressFile
  \/ CheckUnreadable \/ DirectoryNotOpened \/ StepFails \/ Killed \/ PowerLoss
  \/ DateOver

Spec == Init /\ [][Next]_vars

\* The close comes, capture is stopped then, and every later day has its sweep.
FairSpec ==
  /\ Spec
  /\ WF_vars(CloseSession) /\ WF_vars(~open /\ StopCapture)
  /\ WF_vars(~open /\ StartSweep) /\ WF_vars(NextFile \/ CompressFile)

----------------------------------------------------------------------------
(* Properties. *)

\* Type invariant.
TypeOK ==
  /\ open \in BOOLEAN /\ capturing \in BOOLEAN
  /\ raw \in [Files -> Content] /\ archive \in [Files -> Content]
  /\ rawDurable \in [Files -> Content] /\ archiveDurable \in [Files -> Content]
  /\ pc \in Steps \cup {"idle", "next"} /\ todo \subseteq Files /\ src \in Files
  /\ temp \in Content
  /\ shots \in [Files -> 0..MaxFrames] /\ resumed \in [Files -> BOOLEAN]
  /\ unsynced \in [Files -> BOOLEAN] /\ unread \in BOOLEAN
  /\ trouble \in 0..MaxTrouble

FramesIn(c) == IF c = Absent THEN {} ELSE ToSet(c)
Held(f) == FramesIn(raw[f]) \cup FramesIn(archive[f])

\* Every frame ever captured is in the raw file or in the archive, whichever
\* step of the sweep failed, was killed or lost power, for a file that is not
\* begun again after it was archived, and whose raw file was not given up for an
\* archive with a name that is not durable: one an earlier sweep left in place, or
\* one whose directory could not be opened.
EveryFrameHeld ==
  \A f \in Files : ~resumed[f] /\ ~unsynced[f] => 1..shots[f] \subseteq Held(f)

\* A raw file disappears only when the archive is its copy ("raw file is deleted
\* only after the compressed copy verifies", compress.py:53); and, unless that
\* archive was found in place or its directory could not be opened, only when its
\* name would survive a power loss.
RawRemovedOnlyWhenArchived ==
  [][\A f \in Files : raw[f] # Absent /\ raw'[f] = Absent =>
       /\ archive[f] = raw[f]
       /\ unsynced'[f] \/ archiveDurable[f] = raw[f]]_vars

\* No step replaces an archive by a shorter one, but for one that could not be read.
\* A power loss may bring an earlier one back: then the raw file still holds what the
\* lost one did, unless it was given up for a name that was not durable.
ArchiveNeverShrinks ==
  [][\A f \in Files : archive[f] # Absent =>
       \/ archive'[f] # Absent /\ Len(archive'[f]) >= Len(archive[f])
       \/ raw'[f] # Absent /\ IsPrefix(archive[f], raw'[f])
       \/ unsynced[f]
       \/ f = src /\ unread]_vars

\* Types, and every frame is held through failures, kills and power losses.
NothingLost == TypeOK /\ EveryFrameHeld

\* What a step may take away: a raw file behind its archive, and one of two archives
\* only if it is the shorter one or cannot be read.
RemovalIsSafe == RawRemovedOnlyWhenArchived /\ ArchiveNeverShrinks

\* After the close every raw file is swept away in the end, unless the longer
\* archive of a file that was begun again stands in its way.
RawEventuallyArchived ==
  \A f \in Files : ~open ~> raw[f] = Absent \/ resumed[f]

\* What compress.py:68 says the size check is for: replacing an archive never
\* destroys frames that were archived.
ArchivedFramesSurvive == \A f \in Files : 1..shots[f] \subseteq Held(f)
=============================================================================
