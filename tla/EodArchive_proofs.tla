--------------------------- MODULE EodArchive_proofs ---------------------------
(***************************************************************************)
(* Proofs about EodArchive, for any set of files, any number of frames and *)
(* any number of failing steps, kills and power losses: no captured frame  *)
(* is lost, and a step removes a raw file or shortens an archive only      *)
(* where what it takes away is held elsewhere.                             *)
(***************************************************************************)
EXTENDS EodArchive, SequenceTheorems, TLAPS

\* The frames 1..k, in order.
Whole(k) == [i \in 1..k |-> i]

\* Appends are fsynced: a raw file that is there would survive a power loss.
RawInv == \A f \in Files : raw[f] # Absent => rawDurable[f] = raw[f]

\* A sweep runs alone, and its files are there until it unlinks them.
SweepInv ==
  /\ pc # "idle" => ~capturing
  /\ \A f \in todo : raw[f] # Absent
  /\ pc \in Steps => src \notin todo /\ raw[src] # Absent

\* What compress_file has established about the file at hand, step by step.
StepInv ==
  /\ pc \in {"copy", "verify", "publish"} => ~Refused(src) \/ unread
  /\ pc \in {"verify", "publish"} => temp = raw[src]
  /\ pc \in {"syncDirectory", "unlink"} => archive[src] = raw[src]
  /\ pc = "unlink" => unsynced[src] \/ archiveDurable[src] = archive[src]

\* An archive whose name is not synced yet is backed by a raw file that begins
\* with all it holds.
BackedInv ==
  \A f \in Files :
    archive[f] # Absent /\ archiveDurable[f] # archive[f] /\ ~unsynced[f] =>
      raw[f] # Absent /\ IsPrefix(archive[f], raw[f])

\* Where the frames of a file are: all in the raw file; or none captured yet; or
\* all in an archive that would survive a power loss, which may also bring the
\* raw file back, but no other.
Kept(f) ==
  \/ raw[f] # Absent /\ raw[f] = Whole(shots[f])
  \/ raw[f] = Absent /\ shots[f] = 0 /\ rawDurable[f] = Absent
  \/ /\ raw[f] = Absent /\ archive[f] = Whole(shots[f]) /\ archiveDurable[f] = archive[f]
     /\ rawDurable[f] = Absent \/ rawDurable[f] = Whole(shots[f])

KeptInv == \A f \in Files : ~resumed[f] /\ ~unsynced[f] => Kept(f)

StoreInv == RawInv /\ BackedInv /\ KeptInv
IInv == TypeOK /\ SweepInv /\ StepInv /\ StoreInv

-----------------------------------------------------------------------------
(* Sequences of frames. *)

\* The frames captured so far are a content a file can have; one more frame makes
\* them the next such content.
LEMMA WholeContent ==
  ASSUME NEW k \in 0..MaxFrames
  PROVE  /\ Whole(k) \in Seq(1..MaxFrames) /\ Whole(k) # Absent /\ Len(Whole(k)) = k
         /\ Append(Whole(k), k + 1) = Whole(k + 1)
         /\ k = 0 => <<k + 1>> = Whole(k + 1)
<1>constants. MaxFrames \in Nat /\ Absent \notin Seq(1..MaxFrames)
  BY EodArchiveAssumption DEF EodArchiveAssumption
<1>k. k \in Nat /\ k <= MaxFrames
  BY <1>constants
<1>whole. /\ \A i \in 1..k : i \in 1..MaxFrames
          /\ Whole(k) \in Seq(1..MaxFrames) /\ Len(Whole(k)) = k
  <2>1. ASSUME NEW i \in 1..k PROVE i \in 1..MaxFrames
    BY <1>k, <1>constants
  <2>2. Whole(k) \in [1..k -> 1..MaxFrames]
    BY <2>1 DEF Whole
  <2>3. Whole(k) \in Seq(1..MaxFrames)
    BY <2>2, <1>k, <1>constants
  <2>4. DOMAIN Whole(k) = 1..k
    BY DEF Whole
  <2> QED
    BY <2>1, <2>3, <2>4, <1>k, LenProperties
<1>next. /\ Whole(k + 1) \in Seq(Nat) /\ Len(Whole(k + 1)) = k + 1
  <2>1. Whole(k + 1) \in [1..(k + 1) -> Nat]
    BY <1>k DEF Whole
  <2>2. Whole(k + 1) \in Seq(Nat) /\ k + 1 \in Nat
    BY <2>1, <1>k
  <2>3. DOMAIN Whole(k + 1) = 1..(k + 1)
    BY DEF Whole
  <2> QED
    BY <2>2, <2>3, LenProperties
<1>append. Append(Whole(k), k + 1) = Whole(k + 1)
  <2>1. Whole(k) \in Seq(Nat) /\ k + 1 \in Nat
    <3>1. Whole(k) \in [1..k -> Nat]
      BY <1>k DEF Whole
    <3> QED
      BY <3>1, <1>k
  <2>2. /\ Append(Whole(k), k + 1) \in Seq(Nat)
        /\ Len(Append(Whole(k), k + 1)) = k + 1
        /\ \A i \in 1..k : Append(Whole(k), k + 1)[i] = Whole(k)[i]
        /\ Append(Whole(k), k + 1)[k + 1] = k + 1
    BY <2>1, <1>whole, AppendProperties
  <2>3. ASSUME NEW i \in 1..(k + 1)
        PROVE  Append(Whole(k), k + 1)[i] = Whole(k + 1)[i]
    <3>1. Whole(k + 1)[i] = i
      BY DEF Whole
    <3>2. CASE i = k + 1
      BY <3>1, <3>2, <2>2
    <3>3. CASE i # k + 1
      <4>1. i \in 1..k
        BY <3>3, <1>k
      <4>2. Whole(k)[i] = i
        BY <4>1 DEF Whole
      <4> QED
        BY <4>1, <4>2, <3>1, <2>2
    <3> QED
      BY <3>2, <3>3
  <2> QED
    BY <2>2, <2>3, <1>next, SeqEqual
<1>first. ASSUME k = 0 PROVE <<k + 1>> = Whole(k + 1)
  <2>1. <<k + 1>> \in Seq(Nat) /\ Len(<<k + 1>>) = k + 1 /\ <<k + 1>>[1] = 1
    BY <1>first
  <2>2. Whole(k + 1)[1] = 1
    BY <1>first DEF Whole
  <2>3. ASSUME NEW i \in 1..(k + 1) PROVE <<k + 1>>[i] = Whole(k + 1)[i]
    <3>1. i = 1
      BY <1>first
    <3> QED
      BY <3>1, <2>1, <2>2
  <2> QED
    BY <2>1, <2>3, <1>next, SeqEqual
<1> QED
  BY <1>constants, <1>whole, <1>append, <1>first

\* All the frames of 1..k are in it.
LEMMA WholeHolds == \A k \in Nat : 1..k \subseteq FramesIn(Whole(k)) \/ Whole(k) = Absent
  BY DEF Whole, FramesIn, ToSet

\* A content begins with itself, and still does when a frame is appended to it.
LEMMA PrefixGrows ==
  ASSUME NEW s \in Seq(1..MaxFrames), NEW t \in Seq(1..MaxFrames), NEW e \in 1..MaxFrames
  PROVE  /\ IsPrefix(t, t)
         /\ IsPrefix(s, t) => IsPrefix(s, Append(t, e)) /\ Len(s) <= Len(t)
<1>1. Len(s) \in Nat /\ Len(t) \in Nat
  BY LenProperties
<1>2. /\ Append(t, e) \in Seq(1..MaxFrames) /\ Len(Append(t, e)) = Len(t) + 1
      /\ \A i \in 1..Len(t) : Append(t, e)[i] = t[i]
  BY AppendProperties
<1>3. ASSUME Len(s) <= Len(t) PROVE SubSeq(Append(t, e), 1, Len(s)) = SubSeq(t, 1, Len(s))
  <2>1. \A i \in 1..Len(s) : Append(t, e)[i] = t[i]
    BY <1>1, <1>2, <1>3
  <2> QED
    BY <2>1, <1>1, <1>2, <1>3
<1> QED
  BY <1>1, <1>2, <1>3 DEF IsPrefix

-----------------------------------------------------------------------------
(* The invariant holds initially and is kept by every step. *)

\* No file exists at first.
LEMMA InitIInv == Init => IInv
<1> SUFFICES ASSUME Init PROVE IInv
  OBVIOUS
<1>1. TypeOK
  <2>1. 0 \in 0..MaxFrames /\ 0 \in 0..MaxTrouble
    BY EodArchiveAssumption DEF EodArchiveAssumption
  <2> QED
    BY <2>1 DEF Init, TypeOK, Content
<1>2. SweepInv /\ StepInv
  BY DEF Init, SweepInv, StepInv, Steps
<1>3. StoreInv
  BY DEF Init, StoreInv, RawInv, BackedInv, KeptInv, Kept
<1> QED
  BY <1>1, <1>2, <1>3 DEF IInv

\* A step that touches neither the files nor their history keeps what is known
\* of them.
LEMMA StoreUntouched ==
  ASSUME StoreInv, UNCHANGED <<store, history>>
  PROVE  StoreInv'
<1>1. /\ raw' = raw /\ archive' = archive /\ rawDurable' = rawDurable
      /\ archiveDurable' = archiveDurable
      /\ shots' = shots /\ resumed' = resumed /\ unsynced' = unsynced /\ unread' = unread
  BY DEF store, history
<1>2. RawInv'
  BY <1>1 DEF StoreInv, RawInv
<1>3. BackedInv'
  BY <1>1 DEF StoreInv, BackedInv
<1>4. KeptInv'
  BY <1>1 DEF StoreInv, KeptInv, Kept
<1> QED
  BY <1>2, <1>3, <1>4 DEF StoreInv

\* Starting and stopping capture, the close, and the end of the date.
LEMMA SessionKeepsIInv ==
  ASSUME IInv, StartCapture \/ StopCapture \/ CloseSession \/ UNCHANGED vars
  PROVE  IInv'
<1>1. UNCHANGED <<store, sweep, history, trouble>>
  BY DEF StartCapture, StopCapture, CloseSession, vars
<1>2. open' \in BOOLEAN /\ capturing' \in BOOLEAN
  BY DEF IInv, TypeOK, StartCapture, StopCapture, CloseSession, vars
<1>3. /\ pc' = pc /\ todo' = todo /\ src' = src /\ temp' = temp
      /\ raw' = raw /\ archive' = archive /\ rawDurable' = rawDurable
      /\ archiveDurable' = archiveDurable /\ shots' = shots /\ resumed' = resumed
      /\ unsynced' = unsynced /\ unread' = unread /\ trouble' = trouble
  BY <1>1 DEF store, sweep, history
<1>4. TypeOK'
  BY <1>2, <1>3 DEF IInv, TypeOK
<1>5. pc # "idle" => ~capturing'
  BY DEF IInv, SweepInv, StartCapture, StopCapture, CloseSession, vars
<1>6. SweepInv' /\ StepInv'
  BY <1>3, <1>5 DEF IInv, SweepInv, StepInv, Refused
<1>7. StoreInv'
  BY <1>1, StoreUntouched DEF IInv
<1> QED
  BY <1>4, <1>6, <1>7 DEF IInv

\* A frame is captured: no sweep is under way, so only what is known of the files
\* can change, and of them only one.
LEMMA AppendKeepsIInv ==
  ASSUME IInv, NEW f \in Files, AppendFrame(f)
  PROVE  IInv'
<1> USE DEF IInv
<1>shots. shots[f] \in 0..MaxFrames /\ shots[f] < MaxFrames /\ MaxFrames \in Nat
  BY EodArchiveAssumption DEF TypeOK, AppendFrame, EodArchiveAssumption
<1>frame. shots[f] + 1 \in 1..MaxFrames /\ shots[f] + 1 \in 0..MaxFrames
  BY <1>shots
<1>absent. Absent \notin Seq(1..MaxFrames)
  BY EodArchiveAssumption DEF EodArchiveAssumption
<1> DEFINE now == IF raw[f] = Absent THEN <<shots[f] + 1>> ELSE Append(raw[f], shots[f] + 1)
<1>now. now \in Seq(1..MaxFrames) /\ now \in Content /\ now # Absent
  <2>1. raw[f] \in Seq(1..MaxFrames) \/ raw[f] = Absent
    BY DEF TypeOK, Content
  <2>2. <<shots[f] + 1>> \in Seq(1..MaxFrames)
    BY <1>frame
  <2>3. raw[f] # Absent => Append(raw[f], shots[f] + 1) \in Seq(1..MaxFrames)
    BY <2>1, <1>frame, AppendProperties
  <2>4. now \in Seq(1..MaxFrames)
    BY <2>2, <2>3
  <2> QED
    BY <2>4, <1>absent DEF Content
<1>files. /\ raw' = [raw EXCEPT ![f] = now]
          /\ rawDurable' = [rawDurable EXCEPT ![f] = raw'[f]]
          /\ shots' = [shots EXCEPT ![f] = shots[f] + 1]
          /\ resumed' = [resumed EXCEPT ![f] = resumed[f] \/ (raw[f] = Absent /\ archive[f] # Absent)]
          /\ archive' = archive /\ archiveDurable' = archiveDurable /\ unsynced' = unsynced /\ unread' = unread
  BY DEF AppendFrame, history, store
<1>sweep. /\ pc' = pc /\ todo' = todo /\ src' = src /\ temp' = temp
          /\ open' = open /\ capturing' = capturing /\ trouble' = trouble /\ pc = "idle"
  BY DEF AppendFrame, sweep, SweepInv
<1> HIDE DEF now
<1>at. /\ raw'[f] = now /\ rawDurable'[f] = now /\ shots'[f] = shots[f] + 1
       /\ \A g \in Files \ {f} : /\ raw'[g] = raw[g] /\ rawDurable'[g] = rawDurable[g]
                               /\ shots'[g] = shots[g] /\ resumed'[g] = resumed[g]
  BY <1>files DEF TypeOK
<1>typed. TypeOK'
  <2>1. raw' \in [Files -> Content] /\ rawDurable' \in [Files -> Content]
    BY <1>files, <1>at, <1>now DEF TypeOK
  <2>2. shots' \in [Files -> 0..MaxFrames]
    BY <1>files, <1>frame DEF TypeOK
  <2>3. resumed' \in [Files -> BOOLEAN]
    BY <1>files DEF TypeOK
  <2> QED
    BY <2>1, <2>2, <2>3, <1>files, <1>sweep DEF TypeOK
<1>alone. SweepInv' /\ StepInv'
  <2>1. \A g \in todo : raw'[g] # Absent
    BY <1>at, <1>now DEF TypeOK, SweepInv
  <2> QED
    BY <2>1, <1>sweep DEF SweepInv, StepInv, Steps
<1>raw. RawInv'
  BY <1>at DEF StoreInv, RawInv
<1>backed. BackedInv'
  <2>1. ASSUME archive[f] # Absent, archiveDurable[f] # archive[f], ~unsynced[f]
        PROVE  IsPrefix(archive[f], now)
    <3>1. raw[f] # Absent /\ IsPrefix(archive[f], raw[f])
      BY <2>1 DEF StoreInv, BackedInv
    <3>2. raw[f] \in Seq(1..MaxFrames) /\ archive[f] \in Seq(1..MaxFrames)
      BY <3>1, <2>1 DEF TypeOK, Content
    <3> QED
      BY <3>1, <3>2, <1>frame, PrefixGrows DEF now
  <2> QED
    BY <2>1, <1>at, <1>now, <1>files DEF StoreInv, BackedInv
<1>kept. KeptInv'
  <2>1. ASSUME ~resumed'[f], ~unsynced[f] PROVE now = Whole(shots[f] + 1)
    <3>1. ~resumed[f] /\ ~(raw[f] = Absent /\ archive[f] # Absent)
      BY <2>1, <1>files DEF TypeOK
    <3>2. Kept(f)
      BY <2>1, <3>1 DEF StoreInv, KeptInv
    <3>3. CASE raw[f] # Absent
      BY <3>2, <3>3, <1>shots, WholeContent DEF Kept, now
    <3>4. CASE raw[f] = Absent
      <4>1. shots[f] = 0
        BY <3>1, <3>2, <3>4, <1>shots, WholeContent DEF Kept
      <4> QED
        BY <3>4, <4>1, <1>shots, WholeContent DEF now
    <3> QED
      BY <3>3, <3>4
  <2>2. Kept(f)' \/ resumed'[f] \/ unsynced[f]
    BY <2>1, <1>at, <1>now DEF Kept
  <2>3. ASSUME NEW g \in Files \ {f} PROVE ~resumed[g] /\ ~unsynced[g] => Kept(g)'
    BY <1>at, <1>files DEF StoreInv, KeptInv, Kept
  <2> QED
    BY <2>2, <2>3, <1>at, <1>files DEF KeptInv
<1> QED
  BY <1>typed, <1>alone, <1>raw, <1>backed, <1>kept DEF StoreInv

\* The sweep reads its list, takes the next file, copies and compares: nothing is
\* written yet.
LEMMA ReadingKeepsIInv ==
  ASSUME IInv, StartSweep \/ NextFile \/ CopyToTemp \/ VerifyTemp
  PROVE  IInv'
<1> USE DEF IInv
<1>store. /\ UNCHANGED <<store, history>> /\ open' = open /\ capturing' = capturing
          /\ trouble' = trouble
  BY DEF StartSweep, NextFile, CopyToTemp, VerifyTemp
<1>same. /\ raw' = raw /\ archive' = archive /\ rawDurable' = rawDurable
         /\ archiveDurable' = archiveDurable /\ shots' = shots /\ resumed' = resumed
         /\ unsynced' = unsynced /\ unread' = unread
  BY <1>store DEF store, history
<1>kept. StoreInv'
  BY <1>store, StoreUntouched
<1>1. CASE StartSweep
  <2>1. /\ pc' = "next" /\ todo' = {g \in Files : raw[g] # Absent} /\ src' = src
        /\ temp' = temp /\ ~capturing
    BY <1>1 DEF StartSweep
  <2>2. TypeOK'
    BY <2>1, <1>store, <1>same DEF TypeOK
  <2>3. SweepInv' /\ StepInv'
    BY <2>1, <1>store, <1>same DEF SweepInv, StepInv, Steps
  <2> QED
    BY <2>2, <2>3, <1>kept
<1>2. CASE NextFile
  <2>1. CASE \E g \in todo : src' = g /\ todo' = todo \ {g} /\ pc' = "check"
    <3>1. PICK g \in todo : src' = g /\ todo' = todo \ {g} /\ pc' = "check"
      BY <2>1
    <3>2. g \in Files /\ raw[g] # Absent /\ temp' = temp /\ pc = "next"
      BY <1>2 DEF TypeOK, SweepInv, NextFile
    <3>3. TypeOK'
      BY <3>1, <3>2, <1>store, <1>same DEF TypeOK, Steps
    <3>4. SweepInv' /\ StepInv'
      BY <3>1, <3>2, <1>store, <1>same DEF SweepInv, StepInv, Steps
    <3> QED
      BY <3>3, <3>4, <1>kept
  <2>2. CASE todo = {} /\ pc' = "idle" /\ UNCHANGED <<src, todo>>
    <3>1. TypeOK'
      BY <1>2, <2>2, <1>store, <1>same DEF TypeOK, NextFile
    <3>2. SweepInv' /\ StepInv'
      BY <1>2, <2>2, <1>store, <1>same DEF SweepInv, StepInv, Steps, NextFile
    <3> QED
      BY <3>1, <3>2, <1>kept
  <2> QED
    BY <1>2, <2>1, <2>2 DEF NextFile
<1>3. CASE CopyToTemp
  <2>1. /\ pc = "copy" /\ pc' = "verify" /\ temp' = raw[src] /\ todo' = todo /\ src' = src
        /\ raw[src] \in Content
    BY <1>3 DEF CopyToTemp, TypeOK
  <2>2. TypeOK'
    BY <2>1, <1>store, <1>same DEF TypeOK, Steps
  <2>3. SweepInv' /\ StepInv'
    BY <2>1, <1>store, <1>same DEF SweepInv, StepInv, Steps, Refused
  <2> QED
    BY <2>2, <2>3, <1>kept
<1>4. CASE VerifyTemp
  <2>1. /\ pc = "verify" /\ pc' = "publish" /\ temp' = temp /\ todo' = todo /\ src' = src
        /\ temp = raw[src]
    BY <1>4 DEF VerifyTemp
  <2>2. TypeOK'
    BY <2>1, <1>store, <1>same DEF TypeOK, Steps
  <2>3. SweepInv' /\ StepInv'
    BY <2>1, <1>store, <1>same DEF SweepInv, StepInv, Steps, Refused
  <2> QED
    BY <2>2, <2>3, <1>kept
<1> QED
  BY <1>1, <1>2, <1>3, <1>4

\* An archive found in place is accepted, left alone or to be replaced.
LEMMA CheckExistingKeepsIInv ==
  ASSUME IInv, CheckExisting \/ CheckUnreadable
  PROVE  IInv'
<1> USE DEF IInv
<1>same. /\ raw' = raw /\ archive' = archive /\ rawDurable' = rawDurable
         /\ archiveDurable' = archiveDurable /\ shots' = shots /\ resumed' = resumed
         /\ open' = open /\ capturing' = capturing /\ todo' = todo /\ src' = src
         /\ temp' = temp /\ pc = "check" /\ src \in Files
  BY DEF CheckExisting, CheckUnreadable, store, TypeOK
<1>trouble. trouble' \in 0..MaxTrouble
  BY EodArchiveAssumption DEF CheckExisting, CheckUnreadable, TypeOK, EodArchiveAssumption
<1>unread. unread' \in BOOLEAN
  BY Zenon DEF CheckExisting, CheckUnreadable, Refused
<1>marks. /\ unsynced' \in [Files -> BOOLEAN]
          /\ \A g \in Files : unsynced[g] => unsynced'[g]
          /\ pc' = "unlink" /\ archiveDurable[src] # archive[src] => unsynced'[src]
  <2>1. CASE CheckExisting
    BY <2>1, <1>same DEF CheckExisting, TypeOK
  <2>2. CASE CheckUnreadable
    <3>1. unsynced' = unsynced /\ pc' # "unlink"
      BY <2>2 DEF CheckUnreadable
    <3> QED
      BY <3>1 DEF TypeOK
  <2> QED
    BY <2>1, <2>2
<1>next. /\ pc' \in {"unlink", "next", "copy"}
         /\ pc' = "unlink" => archive[src] = raw[src]
         /\ pc' = "copy" => ~Refused(src) \/ unread'
  <2>1. CASE CheckExisting
    BY <2>1 DEF CheckExisting
  <2>2. CASE CheckUnreadable
    <3>1. \/ pc' = (IF Refused(src) THEN "next" ELSE "copy")
          \/ pc' = "copy" /\ unread' = Refused(src)
      BY <2>2 DEF CheckUnreadable
    <3> QED
      BY <3>1
  <2> QED
    BY <2>1, <2>2
<1>1. TypeOK'
  BY <1>same, <1>trouble, <1>unread, <1>marks, <1>next DEF TypeOK, Steps
<1>2. SweepInv' /\ StepInv'
  BY <1>same, <1>marks, <1>next DEF SweepInv, StepInv, Steps, Refused
<1>3. StoreInv'
  <2>1. RawInv'
    BY <1>same DEF StoreInv, RawInv
  <2>2. BackedInv'
    BY <1>same, <1>marks DEF StoreInv, BackedInv
  <2>3. KeptInv'
    BY <1>same, <1>marks DEF StoreInv, KeptInv, Kept
  <2> QED
    BY <2>1, <2>2, <2>3 DEF StoreInv
<1> QED
  BY <1>1, <1>2, <1>3

\* The archive appears, equal to the raw file, which is still there.
LEMMA PublishKeepsIInv ==
  ASSUME IInv, Publish
  PROVE  IInv'
<1> USE DEF IInv
<1>same. /\ raw' = raw /\ rawDurable' = rawDurable
         /\ archiveDurable' = archiveDurable /\ shots' = shots /\ resumed' = resumed
         /\ unsynced' = unsynced /\ unread' = unread /\ open' = open /\ capturing' = capturing /\ todo' = todo
         /\ src' = src /\ trouble' = trouble /\ pc = "publish" /\ src \in Files
         /\ temp' = Absent /\ pc' = "syncDirectory"
  BY DEF Publish, history, TypeOK
<1>raw. raw[src] \in Seq(1..MaxFrames) /\ raw[src] # Absent
  BY <1>same DEF SweepInv, Steps, TypeOK, Content
<1>archive. /\ archive' = [archive EXCEPT ![src] = raw[src]]
            /\ archive'[src] = raw[src]
            /\ \A g \in Files \ {src} : archive'[g] = archive[g]
  BY <1>same DEF Publish, StepInv, TypeOK
<1>1. TypeOK'
  BY <1>same, <1>archive, <1>raw DEF TypeOK, Steps, Content
<1>2. SweepInv' /\ StepInv'
  BY <1>same, <1>archive, <1>raw DEF SweepInv, StepInv, Steps
<1>3. RawInv'
  BY <1>same DEF StoreInv, RawInv
<1>4. BackedInv'
  <2>1. IsPrefix(archive'[src], raw[src])
    BY <1>archive, <1>raw DEF IsPrefix
  <2> QED
    BY <2>1, <1>same, <1>archive, <1>raw DEF StoreInv, BackedInv
<1>5. KeptInv'
  BY <1>same, <1>archive, <1>raw DEF StoreInv, KeptInv, Kept
<1> QED
  BY <1>1, <1>2, <1>3, <1>4, <1>5 DEF StoreInv

\* Its name is synced.
LEMMA SyncKeepsIInv ==
  ASSUME IInv, SyncDirectory
  PROVE  IInv'
<1> USE DEF IInv
<1>same. /\ raw' = raw /\ rawDurable' = rawDurable /\ archive' = archive
         /\ shots' = shots /\ resumed' = resumed
         /\ unsynced' = unsynced /\ unread' = unread /\ open' = open /\ capturing' = capturing /\ todo' = todo
         /\ src' = src /\ trouble' = trouble /\ temp' = temp
         /\ pc = "syncDirectory" /\ src \in Files /\ pc' = "unlink"
  BY DEF SyncDirectory, history, TypeOK
<1>raw. raw[src] # Absent /\ archive[src] = raw[src] /\ archive[src] \in Content
  BY <1>same DEF SweepInv, StepInv, Steps, TypeOK
<1>durable. /\ archiveDurable' = [archiveDurable EXCEPT ![src] = archive[src]]
            /\ archiveDurable'[src] = archive[src]
            /\ \A g \in Files \ {src} : archiveDurable'[g] = archiveDurable[g]
  BY <1>same DEF SyncDirectory, TypeOK
<1>1. TypeOK'
  BY <1>same, <1>durable, <1>raw DEF TypeOK, Steps
<1>2. SweepInv' /\ StepInv'
  BY <1>same, <1>durable, <1>raw DEF SweepInv, StepInv, Steps
<1>3. RawInv'
  BY <1>same DEF StoreInv, RawInv
<1>4. BackedInv'
  BY <1>same, <1>durable DEF StoreInv, BackedInv
<1>5. KeptInv'
  BY <1>same, <1>durable, <1>raw DEF StoreInv, KeptInv, Kept
<1> QED
  BY <1>1, <1>2, <1>3, <1>4, <1>5 DEF StoreInv

\* Its directory cannot be opened: the history marks it.
LEMMA NotOpenedKeepsIInv ==
  ASSUME IInv, DirectoryNotOpened
  PROVE  IInv'
<1> USE DEF IInv
<1>same. /\ raw' = raw /\ rawDurable' = rawDurable /\ archive' = archive
         /\ archiveDurable' = archiveDurable /\ shots' = shots /\ resumed' = resumed
         /\ unread' = unread /\ open' = open /\ capturing' = capturing /\ todo' = todo
         /\ src' = src /\ temp' = temp
         /\ pc = "syncDirectory" /\ src \in Files /\ pc' = "unlink"
  BY DEF DirectoryNotOpened, store, TypeOK
<1>trouble. trouble' \in 0..MaxTrouble
  BY EodArchiveAssumption DEF DirectoryNotOpened, TypeOK, EodArchiveAssumption
<1>marks. /\ unsynced' \in [Files -> BOOLEAN]
          /\ \A g \in Files : unsynced[g] => unsynced'[g]
          /\ archiveDurable[src] # archive[src] => unsynced'[src]
  BY <1>same DEF DirectoryNotOpened, TypeOK
<1>1. TypeOK'
  BY <1>same, <1>trouble, <1>marks DEF TypeOK, Steps
<1>2. SweepInv' /\ StepInv'
  BY <1>same, <1>marks DEF SweepInv, StepInv, Steps
<1>3. StoreInv'
  <2>1. RawInv'
    BY <1>same DEF StoreInv, RawInv
  <2>2. BackedInv'
    BY <1>same, <1>marks DEF StoreInv, BackedInv
  <2>3. KeptInv'
    BY <1>same, <1>marks DEF StoreInv, KeptInv, Kept
  <2> QED
    BY <2>1, <2>2, <2>3 DEF StoreInv
<1> QED
  BY <1>1, <1>2, <1>3

\* The raw file goes, behind an archive that equals it.
LEMMA UnlinkKeepsIInv ==
  ASSUME IInv, Unlink
  PROVE  IInv'
<1> USE DEF IInv
<1>same. /\ rawDurable' = rawDurable /\ archive' = archive /\ archiveDurable' = archiveDurable
         /\ shots' = shots /\ resumed' = resumed
         /\ unsynced' = unsynced /\ unread' = unread /\ open' = open /\ capturing' = capturing /\ todo' = todo
         /\ src' = src /\ trouble' = trouble /\ temp' = temp
         /\ pc = "unlink" /\ src \in Files /\ pc' = "next"
  BY DEF Unlink, history, TypeOK
<1>was. /\ raw[src] # Absent /\ archive[src] = raw[src] /\ src \notin todo
        /\ unsynced[src] \/ archiveDurable[src] = archive[src]
        /\ rawDurable[src] = raw[src] /\ ~capturing
  BY <1>same DEF SweepInv, StepInv, Steps, StoreInv, RawInv
<1>raw. /\ raw' = [raw EXCEPT ![src] = Absent]
        /\ raw'[src] = Absent
        /\ \A g \in Files \ {src} : raw'[g] = raw[g]
  BY <1>same DEF Unlink, TypeOK
<1>1. TypeOK'
  BY <1>same, <1>raw DEF TypeOK, Content
<1>2. SweepInv' /\ StepInv'
  <2>1. \A g \in todo : raw'[g] # Absent
    BY <1>was, <1>raw DEF TypeOK, SweepInv
  <2> QED
    BY <2>1, <1>same, <1>was DEF SweepInv, StepInv, Steps
<1>3. RawInv'
  BY <1>same, <1>raw DEF StoreInv, RawInv
<1>4. BackedInv'
  BY <1>same, <1>raw, <1>was DEF StoreInv, BackedInv
<1>5. KeptInv'
  BY <1>same, <1>raw, <1>was DEF StoreInv, KeptInv, Kept
<1> QED
  BY <1>1, <1>2, <1>3, <1>4, <1>5 DEF StoreInv

\* A failing step and a kill leave the files as they were.
LEMMA FailureKeepsIInv ==
  ASSUME IInv, StepFails \/ Killed
  PROVE  IInv'
<1> USE DEF IInv
<1>same. /\ UNCHANGED <<store, history>> /\ open' = open /\ src' = src /\ temp' = Absent
         /\ pc' \in {"next", "idle"} /\ (todo' = todo \/ todo' = {})
         /\ (capturing' => capturing) /\ (pc = "idle" => pc' = "idle")
         /\ trouble' = trouble + 1 /\ trouble < MaxTrouble
  BY DEF StepFails, Killed, Steps
<1>files. /\ raw' = raw /\ archive' = archive /\ rawDurable' = rawDurable
          /\ archiveDurable' = archiveDurable /\ shots' = shots /\ resumed' = resumed
          /\ unsynced' = unsynced /\ unread' = unread
  BY <1>same DEF store, history
<1>1. TypeOK'
  <2>1. trouble' \in 0..MaxTrouble
    BY <1>same, EodArchiveAssumption DEF TypeOK, EodArchiveAssumption
  <2>2. capturing' \in BOOLEAN
    BY DEF TypeOK, StepFails, Killed
  <2> QED
    BY <2>1, <2>2, <1>same, <1>files DEF TypeOK, Content
<1>2. SweepInv' /\ StepInv'
  BY <1>same, <1>files DEF SweepInv, StepInv, Steps
<1> QED
  BY <1>1, <1>2, <1>same, StoreUntouched

\* A power loss: a raw file that is there stays, an archive may be an earlier one.
LEMMA PowerLossKeepsIInv ==
  ASSUME IInv, PowerLoss
  PROVE  IInv'
<1> USE DEF IInv
<1>same. /\ UNCHANGED history /\ open' = open /\ src' = src /\ temp' = Absent
         /\ pc' = "idle" /\ todo' = {} /\ capturing' = FALSE
         /\ rawDurable' = raw' /\ archiveDurable' = archive'
         /\ trouble' = trouble + 1 /\ trouble < MaxTrouble
  BY DEF PowerLoss
<1>past. shots' = shots /\ resumed' = resumed /\ unsynced' = unsynced /\ unread' = unread
  BY <1>same DEF history
<1>pick. PICK R, A \in SUBSET Files :
           /\ raw' = [f \in Files |-> IF f \in R THEN rawDurable[f] ELSE raw[f]]
           /\ archive' = [f \in Files |-> IF f \in A THEN archiveDurable[f] ELSE archive[f]]
  BY DEF PowerLoss
<1>either. \A f \in Files : /\ raw'[f] = raw[f] \/ raw'[f] = rawDurable[f]
                            /\ archive'[f] = archive[f] \/ archive'[f] = archiveDurable[f]
  BY <1>pick
<1>1. TypeOK'
  <2>1. trouble' \in 0..MaxTrouble
    BY <1>same, EodArchiveAssumption DEF TypeOK, EodArchiveAssumption
  <2>2. raw' \in [Files -> Content] /\ archive' \in [Files -> Content]
    BY <1>pick DEF TypeOK
  <2> QED
    BY <2>1, <2>2, <1>same, <1>past DEF TypeOK, Content
<1>2. SweepInv' /\ StepInv'
  BY <1>same DEF SweepInv, StepInv, Steps
<1>3. RawInv' /\ BackedInv'
  BY <1>same DEF RawInv, BackedInv
<1>4. KeptInv'
  <2> SUFFICES ASSUME NEW f \in Files, ~resumed[f], ~unsynced[f] PROVE Kept(f)'
    BY <1>past DEF KeptInv
  <2>1. Kept(f) /\ (raw[f] # Absent => rawDurable[f] = raw[f])
    BY DEF StoreInv, KeptInv, RawInv
  <2>2. shots[f] \in 0..MaxFrames
    BY DEF TypeOK
  <2>3. Whole(shots[f]) # Absent
    BY <2>2, WholeContent
  <2>4. CASE raw[f] # Absent
    <3>1. raw'[f] = raw[f]
      BY <2>1, <2>4, <1>either
    <3>2. raw[f] = Whole(shots[f])
      BY <2>1, <2>4 DEF Kept
    <3>3. raw'[f] # Absent /\ raw'[f] = Whole(shots'[f])
      BY <3>1, <3>2, <2>4, <1>past
    <3> QED
      BY <3>3 DEF Kept
  <2>5. CASE raw[f] = Absent /\ shots[f] = 0 /\ rawDurable[f] = Absent
    BY <2>5, <1>either, <1>same, <1>past DEF Kept
  <2>6. CASE /\ raw[f] = Absent /\ archive[f] = Whole(shots[f]) /\ archiveDurable[f] = archive[f]
             /\ rawDurable[f] = Absent \/ rawDurable[f] = Whole(shots[f])
    <3>1. archive'[f] = Whole(shots[f]) /\ archiveDurable'[f] = archive'[f]
      BY <2>6, <1>either, <1>same
    <3>2. rawDurable'[f] = raw'[f] /\ (raw'[f] = Absent \/ raw'[f] = Whole(shots[f]))
      BY <2>6, <1>either, <1>same
    <3> QED
      BY <3>1, <3>2, <2>3, <1>past DEF Kept
  <2> QED
    BY <2>1, <2>4, <2>5, <2>6 DEF Kept
<1> QED
  BY <1>1, <1>2, <1>3, <1>4 DEF StoreInv

-----------------------------------------------------------------------------
(* The theorems. *)

\* Every step keeps the invariant.
LEMMA NextKeepsIInv == IInv /\ [Next]_vars => IInv'
<1> SUFFICES ASSUME IInv, [Next]_vars PROVE IInv'
  OBVIOUS
<1>1. CASE StartCapture \/ StopCapture \/ CloseSession \/ DateOver \/ UNCHANGED vars
  BY <1>1, SessionKeepsIInv DEF DateOver
<1>2. ASSUME NEW f \in Files, AppendFrame(f) PROVE IInv'
  BY <1>2, AppendKeepsIInv
<1>3. CASE StartSweep \/ NextFile \/ CopyToTemp \/ VerifyTemp
  BY <1>3, ReadingKeepsIInv
<1>4. CASE \/ CheckExisting \/ CheckUnreadable \/ Publish
           \/ SyncDirectory \/ DirectoryNotOpened \/ Unlink
  BY <1>4, CheckExistingKeepsIInv, PublishKeepsIInv, SyncKeepsIInv, NotOpenedKeepsIInv,
     UnlinkKeepsIInv
<1>5. CASE StepFails \/ Killed \/ PowerLoss
  BY <1>5, FailureKeepsIInv, PowerLossKeepsIInv
<1> QED
  BY <1>1, <1>2, <1>3, <1>4, <1>5 DEF Next, CompressFile

\* The inductive invariant.
THEOREM Invariance == Spec => []IInv
  BY InitIInv, NextKeepsIInv, PTL DEF Spec

\* What is known of a file whose frames are accounted for holds all of them.
LEMMA KeptHolds == IInv => NothingLost
<1> SUFFICES ASSUME IInv, NEW f \in Files, ~resumed[f], ~unsynced[f]
             PROVE  1..shots[f] \subseteq Held(f)
  BY DEF IInv, NothingLost, EveryFrameHeld
<1>1. shots[f] \in 0..MaxFrames /\ shots[f] \in Nat
  BY EodArchiveAssumption DEF IInv, TypeOK, EodArchiveAssumption
<1>2. 1..shots[f] \subseteq FramesIn(Whole(shots[f]))
  BY <1>1, WholeHolds, WholeContent
<1>3. Kept(f)
  BY DEF IInv, StoreInv, KeptInv
<1>4. shots[f] = 0 => 1..shots[f] = {}
  BY <1>1
<1> QED
  BY <1>2, <1>3, <1>4 DEF Kept, Held

\* Whichever step of the sweep failed, was killed or lost power: no frame is lost.
THEOREM FramesAreHeld == Spec => []NothingLost
  BY Invariance, KeptHolds, PTL

\* A raw file goes only behind its copy.
LEMMA RemovalStep ==
  ASSUME IInv, [Next]_vars, NEW f \in Files, raw[f] # Absent, raw'[f] = Absent
  PROVE  archive[f] = raw[f] /\ (unsynced'[f] \/ archiveDurable[f] = raw[f])
<1>1. CASE Unlink
  <2>1. /\ pc = "unlink" /\ raw' = [raw EXCEPT ![src] = Absent] /\ unsynced' = unsynced /\ unread' = unread
    BY <1>1 DEF Unlink, history
  <2>2. f = src
    BY <2>1 DEF IInv, TypeOK
  <2> QED
    BY <2>1, <2>2 DEF IInv, StepInv
<1>2. CASE PowerLoss
  <2>1. raw'[f] = raw[f] \/ raw'[f] = rawDurable[f]
    BY <1>2 DEF PowerLoss
  <2> QED
    BY <2>1 DEF IInv, StoreInv, RawInv
<1>3. ASSUME NEW g \in Files, AppendFrame(g) PROVE FALSE
  <2>1. /\ shots[g] < MaxFrames /\ shots[g] \in 0..MaxFrames
        /\ raw'[f] = raw[f] \/ (f = g /\ raw'[f] = Append(raw[f], shots[g] + 1))
    BY <1>3 DEF AppendFrame, IInv, TypeOK
  <2>2. shots[g] + 1 \in 1..MaxFrames /\ raw[f] \in Seq(1..MaxFrames)
    BY <2>1, EodArchiveAssumption DEF EodArchiveAssumption, IInv, TypeOK, Content
  <2>3. Append(raw[f], shots[g] + 1) \in Seq(1..MaxFrames)
    BY <2>2, AppendProperties
  <2> QED
    BY <2>1, <2>3, EodArchiveAssumption DEF EodArchiveAssumption
<1>4. CASE raw' = raw
  BY <1>4
<1> QED
  BY <1>1, <1>2, <1>3, <1>4
  DEF Next, CompressFile, StartCapture, StopCapture, CloseSession, StartSweep, NextFile,
      CheckExisting, CheckUnreadable, CopyToTemp, VerifyTemp, Publish, SyncDirectory,
      DirectoryNotOpened, StepFails, Killed, DateOver, vars, store

\* An archive is replaced by a longer one or stays; a power loss may bring an earlier
\* one back where the raw file holds what the lost one did.
LEMMA ArchiveStep ==
  ASSUME IInv, [Next]_vars, NEW f \in Files, archive[f] # Absent
  PROVE  \/ archive'[f] # Absent /\ Len(archive'[f]) >= Len(archive[f])
         \/ raw'[f] # Absent /\ IsPrefix(archive[f], raw'[f])
         \/ unsynced[f]
         \/ f = src /\ unread
<1>len. archive[f] \in Seq(1..MaxFrames) /\ Len(archive[f]) \in Nat
  BY LenProperties DEF IInv, TypeOK, Content
<1>1. CASE Publish
  <2>1. /\ pc = "publish" /\ src \in Files /\ archive' = [archive EXCEPT ![src] = raw[src]]
        /\ raw[src] # Absent /\ (~Refused(src) \/ unread)
    BY <1>1 DEF Publish, IInv, TypeOK, StepInv, SweepInv, Steps
  <2>2. CASE f = src /\ ~unread
    <3>1. archive'[f] = raw[f] /\ ~(Len(archive[f]) > Len(raw[f])) /\ raw[f] \in Seq(1..MaxFrames)
      BY <2>1, <2>2 DEF Refused, IInv, TypeOK, Content
    <3> QED
      BY <3>1, <2>1, <2>2, <1>len, LenProperties
  <2>3. CASE f # src
    <3>1. archive'[f] = archive[f]
      BY <2>1, <2>3 DEF IInv, TypeOK
    <3> QED
      BY <3>1, <1>len
  <2> QED
    BY <2>2, <2>3
<1>2. CASE PowerLoss
  <2>1. /\ raw'[f] = raw[f] \/ raw'[f] = rawDurable[f]
        /\ archive'[f] = archive[f] \/ archive'[f] = archiveDurable[f]
    BY <1>2 DEF PowerLoss
  <2>2. CASE archive'[f] = archive[f]
    BY <2>2, <1>len
  <2>3. CASE archive'[f] # archive[f] /\ ~unsynced[f]
    <3>1. raw[f] # Absent /\ IsPrefix(archive[f], raw[f]) /\ rawDurable[f] = raw[f]
      BY <2>1, <2>3 DEF IInv, StoreInv, BackedInv, RawInv
    <3> QED
      BY <3>1, <2>1
  <2> QED
    BY <2>2, <2>3
<1>3. CASE archive' = archive
  BY <1>3, <1>len
<1> QED
  BY <1>1, <1>2, <1>3
  DEF Next, CompressFile, StartCapture, StopCapture, CloseSession, AppendFrame, StartSweep,
      NextFile, CheckExisting, CheckUnreadable, CopyToTemp, VerifyTemp, SyncDirectory,
      DirectoryNotOpened, Unlink, StepFails, Killed, DateOver, vars, store

\* What a step may take away.
THEOREM StepsRemoveSafely == Spec => RemovalIsSafe
<1> DEFINE Removed == \A f \in Files : raw[f] # Absent /\ raw'[f] = Absent =>
                        /\ archive[f] = raw[f]
                        /\ unsynced'[f] \/ archiveDurable[f] = raw[f]
           Shrunk == \A f \in Files : archive[f] # Absent =>
                       \/ archive'[f] # Absent /\ Len(archive'[f]) >= Len(archive[f])
                       \/ raw'[f] # Absent /\ IsPrefix(archive[f], raw'[f])
                       \/ unsynced[f]
                       \/ f = src /\ unread
<1>1. IInv /\ [Next]_vars => [Removed]_vars
  BY RemovalStep
<1>2. IInv /\ [Next]_vars => [Shrunk]_vars
  BY ArchiveStep
<1> QED
  BY Invariance, <1>1, <1>2, PTL
  DEF Spec, RemovalIsSafe, RawRemovedOnlyWhenArchived, ArchiveNeverShrinks
=============================================================================
