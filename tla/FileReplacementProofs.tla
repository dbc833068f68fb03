----------------------- MODULE FileReplacementProofs -----------------------
(* Replacing a file does what DesignStore promises, for every set of files,  *)
(* names and designs, on both platforms, whatever fails and whenever the     *)
(* process dies.                                                             *)
EXTENDS FileReplacement, TLAPS

USE DEF fileVars

\* The steps at which there is a temporary file, and at which it is complete.
WithTemporary == {"created", "written", "clear", "rename", "restore", "cleanup"}
Complete == {"written", "clear", "rename", "restore"}

\* The temporary file is none of the design files and complete before it is
\* renamed; what was found at the target is still there until it is replaced.
FileInv ==
  /\ FileTypeOK
  /\ job.at # "idle" => job.target \in File
  /\ job.at \in WithTemporary => job.temp \in TempName
  /\ job.at \in {"idle", "begun", "created"} => job.content = Nothing
  /\ job.at \in Complete =>
       /\ job.content \in Content
       /\ disk[job.temp].content = job.content
  /\ job.at \in Complete \cup {"created"} =>
       disk[job.temp].kind = "file" /\ disk[job.temp].ownerReads
  /\ job.at = "done" => job.content \in Content
  /\ job.at = "idle" => job = Idle
  /\ job.at \in {"clear", "restore"} => ClearsReadOnly
  /\ job.at \notin {"idle", "done", "failed"} /\ job.replaced.isFile =>
       disk[job.target].kind = "file"

\* The design files are not touched.
Untouched == behind' = behind /\ \A f \in File : disk'[f] = disk[f]

LEMMA TypesOfEntries == Absent \in Entry /\ NewFile \in Entry
BY DEF Absent, NewFile, Entry, Kinds

\* A temporary name is not the name of a design file.
LEMMA TemporaryIsNoTarget ==
  ASSUME NEW t \in TempName, NEW f \in File
  PROVE  t # f /\ t \in Names /\ f \in Names
BY NamesApart DEF Names

-----------------------------------------------------------------------------
\* The invariant holds at first.
LEMMA InvInit == FileInit => FileInv
BY DEF FileInit, FileInv, FileTypeOK, Idle, NoTarget, Steps, Errors, WithTemporary,
       Complete, ClearsReadOnly, Job, Target

\* What replacedTarget() finds is a record, and the file itself if it says so.
LEMMA FoundAtFacts ==
  ASSUME NEW f \in File, disk \in [Names -> Entry], behind \in [File -> Entry],
         NEW found \in FoundAt(f)
  PROVE  /\ found \in Target
         /\ found.isFile => disk[f].kind = "file"
<1>1. Status(f) \in Entry
  BY DEF Status, Names
<1>2. Status(f).readOnly \in BOOLEAN
  BY <1>1 DEF Entry
<1>3. /\ ReplacedTarget(f) \in Target
      /\ ReplacedTarget(f).isFile => disk[f].kind = "file"
  BY <1>2 DEF ReplacedTarget, NoTarget, Target
<1>4. NoTarget \in Target /\ ~NoTarget.isFile
  BY DEF NoTarget, Target
<1>5. ASSUME NEW r \in Target
      PROVE  /\ [r EXCEPT !.isFile = FALSE] \in Target
             /\ ~[r EXCEPT !.isFile = FALSE].isFile
  BY DEF Target
<1> QED
  BY <1>3, <1>4, <1>5 DEF FoundAt

\* A step that goes on, or fails, changes nothing else of the job.
LEMMA JobGoes ==
  ASSUME job \in Job, NEW s \in Steps,
         GoesTo(s) \/ FailsAt(s)
  PROVE  /\ job' \in Job
         /\ job'.at = s
         /\ job'.target = job.target /\ job'.temp = job.temp
         /\ job'.content = job.content /\ job'.replaced = job.replaced
BY DEF GoesTo, FailsAt, Job, Errors

\* Every step keeps it.
LEMMA InvNext == FileInv /\ [FileNext]_fileVars => FileInv'
<1> SUFFICES ASSUME FileInv, [FileNext]_fileVars PROVE FileInv'
  OBVIOUS
<1>0. /\ platform \in {"posix", "windows"} /\ disk \in [Names -> Entry]
      /\ behind \in [File -> Entry] /\ job \in Job
  BY DEF FileInv, FileTypeOK
<1> USE DEF WithTemporary, Complete, Steps
<1>1. ASSUME NEW f \in File, Begin(f) PROVE FileInv'
  <2>0. PICK found \in FoundAt(f) :
          job' = [Idle EXCEPT !.at = "begun", !.target = f, !.replaced = found]
    BY <1>1 DEF Begin
  <2>1. /\ job'.at = "begun" /\ job'.target = f /\ job'.content = Nothing
        /\ job'.replaced = found
        /\ UNCHANGED <<platform, disk, behind>>
    BY <1>1, <2>0 DEF Begin, Idle
  <2>2. job' \in Job
    BY <1>0, <2>0, FoundAtFacts DEF Idle, Job, Errors
  <2>3. job'.replaced.isFile => disk'[f].kind = "file"
    BY <1>0, <2>1, FoundAtFacts
  <2> QED
    BY <1>0, <2>1, <2>2, <2>3 DEF FileInv, FileTypeOK
<1>2. CASE CreateTemporary
  <2>1. ASSUME NEW n \in TempName, disk' = [disk EXCEPT ![n] = NewFile],
               job' = [job EXCEPT !.at = "created", !.temp = n]
        PROVE  FileInv'
    <3>1. /\ job' \in Job /\ job'.at = "created" /\ job'.temp = n
          /\ job'.target = job.target /\ job'.content = job.content
          /\ job'.replaced = job.replaced
      BY <1>0, <2>1 DEF Job
    <3>2. disk' \in [Names -> Entry]
      BY <1>0, <2>1, TypesOfEntries DEF Names
    <3>3. job.target \in File /\ disk'[job.target] = disk[job.target]
      BY <1>0, <1>2, <2>1, TemporaryIsNoTarget DEF CreateTemporary, FileInv
    <3>4. disk'[n].kind = "file" /\ disk'[n].ownerReads
      BY <1>0, <2>1, TemporaryIsNoTarget DEF NewFile, Names
    <3> QED
      BY ZenonT(40), <1>0, <1>2, <3>1, <3>2, <3>3, <3>4 DEF CreateTemporary, FileInv, FileTypeOK
  <2>2. ASSUME FailsAt("failed"), disk' = disk PROVE FileInv'
    BY <1>0, <1>2, <2>2, JobGoes DEF CreateTemporary, FileInv, FileTypeOK
  <2> QED
    BY <1>2, <2>1, <2>2 DEF CreateTemporary
<1>3. ASSUME NEW e \in Errors \ {"none"}, ContentsFail(e) PROVE FileInv'
  <2>1. /\ job' \in Job /\ job'.at = "cleanup" /\ job'.temp = job.temp
        /\ job'.target = job.target /\ job'.content = job.content
        /\ job'.replaced = job.replaced
    BY <1>0, <1>3 DEF ContentsFail, Job
  <2> QED
    BY <1>0, <1>3, <2>1 DEF ContentsFail, FileInv, FileTypeOK
<1>4. ASSUME NEW c \in Content, Write(c) PROVE FileInv'
  <2>0. job.temp \in TempName /\ job.target \in File /\ job.temp \in Names
    BY <1>4, TemporaryIsNoTarget DEF Write, FileInv
  <2>1. ASSUME disk' = [disk EXCEPT ![job.temp].content = c],
               job' = [job EXCEPT !.at = "written", !.content = c]
        PROVE  FileInv'
    <3>1. /\ job' \in Job /\ job'.at = "written" /\ job'.temp = job.temp
          /\ job'.target = job.target /\ job'.content = c
          /\ job'.replaced = job.replaced
      BY <1>0, <2>1 DEF Job
    <3>2. /\ disk' \in [Names -> Entry]
          /\ disk'[job.temp].content = c
          /\ disk'[job.temp].kind = disk[job.temp].kind
          /\ disk'[job.temp].ownerReads = disk[job.temp].ownerReads
      BY <1>0, <2>0, <2>1 DEF Entry
    <3>3. disk'[job.target] = disk[job.target]
      BY <1>0, <2>0, <2>1, TemporaryIsNoTarget
    <3>4. disk[job.temp].kind = "file" /\ disk[job.temp].ownerReads
      BY <1>4 DEF Write, FileInv
    <3> QED
      BY <1>0, <1>4, <2>0, <3>1, <3>2, <3>3, <3>4 DEF Write, FileInv, FileTypeOK
  <2>2. ASSUME FailsAt("cleanup"), disk' = disk PROVE FileInv'
    BY <1>0, <1>4, <2>2, JobGoes DEF Write, FileInv, FileTypeOK
  <2> QED
    BY <1>4, <2>1, <2>2 DEF Write
<1>5. CASE CopyPermissions
  <2>0. job.temp \in TempName /\ job.target \in File /\ job.temp \in Names
    BY <1>5, TemporaryIsNoTarget DEF CopyPermissions, FileInv
  <2>1. PICK s \in {"clear", "rename"} : GoesTo(s) /\ (s = "clear" => ClearsReadOnly)
    BY <1>5 DEF CopyPermissions
  <2>2. /\ disk' \in [Names -> Entry]
        /\ disk'[job.temp].content = disk[job.temp].content
        /\ disk'[job.temp].kind = disk[job.temp].kind
        /\ disk'[job.temp].ownerReads
        /\ disk'[job.target] = disk[job.target]
    <3>1. CASE disk' = disk
      BY <1>0, <1>5, <3>1 DEF CopyPermissions, FileInv
    <3>2. CASE disk' = [disk EXCEPT ![job.temp].readOnly = job.replaced.readOnly,
                                    ![job.temp].ownerReads = TRUE]
      BY <1>0, <2>0, <3>2, TemporaryIsNoTarget DEF Entry, Job, Target
    <3> QED
      BY <1>5, <3>1, <3>2 DEF CopyPermissions
  <2> QED
    BY <1>0, <1>5, <2>0, <2>1, <2>2, JobGoes
       DEF CopyPermissions, FileInv, FileTypeOK, ClearsReadOnly
<1>6. CASE ClearReadOnly
  <2>0. /\ job.temp \in TempName /\ job.target \in File /\ job.temp \in Names
        /\ job.target \in Names /\ job.temp # job.target
    BY <1>6, TemporaryIsNoTarget DEF ClearReadOnly, FileInv
  <2>1. ASSUME disk' = [disk EXCEPT ![job.target].readOnly = FALSE], GoesTo("rename")
        PROVE  FileInv'
    <3>1. /\ disk' \in [Names -> Entry]
          /\ disk'[job.temp] = disk[job.temp]
          /\ disk'[job.target].kind = disk[job.target].kind
      <4>1. disk[job.target] \in Entry
        BY <1>0, <2>0
      <4>2. [disk[job.target] EXCEPT !.readOnly = FALSE] \in Entry
        BY <4>1 DEF Entry
      <4>3. [disk[job.target] EXCEPT !.readOnly = FALSE].kind = disk[job.target].kind
        BY <4>1 DEF Entry
      <4> QED
        BY <1>0, <2>0, <2>1, <4>2, <4>3
    <3> QED
      BY <1>0, <1>6, <2>0, <2>1, <3>1, JobGoes DEF ClearReadOnly, FileInv, FileTypeOK
  <2>2. ASSUME FailsAt("cleanup"), disk' = disk PROVE FileInv'
    BY <1>0, <1>6, <2>2, JobGoes DEF ClearReadOnly, FileInv, FileTypeOK
  <2> QED
    BY <1>6, <2>1, <2>2 DEF ClearReadOnly
<1>7. CASE Rename
  <2>0. /\ job.temp \in TempName /\ job.target \in File /\ job.temp \in Names
        /\ job.target \in Names /\ job.temp # job.target
    BY <1>7, TemporaryIsNoTarget DEF Rename, FileInv
  <2>1. ASSUME disk' = [disk EXCEPT ![job.target] = disk[job.temp], ![job.temp] = Absent],
               GoesTo("done")
        PROVE  FileInv'
    <3>1. disk' \in [Names -> Entry]
      BY <1>0, <2>0, <2>1, TypesOfEntries
    <3> QED
      BY <1>0, <1>7, <2>0, <2>1, <3>1, JobGoes DEF Rename, FileInv, FileTypeOK
  <2>2. ASSUME NEW s \in {"restore", "cleanup"}, s = "restore" => ClearsReadOnly,
               FailsAt(s), disk' = disk
        PROVE  FileInv'
    BY <1>0, <1>7, <2>2, JobGoes DEF Rename, FileInv, FileTypeOK, ClearsReadOnly
  <2> QED
    BY <1>7, <2>1, <2>2 DEF Rename
<1>8. CASE RestoreReadOnly
  <2>0. /\ job.temp \in TempName /\ job.target \in File /\ job.temp \in Names
        /\ job.target \in Names /\ job.temp # job.target
    BY <1>8, TemporaryIsNoTarget DEF RestoreReadOnly, FileInv
  <2>1. /\ disk' \in [Names -> Entry]
        /\ disk'[job.target].kind = disk[job.target].kind
    BY <1>0, <1>8, <2>0 DEF RestoreReadOnly, Entry
  <2> QED
    BY <1>0, <1>8, <2>0, <2>1, JobGoes DEF RestoreReadOnly, FileInv, FileTypeOK
<1>9. CASE RemoveTemporary
  <2>0. job.temp \in TempName /\ job.target \in File /\ job.temp \in Names
    BY <1>9, TemporaryIsNoTarget DEF RemoveTemporary, FileInv
  <2>1. disk' \in [Names -> Entry]
    BY <1>0, <1>9, <2>0, TypesOfEntries DEF RemoveTemporary
  <2> QED
    BY <1>0, <1>9, <2>0, <2>1, JobGoes DEF RemoveTemporary, FileInv, FileTypeOK
<1>10. CASE job' = Idle /\ UNCHANGED <<platform, disk, behind>>
  BY <1>0, <1>10 DEF Idle, NoTarget, Job, Target, Errors, FileInv, FileTypeOK, ClearsReadOnly
<1>11. CASE UNCHANGED fileVars
  BY <1>11 DEF ClearsReadOnly, FileInv, FileTypeOK
<1> QED
  BY <1>1, <1>2, <1>3, <1>4, <1>5, <1>6, <1>7, <1>8, <1>9, <1>10, <1>11
     DEF FileNext, FileStep, Returned, FileCrash

\* The invariant holds throughout.
THEOREM FileInvHolds == FileSpec => []FileInv
BY InvInit, InvNext, PTL DEF FileSpec

\* The state of a replacement keeps its shape: the disk holds entries only, and
\* a job names design files, temporary names and designs.
THEOREM FileTypesHold == FileSpec => []FileTypeOK
<1>1. FileInv => FileTypeOK
  BY DEF FileInv
<1> QED
  BY <1>1, FileInvHolds, PTL

-----------------------------------------------------------------------------
\* What each step does to the design files, as OnlyTheRenameReplaces says.
ReplacesByRename ==
  /\ behind' = behind
  /\ \A f \in File : disk'[f] # disk[f] =>
       /\ f = job.target
       /\ \/ /\ job'.at = "done"
             /\ disk'[f].content = job.content
             /\ disk'[f].ownerReads
          \/ /\ platform = "windows" /\ disk[f].kind = "file"
             /\ disk'[f] = [disk[f] EXCEPT !.readOnly = disk'[f].readOnly]

\* A step that changes an entry of a temporary name only.
LEMMA TemporaryOnly ==
  ASSUME disk \in [Names -> Entry], NEW n \in TempName,
         \A m \in Names \ {n} : disk'[m] = disk[m]
  PROVE  \A f \in File : disk'[f] = disk[f]
BY TemporaryIsNoTarget

\* A step that changes the read-only attribute of the target only.
LEMMA AttributeOnly ==
  ASSUME disk \in [Names -> Entry], NEW f \in File, NEW b \in BOOLEAN,
         disk' = [disk EXCEPT ![f].readOnly = b]
  PROVE  /\ disk'[f] = [disk[f] EXCEPT !.readOnly = disk'[f].readOnly]
         /\ disk'[f].kind = disk[f].kind
         /\ disk'[f].content = disk[f].content
         /\ \A g \in Names \ {f} : disk'[g] = disk[g]
<1>1. f \in Names /\ disk[f] \in Entry
  BY DEF Names
<1>2. disk'[f] = [disk[f] EXCEPT !.readOnly = b]
  BY <1>1
<1>3. disk'[f].readOnly = b /\ disk'[f].kind = disk[f].kind
      /\ disk'[f].content = disk[f].content
  BY <1>1, <1>2 DEF Entry
<1> QED
  BY <1>1, <1>2, <1>3

\* The steps that leave the design files alone.
LEMMA UntouchedSteps ==
  ASSUME FileInv,
         \/ \E f \in File : Begin(f)
         \/ CreateTemporary
         \/ \E e \in Errors \ {"none"} : ContentsFail(e)
         \/ \E c \in Content : Write(c)
         \/ CopyPermissions
         \/ RemoveTemporary
         \/ Returned
         \/ FileCrash
  PROVE  Untouched
<1>0. disk \in [Names -> Entry]
  BY DEF FileInv, FileTypeOK
<1>1. CASE disk' = disk /\ behind' = behind
  BY <1>1 DEF Untouched
<1>2. CASE CreateTemporary
  BY <1>0, <1>1, <1>2, TemporaryOnly DEF CreateTemporary, Untouched
<1>3. CASE \E c \in Content : Write(c)
  <2>1. job.temp \in TempName
    BY <1>3 DEF Write, FileInv, WithTemporary
  <2> QED
    BY <1>0, <1>1, <1>3, <2>1, TemporaryOnly DEF Write, Untouched
<1>4. CASE CopyPermissions
  <2>1. job.temp \in TempName
    BY <1>4 DEF CopyPermissions, FileInv, WithTemporary
  <2> QED
    BY <1>0, <1>1, <1>4, <2>1, TemporaryOnly DEF CopyPermissions, Untouched
<1>5. CASE RemoveTemporary
  <2>1. job.temp \in TempName
    BY <1>5 DEF RemoveTemporary, FileInv, WithTemporary
  <2> QED
    BY <1>0, <1>5, <2>1, TemporaryOnly DEF RemoveTemporary, Untouched
<1> QED
  BY <1>1, <1>2, <1>3, <1>4, <1>5 DEF Begin, ContentsFail, Returned, FileCrash

\* What a rename puts in the place of the target.
LEMMA Renamed ==
  ASSUME FileInv, Rename, ~UNCHANGED disk
  PROVE  /\ behind' = behind /\ job' = [job EXCEPT !.at = "done"] /\ job.target \in File
         /\ disk'[job.target].kind = "file"
         /\ disk'[job.target].content = job.content
         /\ disk'[job.target].ownerReads
         /\ \A f \in File \ {job.target} : disk'[f] = disk[f]
<1>1. /\ disk \in [Names -> Entry] /\ job.temp \in TempName /\ job.target \in File
      /\ disk[job.temp].kind = "file" /\ disk[job.temp].ownerReads
      /\ disk[job.temp].content = job.content
  BY DEF Rename, FileInv, FileTypeOK, WithTemporary, Complete
<1>2. /\ disk' = [disk EXCEPT ![job.target] = disk[job.temp], ![job.temp] = Absent]
      /\ behind' = behind /\ job' = [job EXCEPT !.at = "done"]
  BY DEF Rename, GoesTo
<1>3. job.temp # job.target /\ job.target \in Names
  BY <1>1, TemporaryIsNoTarget
<1>4. disk'[job.target] = disk[job.temp]
  BY <1>1, <1>2, <1>3
<1>5. \A f \in File \ {job.target} : disk'[f] = disk[f]
  BY <1>1, <1>2, <1>3, TemporaryIsNoTarget
<1> QED
  BY <1>1, <1>2, <1>4, <1>5

\* The two steps that change the read-only attribute.
LEMMA AttributeSteps ==
  ASSUME FileInv, ClearReadOnly \/ RestoreReadOnly
  PROVE  /\ behind' = behind
         /\ \/ disk' = disk
            \/ /\ job.target \in File /\ disk[job.target].kind = "file"
               /\ platform = "windows"
               /\ \E b \in BOOLEAN : disk' = [disk EXCEPT ![job.target].readOnly = b]
BY DEF ClearReadOnly, RestoreReadOnly, FileInv, ClearsReadOnly

\* A design file changes by the rename only, which puts the whole new design
\* there, or in the read-only attribute that keeps Windows from renaming; a
\* file behind a link never changes.
THEOREM ReplacesOnlyByRename == FileSpec => OnlyTheRenameReplaces
<1>1. FileInv /\ [FileNext]_fileVars => [ReplacesByRename]_fileVars
  <2> SUFFICES ASSUME FileInv, FileNext PROVE ReplacesByRename
    OBVIOUS
  <2>0. disk \in [Names -> Entry]
    BY DEF FileInv, FileTypeOK
  <2>1. CASE Untouched
    BY <2>1 DEF Untouched, ReplacesByRename
  <2>2. CASE Rename
    <3>1. CASE UNCHANGED disk
      BY <2>2, <3>1 DEF Rename, ReplacesByRename
    <3>2. CASE ~UNCHANGED disk
      <4>1. job'.at = "done"
        BY <2>2, <3>2, Renamed DEF FileInv, FileTypeOK, Job
      <4> QED
        BY <2>2, <3>2, <4>1, Renamed DEF ReplacesByRename
    <3> QED
      BY <3>1, <3>2
  <2>3. CASE ClearReadOnly \/ RestoreReadOnly
    <3>1. CASE disk' = disk
      BY <2>3, <3>1, AttributeSteps DEF ReplacesByRename
    <3>2. CASE disk' # disk
      <4>1. PICK b \in BOOLEAN : disk' = [disk EXCEPT ![job.target].readOnly = b]
        BY <2>3, <3>2, AttributeSteps
      <4>2. /\ disk'[job.target] = [disk[job.target] EXCEPT !.readOnly = disk'[job.target].readOnly]
            /\ \A f \in Names \ {job.target} : disk'[f] = disk[f]
        BY <2>0, <2>3, <3>2, <4>1, AttributeSteps, AttributeOnly
      <4> QED
        BY <2>3, <3>2, <4>2, AttributeSteps DEF ReplacesByRename, Names
    <3> QED
      BY <3>1, <3>2
  <2> QED
    BY <2>1, <2>2, <2>3, UntouchedSteps DEF FileNext, FileStep
<1> QED
  BY <1>1, FileInvHolds, PTL DEF FileSpec, OnlyTheRenameReplaces, ReplacesByRename

-----------------------------------------------------------------------------
\* What DesignStore sees of a replacement.
Stores == [f \in File |-> Stored(f)]
Phase == CASE job.at \in {"idle", "done", "failed"} -> job.at
           [] OTHER -> IF job.content = Nothing THEN "asked" ELSE "given"
Request == [at |-> Phase, file |-> job.target, content |-> job.content]

\* A design reads the same when its entry keeps its kind and its content.
LEMMA StoresUnchanged ==
  ASSUME behind' = behind,
         \A f \in File : /\ disk'[f].kind = disk[f].kind
                        /\ disk'[f].content = disk[f].content
  PROVE  Stores' = Stores
BY DEF Stores, Stored, Status

LEMMA UntouchedStores ==
  ASSUME Untouched PROVE Stores' = Stores
BY StoresUnchanged DEF Untouched

\* A new attribute is no new content.
LEMMA AttributeStores ==
  ASSUME FileInv, ClearReadOnly \/ RestoreReadOnly
  PROVE  Stores' = Stores
<1>0. disk \in [Names -> Entry]
  BY DEF FileInv, FileTypeOK
<1>1. CASE disk' = disk
  BY <1>1, AttributeSteps, StoresUnchanged
<1>2. CASE disk' # disk
  <2>1. PICK b \in BOOLEAN : disk' = [disk EXCEPT ![job.target].readOnly = b]
    BY <1>2, AttributeSteps
  <2>2. job.target \in File /\ behind' = behind
    BY <1>2, AttributeSteps
  <2>3. /\ disk'[job.target].kind = disk[job.target].kind
        /\ disk'[job.target].content = disk[job.target].content
        /\ \A g \in Names \ {job.target} : disk'[g] = disk[g]
    BY <1>0, <2>1, <2>2, AttributeOnly
  <2>4. \A f \in File : disk'[f].kind = disk[f].kind /\ disk'[f].content = disk[f].content
    BY <2>2, <2>3 DEF Names
  <2> QED
    BY <2>2, <2>4, StoresUnchanged
<1> QED
  BY <1>1, <1>2

\* A step in the middle of a replacement that gives it no content is none of
\* the store's.
LEMMA MiddleStep ==
  ASSUME job.at \notin {"idle", "done", "failed"},
         job'.at \notin {"idle", "done", "failed"},
         job'.target = job.target, job'.content = job.content
  PROVE  Request' = Request
BY DEF Request, Phase

\* A step that gives up refuses the request.
LEMMA GivesUp ==
  ASSUME job \in Job, job.at \notin {"idle", "done", "failed"}, job'.at = "failed",
         job'.target = job.target, job'.content = job.content, Stores' = Stores
  PROVE  Store!Refuse
<1>1. Request' = [Request EXCEPT !.at = "failed"]
  BY DEF Request, Phase
<1>2. Request.at \in {"asked", "given"}
  BY DEF Request, Phase
<1> QED
  BY <1>1, <1>2 DEF Store!Refuse, Request, Phase, Stores

\* Without a job the request is idle.
LEMMA IdleRequest ==
  /\ job = Idle => Request = Store!Idle
  /\ job' = Idle => Request' = Store!Idle
BY DEF Request, Phase, Idle, Store!Idle

\* Every step of a replacement is a step of the store, or none.
LEMMA StepOfStore ==
  ASSUME FileInv, FileNext
  PROVE  Store!Next \/ (Stores' = Stores /\ Request' = Request)
<1>0. disk \in [Names -> Entry] /\ job \in Job
  BY DEF FileInv, FileTypeOK
<1>1. ASSUME NEW f \in File, Begin(f) PROVE Store!Next
  <2>1. Stores' = Stores
    BY <1>1, UntouchedSteps, UntouchedStores
  <2>2. Request = Store!Idle
    BY <1>1, IdleRequest DEF Begin, FileInv
  <2>3. Request' = [at |-> "asked", file |-> f, content |-> Nothing]
    <3>1. job'.at = "begun" /\ job'.target = f /\ job'.content = Nothing
      BY <1>1 DEF Begin, Idle
    <3> QED
      BY <3>1 DEF Request, Phase
  <2>4. Store!Ask(f)
    BY <2>1, <2>2, <2>3 DEF Store!Ask, Store!Idle, Stores, Request, Phase
  <2> QED
    BY <2>4 DEF Store!Next
<1>2. CASE CreateTemporary
  <2>1. Stores' = Stores
    BY <1>2, UntouchedSteps, UntouchedStores
  <2>2. ASSUME NEW n \in TempName, job' = [job EXCEPT !.at = "created", !.temp = n]
        PROVE  Request' = Request
    BY <1>0, <1>2, <2>2, MiddleStep DEF CreateTemporary, Job
  <2>3. ASSUME FailsAt("failed") PROVE Store!Next
    BY <1>0, <1>2, <2>1, <2>3, GivesUp, JobGoes DEF CreateTemporary, Steps, Store!Next
  <2> QED
    BY <1>2, <2>1, <2>2, <2>3 DEF CreateTemporary
<1>3. ASSUME NEW e \in Errors \ {"none"}, ContentsFail(e)
      PROVE  Stores' = Stores /\ Request' = Request
  <2>1. /\ job'.at = "cleanup"
        /\ job'.target = job.target /\ job'.content = job.content
    BY <1>0, <1>3 DEF ContentsFail, Job
  <2> QED
    BY <1>3, <2>1, MiddleStep, UntouchedSteps, UntouchedStores DEF ContentsFail
<1>4. ASSUME NEW c \in Content, Write(c)
      PROVE  Store!Next \/ (Stores' = Stores /\ Request' = Request)
  <2>1. Stores' = Stores
    BY <1>4, UntouchedSteps, UntouchedStores
  <2>2. ASSUME job' = [job EXCEPT !.at = "written", !.content = c] PROVE Store!Next
    <3>1. /\ job.at = "created" /\ job.content = Nothing
          /\ job'.at = "written" /\ job'.content = c /\ job'.target = job.target
      BY <1>0, <1>4, <2>2 DEF Write, FileInv, Job
    <3>2. /\ Request.at = "asked" /\ Request.file = job.target
          /\ Request' = [at |-> "given", file |-> job.target, content |-> c]
      BY <3>1, NothingIsNoContent DEF Request, Phase
    <3>3. Store!Give(c)
      BY <2>1, <3>2 DEF Store!Give, Stores, Request, Phase
    <3> QED
      BY <3>3 DEF Store!Next
  <2>3. ASSUME FailsAt("cleanup") PROVE Request' = Request
    BY <1>0, <1>4, <2>3, JobGoes, MiddleStep DEF Write, Steps
  <2> QED
    BY <1>4, <2>1, <2>2, <2>3 DEF Write
<1>5. CASE CopyPermissions
  <2>1. PICK s \in {"clear", "rename"} : GoesTo(s)
    BY <1>5 DEF CopyPermissions
  <2>2. Request' = Request
    BY <1>0, <1>5, <2>1, JobGoes, MiddleStep DEF CopyPermissions, Steps
  <2> QED
    BY <1>5, <2>2, UntouchedSteps, UntouchedStores
<1>6. CASE ClearReadOnly
  <2>1. PICK s \in {"rename", "cleanup"} : GoesTo(s) \/ FailsAt(s)
    BY <1>6 DEF ClearReadOnly
  <2>2. Request' = Request
    BY <1>0, <1>6, <2>1, JobGoes, MiddleStep DEF ClearReadOnly, Steps
  <2> QED
    BY <1>6, <2>2, AttributeStores
<1>7. CASE Rename
  <2>1. CASE ~UNCHANGED disk
    <3>1. /\ job.at = "rename" /\ job.content \in Content /\ job.content # Nothing
      BY <1>7, NothingIsNoContent DEF Rename, FileInv, Complete
    <3>2. Stores' = [Stores EXCEPT ![job.target] = job.content]
      BY <1>7, <2>1, Renamed DEF Stores, Stored, Status
    <3>3. Request.at = "given" /\ Request' = [Request EXCEPT !.at = "done"]
      BY <1>0, <1>7, <2>1, <3>1, Renamed DEF Request, Phase, Job
    <3>4. Request.file = job.target /\ Request.content = job.content
      BY DEF Request
    <3>5. Store!Commit
      BY <3>2, <3>3, <3>4 DEF Store!Commit, Stores, Request, Phase
    <3> QED
      BY <3>5 DEF Store!Next
  <2>2. CASE UNCHANGED disk
    <3>1. PICK s \in {"done", "restore", "cleanup"} :
            (s = "done" /\ GoesTo(s) /\ disk' = [disk EXCEPT ![job.target] = disk[job.temp], ![job.temp] = Absent])
            \/ (s # "done" /\ FailsAt(s))
      BY <1>7 DEF Rename
    <3>2. s # "done"
      <4>1. /\ job.temp \in TempName /\ disk[job.temp].kind = "file" /\ job.target \in File
        BY <1>7 DEF Rename, FileInv, WithTemporary, Complete
      <4>2. job.temp \in Names /\ job.temp # job.target
        BY <4>1, TemporaryIsNoTarget
      <4> QED
        BY <1>0, <2>2, <3>1, <4>1, <4>2 DEF Absent
    <3>3. Request' = Request
      BY <1>0, <1>7, <3>1, <3>2, JobGoes, MiddleStep DEF Rename, Steps
    <3>4. Stores' = Stores
      BY <1>7, <2>2, StoresUnchanged DEF Rename
    <3> QED
      BY <3>3, <3>4
  <2> QED
    BY <2>1, <2>2
<1>8. CASE RestoreReadOnly
  <2>1. Request' = Request
    BY <1>0, <1>8, JobGoes, MiddleStep DEF RestoreReadOnly, Steps
  <2> QED
    BY <1>8, <2>1, AttributeStores
<1>9. CASE RemoveTemporary
  <2>1. Store!Refuse
    BY <1>0, <1>9, GivesUp, JobGoes, UntouchedSteps, UntouchedStores DEF RemoveTemporary, Steps
  <2> QED
    BY <2>1 DEF Store!Next
<1>10. CASE Returned
  <2>1. Store!Answered
    BY <1>10, UntouchedSteps, UntouchedStores, IdleRequest
       DEF Returned, Store!Answered, Request, Phase, Stores
  <2> QED
    BY <2>1 DEF Store!Next
<1>11. CASE FileCrash
  <2>1. Store!Crash
    BY <1>11, UntouchedSteps, UntouchedStores, IdleRequest
       DEF FileCrash, Store!Crash, Request, Phase, Stores
  <2> QED
    BY <2>1 DEF Store!Next
<1> QED
  BY <1>1, <1>2, <1>3, <1>4, <1>5, <1>6, <1>7, <1>8, <1>9, <1>10, <1>11
     DEF FileNext, FileStep

\* A replacement starts as the store does.
LEMMA StoreStarts == FileInit => Store!Init
<1> SUFFICES ASSUME FileInit PROVE Store!Init
  OBVIOUS
<1>1. Stores \in [File -> Content \cup {Nothing}]
  <2> SUFFICES ASSUME NEW f \in File PROVE Stored(f) \in Content \cup {Nothing}
    BY DEF Stores
  <2>1. Status(f) \in Entry
    BY DEF FileInit, Status, Names
  <2> QED
    BY <2>1 DEF Stored, Entry
<1>2. Request = Store!Idle
  BY IdleRequest DEF FileInit
<1> QED
  BY <1>1, <1>2 DEF Store!Init, Stores, Request, Phase

\* A save replaces the whole of a file or nothing of it, and answers which,
\* for every set of files and designs: FileReplacement implements DesignStore.
THEOREM ReplacementIsWhole == FileSpec => ImplementsStore
<1>1. FileInv /\ [FileNext]_fileVars => [Store!Next]_(Store!vars)
  <2>1. ASSUME FileInv, FileNext PROVE [Store!Next]_(Store!vars)
    BY <2>1, StepOfStore DEF Store!vars, Stores, Request, Phase
  <2>2. CASE UNCHANGED fileVars
    BY <2>2 DEF Store!vars, Stored, Status
  <2> QED
    BY <2>1, <2>2
<1> QED
  BY <1>1, StoreStarts, FileInvHolds, PTL DEF FileSpec, ImplementsStore, Store!Spec
=============================================================================
