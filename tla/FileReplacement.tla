-------------------------- MODULE FileReplacement --------------------------
(* util/FileIo.cpp: replaceFileWith(), which writes a design to a temporary  *)
(* file and renames that to the target, as GeneralRocketSaver::save() uses   *)
(* it.  Every call of the file system may fail where the code looks at its   *)
(* error, or has its error ignored where the code ignores it; the program    *)
(* may crash between any two of them.                                        *)
CONSTANTS
  File,       \* the names of the design files
  TempName,   \* the names createTemporaryFile() may draw
  Content,    \* the designs a file may hold
  Nothing     \* no whole design: an empty, half written or missing file

ASSUME NamesApart == File \cap TempName = {}
ASSUME NothingIsNoContent == Nothing \notin Content

VARIABLES
  platform,   \* "windows" where a rename refuses a read-only target, or "posix"
  disk,       \* the directory entry of each name
  behind,     \* the file a link of that name points to
  job         \* the replacement under way: replaceThrough()'s local variables

fileVars == <<platform, disk, behind, job>>

Names == File \cup TempName
Kinds == {"absent", "file", "link", "directory"}
Entry == [kind: Kinds, content: Content \cup {Nothing},
          readOnly: BOOLEAN, ownerReads: BOOLEAN]
Absent == [kind |-> "absent", content |-> Nothing,
           readOnly |-> FALSE, ownerReads |-> FALSE]
NewFile == [kind |-> "file", content |-> Nothing,
            readOnly |-> FALSE, ownerReads |-> TRUE]

\* std::filesystem::status(): of the file a link points to.
Status(name) == IF disk[name].kind = "link" THEN behind[name] ELSE disk[name]

NoTarget == [hasPermissions |-> FALSE, readOnly |-> FALSE, isFile |-> FALSE]

\* mutant: a link counts as the file itself
ReplacedTargetOfLink(f) ==
  IF Status(f).kind # "file" THEN NoTarget
  ELSE [hasPermissions |-> TRUE, readOnly |-> Status(f).readOnly, isFile |-> TRUE]

\* What replacedTarget() is to find: permissions only of a regular file, and
\* isFile when the entry is that file itself and not a link to it.
ReplacedTarget(f) ==
  IF Status(f).kind # "file" THEN NoTarget
  ELSE [hasPermissions |-> TRUE,
        readOnly |-> Status(f).readOnly,
        isFile |-> disk[f].kind = "file"]

\* What it does find: either look at the target may fail, and then nothing is
\* known of it, or not that its entry is the file itself.  Where a rename replaces
\* a read-only file this only loses the permissions, as CopyPermissions may.
FoundAt(f) ==
  {ReplacedTarget(f)}
    \cup IF platform = "windows"
           THEN {NoTarget, [ReplacedTarget(f) EXCEPT !.isFile = FALSE]}
           ELSE {}

Idle == [at |-> "idle", target |-> Nothing, temp |-> Nothing,
         content |-> Nothing, replaced |-> NoTarget, error |-> "none"]

Steps == {"idle", "begun", "created", "written", "clear", "rename", "restore",
          "cleanup", "done", "failed"}
\* NOT_FOUND for a missing decal, or the IO of any other failure.
Errors == {"none", "missing", "io"}

Target == [hasPermissions: BOOLEAN, readOnly: BOOLEAN, isFile: BOOLEAN]
Job == [at: Steps, target: File \cup {Nothing}, temp: TempName \cup {Nothing},
        content: Content \cup {Nothing}, replaced: Target, error: Errors]

FileTypeOK ==
  /\ platform \in {"posix", "windows"}
  /\ disk \in [Names -> Entry]
  /\ behind \in [File -> Entry]
  /\ job \in Job

FileInit ==
  /\ platform \in {"posix", "windows"}
  /\ disk \in [Names -> Entry]
  /\ \A n \in TempName : disk[n].kind \in {"absent", "file"}
  /\ behind \in [File -> Entry]
  /\ \A f \in File : behind[f].kind \in {"absent", "file"}
  /\ job = Idle

GoesTo(step) == job' = [job EXCEPT !.at = step]
FailsAt(step) == job' = [job EXCEPT !.at = step, !.error = "io"]

\* replaceThrough() asks what stands at the target before anything else.
Begin(f) ==
  /\ job.at = "idle"
  /\ \E found \in FoundAt(f) :
        job' = [Idle EXCEPT !.at = "begun", !.target = f, !.replaced = found]
  /\ UNCHANGED <<platform, disk, behind>>

\* createTemporaryFile(): a name no file has; it fails when the directory
\* takes no file or kTemporaryNameAttempts names were all taken.
CreateTemporary ==
  /\ job.at = "begun"
  /\ \/ \E n \in TempName :
          /\ disk[n].kind = "absent"
          /\ disk' = [disk EXCEPT ![n] = NewFile]
          /\ job' = [job EXCEPT !.at = "created", !.temp = n]
     \/ /\ FailsAt("failed")
        /\ UNCHANGED disk
  /\ UNCHANGED <<platform, behind>>

\* contents() gives no bytes: the temporary file goes.
ContentsFail(error) ==
  /\ job.at = "created"
  /\ job' = [job EXCEPT !.at = "cleanup", !.error = error]
  /\ UNCHANGED <<platform, disk, behind>>

\* contents() gives the bytes and writeFile() writes them, all or some.
Write(c) ==
  /\ job.at = "created"
  /\ \/ /\ disk' = [disk EXCEPT ![job.temp].content = c]
        /\ job' = [job EXCEPT !.at = "written", !.content = c]
     \/ /\ FailsAt("cleanup")
        /\ UNCHANGED disk
  /\ UNCHANGED <<platform, behind>>

\* kRenameRefusesReadOnlyTarget and a target that is a read-only file itself.
ClearsReadOnly ==
  platform = "windows" /\ job.replaced.isFile /\ job.replaced.readOnly

\* The permissions of the replaced file, with reading for the owner; an error
\* is ignored.
CopyPermissions ==
  /\ job.at = "written"
  /\ GoesTo(IF ClearsReadOnly THEN "clear" ELSE "rename")
  /\ \/ /\ job.replaced.hasPermissions
        /\ disk' = [disk EXCEPT ![job.temp].readOnly = job.replaced.readOnly,
                                ![job.temp].ownerReads = TRUE]
     \/ UNCHANGED disk
  /\ UNCHANGED <<platform, behind>>

ClearReadOnly ==
  /\ job.at = "clear"
  /\ \/ /\ disk' = [disk EXCEPT ![job.target].readOnly = FALSE]
        /\ GoesTo("rename")
     \/ /\ FailsAt("cleanup")
        /\ UNCHANGED disk
  /\ UNCHANGED <<platform, behind>>

RenameIsRefused ==
  \/ disk[job.target].kind = "directory"
  \/ platform = "windows" /\ disk[job.target].readOnly

\* mutant: the target is removed first, as where a rename does not replace
RenameToFreeName ==
  /\ job.at = "rename"
  /\ \/ /\ disk' = [disk EXCEPT ![job.target] = disk[job.temp],
                                ![job.temp] = Absent]
        /\ GoesTo("done")
     \/ /\ disk' = [disk EXCEPT ![job.target] = Absent]
        /\ FailsAt("cleanup")
  /\ UNCHANGED <<platform, behind>>

\* renameOver(): the rename replaces the entry, a link as well as a file; a
\* failure sets a cleared attribute again.
Rename ==
  /\ job.at = "rename"
  /\ \/ /\ ~RenameIsRefused
        /\ disk' = [disk EXCEPT ![job.target] = disk[job.temp],
                                ![job.temp] = Absent]
        /\ GoesTo("done")
     \/ /\ FailsAt(IF ClearsReadOnly THEN "restore" ELSE "cleanup")
        /\ UNCHANGED disk
  /\ UNCHANGED <<platform, behind>>

RestoreReadOnly ==
  /\ job.at = "restore"
  /\ GoesTo("cleanup")
  /\ \/ disk' = [disk EXCEPT ![job.target].readOnly = TRUE]
     \/ UNCHANGED disk
  /\ UNCHANGED <<platform, behind>>

\* ~TemporaryFile(): removed, unless the file system refuses; then its name
\* stays taken and nobody reads what it holds.
RemoveTemporary ==
  /\ job.at = "cleanup"
  /\ GoesTo("failed")
  /\ \E left \in {Absent, NewFile} : disk' = [disk EXCEPT ![job.temp] = left]
  /\ UNCHANGED <<platform, behind>>

\* The caller has the result.
Returned ==
  /\ job.at \in {"done", "failed"}
  /\ job' = Idle
  /\ UNCHANGED <<platform, disk, behind>>

\* The process ends: what is on the disk stays.
FileCrash ==
  /\ job' = Idle
  /\ UNCHANGED <<platform, disk, behind>>

\* The steps that follow one another without the caller.
FileStep ==
  \/ CreateTemporary
  \/ CopyPermissions
  \/ ClearReadOnly
  \/ Rename
  \/ RestoreReadOnly
  \/ RemoveTemporary

FileNext ==
  \/ \E f \in File : Begin(f)
  \/ \E e \in Errors \ {"none"} : ContentsFail(e)
  \/ \E c \in Content : Write(c)
  \/ FileStep
  \/ Returned
  \/ FileCrash

FileSpec == FileInit /\ [][FileNext]_fileVars

-----------------------------------------------------------------------------
\* What reading a file gives (readFile() follows a link).
Stored(f) == IF Status(f).kind = "file" THEN Status(f).content ELSE Nothing

Store == INSTANCE DesignStore WITH
  store <- [f \in File |-> Stored(f)],
  request <- [at |-> CASE job.at \in {"idle", "done", "failed"} -> job.at
                       [] OTHER -> IF job.content = Nothing THEN "asked" ELSE "given",
              file |-> job.target,
              content |-> job.content]

\* A save replaces the whole of a file or nothing of it, and says which,
\* whatever fails or wherever it crashes (replaceFile()'s comment).
ImplementsStore == Store!Spec

\* Nothing is ever changed through a link, and a design file's entry changes
\* only by the rename, or in its read-only attribute where a rename would be
\* refused for it.
OnlyTheRenameReplaces ==
  [][ /\ behind' = behind
      /\ \A f \in File : disk'[f] # disk[f] =>
           /\ f = job.target
           /\ \/ /\ job'.at = "done"
                 /\ disk'[f].content = job.content
                 /\ disk'[f].ownerReads
              \/ /\ platform = "windows" /\ disk[f].kind = "file"
                 /\ disk'[f] = [disk[f] EXCEPT !.readOnly = disk'[f].readOnly]
    ]_fileVars
=============================================================================
