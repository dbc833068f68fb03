--------------------------- MODULE DesignWindows ---------------------------
(* The design windows, their documents and File > Save and Save as           *)
(* (gui/main/WindowManager, DocumentFileOperations), over the files of       *)
(* FileReplacement.  The GUI thread is a stack of calls: a call that asks a  *)
(* question runs an event loop, in which an event of the platform starts     *)
(* another call above it, and a closed window is deleted.                    *)
EXTENDS FileReplacement, Sequences, Integers, SequencesExt

CONSTANTS
  Window,      \* the windows there may be at once, the closed ones included
  NoWindow,
  Decals,      \* the decal images of a design, in the order of their names
  MaxWork      \* the bound of the designs that edits make

ASSUME WorkBound == MaxWork \in Nat
ASSUME ContentAssumption == Content = 0 .. MaxWork
ASSUME NoWindowAssumption == NoWindow \notin Window
ASSUME FilesAreNamed == Nothing \notin File

VARIABLES
  settings,      \* the platform's and the user's settings of the run
  stack,         \* the calls under way, the innermost last
  returned,      \* what the call that returned last gave
  listed,        \* WindowManager's m_entries: the open windows, in order
  doc,           \* each window and its document
  typing,        \* the edit still typed in the configuration dialog
  recent,        \* RecentFiles, the latest first
  quitting,      \* WindowManager's m_quitting
  leaving,       \* an exit was asked and the event loops end
  connected,     \* main() has connected exitRequested() and runs its event loop
  work,          \* the last design an edit made (0 is the blank design)
  owed           \* history: the designs that must not be lost (see Lose)

windowVars == <<settings, stack, returned, listed, doc, typing, recent,
                quitting, leaving, connected, work, owed>>

Missing == ToSet(Decals)
NoTyping == [win |-> NoWindow, content |-> Nothing]

\* A closed window's slot once the event loop has deleted it.
NoDocument ==
  [alive |-> FALSE, content |-> Nothing, saved |-> TRUE, file |-> Nothing,
   base |-> Nothing,  \* what the file held when this window read or wrote it
   replaceable |-> FALSE, closing |-> FALSE, lost |-> {}, ignored |-> {},
   level |-> 0]

\* The questions of the calls: at one of them a call is in an event loop.
Questions == {"designInfo", "saveFile", "askOverwrite", "storageOptions",
              "decalFile", "saveWarnings", "saveFailed", "saveChanges",
              "openFile", "loadWarnings", "loadFailed", "motorProblems",
              "databaseProblems"}

\* A call: the function, where it is, its window (of a save or a close) or the
\* window the request came from, and its local variables.
Call(op, at, w) ==
  [op |-> op, at |-> at, win |-> w, files |-> <<>>, file |-> Nothing,
   content |-> Nothing, flag |-> FALSE, agreed |-> FALSE, decal |-> Nothing]

Top == stack[Len(stack)]
Asks(call) == call.at \in Questions
\* Control is in an event loop: the main one or a question's.
InEventLoop == stack # <<>> => Asks(Top)
Running(op, at) == stack # <<>> /\ Top.op = op /\ Top.at = at
LoopLevel == Len(SelectSeq(stack, Asks))

Push(call) == stack' = Append(stack, call)
Goes(at) == stack' = [stack EXCEPT ![Len(stack)].at = at]
GoesWith(call) == stack' = [stack EXCEPT ![Len(stack)] = call]
Calls(at, call) == stack' = Append([stack EXCEPT ![Len(stack)].at = at], call)
\* A value returned to the event loop is dropped.
Return(value) ==
  /\ stack' = Front(stack)
  /\ returned' = (value /\ Len(stack) > 1)

Alive(w) == doc[w].alive
IsListed(w) == w \in ToSet(listed)
\* A question is answered as the user likes unless its window went (a dialog
\* goes with its parent) or the application leaves: then it is as cancelled.
CanAnswerClosed == ~leaving   \* mutant: the window is not looked at
CanAnswer == ~leaving /\ (Top.win \in Window => Alive(Top.win))

\* A design need not be kept once the user changed it, gave it up or let it be
\* overwritten, once a crash took it unsaved, or once a window that did not
\* know of it saved over it.
Lose(designs) == owed' = owed \ designs

\* ComponentConfigDialog::commitPendingEdits() and disposeDialog(): the edit
\* still typed goes into the design of its window (which counts as changed).
Committed ==
  IF typing = NoTyping THEN doc
  ELSE [doc EXCEPT ![typing.win].content = typing.content,
                   ![typing.win].saved = FALSE]
CommitEdits ==
  /\ typing' = NoTyping
  /\ Lose({doc[w].content : w \in {typing.win} \ {NoWindow}})

\* RecentFiles::addFile() and removeFile().
AddRecentAgain(f) == recent' = <<f>> \o recent   \* mutant: the old one stays
AddRecent(f) ==
  recent' = <<f>> \o RemoveFirst(recent, f)
RemoveRecent(f) == recent' = RemoveFirst(recent, f)

-----------------------------------------------------------------------------
(* DocumentFileOperations::save(), saveAs() and saveAsOpenRocket(): one call *)
(* whose "flag" says that it is a Save as.                                   *)

SaveCall(w) == Call("save", "save", w)
SaveAsCall(w) == [Call("save", "saveAs", w) EXCEPT !.flag = TRUE]

SaveUnchanged ==
  UNCHANGED <<fileVars, settings, listed, recent, quitting, leaving, connected,
              work>>

\* A document without a file is saved as; so would be one of another file type, which
\* no document has (only OPENROCKET is ever set).  fireDocumentSavingEvent() changes
\* nothing: the application connects no slot to it.
SaveBegins ==
  /\ Running("save", "save")
  /\ doc' = Committed
  /\ CommitEdits
  /\ IF doc[Top.win].file = Nothing THEN GoesWith(SaveAsCall(Top.win))
     ELSE GoesWith([Top EXCEPT !.at = "verify", !.file = doc[Top.win].file,
                               !.content = doc[Top.win].base])
  /\ UNCHANGED returned
  /\ SaveUnchanged

SaveAsBegins ==
  /\ Running("save", "saveAs")
  /\ doc' = Committed
  /\ CommitEdits
  /\ Goes("designInfo") \/ Goes("saveFile")
  /\ UNCHANGED returned
  /\ SaveUnchanged

\* The dialog a preference may ask for: its answer changes nothing here.
DesignInfoCloses ==
  /\ Running("save", "designInfo")
  /\ IF Alive(Top.win) THEN Goes("saveFile") /\ UNCHANGED returned
     ELSE Return(FALSE)
  /\ UNCHANGED <<doc, typing, owed>>
  /\ SaveUnchanged

\* askSaveAsFile(), and whether the file is there.
SaveFileChosen ==
  /\ Running("save", "saveFile")
  /\ \/ /\ CanAnswer
        /\ \E f \in File :
             GoesWith([Top EXCEPT
               !.at = IF disk[f].kind = "absent" THEN "verify" ELSE "askOverwrite",
               !.file = f, !.content = Stored(f)])
        /\ UNCHANGED returned
     \/ Return(FALSE)
  /\ UNCHANGED <<doc, typing, owed>>
  /\ SaveUnchanged

OverwriteAnswered ==
  /\ Running("save", "askOverwrite")
  /\ \/ /\ CanAnswer
        /\ GoesWith([Top EXCEPT !.at = "verify", !.agreed = TRUE])
        /\ UNCHANGED returned
     \/ Return(FALSE)
  /\ UNCHANGED <<doc, typing, owed>>
  /\ SaveUnchanged

\* verifyStorageOptions(): a question the first time there is simulated data.
StorageOptionsVerified ==
  /\ Running("save", "verify")
  /\ Goes("write") \/ Goes("storageOptions")
  /\ UNCHANGED <<doc, typing, owed, returned>>
  /\ SaveUnchanged

StorageOptionsAnswered ==
  /\ Running("save", "storageOptions")
  /\ \/ /\ CanAnswer
        /\ Goes("write")
        /\ UNCHANGED returned
     \/ Return(FALSE)
  /\ UNCHANGED <<doc, typing, owed>>
  /\ SaveUnchanged

WriteUnchanged ==
  UNCHANGED <<settings, returned, listed, typing, recent, quitting, leaving,
              connected, work>>

\* GeneralRocketSaver::save(): replaceFileWith().
WriteBegins ==
  /\ Running("save", "write")
  /\ Begin(Top.file)
  /\ Goes("writing")
  /\ UNCHANGED <<doc, owed>>
  /\ WriteUnchanged

\* The decal images, by their place, without a source that the save does not
\* leave out, and the images addDecals() may have dealt with before it stops:
\* one left out is left out no more once its turn came.
Unfound(w) == {i \in DOMAIN Decals : Decals[i] \in doc[w].lost \ doc[w].ignored}
Reached(w) == {n \in 0 .. Len(Decals) : \A i \in Unfound(w) : n < i}
TurnsTaken(w, n) ==
  doc' = [doc EXCEPT ![w].ignored = @ \ {Decals[i] : i \in 1 .. n}]

\* GeneralRocketSaver::archive() with addDecals(), which may fail anywhere.
Archive ==
  /\ Running("save", "writing")
  /\ \E n \in Reached(Top.win) :
       /\ TurnsTaken(Top.win, n)
       /\ \/ /\ n = Len(Decals)
             /\ Write(doc[Top.win].content)
             /\ UNCHANGED stack
          \/ /\ n + 1 \in Unfound(Top.win)
             /\ ContentsFail("missing")
             /\ GoesWith([Top EXCEPT !.decal = Decals[n + 1]])
          \/ /\ ContentsFail("io")
             /\ UNCHANGED stack
  /\ UNCHANGED owed
  /\ WriteUnchanged

\* The calls of the file system.  The rename replaces what the user agreed to
\* lose, or what this call did not know the file to hold.
FileProceeds ==
  /\ Running("save", "writing")
  /\ FileStep
  /\ LET old == Stored(job.target)
     IN  IF job'.at = "done" /\ (Top.agreed \/ old # Top.content)
         THEN Lose({old} \ {job.content}) ELSE UNCHANGED owed
  /\ UNCHANGED <<doc, stack>>
  /\ WriteUnchanged

\* The file is there: the document's file, saved; warnings, if any, are shown.
WriteSucceeds ==
  /\ Running("save", "writing")
  /\ job.at = "done"
  /\ Returned
  /\ doc' = [doc EXCEPT ![Top.win].file = Top.file,
                         ![Top.win].base = job.content, ![Top.win].saved = TRUE]
  /\ \/ Goes("saveWarnings")
     \/ ~job.replaced.readOnly /\ Goes("saved")
  /\ UNCHANGED owed
  /\ WriteUnchanged

WriteFails ==
  /\ Running("save", "writing")
  /\ job.at = "failed"
  /\ Returned
  /\ Goes(IF job.error = "missing" THEN "decalFile" ELSE "saveFailed")
  /\ UNCHANGED <<doc, owed>>
  /\ WriteUnchanged

\* DecalImage::setIgnored().
LeaveOutNothing(w, decal) == UNCHANGED doc   \* mutant: it is not set
LeaveOut(w, decal) == doc' = [doc EXCEPT ![w].ignored = @ \cup {decal}]

\* The user finds the image's source, or the image is left out; then again.
DecalFileAnswered ==
  /\ Running("save", "decalFile")
  /\ \/ /\ CanAnswer
        /\ doc' = [doc EXCEPT ![Top.win].lost = @ \ {Top.decal}]
        /\ Goes("write")
        /\ UNCHANGED returned
     \/ /\ Alive(Top.win)
        /\ LeaveOut(Top.win, Top.decal)
        /\ Goes("write")
        /\ UNCHANGED returned
     \/ /\ ~Alive(Top.win)
        /\ Return(FALSE)
        /\ UNCHANGED doc
  /\ UNCHANGED <<typing, owed>>
  /\ SaveUnchanged

SaveFailedCloses ==
  /\ Running("save", "saveFailed")
  /\ Return(FALSE)
  /\ UNCHANGED <<doc, typing, owed>>
  /\ SaveUnchanged

\* saveAs() tells designFileSavedAs() at its end.
SaveEnds ==
  /\ Running("save", "saved") \/ Running("save", "saveWarnings")
  /\ Return(TRUE)
  /\ IF Top.flag THEN AddRecent(Top.file) ELSE UNCHANGED recent
  /\ UNCHANGED <<fileVars, settings, listed, doc, typing, quitting, leaving,
                 connected, work, owed>>

SaveStep ==
  \/ SaveBegins
  \/ SaveAsBegins
  \/ DesignInfoCloses
  \/ SaveFileChosen
  \/ OverwriteAnswered
  \/ StorageOptionsVerified
  \/ StorageOptionsAnswered
  \/ WriteBegins
  \/ Archive
  \/ FileProceeds
  \/ WriteSucceeds
  \/ WriteFails
  \/ DecalFileAnswered
  \/ SaveFailedCloses
  \/ SaveEnds
=============================================================================
