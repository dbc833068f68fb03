--------------------------- MODULE DesignSession ---------------------------
(* The running application: opening, closing and quitting (WindowManager,    *)
(* DocumentFileOperations), the start, the reopen and the platform's         *)
(* requests (ApplicationSession, Application), crashes and restarts.         *)
EXTENDS DesignWindows

CONSTANTS
  MaxEvents,      \* the bound of the platform's requests
  MaxCrashes,     \* the bound of the crashes
  FilesAtOnce     \* the most files one request opens

VARIABLES
  running,        \* the process runs
  openingFiles,   \* ApplicationSession's m_openingFiles
  reopening,      \* ApplicationSession's m_reopening
  events,         \* the requests of the platform so far
  crashes         \* the crashes so far

sessionVars == <<running, openingFiles, reopening, events, crashes>>
vars == <<fileVars, windowVars, sessionVars>>

FileLists == UNION {[1 .. n -> File] : n \in 0 .. FilesAtOnce}

CloseCall(w) == Call("close", "close", w)
QuitCall == Call("quit", "quit", NoWindow)
OpenCall(files, w) == [Call("open", "open", w) EXCEPT !.files = files]
RecentCall(f, w) == [Call("recent", "recent", w) EXCEPT !.file = f]
FilesCall(files, w) == [Call("files", "files", w) EXCEPT !.files = files]
ReopenCall == Call("reopen", "reopen", NoWindow)
StartCall(files) == [Call("start", "start", NoWindow) EXCEPT !.files = files]

\* A slot no window and no call under way knows.
Free(w) == ~Alive(w) /\ \A i \in DOMAIN stack : stack[i].win # w
FreeWindows == {w \in Window : Free(w)}
FreeWindow == CHOOSE w \in FreeWindows : TRUE   \* they are all alike
\* Room for the windows the calls under way may still open and n more: the
\* bound of the windows.
MayOpen(call) ==
  CASE call.op = "open" -> Len(call.files)
    [] call.op = "files" /\ call.at = "files" -> Len(call.files)
    [] call.op = "start" /\ call.at = "start" -> 1 + Len(call.files)
    [] call.op = "reopen" -> 1
    [] call.op = "recent" /\ call.at = "recent" -> 1
    [] call.op = "start" /\ call.at = "opened" -> 1
    [] OTHER -> 0
RoomFor(n) ==
  n + FoldLeft(LAMBDA sum, call : sum + MayOpen(call), 0, stack)
    <= Cardinality(FreeWindows)

LastWindow == IF listed = <<>> THEN NoWindow ELSE listed[Len(listed)]
NewWindow(content, file, replaceable) ==
  [NoDocument EXCEPT !.alive = TRUE, !.content = content, !.file = file,
                     !.base = IF file = Nothing THEN Nothing ELSE content,
                     !.replaceable = replaceable,
                     !.lost = IF replaceable THEN {} ELSE settings.lost]

\* exitRequested(), which nobody hears before main() connected it.
ExitRequested == leaving' = (leaving \/ connected)

\* closeIfReplaceable(): whether the window a request came from is closed.
IsReplaced(w) ==
  w # NoWindow /\ IsListed(w) /\ doc[w].replaceable /\ doc[w].saved

KeepsFiles == UNCHANGED <<fileVars, settings, connected, work,
                          running, events, crashes>>
KeepsFlags == UNCHANGED <<openingFiles, reopening>>

-----------------------------------------------------------------------------
(* WindowManager::close() and confirmClose().                                *)

\* Whether the design is as saved, with the edit still typed in it.
IsCleanUntyped(w) == doc[w].saved   \* mutant: looked at before the commit
IsClean(w) == Committed[w].saved

CloseBegins ==
  /\ Running("close", "close")
  /\ LET w == Top.win
     IN  IF ~IsListed(w) \/ doc[w].closing
         THEN /\ Return(FALSE)
              /\ UNCHANGED <<doc, typing, owed>>
         ELSE /\ doc' = [Committed EXCEPT ![w].closing = TRUE]
              /\ CommitEdits
              /\ Goes(IF IsClean(w) THEN "destroy" ELSE "saveChanges")
              /\ UNCHANGED returned
  /\ UNCHANGED <<listed, recent, quitting, leaving>>
  /\ KeepsFlags /\ KeepsFiles

\* The window is open again, unless it was closed.
Reopened(w) == doc' = [doc EXCEPT ![w].closing = FALSE]

\* askSaveChanges(): Save, Discard or Cancel.
SaveChangesAnswered ==
  /\ Running("close", "saveChanges")
  /\ LET w == Top.win
     IN  \/ /\ CanAnswer
            /\ Calls("saved", SaveCall(w))
            /\ UNCHANGED <<doc, owed, returned>>
         \/ /\ CanAnswer
            /\ Goes("destroy")
            /\ Lose({doc[w].content})
            /\ UNCHANGED <<doc, returned>>
         \/ /\ Return(FALSE)
            /\ Reopened(w)
            /\ UNCHANGED owed
  /\ UNCHANGED <<listed, typing, recent, quitting, leaving>>
  /\ KeepsFlags /\ KeepsFiles

\* The save hook returned.
CloseSaved ==
  /\ Running("close", "saved")
  /\ IF returned THEN Goes("destroy") /\ UNCHANGED <<doc, returned>>
     ELSE Return(FALSE) /\ Reopened(Top.win)
  /\ UNCHANGED <<listed, typing, recent, quitting, leaving, owed>>
  /\ KeepsFlags /\ KeepsFiles

\* destroyLater(), the dialog's close and lastWindowClosed(): the event loop
\* that runs this call, or one below it, deletes the window.
CloseEnds ==
  /\ Running("close", "destroy")
  /\ LET w == Top.win
         others == RemoveFirst(listed, w)
     IN  /\ listed' = others
         /\ doc' = [Committed EXCEPT ![w].closing = FALSE,
                                     ![w].level = LoopLevel]
         /\ CommitEdits
         /\ IF others = <<>> /\ ~quitting /\ ~settings.keepRunning
            THEN ExitRequested ELSE UNCHANGED leaving
  /\ Return(TRUE)
  /\ UNCHANGED <<recent, quitting>>
  /\ KeepsFlags /\ KeepsFiles

CloseStep == CloseBegins \/ SaveChangesAnswered \/ CloseSaved \/ CloseEnds

-----------------------------------------------------------------------------
(* WindowManager::quit().                                                    *)

QuitUnchanged ==
  /\ UNCHANGED <<listed, doc, typing, recent, owed>>
  /\ KeepsFlags /\ KeepsFiles

QuitBegins ==
  /\ Running("quit", "quit")
  /\ IF quitting THEN Return(FALSE) /\ UNCHANGED quitting
     ELSE Goes("next") /\ quitting' = TRUE /\ UNCHANGED returned
  /\ UNCHANGED leaving
  /\ QuitUnchanged

QuitNext ==
  /\ Running("quit", "next")
  /\ IF listed = <<>>
     THEN /\ ExitRequested
          /\ quitting' = FALSE
          /\ Return(TRUE)
     ELSE /\ Calls("closed", CloseCall(LastWindow))
          /\ UNCHANGED <<leaving, quitting, returned>>
  /\ QuitUnchanged

QuitClosed ==
  /\ Running("quit", "closed")
  /\ IF returned THEN Goes("next") /\ UNCHANGED <<quitting, returned>>
     ELSE Return(FALSE) /\ quitting' = FALSE
  /\ UNCHANGED leaving
  /\ QuitUnchanged

QuitStep == QuitBegins \/ QuitNext \/ QuitClosed

-----------------------------------------------------------------------------
(* DocumentFileOperations::openAction(), openFiles() and open(); the flag    *)
(* says that a file was opened.                                              *)

OpenUnchanged ==
  /\ UNCHANGED <<typing, quitting, leaving, owed>>
  /\ KeepsFlags /\ KeepsFiles

\* askOpenFiles(), from which the window of the request may be gone.
OpenFileChosen ==
  /\ Running("open", "openFile")
  /\ \/ /\ CanAnswer
        /\ \E files \in FileLists \ {<<>>} :
             /\ Len(files) <= Len(Top.files)
             /\ GoesWith([Top EXCEPT !.at = "open", !.files = files])
        /\ UNCHANGED returned
     \/ Return(FALSE)
  /\ UNCHANGED <<listed, doc, recent>>
  /\ OpenUnchanged

FileOpened(f) ==
  /\ GoesWith([Top EXCEPT !.at = "open", !.files = Tail(Top.files), !.flag = TRUE])
  /\ AddRecent(f)

\* findWindowOfFile(), or the file is read: what it held is held from here on.
OpenNext ==
  /\ Running("open", "open")
  /\ IF Top.files = <<>> THEN Return(Top.flag) /\ UNCHANGED recent
     ELSE LET f == Head(Top.files)
          IN  /\ IF \E w \in ToSet(listed) : doc[w].file = f
                 THEN FileOpened(f)
                 ELSE /\ IF Stored(f) = Nothing \/ ~Status(f).ownerReads
                         THEN Goes("loadFailed")
                         ELSE \E at \in {"loadWarnings", "loaded"} :
                                GoesWith([Top EXCEPT !.at = at,
                                                     !.content = Stored(f)])
                      /\ UNCHANGED recent
              /\ UNCHANGED returned
  /\ UNCHANGED <<listed, doc>>
  /\ OpenUnchanged

LoadMessageCloses ==
  /\ \/ /\ Running("open", "loadFailed")
        /\ GoesWith([Top EXCEPT !.at = "open", !.files = Tail(Top.files)])
     \/ /\ Running("open", "loadWarnings")
        /\ Goes("loaded")
  /\ UNCHANGED <<returned, listed, doc, recent>>
  /\ OpenUnchanged

\* WindowManager::addDocument(); the window the request came from is closed
\* when the new one takes its place.
DocumentAdded ==
  /\ Running("open", "loaded")
  /\ FreeWindows # {}
  /\ doc' = [doc EXCEPT ![FreeWindow] =
                NewWindow(Top.content, Head(Top.files), FALSE)]
  /\ listed' = Append(listed, FreeWindow)
  /\ IF IsReplaced(Top.win) THEN Calls("added", CloseCall(Top.win))
     ELSE Goes("added")
  /\ UNCHANGED <<returned, recent>>
  /\ OpenUnchanged

DocumentOpened ==
  /\ Running("open", "added")
  /\ FileOpened(Head(Top.files))
  /\ UNCHANGED <<returned, listed, doc>>
  /\ OpenUnchanged

\* RecentFilesMenu::open().
RecentBegins ==
  /\ Running("recent", "recent")
  /\ Calls("opened", OpenCall(<<Top.file>>, Top.win))
  /\ UNCHANGED <<returned, listed, doc, recent>>
  /\ OpenUnchanged

RecentEnds ==
  /\ Running("recent", "opened")
  /\ IF returned THEN AddRecent(Top.file) ELSE RemoveRecent(Top.file)
  /\ Return(returned)
  /\ UNCHANGED <<listed, doc>>
  /\ OpenUnchanged

OpenStep ==
  \/ OpenFileChosen
  \/ OpenNext
  \/ LoadMessageCloses
  \/ DocumentAdded
  \/ DocumentOpened
  \/ RecentBegins
  \/ RecentEnds

-----------------------------------------------------------------------------
(* ApplicationSession::openFiles(), reopen(), reopenIfNoWindow(), the start. *)

SessionUnchanged ==
  /\ UNCHANGED <<typing, quitting, leaving, owed>>
  /\ UNCHANGED <<fileVars, settings, work, running, events, crashes>>

\* The flag keeps m_openingFiles as it was.
FilesBegin ==
  /\ Running("files", "files")
  /\ stack' = Append([stack EXCEPT ![Len(stack)] =
                        [Top EXCEPT !.at = "opened", !.flag = openingFiles]],
                     OpenCall(Top.files, Top.win))
  /\ openingFiles' = TRUE
  /\ UNCHANGED <<returned, listed, doc, recent, connected, reopening>>
  /\ SessionUnchanged

\* mutant: the flag is reset, whatever it was
FilesEndAll ==
  /\ Running("files", "opened")
  /\ openingFiles' = FALSE
  /\ Return(returned)
  /\ UNCHANGED <<listed, doc, recent, connected, reopening>>
  /\ SessionUnchanged

FilesEnd ==
  /\ Running("files", "opened")
  /\ openingFiles' = Top.flag
  /\ Return(returned)
  /\ UNCHANGED <<listed, doc, recent, connected, reopening>>
  /\ SessionUnchanged

\* WindowManager::newDesign() from no window.
NewDesignOpens ==
  /\ FreeWindows # {}
  /\ doc' = [doc EXCEPT ![FreeWindow] = NewWindow(0, Nothing, TRUE)]
  /\ listed' = Append(listed, FreeWindow)

\* The last file, when the preference asks for it, or a new design.
ReopenBegins ==
  /\ Running("reopen", "reopen")
  /\ \/ /\ reopening
        /\ Return(FALSE)
        /\ UNCHANGED <<reopening, listed, doc>>
     \/ /\ ~reopening /\ recent # <<>>
        /\ stack' = Append([stack EXCEPT ![Len(stack)] =
                              [Top EXCEPT !.at = "opened", !.file = Head(recent)]],
                           OpenCall(<<Head(recent)>>, NoWindow))
        /\ reopening' = TRUE
        /\ UNCHANGED <<returned, listed, doc>>
     \/ /\ ~reopening
        /\ NewDesignOpens
        /\ Return(TRUE)
        /\ UNCHANGED reopening
  /\ UNCHANGED <<recent, connected, openingFiles>>
  /\ SessionUnchanged

ReopenEnds ==
  /\ Running("reopen", "opened")
  /\ IF returned THEN AddRecent(Top.file) /\ UNCHANGED <<listed, doc>>
     ELSE RemoveRecent(Top.file) /\ NewDesignOpens
  /\ reopening' = FALSE
  /\ Return(TRUE)
  /\ UNCHANGED <<connected, openingFiles>>
  /\ SessionUnchanged

\* reopenIfNoWindow().
ReopensIfNoWindow == ~openingFiles /\ listed = <<>>

StartBegins ==
  /\ Running("start", "start")
  /\ Calls("opened", FilesCall(Top.files, NoWindow))
  /\ UNCHANGED <<returned, listed, doc, recent, connected, openingFiles, reopening>>
  /\ SessionUnchanged

StartOpened ==
  /\ Running("start", "opened")
  /\ IF ~returned /\ ReopensIfNoWindow THEN Calls("first", ReopenCall)
     ELSE Goes("first")
  /\ UNCHANGED <<returned, listed, doc, recent, connected, openingFiles, reopening>>
  /\ SessionUnchanged

\* showStartupProblems() over the last window, the second only if it is there.
StartProblems ==
  /\ \/ /\ Running("start", "first")
        /\ \/ /\ listed # <<>>
              /\ \E at \in {"motorProblems", "databaseProblems"} :
                   GoesWith([Top EXCEPT !.at = at, !.win = LastWindow])
           \/ Goes("shown")
     \/ /\ Running("start", "motorProblems")
        /\ \/ Alive(Top.win) /\ Goes("databaseProblems")
           \/ Goes("shown")
     \/ /\ Running("start", "databaseProblems")
        /\ Goes("shown")
  /\ UNCHANGED <<returned, listed, doc, recent, connected, openingFiles, reopening>>
  /\ SessionUnchanged

\* The session is made: main() connects exitRequested() and runs the loop.
StartEnds ==
  /\ Running("start", "shown")
  /\ connected' = TRUE
  /\ Return(TRUE)
  /\ UNCHANGED <<listed, doc, recent, openingFiles, reopening>>
  /\ SessionUnchanged

SessionStep ==
  \/ FilesBegin
  \/ FilesEnd
  \/ ReopenBegins
  \/ ReopenEnds
  \/ StartBegins
  \/ StartOpened
  \/ StartProblems
  \/ StartEnds

-----------------------------------------------------------------------------
(* Requests of the platform, which any event loop takes.                     *)

\* The platform's request starts the call above the one that asks.
Requests(call) ==
  /\ running /\ InEventLoop /\ ~leaving
  /\ events < MaxEvents
  /\ events' = events + 1
  /\ Push(call)
  /\ UNCHANGED <<fileVars, settings, returned, listed, doc, typing, recent,
                 quitting, leaving, connected, work, owed,
                 running, openingFiles, reopening, crashes>>

OpenFilesEvent(files) ==
  /\ files # <<>> /\ RoomFor(Len(files))
  /\ Requests(FilesCall(files, LastWindow))

QuitEvent == Requests(QuitCall)

\* The application became active: only where it stays open without a window.
Activated ==
  /\ settings.keepRunning /\ ReopensIfNoWindow
  /\ RoomFor(1)
  /\ Requests(ReopenCall)

-----------------------------------------------------------------------------
(* What the user does when no question is asked.                             *)

UsersTurn == running /\ stack = <<>> /\ connected /\ ~leaving

UserUnchanged ==
  /\ UNCHANGED <<fileVars, settings, returned, listed, recent, quitting, leaving,
                 connected, running, events, crashes>>
  /\ KeepsFlags

\* A menu item of a window, or of the menus that stay without one.
Origins == ToSet(listed)
             \cup {w \in {NoWindow} : listed = <<>> /\ settings.keepRunning}
MenuCalls(w) ==
  {QuitCall}
    \cup {RecentCall(f, w) : f \in {g \in ToSet(recent) : RoomFor(1)}}
    \cup {[OpenCall(files, w) EXCEPT !.at = "openFile"] :
             files \in {l \in FileLists : Len(l) = FilesAtOnce /\ RoomFor(Len(l))}}
    \cup (IF w = NoWindow THEN {} ELSE {SaveCall(w), SaveAsCall(w), CloseCall(w)})

MenuItem ==
  /\ UsersTurn
  /\ \E w \in Origins : \E call \in MenuCalls(w) : Push(call)
  /\ UNCHANGED <<doc, typing, work, owed>>
  /\ UserUnchanged

\* File > New: newDesign(), which closes a window that it replaces.
New ==
  /\ UsersTurn
  /\ NewDesignOpens
  /\ \E w \in Origins :
       IF IsReplaced(w) THEN Push(CloseCall(w)) ELSE UNCHANGED stack
  /\ UNCHANGED <<fileVars, settings, returned, typing, recent, quitting, leaving,
                 connected, work, owed, running, events, crashes>>
  /\ KeepsFlags

\* A change of the design.
EditDesign(w) ==
  /\ UsersTurn /\ IsListed(w) /\ work < MaxWork
  /\ work' = work + 1
  /\ doc' = [doc EXCEPT ![w].content = work + 1, ![w].saved = FALSE]
  /\ owed' = (owed \ {doc[w].content}) \cup {work + 1}
  /\ UNCHANGED <<stack, typing>>
  /\ UserUnchanged

\* Text typed in the configuration dialog, which its field still keeps.
TypeInDialog(w) ==
  /\ UsersTurn /\ IsListed(w) /\ work < MaxWork /\ typing = NoTyping
  /\ work' = work + 1
  /\ typing' = [win |-> w, content |-> work + 1]
  /\ owed' = owed \cup {work + 1}
  /\ UNCHANGED <<stack, doc>>
  /\ UserUnchanged

UserAct ==
  \/ MenuItem
  \/ New
  \/ \E w \in Window : EditDesign(w)
  \/ \E w \in Window : TypeInDialog(w)

-----------------------------------------------------------------------------
(* The event loop and the process.                                           *)

\* A deferred deletion: by the event loop that was running when it was asked.
DeleteClosed(w) ==
  /\ running /\ InEventLoop
  /\ Alive(w) /\ ~IsListed(w)
  /\ LoopLevel <= doc[w].level
  /\ doc' = [doc EXCEPT ![w] = NoDocument]
  /\ UNCHANGED <<stack, typing, work, owed>>
  /\ UserUnchanged

MemoryGone ==
  /\ stack' = <<>>
  /\ returned' = FALSE
  /\ listed' = <<>>
  /\ doc' = [w \in Window |-> NoDocument]
  /\ typing' = NoTyping
  /\ quitting' = FALSE
  /\ leaving' = FALSE
  /\ connected' = FALSE
  /\ running' = FALSE
  /\ openingFiles' = FALSE
  /\ reopening' = FALSE
  /\ UNCHANGED <<settings, recent, work, events>>

\* main() returns.
Leave ==
  /\ leaving /\ stack = <<>>
  /\ MemoryGone
  /\ UNCHANGED <<fileVars, owed, crashes>>

\* The changes since the last save go with the process.
Crash ==
  /\ running /\ crashes < MaxCrashes
  /\ crashes' = crashes + 1
  /\ Lose({doc[w].content : w \in {v \in ToSet(listed) : ~doc[v].saved}}
            \cup {typing.content})
  /\ FileCrash
  /\ MemoryGone

Start(files) ==
  /\ ~running
  /\ 1 + Len(files) <= Cardinality(Window)
  /\ running' = TRUE
  /\ stack' = <<StartCall(files)>>
  /\ UNCHANGED <<fileVars, settings, returned, listed, doc, typing, recent,
                 quitting, leaving, connected, work, owed,
                 openingFiles, reopening, events, crashes>>

-----------------------------------------------------------------------------
SettingsType == [keepRunning: BOOLEAN, lost: SUBSET Missing]

Init ==
  /\ FileInit
  /\ settings \in SettingsType
  /\ stack = <<>>
  /\ returned = FALSE
  /\ listed = <<>>
  /\ doc = [w \in Window |-> NoDocument]
  /\ typing = NoTyping
  /\ recent \in {<<>>} \cup {<<f>> : f \in File}
  /\ quitting = FALSE
  /\ leaving = FALSE
  /\ connected = FALSE
  /\ work \in 0 .. MaxWork
  /\ \A f \in File : Stored(f) \in 0 .. work \cup {Nothing}
  /\ owed = {c \in 1 .. work : \E f \in File : Stored(f) = c}
  /\ running = FALSE
  /\ openingFiles = FALSE
  /\ reopening = FALSE
  /\ events \in 0 .. MaxEvents
  /\ crashes \in 0 .. MaxCrashes

SaveProceeds == SaveStep /\ UNCHANGED sessionVars
Proceeds == SaveProceeds \/ CloseStep \/ QuitStep \/ OpenStep \/ SessionStep

Next ==
  \/ Proceeds
  \/ \E files \in FileLists : OpenFilesEvent(files)
  \/ QuitEvent
  \/ Activated
  \/ UserAct
  \/ \E w \in Window : DeleteClosed(w)
  \/ Leave
  \/ Crash
  \/ \E files \in FileLists : Start(files)

\* The program runs on and the user answers every question in the end.
Fairness == WF_vars(Proceeds) /\ WF_vars(Leave)

Spec == Init /\ [][Next]_vars /\ Fairness

-----------------------------------------------------------------------------
\* The shape of the state: no window or recent file twice, a listed window is
\* alive, and what is typed belongs to a listed window.
TypeOK ==
  /\ FileTypeOK
  /\ settings \in SettingsType
  /\ listed \in Seq(Window) /\ IsInjective(listed)
  /\ recent \in Seq(File) /\ IsInjective(recent)
  /\ \A w \in Window : IsListed(w) => Alive(w) /\ doc[w].content \in 0 .. work
  /\ typing # NoTyping => IsListed(typing.win)
  /\ owed \subseteq 1 .. work
  /\ {returned, quitting, leaving, connected, running, openingFiles, reopening}
       \subseteq BOOLEAN

\* No design is lost that the user did not give up: it stays typed, in an open
\* window or whole in a file, through every order of questions, nested closes
\* and quits, failing saves, and restarts.  (What a crash takes unsaved and
\* what a window that read the file earlier saves over are not owed, see Lose.)
WorkIsKept ==
  \A c \in owed :
    \/ typing.content = c
    \/ \E w \in Window : IsListed(w) /\ doc[w].content = c
    \/ \E f \in File : Stored(f) = c

\* A save goes on after a question only with its window alive, and a close
\* that closes finds its window still open (destroyLater()'s assertion).
WindowsOutliveTheirCalls ==
  /\ \A at \in {"save", "saveAs", "verify", "write", "writing"} :
       Running("save", at) => Alive(Top.win)
  /\ \A at \in {"saved", "destroy"} : Running("close", at) => IsListed(Top.win)

UnderWay(op, ats) == {i \in DOMAIN stack : stack[i].op = op /\ stack[i].at \in ats}

\* The flags that guard the nested calls are set while such a call is under
\* way, and only then, in whatever order the calls end; so one reopen, one quit
\* and one close of each window run at a time.
FlagsFollowCalls ==
  /\ openingFiles <=> UnderWay("files", {"opened"}) # {}
  /\ Cardinality(UnderWay("reopen", {"opened"})) = (IF reopening THEN 1 ELSE 0)
  /\ Cardinality(UnderWay("quit", {"next", "closed"})) = (IF quitting THEN 1 ELSE 0)
  /\ \A w \in Window :
       Cardinality({i \in UnderWay("close", {"saveChanges", "saved", "destroy"}) :
                      stack[i].win = w}) = (IF doc[w].closing THEN 1 ELSE 0)

\* Every operation ends, however many decals it asks for, and an application
\* that leaves ends.
OperationsEnd ==
  /\ stack # <<>> ~> stack = <<>>
  /\ leaving ~> ~running
=============================================================================
