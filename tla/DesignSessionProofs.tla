------------------------ MODULE DesignSessionProofs ------------------------
(* The session keeps the user's work, for any windows, files, requests and   *)
(* crashes.                                                                  *)
EXTENDS DesignSession, FileReplacementProofs, SequenceTheorems, FiniteSetTheorems

-----------------------------------------------------------------------------
(* The calls and the documents.                                              *)

Ops == {"save", "close", "quit", "open", "recent", "files", "reopen", "start"}
Places ==
  Questions \cup
    {"save", "saveAs", "verify", "write", "writing", "saved", "close", "destroy",
     "quit", "next", "closed", "open", "loaded", "added", "recent", "opened",
     "files", "reopen", "start", "first", "shown"}

CallType ==
  [op: Ops, at: Places, win: Window \cup {NoWindow}, files: Seq(File),
   file: File \cup {Nothing}, content: Content \cup {Nothing}, flag: BOOLEAN,
   agreed: BOOLEAN, decal: Missing \cup {Nothing}]

Fields == {"alive", "content", "saved", "file", "base", "replaceable", "closing",
           "lost", "ignored", "level"}

\* What a design file may give: a design that was made, or none.
Known == 0 .. work \cup {Nothing}
\* The designs that files have, and the windows that are open.
Designs == {Stored(f) : f \in File}
Open == ToSet(listed)

\* A design that need not be kept or that a file has.
IsSafe(c, due, designs) == c \in due => c \in designs

IsDocument(d) ==
  /\ DOMAIN d = Fields
  /\ d.content \in Known /\ d.base \in Known /\ d.file \in File \cup {Nothing}
  /\ {d.alive, d.saved, d.replaceable, d.closing} \subseteq BOOLEAN

\* A close that has marked its window, and a call before which the edit that
\* was typed is committed.
Closing(call) == call.op = "close" /\ call.at \in {"saveChanges", "saved", "destroy"}
Committing(call) ==
  \/ call.op = "save" /\ call.at \notin {"save", "saveAs"}
  \/ call.op = "close" /\ call.at # "close"

\* A call above which another one may run: at a question, or where it called it.
Waits(call) ==
  \/ Asks(call)
  \/ call.op = "close" /\ call.at = "saved"
  \/ call.op = "quit" /\ call.at = "closed"
  \/ call.op = "open" /\ call.at = "added"
  \/ call.op \in {"recent", "files", "reopen", "start"} /\ call.at = "opened"
  \/ call.op = "start" /\ call.at = "first"

-----------------------------------------------------------------------------
(* The invariant.                                                            *)

\* What a save under way relies on.  What it will replace without a question
\* is what its document was made from: no other work is lost.
SaveSound(call, docs, due) ==
  /\ call.win \in Window
  /\ call.at \in {"save", "saveAs", "verify", "write", "writing"} => docs[call.win].alive
  /\ call.at \in {"askOverwrite", "verify", "storageOptions", "write", "writing",
                  "decalFile", "saved", "saveWarnings"} => call.file \in File
  /\ /\ call.at \in {"verify", "storageOptions", "write", "writing", "decalFile"}
     /\ ~call.agreed /\ docs[call.win].alive /\ call.content \in due
     => docs[call.win].content = call.content
  /\ call.at \in {"saved", "saveWarnings"} => docs[call.win].saved

CloseSound(call, docs, due, designs, open) ==
  /\ call.win \in Window
  /\ Closing(call) => call.win \in open
  /\ call.at = "destroy" => IsSafe(docs[call.win].content, due, designs)

OpenSound(call, due, designs) ==
  /\ call.at \in {"loadFailed", "loadWarnings", "loaded", "added"} => call.files # <<>>
  /\ call.at \in {"loadWarnings", "loaded"} =>
       call.content # Nothing /\ IsSafe(call.content, due, designs)

CallSound(call, docs, due, designs, open, text) ==
  /\ Committing(call) => text = NoTyping
  /\ call.op = "save" => SaveSound(call, docs, due)
  /\ call.op = "close" => CloseSound(call, docs, due, designs, open)
  /\ call.op = "open" => OpenSound(call, due, designs)
  /\ call.op = "recent" => call.file \in File
  /\ call.op = "reopen" /\ call.at = "opened" => call.file \in File

\* Every call on the stack is sound, and all but the last wait.  A close that
\* waits for its save goes on with what that save returned.
StackSound ==
  /\ stack \in Seq(CallType)
  /\ \A i \in 1 .. Len(stack) : stack[i].content \in Known
  /\ \A i \in 1 .. Len(stack) : CallSound(stack[i], doc, owed, Designs, Open, typing)
  /\ \A i \in 1 .. Len(stack) - 1 : Waits(stack[i])
  /\ \A i \in 1 .. Len(stack) - 1 :
       stack[i].op = "close" /\ stack[i].at = "saved" =>
         stack[i + 1].op = "save" /\ stack[i + 1].win = stack[i].win
  /\ Running("close", "saved") /\ returned => doc[Top.win].saved
  /\ ~running => stack = <<>>

\* The guards against a second close, quit or reopen are locks, each held by
\* one call; the flag of the opening files nests.
NoLock == <<"none", NoWindow>>
LockOf(call) ==
  IF Closing(call) THEN <<"close", call.win>>
  ELSE IF call.op = "reopen" /\ call.at = "opened" THEN <<"reopen", NoWindow>>
  ELSE IF call.op = "quit" /\ call.at \in {"next", "closed"} THEN <<"quit", NoWindow>>
  ELSE NoLock
Held ==
  {<<"close", w>> : w \in {v \in Window : doc[v].closing}}
    \cup (IF reopening THEN {<<"reopen", NoWindow>>} ELSE {})
    \cup (IF quitting THEN {<<"quit", NoWindow>>} ELSE {})
Opens(call) == call.op = "files" /\ call.at = "opened"

LocksFollow ==
  /\ Held = {LockOf(stack[i]) : i \in 1 .. Len(stack)} \ {NoLock}
  /\ \A i, j \in 1 .. Len(stack) :
       LockOf(stack[i]) = LockOf(stack[j]) /\ LockOf(stack[i]) # NoLock => i = j
OpeningFollows ==
  /\ openingFiles <=> \E i \in 1 .. Len(stack) : Opens(stack[i])
  /\ \A i \in 1 .. Len(stack) :
       Opens(stack[i]) => (stack[i].flag <=> \E j \in 1 .. i - 1 : Opens(stack[j]))

SessionTypes ==
  /\ settings \in SettingsType
  /\ listed \in Seq(Window) /\ IsInjective(listed)
  /\ recent \in Seq(File) /\ IsInjective(recent)
  /\ DOMAIN doc = Window /\ \A w \in Window : IsDocument(doc[w])
  /\ \/ typing = NoTyping
     \/ typing \in [win: Window, content: 1 .. work] /\ IsListed(typing.win)
  /\ work \in 0 .. MaxWork /\ owed \subseteq 1 .. work
  /\ {returned, quitting, leaving, connected, running, openingFiles, reopening}
       \subseteq BOOLEAN

\* What is saved is in a file if it must be kept, what a document was made from
\* is still its design if it must be kept, and an application that leaves has
\* nothing unsaved.
DocumentsSound ==
  /\ \A w \in Window :
       /\ Alive(w) => doc[w].content # Nothing
       /\ IsListed(w) => Alive(w)
       /\ doc[w].saved => IsSafe(doc[w].content, owed, Designs)
       /\ doc[w].base \in owed => doc[w].content = doc[w].base
  /\ leaving => typing = NoTyping /\ \A w \in Window : IsListed(w) => doc[w].saved

\* A file is written within a save only, for the file and with the design of
\* that save.
WritingSound ==
  /\ ~Running("save", "writing") => job.at = "idle"
  /\ Running("save", "writing") =>
       /\ job.at # "idle" /\ job.target = Top.file
       /\ job.content # Nothing => job.content = doc[Top.win].content
       /\ job.at = "done" => Stored(job.target) = job.content
  /\ Designs \subseteq Known

SessionInv ==
  /\ FileInv /\ SessionTypes /\ StackSound /\ LocksFollow /\ OpeningFollows
  /\ DocumentsSound /\ WritingSound /\ WorkIsKept

-----------------------------------------------------------------------------
(* The stack.                                                                *)

\* The calls below the one on top are as they were.
SameBelow == \A i \in 1 .. Len(stack) - 1 : stack'[i] = stack[i]

\* The call on top becomes c; it becomes c and calls d; it returns.
Moves(c) ==
  /\ stack # <<>> /\ c \in CallType /\ SameBelow
  /\ stack' \in Seq(CallType) /\ Len(stack') = Len(stack)
  /\ stack'[Len(stack)] = c
Enters(c, d) ==
  /\ stack # <<>> /\ c \in CallType /\ d \in CallType /\ SameBelow
  /\ stack' \in Seq(CallType) /\ Len(stack') = Len(stack) + 1
  /\ stack'[Len(stack)] = c /\ stack'[Len(stack) + 1] = d
Leaves ==
  /\ stack # <<>> /\ SameBelow
  /\ stack' \in Seq(CallType) /\ Len(stack') = Len(stack) - 1
Starts(c) ==
  /\ c \in CallType
  /\ stack' \in Seq(CallType) /\ Len(stack') = 1
  /\ stack'[1] = c

LEMMA StackTop ==
  ASSUME stack \in Seq(CallType), stack # <<>>
  PROVE  /\ Len(stack) \in Nat \ {0}
         /\ Top = stack[Len(stack)] /\ Top \in CallType
         /\ \A i \in 1 .. Len(stack) : stack[i] \in CallType
BY DEF Top

LEMMA MovesWith ==
  ASSUME stack \in Seq(CallType), stack # <<>>, NEW c \in CallType, GoesWith(c)
  PROVE  Moves(c)
BY StackTop DEF GoesWith, Moves, SameBelow

\* A call that goes to another place.
LEMMA PlaceOfCall ==
  ASSUME NEW c \in CallType, NEW at \in Places
  PROVE  LET d == [c EXCEPT !.at = at]
         IN  /\ d \in CallType /\ d.at = at
             /\ d.op = c.op /\ d.win = c.win /\ d.files = c.files /\ d.file = c.file
             /\ d.content = c.content /\ d.flag = c.flag /\ d.agreed = c.agreed
             /\ d.decal = c.decal
BY DEF CallType

At(at) == [Top EXCEPT !.at = at]

LEMMA MovesTo ==
  ASSUME stack \in Seq(CallType), stack # <<>>, NEW at \in Places, Goes(at)
  PROVE  Moves(At(at))
<1>1. Top \in CallType
  BY StackTop
<1>2. [Top EXCEPT !.at = at] \in CallType
  BY <1>1, PlaceOfCall
<1>3. stack' = [stack EXCEPT ![Len(stack)] = [Top EXCEPT !.at = at]]
  BY DEF Goes, Top
<1> QED
  BY <1>2, <1>3, MovesWith DEF GoesWith, At

LEMMA EntersCall ==
  ASSUME stack \in Seq(CallType), stack # <<>>, NEW c \in CallType, NEW d \in CallType,
         stack' = Append([stack EXCEPT ![Len(stack)] = c], d)
  PROVE  Enters(c, d)
<1> DEFINE s == [stack EXCEPT ![Len(stack)] = c]
<1>1. /\ s \in Seq(CallType) /\ Len(s) = Len(stack) /\ s[Len(stack)] = c
      /\ \A i \in 1 .. Len(stack) - 1 : s[i] = stack[i]
      /\ Len(stack) \in Nat \ {0}
  BY StackTop
<1> HIDE DEF s
<1>2. stack' = Append(s, d)
  BY DEF s
<1>3. /\ stack' \in Seq(CallType) /\ Len(stack') = Len(s) + 1 /\ stack'[Len(s) + 1] = d
      /\ \A i \in 1 .. Len(s) : stack'[i] = s[i]
  BY <1>1, <1>2
<1> QED
  BY <1>1, <1>3 DEF Enters, SameBelow

LEMMA EntersFrom ==
  ASSUME stack \in Seq(CallType), stack # <<>>, NEW at \in Places, NEW d \in CallType,
         Calls(at, d)
  PROVE  Enters(At(at), d)
<1>1. Top \in CallType
  BY StackTop
<1>2. [Top EXCEPT !.at = at] \in CallType
  BY <1>1, PlaceOfCall
<1>3. stack' = Append([stack EXCEPT ![Len(stack)] = [Top EXCEPT !.at = at]], d)
  BY DEF Calls, Top
<1> QED
  BY <1>2, <1>3, EntersCall DEF At

LEMMA Pushes ==
  ASSUME stack \in Seq(CallType), NEW d \in CallType, Push(d)
  PROVE  /\ stack # <<>> => Enters(Top, d)
         /\ stack = <<>> => Starts(d)
<1>1. CASE stack # <<>>
  <2>1. [stack EXCEPT ![Len(stack)] = Top] = stack
    BY <1>1, StackTop
  <2> QED
    BY <1>1, <2>1, EntersCall, StackTop DEF Push
<1>2. CASE stack = <<>>
  BY <1>2 DEF Push, Starts
<1> QED
  BY <1>1, <1>2

LEMMA ReturnLeaves ==
  ASSUME stack \in Seq(CallType), stack # <<>>, NEW value \in BOOLEAN, Return(value)
  PROVE  Leaves /\ returned' = (value /\ Len(stack) > 1) /\ returned' \in BOOLEAN
<1>1. stack' = SubSeq(stack, 1, Len(stack) - 1) /\ returned' = (value /\ Len(stack) > 1)
  BY DEF Return, Front
<1>2. Len(stack) \in Nat \ {0}
  BY StackTop
<1>3. /\ stack' \in Seq(CallType) /\ Len(stack') = Len(stack) - 1
      /\ \A i \in 1 .. Len(stack) - 1 : stack'[i] = stack[i]
  <2> DEFINE n == Len(stack) - 1
             front == SubSeq(stack, 1, n)
  <2>1. n \in Int /\ 1 \in Int /\ \A i \in 1 .. n : stack[i] \in CallType
    BY <1>2, StackTop
  <2>2. /\ front \in Seq(CallType) /\ Len(front) = IF 1 <= n THEN n - 1 + 1 ELSE 0
        /\ \A i \in 1 .. n - 1 + 1 : front[i] = stack[1 + i - 1]
    <3> HIDE DEF n
    <3> QED
      BY <2>1, SubSeqProperties
  <2>3. n \in Nat /\ stack' = front
    BY <1>1, <1>2
  <2> HIDE DEF n, front
  <2>4. Len(front) = n /\ \A i \in 1 .. n : front[i] = stack[i]
    BY <2>2, <2>3
  <2> QED
    BY <2>2, <2>3, <2>4 DEF n
<1> QED
  BY <1>1, <1>3 DEF Leaves, SameBelow

\* What a step keeps for the calls that wait: of a window they know, the life,
\* the saved flag once nothing is typed, and the design unless it was let go.
WindowSurvives(w) ==
  /\ doc'[w].alive => doc[w].alive
  /\ typing = NoTyping /\ doc[w].saved => doc'[w].saved
  /\ doc'[w].alive => doc'[w].content = doc[w].content \/ doc[w].content \notin owed'
Survive ==
  /\ work' = work /\ owed' \subseteq owed /\ typing' \in {typing, NoTyping}
  /\ Designs \cap owed' \subseteq Designs'
  /\ \A i \in 1 .. Len(stack) : stack[i].win \in Window => WindowSurvives(stack[i].win)

LEMMA WaitingSurvives ==
  ASSUME StackSound, Survive, NEW i \in 1 .. Len(stack), Waits(stack[i]),
         Closing(stack[i]) => stack[i].win \in Open'
  PROVE  CallSound(stack[i], doc', owed', Designs', Open', typing')
<1> DEFINE c == stack[i]
<1>1. /\ CallSound(c, doc, owed, Designs, Open, typing)
      /\ c.win \in Window => WindowSurvives(c.win)
      /\ owed' \subseteq owed /\ typing' \in {typing, NoTyping}
      /\ Designs \cap owed' \subseteq Designs'
      /\ Waits(c) /\ (Closing(c) => c.win \in Open')
  BY DEF StackSound, Survive
<1> HIDE DEF c
<1>2. c.op = "save" => c.at \notin {"save", "saveAs", "verify", "write", "writing", "saved"}
  BY <1>1 DEF Waits, Asks, Questions
<1>3. c.op = "close" => c.at # "destroy"
  BY <1>1 DEF Waits, Asks, Questions
<1>4. c.op = "save" => SaveSound(c, doc', owed')
  <2> SUFFICES ASSUME c.op = "save" PROVE SaveSound(c, doc', owed')
    OBVIOUS
  <2>1. SaveSound(c, doc, owed) /\ c.win \in Window /\ WindowSurvives(c.win)
    BY <1>1 DEF CallSound, SaveSound
  <2>2. c.at = "saveWarnings" => typing = NoTyping
    BY <1>1 DEF CallSound, Committing
  <2> QED
    BY <1>1, <1>2, <2>1, <2>2 DEF SaveSound, WindowSurvives
<1>5. c.op = "close" => CloseSound(c, doc', owed', Designs', Open')
  BY <1>1, <1>3 DEF CallSound, CloseSound
<1>6. c.op = "open" => OpenSound(c, owed', Designs')
  BY <1>1 DEF CallSound, OpenSound, IsSafe
<1>7. CallSound(c, doc', owed', Designs', Open', typing')
  BY <1>1, <1>4, <1>5, <1>6 DEF CallSound
<1> QED
  BY <1>7 DEF c

\* The closes that go on have their windows still open.
StillOpen == \A i \in 1 .. Len(stack) - 1 : Closing(stack[i]) => stack[i].win \in Open'

LEMMA CallsBelowSurvive ==
  ASSUME StackSound, Survive, StillOpen, NEW i \in 1 .. Len(stack) - 1
  PROVE  /\ CallSound(stack[i], doc', owed', Designs', Open', typing')
         /\ stack[i].content \in Known'
<1>1. i \in 1 .. Len(stack) /\ Waits(stack[i]) /\ stack[i].content \in Known
  BY DEF StackSound
<1>2. stack[i].content \in Known'
  BY <1>1 DEF Survive, Known
<1> QED
  BY <1>1, <1>2, WaitingSurvives DEF StillOpen

\* The call on top goes on: it is sound again.
LEMMA MovesSound ==
  ASSUME StackSound, Survive, StillOpen, running', NEW c, Moves(c),
         CallSound(c, doc', owed', Designs', Open', typing'), c.content \in Known',
         c.op = Top.op, c.win = Top.win \/ c.op # "save",
         c.op = "close" /\ c.at = "saved" => ~returned' \/ doc'[c.win].saved
  PROVE  StackSound'
<1> DEFINE n == Len(stack)
<1>1. /\ n \in Nat \ {0} /\ stack' \in Seq(CallType) /\ Len(stack') = n /\ stack'[n] = c
      /\ \A i \in 1 .. n - 1 : stack'[i] = stack[i]
      /\ Top = stack[n]
  BY StackTop DEF StackSound, Moves, SameBelow
<1>2. \A i \in 1 .. n - 1 :
        /\ CallSound(stack[i], doc', owed', Designs', Open', typing')
        /\ stack[i].content \in Known'
        /\ Waits(stack[i])
        /\ stack[i].op = "close" /\ stack[i].at = "saved" =>
             stack[i + 1].op = "save" /\ stack[i + 1].win = stack[i].win
  BY CallsBelowSurvive DEF StackSound
<1> HIDE DEF n
<1>3. \A i \in 1 .. n : /\ CallSound(stack'[i], doc', owed', Designs', Open', typing')
                        /\ stack'[i].content \in Known'
  BY <1>1, <1>2
<1>4. \A i \in 1 .. n - 1 : Waits(stack'[i])
  BY <1>1, <1>2
<1>5. \A i \in 1 .. n - 1 :
        stack'[i].op = "close" /\ stack'[i].at = "saved" =>
          stack'[i + 1].op = "save" /\ stack'[i + 1].win = stack'[i].win
  <2> SUFFICES ASSUME NEW i \in 1 .. n - 1, stack'[i].op = "close", stack'[i].at = "saved"
               PROVE  stack'[i + 1].op = "save" /\ stack'[i + 1].win = stack'[i].win
    OBVIOUS
  <2>1. stack[i + 1].op = "save" /\ stack[i + 1].win = stack[i].win /\ stack'[i] = stack[i]
    BY <1>1, <1>2
  <2>2. CASE i + 1 = n
    BY <1>1, <2>1, <2>2
  <2>3. CASE i + 1 # n
    <3>1. i + 1 \in 1 .. n - 1
      BY <1>1, <2>3
    <3> QED
      BY <1>1, <2>1, <3>1
  <2> QED
    BY <2>2, <2>3
<1>6. Top' = c
  BY <1>1 DEF Top
<1>7. (Running("close", "saved") /\ returned)' => doc'[(Top').win].saved
  BY <1>6 DEF Running
<1> QED
  BY <1>1, <1>3, <1>4, <1>5, <1>7 DEF StackSound

\* The call on top calls another one.
LEMMA EntersSound ==
  ASSUME StackSound, Survive, StillOpen, running', NEW c, NEW d, Enters(c, d),
         CallSound(c, doc', owed', Designs', Open', typing'), c.content \in Known',
         CallSound(d, doc', owed', Designs', Open', typing'), d.content \in Known',
         c.op = Top.op, c.win = Top.win \/ c.op # "save", Waits(c),
         c.op = "close" /\ c.at = "saved" => d.op = "save" /\ d.win = c.win,
         d.op = "close" => d.at # "saved"
  PROVE  StackSound'
<1> DEFINE n == Len(stack)
<1>1. /\ n \in Nat \ {0} /\ stack' \in Seq(CallType) /\ Len(stack') = n + 1
      /\ stack'[n] = c /\ stack'[n + 1] = d
      /\ \A i \in 1 .. n - 1 : stack'[i] = stack[i]
      /\ Top = stack[n]
  BY StackTop DEF StackSound, Enters, SameBelow
<1>2. \A i \in 1 .. n - 1 :
        /\ CallSound(stack[i], doc', owed', Designs', Open', typing')
        /\ stack[i].content \in Known'
        /\ Waits(stack[i])
        /\ stack[i].op = "close" /\ stack[i].at = "saved" =>
             stack[i + 1].op = "save" /\ stack[i + 1].win = stack[i].win
  BY CallsBelowSurvive DEF StackSound
<1> HIDE DEF n
<1>3. \A i \in 1 .. n + 1 : /\ CallSound(stack'[i], doc', owed', Designs', Open', typing')
                            /\ stack'[i].content \in Known'
  <2> SUFFICES ASSUME NEW i \in 1 .. n + 1
               PROVE  /\ CallSound(stack'[i], doc', owed', Designs', Open', typing')
                      /\ stack'[i].content \in Known'
    OBVIOUS
  <2>1. i \in 1 .. n - 1 \/ i = n \/ i = n + 1
    BY <1>1
  <2> QED
    BY <1>1, <1>2, <2>1
<1>4. \A i \in 1 .. n : Waits(stack'[i])
  BY <1>1, <1>2
<1>5. \A i \in 1 .. n :
        stack'[i].op = "close" /\ stack'[i].at = "saved" =>
          stack'[i + 1].op = "save" /\ stack'[i + 1].win = stack'[i].win
  <2> SUFFICES ASSUME NEW i \in 1 .. n, stack'[i].op = "close", stack'[i].at = "saved"
               PROVE  stack'[i + 1].op = "save" /\ stack'[i + 1].win = stack'[i].win
    OBVIOUS
  <2>1. CASE i = n
    BY <1>1, <2>1
  <2>2. CASE i + 1 = n
    BY <1>1, <1>2, <2>2
  <2>3. CASE i + 1 \in 1 .. n - 1
    BY <1>1, <1>2, <2>3
  <2> QED
    BY <1>1, <2>1, <2>2, <2>3
<1>6. Top' = d
  BY <1>1 DEF Top
<1>7. ~(Running("close", "saved"))'
  BY <1>6 DEF Running
<1>8. Len(stack') - 1 = n
  BY <1>1
<1> QED
  BY <1>1, <1>3, <1>4, <1>5, <1>7, <1>8 DEF StackSound

\* The call on top returns: a close that waited for it was told the truth.
LEMMA LeavesSound ==
  ASSUME StackSound, Survive, StillOpen, running', Leaves,
         Top.op = "save" /\ returned' => doc'[Top.win].saved
  PROVE  StackSound'
<1> DEFINE n == Len(stack)
<1>1. /\ n \in Nat \ {0} /\ stack' \in Seq(CallType) /\ Len(stack') = n - 1
      /\ \A i \in 1 .. n - 1 : stack'[i] = stack[i]
      /\ Top = stack[n]
  BY StackTop DEF StackSound, Leaves, SameBelow
<1>2. \A i \in 1 .. n - 1 :
        /\ CallSound(stack[i], doc', owed', Designs', Open', typing')
        /\ stack[i].content \in Known'
        /\ Waits(stack[i])
        /\ stack[i].op = "close" /\ stack[i].at = "saved" =>
             stack[i + 1].op = "save" /\ stack[i + 1].win = stack[i].win
  BY CallsBelowSurvive DEF StackSound
<1> HIDE DEF n
<1>3. \A i \in 1 .. n - 1 : /\ CallSound(stack'[i], doc', owed', Designs', Open', typing')
                            /\ stack'[i].content \in Known'
  BY <1>1, <1>2
<1>4. \A i \in 1 .. n - 1 - 1 :
        /\ Waits(stack'[i])
        /\ stack'[i].op = "close" /\ stack'[i].at = "saved" =>
             stack'[i + 1].op = "save" /\ stack'[i + 1].win = stack'[i].win
  <2> SUFFICES ASSUME NEW i \in 1 .. n - 1 - 1
               PROVE  /\ Waits(stack'[i])
                      /\ stack'[i].op = "close" /\ stack'[i].at = "saved" =>
                           stack'[i + 1].op = "save" /\ stack'[i + 1].win = stack'[i].win
    OBVIOUS
  <2>1. i \in 1 .. n - 1 /\ i + 1 \in 1 .. n - 1
    BY <1>1
  <2> QED
    BY <1>1, <1>2, <2>1
<1>5. (Running("close", "saved") /\ returned)' => doc'[(Top').win].saved
  <2> SUFFICES ASSUME Running("close", "saved")', returned' PROVE doc'[(Top').win].saved
    OBVIOUS
  <2>1. n - 1 \in 1 .. n - 1 /\ Top' = stack[n - 1]
    BY <1>1 DEF Running, Top
  <2>2. stack[n].op = "save" /\ stack[n].win = (Top').win
    BY <1>1, <1>2, <2>1 DEF Running
  <2> QED
    BY <1>1, <2>2
<1> QED
  BY <1>1, <1>3, <1>4, <1>5 DEF StackSound

-----------------------------------------------------------------------------
(* The locks.                                                                *)

\* The call on top gives up the lock it had, and takes one that is free.
Relocks(lock) ==
  /\ Held' = (Held \ {LockOf(Top)}) \cup ({lock} \ {NoLock})
  /\ lock \in Held => lock = LockOf(Top)

LEMMA LocksBelow ==
  ASSUME stack \in Seq(CallType), stack # <<>>, LocksFollow, SameBelow
  PROVE  /\ Held \ {LockOf(Top)} = {LockOf(stack'[i]) : i \in 1 .. Len(stack) - 1} \ {NoLock}
         /\ \A i, j \in 1 .. Len(stack) - 1 :
              LockOf(stack'[i]) = LockOf(stack'[j]) /\ LockOf(stack'[i]) # NoLock => i = j
<1> DEFINE n == Len(stack)
<1>1. n \in Nat \ {0} /\ Top = stack[n] /\ \A i \in 1 .. n - 1 : stack'[i] = stack[i]
  BY StackTop DEF SameBelow
<1>2. /\ Held = {LockOf(stack[i]) : i \in 1 .. n} \ {NoLock}
      /\ \A i, j \in 1 .. n : LockOf(stack[i]) = LockOf(stack[j]) /\ LockOf(stack[i]) # NoLock => i = j
  BY DEF LocksFollow
<1> HIDE DEF n, LocksFollow
<1>3. ASSUME NEW lock
      PROVE  lock \in Held \ {LockOf(Top)} <=>
               lock \in {LockOf(stack'[i]) : i \in 1 .. n - 1} \ {NoLock}
  <2>1. CASE lock \in Held \ {LockOf(Top)}
    <3>1. PICK i \in 1 .. n : lock = LockOf(stack[i])
      BY <1>2, <2>1
    <3>2. i \in 1 .. n - 1
      BY <1>1, <2>1, <3>1
    <3> QED
      BY <1>1, <1>2, <2>1, <3>1, <3>2
  <2>2. CASE lock \in {LockOf(stack'[i]) : i \in 1 .. n - 1} \ {NoLock}
    <3>1. PICK i \in 1 .. n - 1 : lock = LockOf(stack[i])
      BY <1>1, <2>2
    <3>2. i \in 1 .. n /\ n \in 1 .. n /\ i # n
      BY <1>1
    <3>3. lock # LockOf(Top)
      BY <1>1, <1>2, <2>2, <3>1, <3>2
    <3> QED
      BY <1>2, <2>2, <3>1, <3>2, <3>3
  <2> QED
    BY <2>1, <2>2
<1>4. \A i, j \in 1 .. n - 1 :
        LockOf(stack'[i]) = LockOf(stack'[j]) /\ LockOf(stack'[i]) # NoLock => i = j
  BY <1>1, <1>2
<1>5. Held \ {LockOf(Top)} = {LockOf(stack'[i]) : i \in 1 .. n - 1} \ {NoLock}
  BY ONLY <1>3
<1> QED
  BY <1>4, <1>5 DEF n

LEMMA LocksMove ==
  ASSUME stack \in Seq(CallType), LocksFollow, NEW c,
         Moves(c) \/ \E d : Enters(c, d) /\ LockOf(d) = NoLock,
         Relocks(LockOf(c))
  PROVE  LocksFollow'
<1> DEFINE n == Len(stack)
           Below == {LockOf(stack'[i]) : i \in 1 .. n - 1}
<1>1. n \in Nat \ {0} /\ Top = stack[n]
  BY StackTop DEF Moves, Enters
<1>2. /\ Held \ {LockOf(Top)} = Below \ {NoLock}
      /\ \A i, j \in 1 .. n - 1 :
           LockOf(stack'[i]) = LockOf(stack'[j]) /\ LockOf(stack'[i]) # NoLock => i = j
  BY LocksBelow DEF Moves, Enters
<1>3. /\ stack'[n] = c /\ Len(stack') \in {n, n + 1}
      /\ \A i \in n + 1 .. Len(stack') : LockOf(stack'[i]) = NoLock
  BY <1>1 DEF Moves, Enters
<1>4. Held' = (Below \ {NoLock}) \cup ({LockOf(c)} \ {NoLock}) /\ (LockOf(c) # NoLock => LockOf(c) \notin Below)
  <2>1. Held' = (Below \ {NoLock}) \cup ({LockOf(c)} \ {NoLock})
    BY <1>2 DEF Relocks
  <2>2. LockOf(c) # NoLock => LockOf(c) \notin Below
    <3> HIDE DEF Below
    <3> QED
      BY <1>2 DEF Relocks
  <2> QED
    BY <2>1, <2>2
<1> HIDE DEF n
<1>5. {LockOf(stack'[i]) : i \in 1 .. Len(stack')} \ {NoLock} = (Below \ {NoLock}) \cup ({LockOf(c)} \ {NoLock})
  <2>1. ASSUME NEW i \in 1 .. Len(stack'), LockOf(stack'[i]) # NoLock
        PROVE  LockOf(stack'[i]) \in Below \cup {LockOf(c)}
    <3>1. i \in 1 .. n - 1 \/ i = n
      BY <1>1, <1>3, <2>1
    <3> QED
      BY <1>3, <3>1
  <2>2. Below \subseteq {LockOf(stack'[i]) : i \in 1 .. Len(stack')}
    BY <1>1, <1>3
  <2>3. LockOf(c) \in {LockOf(stack'[i]) : i \in 1 .. Len(stack')}
    BY <1>1, <1>3
  <2> HIDE DEF Below
  <2> QED
    BY <2>1, <2>2, <2>3
<1>6. ASSUME NEW i \in 1 .. Len(stack'), NEW j \in 1 .. Len(stack'),
             LockOf(stack'[i]) = LockOf(stack'[j]), LockOf(stack'[i]) # NoLock
      PROVE  i = j
  <2>1. (i \in 1 .. n - 1 \/ i = n) /\ (j \in 1 .. n - 1 \/ j = n)
    BY <1>1, <1>3, <1>6
  <2> QED
    BY <1>2, <1>3, <1>4, <1>6, <2>1
<1> QED
  BY <1>4, <1>5, <1>6 DEF LocksFollow

LEMMA LocksLeave ==
  ASSUME stack \in Seq(CallType), LocksFollow, Leaves, Relocks(NoLock)
  PROVE  LocksFollow'
<1>1. /\ Held \ {LockOf(Top)} = {LockOf(stack'[i]) : i \in 1 .. Len(stack) - 1} \ {NoLock}
      /\ \A i, j \in 1 .. Len(stack) - 1 :
           LockOf(stack'[i]) = LockOf(stack'[j]) /\ LockOf(stack'[i]) # NoLock => i = j
  BY LocksBelow DEF Leaves
<1>2. Len(stack') = Len(stack) - 1 /\ Held' = Held \ {LockOf(Top)}
  BY DEF Leaves, Relocks
<1> QED
  BY <1>1, <1>2 DEF LocksFollow

\* A step that leaves the locks alone.
LEMMA LocksKept ==
  ASSUME LocksFollow, stack \in Seq(CallType), stack # <<>>, Held' = Held
  PROVE  Relocks(LockOf(Top))
<1>1. LockOf(Top) # NoLock => LockOf(Top) \in Held
  BY StackTop DEF LocksFollow
<1> QED
  BY <1>1 DEF Relocks, LocksFollow

LEMMA HeldKept ==
  ASSUME \A w \in Window : doc'[w].closing = doc[w].closing, UNCHANGED <<reopening, quitting>>
  PROVE  Held' = Held
BY DEF Held

\* The flag of the opening files: the call on top stays what it is, begins to
\* open, or is done.
LEMMA OpeningMoves ==
  ASSUME stack \in Seq(CallType), OpeningFollows, NEW c,
         Moves(c) \/ \E d : Enters(c, d) /\ ~Opens(d),
         \/ openingFiles' = openingFiles /\ Opens(c) = Opens(Top) /\ c.flag = Top.flag
         \/ openingFiles' = openingFiles /\ ~Opens(c) /\ ~Opens(Top)
         \/ openingFiles' /\ Opens(c) /\ ~Opens(Top) /\ c.flag = openingFiles
  PROVE  OpeningFollows'
<1> DEFINE n == Len(stack)
<1>1. n \in Nat \ {0} /\ Top = stack[n]
  BY StackTop DEF Moves, Enters
<1>2. /\ stack'[n] = c /\ Len(stack') \in {n, n + 1}
      /\ \A i \in n + 1 .. Len(stack') : ~Opens(stack'[i])
      /\ \A i \in 1 .. n - 1 : stack'[i] = stack[i]
  BY <1>1 DEF Moves, Enters, SameBelow
<1>3. /\ openingFiles <=> \E i \in 1 .. n : Opens(stack[i])
      /\ \A i \in 1 .. n : Opens(stack[i]) =>
           (stack[i].flag <=> \E j \in 1 .. i - 1 : Opens(stack[j]))
  BY DEF OpeningFollows
<1> HIDE DEF n, OpeningFollows
<1>4. (\E j \in 1 .. n - 1 : Opens(stack'[j])) <=> \E j \in 1 .. n - 1 : Opens(stack[j])
  BY <1>2
<1>5. openingFiles' <=> \E i \in 1 .. Len(stack') : Opens(stack'[i])
  <2>1. (\E i \in 1 .. Len(stack') : Opens(stack'[i])) <=>
          Opens(c) \/ \E i \in 1 .. n - 1 : Opens(stack'[i])
    <3>1. \A i \in 1 .. Len(stack') : i \in 1 .. n - 1 \/ i = n \/ i \in n + 1 .. Len(stack')
      BY <1>1, <1>2
    <3>2. n \in 1 .. Len(stack') /\ 1 .. n - 1 \subseteq 1 .. Len(stack')
      BY <1>1, <1>2
    <3> QED
      BY <1>2, <3>1, <3>2
  <2>2. (\E i \in 1 .. n : Opens(stack[i])) <=>
          Opens(Top) \/ \E i \in 1 .. n - 1 : Opens(stack[i])
    BY <1>1
  <2> QED
    BY <1>3, <1>4, <2>1, <2>2
<1>6. ASSUME NEW i \in 1 .. Len(stack'), Opens(stack'[i])
      PROVE  stack'[i].flag <=> \E j \in 1 .. i - 1 : Opens(stack'[j])
  <2>1. CASE i \in 1 .. n - 1
    <3>1. stack'[i] = stack[i] /\ i \in 1 .. n /\ \A j \in 1 .. i - 1 : stack'[j] = stack[j]
      BY <1>1, <1>2, <2>1
    <3>2. (\E j \in 1 .. i - 1 : Opens(stack'[j])) <=> \E j \in 1 .. i - 1 : Opens(stack[j])
      BY <3>1
    <3>3. Opens(stack[i]) => (stack[i].flag <=> \E j \in 1 .. i - 1 : Opens(stack[j]))
      BY <1>3, <3>1
    <3>4. Opens(stack[i])
      BY <1>6, <3>1
    <3> QED
      BY <3>1, <3>2, <3>3, <3>4
  <2>2. CASE i = n
    <3>1. Opens(c) /\ stack'[i] = c
      BY <1>2, <1>6, <2>2
    <3>2. Opens(Top) => (Top.flag <=> \E j \in 1 .. n - 1 : Opens(stack[j]))
      BY <1>1, <1>3
    <3>3. CASE Opens(Top) /\ c.flag = Top.flag
      BY <1>4, <2>2, <3>1, <3>2, <3>3
    <3>4. CASE ~Opens(Top) /\ c.flag = openingFiles
      <4>1. openingFiles <=> \E j \in 1 .. n - 1 : Opens(stack[j])
        BY <1>1, <1>3, <3>4
      <4> QED
        BY <1>4, <2>2, <3>1, <3>4, <4>1
    <3> QED
      BY <3>1, <3>3, <3>4
  <2>3. CASE i \in n + 1 .. Len(stack')
    BY <1>2, <1>6, <2>3
  <2> QED
    BY <1>1, <1>2, <2>1, <2>2, <2>3
<1> QED
  BY <1>5, <1>6 DEF OpeningFollows

LEMMA OpeningLeaves ==
  ASSUME stack \in Seq(CallType), OpeningFollows, Leaves,
         openingFiles' = IF Opens(Top) THEN Top.flag ELSE openingFiles
  PROVE  OpeningFollows'
<1> DEFINE n == Len(stack)
<1>1. n \in Nat \ {0} /\ Top = stack[n] /\ Len(stack') = n - 1
      /\ \A i \in 1 .. n - 1 : stack'[i] = stack[i]
  BY StackTop DEF Leaves, SameBelow
<1>2. /\ openingFiles <=> \E i \in 1 .. n : Opens(stack[i])
      /\ \A i \in 1 .. n : Opens(stack[i]) =>
           (stack[i].flag <=> \E j \in 1 .. i - 1 : Opens(stack[j]))
  BY DEF OpeningFollows
<1> HIDE DEF n, OpeningFollows
<1>3. openingFiles' <=> \E i \in 1 .. n - 1 : Opens(stack[i])
  BY <1>1, <1>2
<1>4. ASSUME NEW i \in 1 .. n - 1, Opens(stack'[i])
      PROVE  stack'[i].flag <=> \E j \in 1 .. i - 1 : Opens(stack'[j])
  <2>1. i \in 1 .. n /\ \A j \in 1 .. i - 1 : stack'[j] = stack[j]
    BY <1>1
  <2> QED
    BY <1>1, <1>2, <1>4, <2>1
<1> QED
  BY <1>1, <1>3, <1>4 DEF OpeningFollows

-----------------------------------------------------------------------------
(* The lists of the windows and of the recent files.                         *)

LEMMA WhereIn ==
  ASSUME NEW S, NEW s \in Seq(S), IsInjective(s), NEW k \in 1 .. Len(s), NEW e,
         e = s[k]
  PROVE  RemoveFirst(s, e) = RemoveAt(s, k)
<1> DEFINE I == {i \in 1 .. Len(s) : s[i] = e}
<1>1. I = {k}
  BY DEF IsInjective
<1>2. Min({k}) = k
  BY DEF Min
<1>3. RemoveFirst(s, e) = IF \E i \in 1 .. Len(s) : s[i] = e
                          THEN RemoveAt(s, IF I # {} THEN Min(I) ELSE 0) ELSE s
  BY DEF RemoveFirst, SelectInSeq
<1> HIDE DEF I
<1> QED
  BY <1>1, <1>2, <1>3

LEMMA ElementsOf ==
  ASSUME NEW S, NEW s \in Seq(S)
  PROVE  /\ ToSet(s) = {s[i] : i \in 1 .. Len(s)}
         /\ ToSet(s) \subseteq S
BY DEF ToSet

\* One element less, and the others keep their order.
LEMMA SequenceWithout ==
  ASSUME NEW S, NEW s \in Seq(S), IsInjective(s), NEW k \in 1 .. Len(s)
  PROVE  /\ RemoveAt(s, k) \in Seq(S) /\ IsInjective(RemoveAt(s, k))
         /\ ToSet(RemoveAt(s, k)) = ToSet(s) \ {s[k]}
<1> DEFINE n == Len(s)
           front == SubSeq(s, 1, k - 1)
           back == SubSeq(s, k + 1, n)
           t == front \o back
           Old(i) == IF i < k THEN i ELSE i + 1
<1>1. n \in Nat /\ k \in 1 .. n /\ \A i \in 1 .. n : s[i] \in S
  OBVIOUS
<1>2. /\ front \in Seq(S) /\ Len(front) = k - 1
      /\ \A i \in 1 .. k - 1 : front[i] = s[i]
  <2> DEFINE m == k - 1
  <2>1. m \in Nat /\ 1 \in Int /\ m \in Int /\ \A i \in 1 .. m : s[i] \in S
    BY <1>1
  <2>2. /\ SubSeq(s, 1, m) \in Seq(S) /\ Len(SubSeq(s, 1, m)) = IF 1 <= m THEN m - 1 + 1 ELSE 0
        /\ \A i \in 1 .. m - 1 + 1 : SubSeq(s, 1, m)[i] = s[1 + i - 1]
    <3> HIDE DEF m
    <3> QED
      BY <2>1, SubSeqProperties
  <2> HIDE DEF m
  <2>3. Len(SubSeq(s, 1, m)) = m /\ \A i \in 1 .. m : SubSeq(s, 1, m)[i] = s[i]
    BY <2>1, <2>2
  <2> QED
    BY <2>2, <2>3 DEF m
<1>3. /\ back \in Seq(S) /\ Len(back) = n - k
      /\ \A i \in 1 .. n - k : back[i] = s[k + i]
  <2> DEFINE m == k + 1
  <2>1. n \in Int /\ m \in Int /\ \A i \in m .. n : s[i] \in S
    BY <1>1
  <2>2. /\ SubSeq(s, m, n) \in Seq(S) /\ Len(SubSeq(s, m, n)) = IF m <= n THEN n - m + 1 ELSE 0
        /\ \A i \in 1 .. n - m + 1 : SubSeq(s, m, n)[i] = s[m + i - 1]
    <3> HIDE DEF m, n
    <3> QED
      BY <2>1, SubSeqProperties
  <2>3. n - m + 1 = n - k /\ (m <= n \/ n - k = 0) /\ \A i \in 1 .. n - k : m + i - 1 = k + i
    BY <1>1
  <2> HIDE DEF m
  <2>4. Len(SubSeq(s, m, n)) = n - k /\ \A i \in 1 .. n - k : SubSeq(s, m, n)[i] = s[k + i]
    BY <1>1, <2>1, <2>2, <2>3
  <2> QED
    BY <2>2, <2>4 DEF m
<1> HIDE DEF n, front, back
<1>4. /\ t \in Seq(S) /\ Len(t) = n - 1
      /\ \A i \in 1 .. n - 1 : t[i] = IF i <= k - 1 THEN front[i] ELSE back[i - (k - 1)]
  BY <1>1, <1>2, <1>3, ConcatProperties
<1> HIDE DEF t
<1>5. \A i \in 1 .. n - 1 : t[i] = s[Old(i)] /\ Old(i) \in 1 .. n /\ Old(i) # k
  BY <1>1, <1>2, <1>3, <1>4
<1>6. \A i, j \in 1 .. n : s[i] = s[j] => i = j
  BY DEF IsInjective, n
<1>7. IsInjective(t)
  <2> SUFFICES ASSUME NEW i \in 1 .. n - 1, NEW j \in 1 .. n - 1, t[i] = t[j] PROVE i = j
    BY <1>4 DEF IsInjective
  <2>1. Old(i) = Old(j)
    BY <1>5, <1>6
  <2> QED
    BY <1>1, <2>1
<1>8. ToSet(t) = {t[i] : i \in 1 .. n - 1} /\ ToSet(s) = {s[i] : i \in 1 .. n}
  <2>1. ToSet(t) = {t[i] : i \in 1 .. Len(t)} /\ ToSet(s) = {s[i] : i \in 1 .. Len(s)}
    BY <1>4, ElementsOf
  <2> QED
    BY <1>4, <2>1 DEF n
<1>9. ASSUME NEW e PROVE e \in ToSet(t) <=> e \in ToSet(s) \ {s[k]}
  <2>1. ASSUME NEW i \in 1 .. n - 1, e = t[i] PROVE e \in ToSet(s) \ {s[k]}
    BY <1>1, <1>5, <1>6, <1>8, <2>1
  <2>2. ASSUME NEW i \in 1 .. n, e = s[i], e # s[k] PROVE e \in ToSet(t)
    <3>1. PICK j \in 1 .. n - 1 : Old(j) = i
      <4>1. CASE i < k
        <5>1. i \in 1 .. n - 1 /\ Old(i) = i
          BY <1>1, <4>1
        <5> QED
          BY <5>1
      <4>2. CASE i > k
        <5>1. i - 1 \in 1 .. n - 1 /\ Old(i - 1) = i
          BY <1>1, <4>2
        <5> QED
          BY <5>1
      <4> QED
        BY <1>1, <2>2, <4>1, <4>2
    <3> QED
      BY <1>5, <1>8, <2>2, <3>1
  <2> QED
    BY <1>8, <2>1, <2>2
<1>10. ToSet(t) = ToSet(s) \ {s[k]}
  BY ONLY <1>9
<1>11. RemoveAt(s, k) = t
  BY DEF RemoveAt, t, front, back, n
<1> QED
  BY <1>4, <1>7, <1>10, <1>11

LEMMA RemoveFirstFacts ==
  ASSUME NEW S, NEW s \in Seq(S), IsInjective(s), NEW e
  PROVE  /\ RemoveFirst(s, e) \in Seq(S) /\ IsInjective(RemoveFirst(s, e))
         /\ ToSet(RemoveFirst(s, e)) = ToSet(s) \ {e}
<1>1. CASE \E i \in 1 .. Len(s) : s[i] = e
  <2>1. PICK k \in 1 .. Len(s) : s[k] = e
    BY <1>1
  <2>2. RemoveFirst(s, e) = RemoveAt(s, k)
    BY <2>1, WhereIn
  <2> QED
    BY <2>1, <2>2, SequenceWithout
<1>2. CASE ~ \E i \in 1 .. Len(s) : s[i] = e
  <2>1. RemoveFirst(s, e) = s
    BY <1>2 DEF RemoveFirst
  <2>2. e \notin ToSet(s)
    BY <1>2, ElementsOf
  <2> QED
    BY <2>1, <2>2
<1> QED
  BY <1>1, <1>2

\* One element more, that was not there.
LEMMA AppendFacts ==
  ASSUME NEW S, NEW s \in Seq(S), IsInjective(s), NEW e \in S, e \notin ToSet(s)
  PROVE  /\ Append(s, e) \in Seq(S) /\ IsInjective(Append(s, e))
         /\ ToSet(Append(s, e)) = ToSet(s) \cup {e}
<1> DEFINE t == Append(s, e)
           n == Len(s)
<1>1. /\ n \in Nat /\ t \in Seq(S) /\ Len(t) = n + 1 /\ t[n + 1] = e
      /\ \A i \in 1 .. n : t[i] = s[i]
  BY AppendProperties
<1>2. /\ \A i \in 1 .. n : s[i] # e
      /\ \A i, j \in 1 .. n : s[i] = s[j] => i = j
  BY ElementsOf DEF IsInjective
<1> HIDE DEF t, n
<1>3. IsInjective(t)
  <2> SUFFICES ASSUME NEW i \in 1 .. n + 1, NEW j \in 1 .. n + 1, t[i] = t[j] PROVE i = j
    BY <1>1 DEF IsInjective
  <2>1. (i \in 1 .. n \/ i = n + 1) /\ (j \in 1 .. n \/ j = n + 1)
    BY <1>1
  <2> QED
    BY <1>1, <1>2, <2>1
<1>4. ToSet(t) = {t[i] : i \in 1 .. n + 1} /\ ToSet(s) = {s[i] : i \in 1 .. n}
  <2>1. ToSet(t) = {t[i] : i \in 1 .. Len(t)} /\ ToSet(s) = {s[i] : i \in 1 .. Len(s)}
    BY <1>1, ElementsOf
  <2> QED
    BY <1>1, <2>1 DEF n
<1>5. ASSUME NEW x PROVE x \in ToSet(t) <=> x \in ToSet(s) \cup {e}
  <2>1. \A i \in 1 .. n + 1 : i \in 1 .. n \/ i = n + 1
    BY <1>1
  <2>2. 1 .. n \subseteq 1 .. n + 1 /\ n + 1 \in 1 .. n + 1
    BY <1>1
  <2> QED
    BY <1>1, <1>4, <2>1, <2>2
<1>6. ToSet(t) = ToSet(s) \cup {e}
  BY ONLY <1>5
<1> QED
  BY <1>1, <1>3, <1>6 DEF t

LEMMA RecentKept ==
  ASSUME recent \in Seq(File), IsInjective(recent), NEW f \in File,
         AddRecent(f) \/ RemoveRecent(f)
  PROVE  recent' \in Seq(File) /\ IsInjective(recent')
<1> DEFINE s == RemoveFirst(recent, f)
<1>1. s \in Seq(File) /\ IsInjective(s) /\ ToSet(s) = ToSet(recent) \ {f}
  BY RemoveFirstFacts
<1>2. CASE RemoveRecent(f)
  BY <1>1, <1>2 DEF RemoveRecent
<1>3. CASE AddRecent(f)
  <2>1. recent' = <<f>> \o s
    BY <1>3 DEF AddRecent
  <2> HIDE DEF s
  <2>2. /\ recent' \in Seq(File) /\ Len(recent') = 1 + Len(s) /\ Len(s) \in Nat
        /\ recent'[1] = f /\ \A i \in 2 .. 1 + Len(s) : recent'[i] = s[i - 1] /\ i - 1 \in 1 .. Len(s)
    BY <1>1, <2>1
  <2>3. /\ \A i \in 1 .. Len(s) : s[i] # f
        /\ \A i, j \in 1 .. Len(s) : s[i] = s[j] => i = j
    BY <1>1, ElementsOf DEF IsInjective
  <2>4. \A i, j \in 1 .. 1 + Len(s) : recent'[i] = recent'[j] => i = j
    <3> SUFFICES ASSUME NEW i \in 1 .. 1 + Len(s), NEW j \in 1 .. 1 + Len(s),
                        recent'[i] = recent'[j]
                 PROVE  i = j
      OBVIOUS
    <3>1. (i = 1 \/ i \in 2 .. 1 + Len(s)) /\ (j = 1 \/ j \in 2 .. 1 + Len(s))
      BY <2>2
    <3>2. CASE i = 1 \/ j = 1
      BY <2>2, <2>3, <3>1, <3>2
    <3>3. CASE i \in 2 .. 1 + Len(s) /\ j \in 2 .. 1 + Len(s)
      <4>1. s[i - 1] = s[j - 1] /\ i - 1 \in 1 .. Len(s) /\ j - 1 \in 1 .. Len(s)
        BY <2>2, <3>3
      <4>2. i - 1 = j - 1
        BY <2>3, <4>1
      <4> QED
        BY <3>3, <4>2
    <3> QED
      BY <3>1, <3>2, <3>3
  <2> QED
    BY <2>2, <2>4 DEF IsInjective
<1> QED
  BY <1>2, <1>3

-----------------------------------------------------------------------------
(* The documents.                                                            *)

LEMMA WorkFacts ==
  ASSUME SessionTypes
  PROVE  /\ work \in Nat /\ 0 .. work \subseteq Content /\ Nothing \notin 0 .. work
         /\ owed \subseteq 1 .. work /\ Nothing \notin owed /\ 0 \notin owed
         /\ 1 .. work \subseteq 0 .. work
<1>1. work \in 0 .. MaxWork /\ MaxWork \in Nat /\ owed \subseteq 1 .. work
  BY WorkBound DEF SessionTypes
<1>2. work \in Nat /\ 0 .. work \subseteq 0 .. MaxWork /\ 1 .. work \subseteq 0 .. work
      /\ 0 \notin 1 .. work
  BY <1>1
<1>3. 0 .. work \subseteq Content
  BY <1>2, ContentAssumption
<1>4. Nothing \notin 0 .. work
  BY <1>3, NothingIsNoContent
<1> QED
  BY <1>1, <1>2, <1>3, <1>4

\* What is typed has a window; nothing typed has none.
LEMMA TypingFacts ==
  ASSUME SessionTypes
  PROVE  /\ typing = NoTyping => typing.win = NoWindow /\ typing.content = Nothing
         /\ typing # NoTyping => /\ typing.win \in Window /\ typing.win # NoWindow
                                 /\ typing.content \in 1 .. work
                                 /\ IsListed(typing.win)
BY NoWindowAssumption DEF SessionTypes, NoTyping

LEMMA ListedFacts ==
  ASSUME SessionTypes
  PROVE  /\ Open = {listed[i] : i \in 1 .. Len(listed)} /\ Open \subseteq Window
         /\ \A w : IsListed(w) <=> w \in Open
         /\ listed = <<>> <=> Open = {}
         /\ LastWindow \in Window \cup {NoWindow}
         /\ listed # <<>> => LastWindow \in Open
<1>1. listed \in Seq(Window)
  BY DEF SessionTypes
<1>2. Open = {listed[i] : i \in 1 .. Len(listed)} /\ Open \subseteq Window
  BY <1>1, ElementsOf DEF Open
<1>3. listed # <<>> => Len(listed) \in 1 .. Len(listed)
  BY <1>1
<1>4. listed = <<>> => Len(listed) = 0
  BY <1>1
<1> QED
  BY <1>2, <1>3, <1>4 DEF IsListed, Open, LastWindow

\* A document that differs in nothing the work depends on.
SameWork(d, e) ==
  /\ e.alive = d.alive /\ e.content = d.content /\ e.saved = d.saved
  /\ e.file = d.file /\ e.base = d.base

\* A step that keeps the documents, and of the files all that is owed.
Quiet ==
  /\ UNCHANGED <<settings, listed, typing, work>>
  /\ DOMAIN doc' = Window
  /\ \A w \in Window : IsDocument(doc'[w]) /\ SameWork(doc[w], doc'[w])
  /\ owed' \subseteq owed
  /\ Designs \cap owed' \subseteq Designs'
  /\ recent' \in Seq(File) /\ IsInjective(recent')
  /\ {returned', quitting', leaving', connected', running', openingFiles', reopening'}
       \subseteq BOOLEAN
  /\ leaving' => leaving \/ listed = <<>>

LEMMA QuietTypes ==
  ASSUME SessionTypes, Quiet
  PROVE  SessionTypes'
BY DEF SessionTypes, Quiet, IsDocument, Known, IsListed

LEMMA QuietDocuments ==
  ASSUME SessionTypes, DocumentsSound, Quiet
  PROVE  DocumentsSound'
<1>1. /\ owed' \subseteq owed /\ Designs \cap owed' \subseteq Designs'
      /\ \A w \in Window : SameWork(doc[w], doc'[w])
      /\ listed' = listed /\ typing' = typing
      /\ leaving' => leaving \/ listed = <<>>
  BY DEF Quiet
<1>2. \A w \in Window :
        /\ Alive(w)' => doc'[w].content # Nothing
        /\ IsListed(w)' => Alive(w)'
  BY <1>1 DEF DocumentsSound, SameWork, Alive, IsListed
<1>3. \A w \in Window : doc'[w].saved => IsSafe(doc'[w].content, owed', Designs')
  BY <1>1 DEF DocumentsSound, SameWork, IsSafe
<1>4. \A w \in Window : doc'[w].base \in owed' => doc'[w].content = doc'[w].base
  BY <1>1 DEF DocumentsSound, SameWork
<1>5. leaving' => typing' = NoTyping /\ \A w \in Window : IsListed(w)' => doc'[w].saved
  <2>1. CASE leaving
    BY <1>1, <2>1 DEF DocumentsSound, SameWork, IsListed
  <2>2. CASE listed = <<>>
    <3>1. \A w : ~IsListed(w)
      BY <2>2, ListedFacts
    <3> QED
      BY <1>1, <3>1, TypingFacts DEF IsListed
  <2> QED
    BY <1>1, <2>1, <2>2
<1> QED
  BY <1>2, <1>3, <1>4, <1>5 DEF DocumentsSound

LEMMA QuietWork ==
  ASSUME WorkIsKept, SessionTypes, Quiet
  PROVE  WorkIsKept'
<1> SUFFICES ASSUME NEW c \in owed'
             PROVE  \/ typing'.content = c
                    \/ \E w \in Window : IsListed(w)' /\ doc'[w].content = c
                    \/ \E f \in File : Stored(f)' = c
  BY DEF WorkIsKept
<1>1. c \in owed /\ listed' = listed /\ typing' = typing
      /\ \A w \in Window : doc'[w].content = doc[w].content
  BY DEF Quiet, SameWork
<1>2. CASE \E f \in File : Stored(f) = c
  <2>1. c \in Designs'
    BY <1>2 DEF Quiet, Designs
  <2> QED
    BY <2>1 DEF Designs
<1> QED
  BY <1>1, <1>2 DEF WorkIsKept, IsListed

LEMMA ClosingIsOpen ==
  ASSUME StackSound, NEW i \in 1 .. Len(stack), Closing(stack[i])
  PROVE  stack[i].win \in Open /\ stack[i].win \in Window
BY DEF StackSound, CallSound, CloseSound, Closing

LEMMA SameOpen ==
  ASSUME StackSound, UNCHANGED listed PROVE StillOpen
<1>1. Open' = Open
  BY DEF Open
<1>2. \A i \in 1 .. Len(stack) - 1 : i \in 1 .. Len(stack)
  BY DEF StackSound
<1> QED
  BY <1>1, <1>2, ClosingIsOpen DEF StillOpen

LEMMA QuietSurvives ==
  ASSUME StackSound, Quiet
  PROVE  Survive /\ StillOpen
BY SameOpen DEF Quiet, Survive, WindowSurvives, SameWork

-----------------------------------------------------------------------------
(* The files.                                                                *)

LEMMA SameDesigns ==
  ASSUME UNCHANGED <<disk, behind>> \/ Stores' = Stores \/ Untouched
  PROVE  Designs' = Designs /\ \A f \in File : Stored(f)' = Stored(f)
<1>1. CASE Stores' = Stores
  BY <1>1 DEF Stores, Designs
<1>2. CASE UNCHANGED <<disk, behind>>
  BY <1>1, <1>2 DEF Stores, Stored, Status
<1> QED
  BY <1>1, <1>2, UntouchedStores

\* A step outside of a write keeps the files.
LEMMA WritingKept ==
  ASSUME WritingSound, UNCHANGED <<disk, behind, job>>, Known \subseteq Known',
         ~Running("save", "writing"), ~Running("save", "writing")'
  PROVE  WritingSound'
BY SameDesigns DEF WritingSound

-----------------------------------------------------------------------------
(* Steps that only move control.                                             *)

\* A call that has not begun.
Fresh(d, docs) ==
  /\ d \in CallType /\ d.content = Nothing
  /\ \/ d.at = d.op
     \/ d.op = "save" /\ d.at = "saveAs"
     \/ d.op = "open" /\ d.at = "openFile"
  /\ d.op = "save" => d.win \in Window /\ docs[d.win].alive
  /\ d.op = "close" => d.win \in Window
  /\ d.op = "recent" => d.file \in File

LEMMA FreshSound ==
  ASSUME NEW docs, NEW due, NEW designs, NEW open, NEW text, NEW d, Fresh(d, docs)
  PROVE  /\ CallSound(d, docs, due, designs, open, text)
         /\ d.content \in Known /\ d.content \in Known'
         /\ LockOf(d) = NoLock /\ ~Opens(d) /\ d.at \notin {"saved", "writing"}
<1>1. d.at \notin {"saved", "writing"} /\ ~Committing(d) /\ ~Closing(d)
  BY DEF Fresh, CallType, Ops, Committing, Closing
<1>2. d.op = "save" => SaveSound(d, docs, due)
  BY DEF Fresh, SaveSound
<1>3. d.op = "close" => CloseSound(d, docs, due, designs, open)
  BY <1>1 DEF Fresh, CloseSound
<1>4. d.op = "open" => OpenSound(d, due, designs)
  BY DEF Fresh, OpenSound
<1>5. CallSound(d, docs, due, designs, open, text)
  BY <1>1, <1>2, <1>3, <1>4 DEF CallSound, Fresh
<1>6. LockOf(d) = NoLock /\ ~Opens(d)
  BY <1>1 DEF Fresh, LockOf, Opens
<1> QED
  BY <1>1, <1>5, <1>6 DEF Fresh, Known

LEMMA CallFacts ==
  ASSUME NEW op \in Ops, NEW at \in Places, NEW w \in Window \cup {NoWindow}
  PROVE  /\ Call(op, at, w) \in CallType /\ Call(op, at, w).content = Nothing
         /\ Call(op, at, w).op = op /\ Call(op, at, w).at = at /\ Call(op, at, w).win = w
<1>1. <<>> \in Seq(File)
  OBVIOUS
<1> QED
  BY <1>1 DEF Call, CallType

\* The calls that the session makes have not begun.
LEMMA SaveCalls ==
  ASSUME NEW w \in Window, NEW docs, docs[w].alive
  PROVE  /\ Fresh(SaveCall(w), docs) /\ SaveCall(w).op = "save" /\ SaveCall(w).win = w
         /\ Fresh(SaveAsCall(w), docs) /\ SaveAsCall(w).op = "save"
         /\ SaveAsCall(w).win = w /\ SaveAsCall(w).at = "saveAs"
<1>1. "save" \in Ops /\ "save" \in Places /\ "saveAs" \in Places
      /\ w \in Window \cup {NoWindow}
  BY DEF Ops, Places
<1>2. Fresh(SaveCall(w), docs) /\ SaveCall(w).op = "save" /\ SaveCall(w).win = w
  BY <1>1, CallFacts DEF SaveCall, Fresh
<1> DEFINE c == Call("save", "saveAs", w)
<1>3. c \in CallType /\ c.op = "save" /\ c.at = "saveAs" /\ c.win = w /\ c.content = Nothing
  BY <1>1, CallFacts
<1>4. SaveAsCall(w) = [c EXCEPT !.flag = TRUE]
  BY DEF SaveAsCall
<1> HIDE DEF c
<1>5. /\ SaveAsCall(w) \in CallType /\ SaveAsCall(w).content = Nothing
      /\ SaveAsCall(w).op = "save" /\ SaveAsCall(w).win = w /\ SaveAsCall(w).at = "saveAs"
  BY <1>3, <1>4 DEF CallType
<1> QED
  BY <1>2, <1>5 DEF Fresh

LEMMA CloseCalls ==
  ASSUME NEW w \in Window, NEW docs
  PROVE  Fresh(CloseCall(w), docs) /\ CloseCall(w).op = "close"
<1>1. "close" \in Ops /\ "close" \in Places /\ w \in Window \cup {NoWindow}
  BY DEF Ops, Places
<1> QED
  BY <1>1, CallFacts DEF CloseCall, Fresh

LEMMA OtherCalls ==
  ASSUME NEW docs
  PROVE  Fresh(QuitCall, docs) /\ Fresh(ReopenCall, docs) /\ ReopenCall.op = "reopen"
<1>1. "quit" \in Ops /\ "quit" \in Places /\ "reopen" \in Ops /\ "reopen" \in Places
      /\ NoWindow \in Window \cup {NoWindow}
  BY DEF Ops, Places
<1> QED
  BY <1>1, CallFacts DEF QuitCall, ReopenCall, Fresh

LEMMA CallsWithFiles ==
  ASSUME NEW w \in Window \cup {NoWindow}, NEW files \in Seq(File), NEW docs
  PROVE  /\ Fresh(StartCall(files), docs) /\ Fresh(FilesCall(files, w), docs)
         /\ Fresh(OpenCall(files, w), docs)
         /\ Fresh([OpenCall(files, w) EXCEPT !.at = "openFile"], docs)
<1>1. ASSUME NEW op \in Ops, op \in Places, NEW v \in Window \cup {NoWindow}
      PROVE  LET c == [Call(op, op, v) EXCEPT !.files = files]
             IN  c \in CallType /\ c.op = op /\ c.at = op /\ c.content = Nothing
  <2> DEFINE c == Call(op, op, v)
  <2>1. c \in CallType /\ c.op = op /\ c.at = op /\ c.content = Nothing
    BY <1>1, CallFacts
  <2> HIDE DEF c
  <2>2. LET d == [c EXCEPT !.files = files]
        IN  d \in CallType /\ d.op = op /\ d.at = op /\ d.content = Nothing
    BY <2>1 DEF CallType
  <2> QED
    BY <2>2 DEF c
<1>2. /\ {"open", "files", "start"} \subseteq Ops /\ {"open", "files", "start"} \subseteq Places
      /\ "openFile" \in Places /\ NoWindow \in Window \cup {NoWindow}
  BY DEF Ops, Places, Questions
<1>3. /\ OpenCall(files, w) \in CallType /\ OpenCall(files, w).op = "open"
      /\ OpenCall(files, w).at = "open" /\ OpenCall(files, w).content = Nothing
  BY <1>1, <1>2 DEF OpenCall
<1>4. Fresh(FilesCall(files, w), docs)
  BY <1>1, <1>2 DEF FilesCall, Fresh
<1>5. Fresh(StartCall(files), docs)
  <2>1. "start" \in Ops /\ "start" \in Places /\ NoWindow \in Window \cup {NoWindow}
    BY <1>2
  <2>2. /\ StartCall(files) \in CallType /\ StartCall(files).op = "start"
        /\ StartCall(files).at = "start" /\ StartCall(files).content = Nothing
    BY <1>1, <2>1 DEF StartCall
  <2> QED
    BY <2>2 DEF Fresh
<1>6. Fresh([OpenCall(files, w) EXCEPT !.at = "openFile"], docs)
  BY <1>2, <1>3, PlaceOfCall DEF Fresh
<1> QED
  BY <1>3, <1>4, <1>5, <1>6 DEF Fresh

LEMMA RecentCalls ==
  ASSUME NEW w \in Window \cup {NoWindow}, NEW f \in File, NEW docs
  PROVE  Fresh(RecentCall(f, w), docs)
<1> DEFINE c == Call("recent", "recent", w)
<1>1. "recent" \in Ops /\ "recent" \in Places
  BY DEF Ops, Places
<1>2. c \in CallType /\ c.op = "recent" /\ c.at = "recent" /\ c.content = Nothing
  BY <1>1, CallFacts
<1>3. RecentCall(f, w) = [c EXCEPT !.file = f]
  BY DEF RecentCall
<1> HIDE DEF c
<1>4. /\ RecentCall(f, w) \in CallType /\ RecentCall(f, w).op = "recent"
      /\ RecentCall(f, w).at = "recent" /\ RecentCall(f, w).content = Nothing
      /\ RecentCall(f, w).file = f
  BY <1>2, <1>3 DEF CallType
<1> QED
  BY <1>4 DEF Fresh

Plain ==
  /\ UNCHANGED <<fileVars, settings, listed, doc, typing, work, owed, running>>
  /\ recent' \in Seq(File) /\ IsInjective(recent')
  /\ {returned', quitting', leaving', connected', openingFiles', reopening'} \subseteq BOOLEAN
  /\ leaving' => leaving \/ listed = <<>>

LEMMA PlainKeeps ==
  ASSUME SessionInv, Plain
  PROVE  /\ Quiet /\ FileInv' /\ SessionTypes' /\ DocumentsSound' /\ WorkIsKept'
         /\ Survive /\ StillOpen
         /\ Known' = Known /\ Designs' = Designs /\ Open' = Open
<1>1. UNCHANGED fileVars /\ UNCHANGED <<disk, behind, job, listed, doc, typing, work, owed, running, settings>>
  BY DEF Plain, fileVars
<1>2. Designs' = Designs /\ Known' = Known /\ Open' = Open
  BY <1>1, SameDesigns DEF Known, Open
<1>3. FileInv'
  BY <1>1, InvNext DEF SessionInv
<1>4. Quiet
  BY <1>1, <1>2 DEF Quiet, Plain, SessionInv, SessionTypes, SameWork
<1> QED
  BY <1>2, <1>3, <1>4, QuietTypes, QuietDocuments, QuietWork, QuietSurvives DEF SessionInv

LEMMA PlainSound ==
  ASSUME SessionInv, Plain, NEW c
  PROVE  CallSound(c, doc', owed', Designs', Open', typing')
           <=> CallSound(c, doc, owed, Designs, Open, typing)
<1>1. doc' = doc /\ owed' = owed /\ Designs' = Designs /\ Open' = Open /\ typing' = typing
  BY PlainKeeps DEF Plain
<1> QED
  BY ONLY <1>1

LEMMA PlainWriting ==
  ASSUME SessionInv, Plain, ~Running("save", "writing"), ~Running("save", "writing")'
  PROVE  WritingSound'
<1>1. UNCHANGED <<disk, behind, job>>
  BY DEF Plain, fileVars
<1> QED
  BY <1>1, PlainKeeps, WritingKept DEF SessionInv

LEMMA UnderWayRuns ==
  ASSUME SessionInv, stack # <<>> PROVE running /\ stack \in Seq(CallType)
BY DEF SessionInv, StackSound

LEMMA Moved ==
  ASSUME SessionInv, Plain, NEW c, Moves(c), c.op = Top.op, c.win = Top.win \/ c.op # "save",
         CallSound(c, doc, owed, Designs, Open, typing), c.content \in Known,
         c.op = "close" /\ c.at = "saved" => ~returned' \/ doc[c.win].saved,
         ~Running("save", "writing"), c.at # "writing", Relocks(LockOf(c)),
         \/ openingFiles' = openingFiles /\ Opens(c) = Opens(Top) /\ c.flag = Top.flag
         \/ openingFiles' = openingFiles /\ ~Opens(c) /\ ~Opens(Top)
         \/ openingFiles' /\ Opens(c) /\ ~Opens(Top) /\ c.flag = openingFiles
  PROVE  SessionInv'
<1>1. running /\ stack \in Seq(CallType) /\ running' /\ doc' = doc
  BY UnderWayRuns DEF Moves, Plain
<1>2. StackSound'
  BY <1>1, PlainKeeps, PlainSound, MovesSound DEF SessionInv
<1>3. LocksFollow' /\ OpeningFollows'
  BY <1>1, LocksMove, OpeningMoves DEF SessionInv
<1>4. ~Running("save", "writing")'
  BY DEF Running, Top, Moves
<1> QED
  BY <1>2, <1>3, <1>4, PlainKeeps, PlainWriting DEF SessionInv

LEMMA Entered ==
  ASSUME SessionInv, Plain, NEW c, NEW d, Enters(c, d), c.op = Top.op,
         c.win = Top.win \/ c.op # "save", Waits(c), Fresh(d, doc),
         CallSound(c, doc, owed, Designs, Open, typing), c.content \in Known,
         c.op = "close" /\ c.at = "saved" => d.op = "save" /\ d.win = c.win,
         ~Running("save", "writing"), Relocks(LockOf(c)),
         \/ openingFiles' = openingFiles /\ Opens(c) = Opens(Top) /\ c.flag = Top.flag
         \/ openingFiles' = openingFiles /\ ~Opens(c) /\ ~Opens(Top)
         \/ openingFiles' /\ Opens(c) /\ ~Opens(Top) /\ c.flag = openingFiles
  PROVE  SessionInv'
<1>1. running /\ stack \in Seq(CallType) /\ running' /\ doc' = doc
  BY UnderWayRuns DEF Enters, Plain
<1>2. /\ CallSound(d, doc, owed, Designs, Open, typing)
      /\ d.content \in Known /\ LockOf(d) = NoLock /\ ~Opens(d)
      /\ d.at \notin {"saved", "writing"}
  BY FreshSound
<1>3. StackSound'
  BY <1>1, <1>2, PlainKeeps, PlainSound, EntersSound DEF SessionInv
<1>4. LocksFollow' /\ OpeningFollows'
  BY <1>1, <1>2, LocksMove, OpeningMoves DEF SessionInv
<1>5. ~Running("save", "writing")'
  BY <1>2 DEF Running, Top, Enters
<1> QED
  BY <1>3, <1>4, <1>5, PlainKeeps, PlainWriting DEF SessionInv

LEMMA WaitingBelow ==
  ASSUME SessionInv, Leaves PROVE ~Running("save", "writing")'
<1>1. /\ Len(stack') = Len(stack) - 1 /\ Len(stack) \in Nat /\ stack' \in Seq(CallType)
      /\ \A i \in 1 .. Len(stack) - 1 : stack'[i] = stack[i] /\ Waits(stack[i])
  BY DEF Leaves, SameBelow, SessionInv, StackSound
<1>2. ASSUME stack' # <<>> PROVE Waits(Top')
  <2>1. Len(stack') \in 1 .. Len(stack) - 1
    BY <1>1, <1>2
  <2> QED
    BY <1>1, <2>1 DEF Top
<1> QED
  BY <1>2 DEF Running, Waits, Asks, Questions

LEMMA Left ==
  ASSUME SessionInv, Plain, Leaves, Relocks(NoLock),
         Top.op = "save" /\ returned' => doc[Top.win].saved, ~Running("save", "writing"),
         openingFiles' = IF Opens(Top) THEN Top.flag ELSE openingFiles
  PROVE  SessionInv'
<1>1. running /\ stack \in Seq(CallType) /\ running' /\ doc' = doc
  BY UnderWayRuns DEF Leaves, Plain
<1>2. StackSound'
  BY <1>1, PlainKeeps, LeavesSound DEF SessionInv
<1>3. LocksFollow' /\ OpeningFollows'
  BY <1>1, LocksLeave, OpeningLeaves DEF SessionInv
<1> QED
  BY <1>2, <1>3, WaitingBelow, PlainKeeps, PlainWriting DEF SessionInv

-----------------------------------------------------------------------------
(* The questions of a save.                                                  *)

\* A step that takes no lock and no flag.
Same == Plain /\ UNCHANGED <<quitting, leaving, openingFiles, reopening>>

LEMMA SameLocks ==
  ASSUME SessionInv, Same, stack # <<>>
  PROVE  Relocks(LockOf(Top)) /\ openingFiles' = openingFiles
<1>1. Held' = Held
  BY HeldKept DEF Same, Plain
<1> QED
  BY <1>1, UnderWayRuns, LocksKept DEF SessionInv, Same

FreeOps == {"save", "open", "recent", "start"}

Unlocked(c) == LockOf(c) = NoLock /\ ~Opens(c)

LEMMA FreeOfLocks ==
  ASSUME NEW c, c.op \in FreeOps PROVE Unlocked(c)
BY DEF FreeOps, LockOf, Opens, Closing, Unlocked

LEMMA MovedFreely ==
  ASSUME SessionInv, Same, Top.op \in FreeOps, NEW c, Moves(c), c.op = Top.op,
         c.win = Top.win \/ c.op # "save",
         CallSound(c, doc, owed, Designs, Open, typing), c.content \in Known,
         Top.at # "writing", c.at # "writing"
  PROVE  SessionInv'
<1>1. LockOf(c) = NoLock /\ ~Opens(c) /\ LockOf(Top) = NoLock /\ ~Opens(Top) /\ c.op # "close"
  BY FreeOfLocks DEF FreeOps, Unlocked
<1>2. stack # <<>>
  BY DEF Moves
<1> QED
  BY <1>1, <1>2, SameLocks, Moved DEF Running, Same

LEMMA EnteredFreely ==
  ASSUME SessionInv, Same, Top.op \in FreeOps, NEW c, NEW d, Enters(c, d), c.op = Top.op,
         c.win = Top.win \/ c.op # "save", Waits(c), Fresh(d, doc),
         CallSound(c, doc, owed, Designs, Open, typing), c.content \in Known,
         Top.at # "writing"
  PROVE  SessionInv'
<1>1. LockOf(c) = NoLock /\ ~Opens(c) /\ LockOf(Top) = NoLock /\ ~Opens(Top) /\ c.op # "close"
  BY FreeOfLocks DEF FreeOps, Unlocked
<1>2. stack # <<>>
  BY DEF Enters
<1> QED
  BY <1>1, <1>2, SameLocks, Entered DEF Running, Same

LEMMA LeftFreely ==
  ASSUME SessionInv, Same, Leaves,
         Unlocked(Top),
         Top.op = "save" /\ returned' => doc[Top.win].saved, Top.at # "writing"
  PROVE  SessionInv'
<1>1. LockOf(Top) = NoLock /\ ~Opens(Top)
  BY DEF Unlocked
<1>2. stack # <<>>
  BY DEF Leaves
<1> QED
  BY <1>1, <1>2, SameLocks, Left DEF Running, Same

LEMMA TopSound ==
  ASSUME SessionInv, stack # <<>>
  PROVE  /\ stack \in Seq(CallType) /\ Len(stack) \in Nat \ {0} /\ Top = stack[Len(stack)]
         /\ Top \in CallType /\ Top.content \in Known /\ running
         /\ CallSound(Top, doc, owed, Designs, Open, typing)
         /\ Top.op = "save" => SaveSound(Top, doc, owed) /\ Top.win \in Window
         /\ Top.op = "close" => CloseSound(Top, doc, owed, Designs, Open) /\ Top.win \in Window
         /\ Top.op = "open" => OpenSound(Top, owed, Designs)
<1>1. /\ stack \in Seq(CallType) /\ running
      /\ \A i \in 1 .. Len(stack) : stack[i].content \in Known
      /\ \A i \in 1 .. Len(stack) : CallSound(stack[i], doc, owed, Designs, Open, typing)
  BY DEF SessionInv, StackSound
<1>2. Len(stack) \in Nat \ {0} /\ Top = stack[Len(stack)] /\ Top \in CallType
  BY <1>1, StackTop
<1>3. Top.content \in Known /\ CallSound(Top, doc, owed, Designs, Open, typing)
  BY <1>1, <1>2
<1> QED
  BY <1>1, <1>2, <1>3 DEF CallSound, SaveSound, CloseSound

\* A call goes to another place: only what holds there is new.
LEMMA AtFacts ==
  ASSUME SessionInv, stack # <<>>, NEW at \in Places
  PROVE  /\ At(at) \in CallType /\ At(at).at = at
         /\ At(at).op = Top.op /\ At(at).win = Top.win /\ At(at).files = Top.files
         /\ At(at).file = Top.file /\ At(at).content = Top.content
         /\ At(at).flag = Top.flag /\ At(at).agreed = Top.agreed
         /\ At(at).content \in Known
BY TopSound, PlaceOfCall DEF At

LEMMA SaveChangesCall ==
  ASSUME SessionInv, stack # <<>>, Top.op = "save", Top.at \notin {"save", "saveAs"},
         NEW c, c.op = "save", SaveSound(c, doc, owed)
  PROVE  CallSound(c, doc, owed, Designs, Open, typing)
<1>1. typing = NoTyping
  BY TopSound DEF CallSound, Committing
<1> QED
  BY <1>1 DEF CallSound, Committing

LEMMA SaveIsSame ==
  ASSUME SessionInv, UNCHANGED <<doc, typing, owed>>, SaveUnchanged, UNCHANGED sessionVars,
         returned' \in BOOLEAN
  PROVE  Same
BY DEF SessionInv, SessionTypes, SaveUnchanged, sessionVars, Same, Plain

LEMMA AliveAnswer ==
  ASSUME CanAnswer, Top.win \in Window PROVE doc[Top.win].alive
BY DEF CanAnswer, Alive

\* The save goes on, or gives up.
LEMMA SaveGoesOn ==
  ASSUME SessionInv, stack # <<>>, Top.op = "save", Top.at \notin {"save", "saveAs", "writing"},
         UNCHANGED <<doc, typing, owed, returned, sessionVars>>, SaveUnchanged,
         NEW c, Moves(c), c.op = "save", c.win = Top.win, c.content \in Known,
         c.at # "writing", SaveSound(c, doc, owed)
  PROVE  SessionInv'
<1>1. Same
  BY SaveIsSame DEF SessionInv, SessionTypes
<1> QED
  BY <1>1, SaveChangesCall, MovedFreely DEF FreeOps

LEMMA SaveGivesUp ==
  ASSUME SessionInv, stack # <<>>, Top.op = "save", Top.at # "writing",
         UNCHANGED <<doc, typing, owed, sessionVars>>, SaveUnchanged, Return(FALSE)
  PROVE  SessionInv'
<1>1. Leaves /\ returned' \in BOOLEAN /\ ~returned'
  BY TopSound, ReturnLeaves
<1> QED
  BY <1>1, SaveIsSame, FreeOfLocks, LeftFreely DEF FreeOps

LEMMA DesignInfoClosesKeeps ==
  ASSUME SessionInv, DesignInfoCloses, UNCHANGED sessionVars PROVE SessionInv'
<1>1. stack # <<>> /\ Top.op = "save" /\ Top.at = "designInfo"
  BY DEF DesignInfoCloses, Running
<1>2. UNCHANGED <<doc, typing, owed>> /\ SaveUnchanged
  BY DEF DesignInfoCloses
<1>3. CASE Goes("saveFile") /\ UNCHANGED returned
  <2>1. Moves(At("saveFile"))
    BY <1>1, <1>3, TopSound, MovesTo DEF Places, Questions
  <2>2. SaveSound(At("saveFile"), doc, owed)
    BY <1>1, TopSound, AtFacts DEF SaveSound, Places, Questions
  <2> QED
    BY <1>1, <1>2, <1>3, <2>1, <2>2, AtFacts, SaveGoesOn DEF Places, Questions
<1>4. CASE Return(FALSE)
  BY <1>1, <1>2, <1>4, SaveGivesUp
<1> QED
  BY <1>3, <1>4 DEF DesignInfoCloses

LEMMA SaveFileChosenKeeps ==
  ASSUME SessionInv, SaveFileChosen, UNCHANGED sessionVars PROVE SessionInv'
<1>1. stack # <<>> /\ Top.op = "save" /\ Top.at = "saveFile"
  BY DEF SaveFileChosen, Running
<1>2. UNCHANGED <<doc, typing, owed>> /\ SaveUnchanged
  BY DEF SaveFileChosen
<1>3. ASSUME CanAnswer, UNCHANGED returned, NEW f \in File, NEW c,
             c = [Top EXCEPT
                   !.at = IF disk[f].kind = "absent" THEN "verify" ELSE "askOverwrite",
                   !.file = f, !.content = Stored(f)],
             GoesWith(c)
      PROVE  SessionInv'
  <2>1. Stored(f) \in Known /\ Stored(f) \in Content \cup {Nothing}
    <3>1. Stored(f) \in Known
      BY DEF SessionInv, WritingSound, Designs
    <3> QED
      BY <3>1, WorkFacts DEF SessionInv, Known
  <2>2. /\ c \in CallType /\ c.op = "save" /\ c.win = Top.win /\ c.content = Stored(f)
        /\ c.at = IF disk[f].kind = "absent" THEN "verify" ELSE "askOverwrite"
        /\ c.file = f
    <3>1. Top \in CallType
      BY <1>1, TopSound
    <3> QED
      BY ZenonT(40), <1>1, <1>3, <2>1, <3>1 DEF CallType, Places, Questions
  <2>3. Top.win \in Window /\ doc[Top.win].alive
    BY <1>1, <1>3, TopSound, AliveAnswer
  <2>4. c.at = "verify" => c.content \notin owed
    <3>1. c.at = "verify" => Stored(f) = Nothing
      BY <2>2 DEF Stored, Status
    <3> QED
      BY <2>2, <3>1, WorkFacts DEF SessionInv
  <2>5. SaveSound(c, doc, owed)
    BY <1>3, <2>2, <2>3, <2>4 DEF SaveSound
  <2>6. Moves(c) /\ c.at # "writing"
    BY <1>1, <1>3, <2>2, TopSound, MovesWith
  <2> QED
    BY <1>1, <1>2, <1>3, <2>1, <2>2, <2>5, <2>6, SaveGoesOn
<1>4. CASE Return(FALSE)
  BY <1>1, <1>2, <1>4, SaveGivesUp
<1> QED
  BY <1>3, <1>4 DEF SaveFileChosen

LEMMA OverwriteAnsweredKeeps ==
  ASSUME SessionInv, OverwriteAnswered, UNCHANGED sessionVars PROVE SessionInv'
<1>1. stack # <<>> /\ Top.op = "save" /\ Top.at = "askOverwrite"
  BY DEF OverwriteAnswered, Running
<1>2. UNCHANGED <<doc, typing, owed>> /\ SaveUnchanged
  BY DEF OverwriteAnswered
<1>3. ASSUME CanAnswer, UNCHANGED returned, NEW c,
             c = [Top EXCEPT !.at = "verify", !.agreed = TRUE], GoesWith(c)
      PROVE  SessionInv'
  <2>1. Top \in CallType /\ Top.content \in Known
    BY <1>1, TopSound
  <2>2. /\ c \in CallType /\ c.op = "save" /\ c.win = Top.win /\ c.content = Top.content
        /\ c.at = "verify" /\ c.agreed /\ c.file = Top.file
    BY <1>1, <1>3, <2>1 DEF CallType, Places
  <2>3. Top.win \in Window /\ doc[Top.win].alive
    BY <1>1, <1>3, TopSound, AliveAnswer
  <2>4. SaveSound(c, doc, owed)
    BY <1>1, <2>2, <2>3, TopSound DEF SaveSound
  <2>5. Moves(c)
    BY <1>1, <1>3, <2>2, TopSound, MovesWith
  <2> QED
    BY <1>1, <1>2, <1>3, <2>1, <2>2, <2>4, <2>5, SaveGoesOn
<1>4. CASE Return(FALSE)
  BY <1>1, <1>2, <1>4, SaveGivesUp
<1> QED
  BY <1>3, <1>4 DEF OverwriteAnswered

\* verifyStorageOptions(), with and without its question.
LEMMA StorageOptionsKeep ==
  ASSUME SessionInv, StorageOptionsVerified \/ StorageOptionsAnswered, UNCHANGED sessionVars
  PROVE  SessionInv'
<1>1. stack # <<>> /\ Top.op = "save" /\ Top.at \in {"verify", "storageOptions"}
  BY DEF StorageOptionsVerified, StorageOptionsAnswered, Running
<1>2. UNCHANGED <<doc, typing, owed>> /\ SaveUnchanged
  BY DEF StorageOptionsVerified, StorageOptionsAnswered
<1>3. ASSUME NEW at \in {"write", "storageOptions"}, Goes(at), UNCHANGED returned,
             at = "write" => doc[Top.win].alive
      PROVE  SessionInv'
  <2>1. Moves(At(at))
    BY <1>1, <1>3, TopSound, MovesTo DEF Places, Questions
  <2>2. SaveSound(At(at), doc, owed)
    BY <1>1, <1>3, TopSound, AtFacts DEF SaveSound, Places, Questions
  <2> QED
    BY <1>1, <1>2, <1>3, <2>1, <2>2, AtFacts, SaveGoesOn DEF Places, Questions
<1>4. CASE Return(FALSE)
  BY <1>1, <1>2, <1>4, SaveGivesUp
<1>5. CASE StorageOptionsVerified
  <2>1. doc[Top.win].alive
    BY <1>1, <1>5, TopSound DEF StorageOptionsVerified, Running, SaveSound
  <2> QED
    BY <1>3, <1>5, <2>1 DEF StorageOptionsVerified
<1>6. CASE StorageOptionsAnswered
  BY <1>1, <1>3, <1>4, <1>6, AliveAnswer, TopSound DEF StorageOptionsAnswered
<1> QED
  BY <1>5, <1>6

LEMMA SaveFailedClosesKeeps ==
  ASSUME SessionInv, SaveFailedCloses, UNCHANGED sessionVars PROVE SessionInv'
<1>1. stack # <<>> /\ Top.op = "save" /\ Top.at = "saveFailed"
  BY DEF SaveFailedCloses, Running
<1> QED
  BY <1>1, SaveGivesUp DEF SaveFailedCloses

\* A save that returns TRUE has saved its document.
LEMMA SaveEndsKeeps ==
  ASSUME SessionInv, SaveEnds, UNCHANGED sessionVars PROVE SessionInv'
<1>1. stack # <<>> /\ Top.op = "save" /\ Top.at \in {"saved", "saveWarnings"}
  BY DEF SaveEnds, Running
<1>2. Leaves /\ returned' \in BOOLEAN
  BY <1>1, TopSound, ReturnLeaves DEF SaveEnds
<1>3. doc[Top.win].saved /\ Top.file \in File
  BY <1>1, TopSound DEF SaveSound
<1>4. recent \in Seq(File) /\ IsInjective(recent)
  BY DEF SessionInv, SessionTypes
<1>5. recent' \in Seq(File) /\ IsInjective(recent')
  BY <1>3, <1>4, RecentKept DEF SaveEnds
<1>6. Same
  BY <1>2, <1>5 DEF SaveEnds, SessionInv, SessionTypes, sessionVars, Same, Plain
<1> QED
  BY <1>1, <1>2, <1>3, <1>6, FreeOfLocks, LeftFreely DEF FreeOps

-----------------------------------------------------------------------------
(* Steps that commit the edit that is typed.                                 *)

\* A step after which all is sound but the control, the locks and the flag.
Carries ==
  /\ FileInv' /\ SessionTypes' /\ DocumentsSound' /\ WorkIsKept' /\ WritingSound'
  /\ Survive /\ StillOpen /\ UNCHANGED running

LEMMA MovedOn ==
  ASSUME SessionInv, Carries, NEW c, Moves(c), c.op = Top.op, c.win = Top.win \/ c.op # "save",
         CallSound(c, doc', owed', Designs', Open', typing'), c.content \in Known,
         c.op = "close" /\ c.at = "saved" => ~returned' \/ doc'[c.win].saved,
         Relocks(LockOf(c)), openingFiles' = openingFiles,
         ~Opens(c) /\ ~Opens(Top)
  PROVE  SessionInv'
<1>1. running /\ stack \in Seq(CallType) /\ running' /\ Known' = Known
  BY UnderWayRuns DEF Moves, Carries, Survive, Known
<1>2. StackSound'
  BY <1>1, MovesSound DEF SessionInv, Carries
<1>3. LocksFollow' /\ OpeningFollows'
  BY <1>1, LocksMove, OpeningMoves DEF SessionInv
<1> QED
  BY <1>2, <1>3 DEF SessionInv, Carries

LEMMA EnteredOn ==
  ASSUME SessionInv, Carries, NEW c, NEW d, Enters(c, d), c.op = Top.op,
         c.win = Top.win \/ c.op # "save", Waits(c), Fresh(d, doc'),
         CallSound(c, doc', owed', Designs', Open', typing'), c.content \in Known,
         c.op = "close" /\ c.at = "saved" => d.op = "save" /\ d.win = c.win,
         Relocks(LockOf(c)), openingFiles' = openingFiles,
         ~Opens(c) /\ ~Opens(Top)
  PROVE  SessionInv'
<1>1. running /\ stack \in Seq(CallType) /\ running' /\ Known' = Known
  BY UnderWayRuns DEF Enters, Carries, Survive, Known
<1>2. /\ CallSound(d, doc', owed', Designs', Open', typing')
      /\ d.content \in Known /\ LockOf(d) = NoLock /\ ~Opens(d) /\ d.at # "saved"
  BY FreshSound
<1>3. StackSound'
  BY <1>1, <1>2, EntersSound DEF SessionInv, Carries
<1>4. LocksFollow' /\ OpeningFollows'
  BY <1>1, <1>2, LocksMove, OpeningMoves DEF SessionInv
<1> QED
  BY <1>3, <1>4 DEF SessionInv, Carries

LEMMA LeftOn ==
  ASSUME SessionInv, Carries, Leaves, Relocks(NoLock),
         Top.op = "save" /\ returned' => doc'[Top.win].saved,
         openingFiles' = openingFiles, ~Opens(Top)
  PROVE  SessionInv'
<1>1. running /\ stack \in Seq(CallType) /\ running'
  BY UnderWayRuns DEF Leaves, Carries
<1>2. StackSound'
  BY <1>1, LeavesSound DEF SessionInv, Carries
<1>3. LocksFollow' /\ OpeningFollows'
  BY <1>1, LocksLeave, OpeningLeaves DEF SessionInv
<1> QED
  BY <1>2, <1>3 DEF SessionInv, Carries

LEMMA CommittedFacts ==
  ASSUME SessionTypes, CommitEdits
  PROVE  /\ DOMAIN Committed = Window
         /\ \A w \in Window : /\ IsDocument(Committed[w])
                              /\ Committed[w].alive = doc[w].alive
                              /\ Committed[w].file = doc[w].file
                              /\ Committed[w].base = doc[w].base
                              /\ Committed[w].closing = doc[w].closing
                              /\ typing.win # w => Committed[w] = doc[w]
                              /\ typing.win = w => /\ Committed[w].content = typing.content
                                                   /\ ~Committed[w].saved
                                                   /\ doc[w].content \notin owed'
         /\ typing' = NoTyping /\ owed' \subseteq owed
         /\ \A c \in owed : c \notin owed' => typing # NoTyping /\ c = doc[typing.win].content
<1>1. DOMAIN doc = Window /\ \A w \in Window : IsDocument(doc[w])
  BY DEF SessionTypes
<1>2. CASE typing = NoTyping
  <2>1. typing.win = NoWindow /\ Committed = doc /\ owed' = owed /\ typing' = NoTyping
    BY <1>2, TypingFacts DEF Committed, CommitEdits, Lose
  <2> QED
    BY <1>1, <2>1, NoWindowAssumption
<1>3. CASE typing # NoTyping
  <2>1. /\ typing.win \in Window /\ typing.win # NoWindow /\ typing.content \in 1 .. work
    BY <1>3, TypingFacts
  <2>2. owed' = owed \ {doc[typing.win].content} /\ typing' = NoTyping
    BY <2>1 DEF CommitEdits, Lose
  <2> DEFINE t == typing.win
             e == [doc[t] EXCEPT !.content = typing.content, !.saved = FALSE]
  <2>3. Committed = [doc EXCEPT ![t] = e]
    BY <1>1, <1>3, <2>1 DEF Committed
  <2>4. /\ DOMAIN e = Fields /\ e.content = typing.content /\ ~e.saved /\ e.saved = FALSE
        /\ \A field \in Fields \ {"content", "saved"} : e[field] = doc[t][field]
    BY <1>1, <2>1 DEF IsDocument, Fields
  <2>5. /\ e.alive = doc[t].alive /\ e.file = doc[t].file /\ e.base = doc[t].base
        /\ e.closing = doc[t].closing /\ e.replaceable = doc[t].replaceable
    BY <2>4 DEF Fields
  <2>6. typing.content \in Known
    BY <2>1, WorkFacts DEF Known
  <2> HIDE DEF e
  <2>7. IsDocument(e)
    BY <1>1, <2>1, <2>4, <2>5, <2>6 DEF IsDocument
  <2>8. /\ DOMAIN Committed = Window /\ Committed[t] = e
        /\ \A w \in Window : w # t => Committed[w] = doc[w]
    BY <1>1, <2>1, <2>3
  <2> QED
    BY <1>1, <1>3, <2>1, <2>2, <2>4, <2>5, <2>7, <2>8
<1> QED
  BY <1>2, <1>3

\* A step that commits, and does no more with the work.
Commits ==
  /\ CommitEdits
  /\ DOMAIN doc' = Window
  /\ \A w \in Window : IsDocument(doc'[w]) /\ SameWork(Committed[w], doc'[w])
  /\ UNCHANGED <<fileVars, settings, listed, recent, quitting, leaving, connected, work,
                 running, openingFiles, reopening>>
  /\ returned' \in BOOLEAN

LEMMA CommitKeeps ==
  ASSUME SessionInv, Commits
  PROVE  /\ FileInv' /\ SessionTypes' /\ DocumentsSound' /\ WorkIsKept' /\ Survive /\ StillOpen
         /\ typing' = NoTyping /\ Designs' = Designs /\ Known' = Known /\ Open' = Open
         /\ UNCHANGED <<disk, behind, job>>
         /\ \A w \in Window : doc'[w].alive = doc[w].alive
<1>0. SessionTypes /\ DocumentsSound /\ WorkIsKept /\ StackSound
  BY DEF SessionInv
<1>1. UNCHANGED <<disk, behind, job, listed, leaving, work>> /\ UNCHANGED fileVars
  BY DEF Commits, fileVars
<1>2. Designs' = Designs /\ Known' = Known /\ Open' = Open
  BY <1>1, SameDesigns DEF Known, Open
<1>3. FileInv'
  BY <1>1, InvNext DEF SessionInv
<1>4. /\ DOMAIN doc' = Window /\ typing' = NoTyping /\ owed' \subseteq owed
      /\ \A w \in Window :
           /\ IsDocument(doc'[w])
           /\ doc'[w].alive = doc[w].alive /\ doc'[w].base = doc[w].base
           /\ typing.win # w => doc'[w].content = doc[w].content /\ doc'[w].saved = doc[w].saved
           /\ typing.win = w => /\ doc'[w].content = typing.content /\ ~doc'[w].saved
                                /\ doc[w].content \notin owed'
      /\ \A c \in owed : c \notin owed' => typing # NoTyping /\ c = doc[typing.win].content
  BY <1>0, CommittedFacts DEF Commits, SameWork
<1>5. /\ typing = NoTyping => typing.win = NoWindow /\ typing.content = Nothing
      /\ typing # NoTyping => /\ typing.win \in Window /\ typing.content \in 1 .. work
                              /\ IsListed(typing.win)
  BY <1>0, TypingFacts
<1>6. /\ Nothing \notin owed /\ \A w : IsListed(w)' <=> IsListed(w)
      /\ Nothing \notin 1 .. work
  BY <1>0, <1>1, WorkFacts DEF IsListed
<1>7. SessionTypes'
  <2>1. \A w \in Window : IsDocument(doc[w])'
    BY <1>2, <1>4 DEF IsDocument
  <2> QED
    BY <1>0, <1>1, <1>4, <2>1 DEF SessionTypes, Commits
<1>8. DocumentsSound'
  <2>1. \A w \in Window : Alive(w)' => doc'[w].content # Nothing
    BY <1>0, <1>4, <1>5, <1>6, NoWindowAssumption DEF DocumentsSound, Alive
  <2>2. \A w \in Window : IsListed(w)' => Alive(w)'
    BY <1>0, <1>4, <1>6 DEF DocumentsSound, Alive
  <2>3. \A w \in Window : doc'[w].saved => IsSafe(doc'[w].content, owed', Designs')
    BY <1>0, <1>2, <1>4 DEF DocumentsSound, IsSafe
  <2>4. \A w \in Window : doc'[w].base \in owed' => doc'[w].content = doc'[w].base
    BY <1>0, <1>4 DEF DocumentsSound
  <2>5. leaving' => typing' = NoTyping /\ \A w \in Window : IsListed(w)' => doc'[w].saved
    BY <1>0, <1>1, <1>4, <1>5, <1>6, NoWindowAssumption DEF DocumentsSound
  <2> QED
    BY <2>1, <2>2, <2>3, <2>4, <2>5 DEF DocumentsSound
<1>9. WorkIsKept'
  <2> SUFFICES ASSUME NEW c \in owed'
               PROVE  \/ \E w \in Window : IsListed(w)' /\ doc'[w].content = c
                      \/ \E f \in File : Stored(f)' = c
    BY DEF WorkIsKept
  <2>1. c \in owed
    BY <1>4
  <2>2. CASE typing.content = c
    BY <1>4, <1>5, <1>6, <2>1, <2>2
  <2>3. CASE \E w \in Window : IsListed(w) /\ doc[w].content = c
    BY <1>4, <1>6, <2>3
  <2>4. CASE \E f \in File : Stored(f) = c
    BY <1>1, <2>4, SameDesigns
  <2> QED
    BY <1>0, <2>1, <2>2, <2>3, <2>4 DEF WorkIsKept
<1>10. Survive /\ StillOpen
  <2>1. \A w \in Window : WindowSurvives(w)
    BY <1>4, <1>5, NoWindowAssumption DEF WindowSurvives
  <2> QED
    BY <1>0, <1>1, <1>2, <1>4, <2>1, SameOpen DEF Survive
<1> QED
  BY <1>1, <1>2, <1>3, <1>4, <1>7, <1>8, <1>9, <1>10

-----------------------------------------------------------------------------
(* The beginning of a save and of a close.                                   *)

\* The locks are as they were, whatever the step does to the documents.
LEMMA LocksSame ==
  ASSUME SessionInv, stack # <<>>, \A w \in Window : doc'[w].closing = doc[w].closing,
         UNCHANGED <<reopening, quitting>>
  PROVE  Relocks(LockOf(Top))
BY HeldKept, LocksKept, TopSound DEF SessionInv

\* The new window's document is the old one's, with the edit.
LEMMA CommitIsKept ==
  ASSUME SessionInv, doc' = Committed, CommitEdits, SaveUnchanged,
         UNCHANGED <<returned, sessionVars>>
  PROVE  /\ Commits
         /\ \A w \in Window : /\ doc'[w].closing = doc[w].closing
                              /\ doc'[w].base = doc[w].base
<1>1. SessionTypes
  BY DEF SessionInv
<1> QED
  BY <1>1, CommittedFacts DEF Commits, SaveUnchanged, sessionVars, SameWork, SessionTypes

LEMMA SaveCommits ==
  ASSUME SessionInv, stack # <<>>, Top.op = "save", Top.at # "writing",
         doc' = Committed, CommitEdits, SaveUnchanged, UNCHANGED <<returned, sessionVars>>,
         NEW c, Moves(c), c.op = "save", c.win = Top.win, c.content \in Known,
         c.at # "writing", SaveSound(c, doc', owed')
  PROVE  SessionInv'
<1>1. Commits /\ \A w \in Window : doc'[w].closing = doc[w].closing
  BY CommitIsKept
<1>2. ~Running("save", "writing")' /\ ~Running("save", "writing")
  BY DEF Running, Top, Moves
<1>3. WritingSound'
  BY <1>1, <1>2, CommitKeeps, WritingKept DEF SessionInv
<1>4. Carries
  BY <1>1, <1>3, CommitKeeps DEF Carries, Commits
<1>5. CallSound(c, doc', owed', Designs', Open', typing')
  BY <1>1, CommitKeeps DEF CallSound, Committing
<1>6. LockOf(c) = LockOf(Top) /\ ~Opens(c) /\ ~Opens(Top)
  BY FreeOfLocks DEF FreeOps, Unlocked
<1>7. Relocks(LockOf(c)) /\ openingFiles' = openingFiles
  BY <1>1, <1>6, LocksSame DEF sessionVars, Commits
<1> QED
  BY <1>4, <1>5, <1>6, <1>7, MovedOn

LEMMA SaveBeginsKeeps ==
  ASSUME SessionInv, SaveBegins, UNCHANGED sessionVars PROVE SessionInv'
<1>1. /\ stack # <<>> /\ Top.op = "save" /\ Top.at = "save"
      /\ doc' = Committed /\ CommitEdits /\ SaveUnchanged /\ UNCHANGED returned
  BY DEF SaveBegins, Running
<1>2. /\ Top \in CallType /\ Top.win \in Window /\ doc[Top.win].alive /\ Top.content \in Known
  BY <1>1, TopSound DEF SaveSound
<1>3. /\ doc'[Top.win].alive /\ doc'[Top.win].base = doc[Top.win].base
      /\ DocumentsSound'
  BY <1>1, <1>2, CommitIsKept, CommitKeeps
<1>4. CASE doc[Top.win].file = Nothing
  <2> DEFINE c == SaveAsCall(Top.win)
  <2>1. /\ c \in CallType /\ c.op = "save" /\ c.win = Top.win /\ c.at = "saveAs"
        /\ c.content = Nothing
    BY <1>2, SaveCalls DEF Fresh
  <2>2. GoesWith(c)
    BY <1>4 DEF SaveBegins
  <2> HIDE DEF c
  <2>3. Moves(c) /\ c.content \in Known
    BY <1>1, <2>1, <2>2, TopSound, MovesWith DEF Known
  <2>4. SaveSound(c, doc', owed')
    BY <1>2, <1>3, <2>1 DEF SaveSound
  <2> QED
    BY <1>1, <2>1, <2>3, <2>4, SaveCommits
<1>5. CASE doc[Top.win].file # Nothing
  <2> DEFINE f == doc[Top.win].file
             b == doc[Top.win].base
             c == [Top EXCEPT !.at = "verify", !.file = f, !.content = b]
  <2>1. f \in File /\ b \in Known /\ b \in Content \cup {Nothing}
    <3>1. IsDocument(doc[Top.win])
      BY <1>2 DEF SessionInv, SessionTypes
    <3> QED
      BY <1>5, <3>1, WorkFacts DEF IsDocument, SessionInv, Known
  <2>2. GoesWith(c)
    BY <1>5 DEF SaveBegins
  <2> HIDE DEF f, b
  <2>3. /\ c \in CallType /\ c.op = "save" /\ c.win = Top.win /\ c.at = "verify"
        /\ c.content = b /\ c.file = f
    BY <1>1, <1>2, <2>1 DEF CallType, Places
  <2> HIDE DEF c
  <2>4. Moves(c)
    BY <1>1, <2>2, <2>3, TopSound, MovesWith
  <2>5. b \in owed' => doc'[Top.win].content = b
    BY <1>2, <1>3 DEF DocumentsSound, b
  <2>6. SaveSound(c, doc', owed')
    BY <1>2, <1>3, <2>1, <2>3, <2>5 DEF SaveSound
  <2> QED
    BY <1>1, <2>1, <2>3, <2>4, <2>6, SaveCommits
<1> QED
  BY <1>4, <1>5

LEMMA SaveAsBeginsKeeps ==
  ASSUME SessionInv, SaveAsBegins, UNCHANGED sessionVars PROVE SessionInv'
<1>1. /\ stack # <<>> /\ Top.op = "save" /\ Top.at = "saveAs"
      /\ doc' = Committed /\ CommitEdits /\ SaveUnchanged /\ UNCHANGED returned
  BY DEF SaveAsBegins, Running
<1>2. PICK at \in {"designInfo", "saveFile"} : Goes(at)
  BY DEF SaveAsBegins
<1>3. at \in Places
  BY DEF Places, Questions
<1>4. Moves(At(at))
  BY <1>1, <1>2, <1>3, TopSound, MovesTo
<1>5. /\ At(at).op = "save" /\ At(at).win = Top.win /\ At(at).at = at
      /\ At(at).content \in Known /\ Top.win \in Window
  BY <1>1, <1>3, AtFacts, TopSound
<1>6. SaveSound(At(at), doc', owed')
  BY <1>5 DEF SaveSound
<1> QED
  BY <1>1, <1>4, <1>5, <1>6, SaveCommits

\* A close that another one of the window is ahead of, or of no window, is none;
\* the others mark their window.
LEMMA CloseBeginsKeeps ==
  ASSUME SessionInv, CloseBegins PROVE SessionInv'
<1> DEFINE w == Top.win
<1>1. stack # <<>> /\ Top.op = "close" /\ Top.at = "close"
  BY DEF CloseBegins, Running
<1>2. /\ UNCHANGED <<listed, recent, quitting, leaving>> /\ KeepsFlags /\ KeepsFiles
      /\ w \in Window /\ Unlocked(Top)
  BY <1>1, TopSound DEF CloseBegins, Unlocked, LockOf, Closing, Opens
<1>3. CASE ~IsListed(w) \/ doc[w].closing
  <2>1. Return(FALSE) /\ UNCHANGED <<doc, typing, owed>>
    BY <1>3 DEF CloseBegins
  <2>2. Leaves /\ returned' \in BOOLEAN
    BY <1>1, <2>1, TopSound, ReturnLeaves
  <2>3. Same
    BY <1>2, <2>1, <2>2 DEF KeepsFlags, KeepsFiles, SessionInv, SessionTypes, Same, Plain
  <2> QED
    BY <1>1, <1>2, <2>2, <2>3, LeftFreely
<1>4. CASE IsListed(w) /\ ~doc[w].closing
  <2> DEFINE at == IF IsClean(w) THEN "destroy" ELSE "saveChanges"
             c == At(at)
  <2>1. /\ doc' = [Committed EXCEPT ![w].closing = TRUE] /\ CommitEdits
        /\ Goes(at) /\ UNCHANGED returned
    BY <1>4 DEF CloseBegins
  <2>2. /\ DOMAIN doc' = Window
        /\ doc'[w] = [Committed[w] EXCEPT !.closing = TRUE]
        /\ \A v \in Window \ {w} : doc'[v] = Committed[v]
        /\ \A v \in Window : IsDocument(Committed[v]) /\ Committed[v].closing = doc[v].closing
    BY <1>2, <2>1, CommittedFacts DEF SessionInv
  <2>3. /\ IsDocument(doc'[w]) /\ SameWork(Committed[w], doc'[w])
        /\ doc'[w].closing = TRUE
    BY <1>2, <2>2 DEF IsDocument, SameWork, Fields
  <2>4. \A v \in Window : IsDocument(doc'[v]) /\ SameWork(Committed[v], doc'[v])
    BY <2>2, <2>3 DEF SameWork
  <2>5. Commits
    BY <1>2, <2>1, <2>2, <2>4
       DEF Commits, KeepsFlags, KeepsFiles, SessionInv, SessionTypes, fileVars
  <2>6. Moves(c) /\ c.op = "close" /\ c.win = w /\ c.at = at /\ c.content \in Known
    BY <1>1, <2>1, TopSound, MovesTo, AtFacts DEF Places, Questions
  <2>7. ~Running("save", "writing")' /\ ~Running("save", "writing")
    BY <1>1, <2>6 DEF Running, Top, Moves
  <2>8. Carries
    BY <2>5, <2>7, CommitKeeps, WritingKept DEF Carries, Commits, SessionInv
  <2>9. CallSound(c, doc', owed', Designs', Open', typing')
    <3>1. w \in Open' /\ typing' = NoTyping /\ DocumentsSound'
      BY <1>2, <1>4, <2>5, CommitKeeps, ListedFacts DEF SessionInv
    <3>2. c.at = "destroy" => doc'[w].saved
      BY <1>2, <2>3, <2>6 DEF IsClean, SameWork
    <3>3. c.at = "destroy" => IsSafe(doc'[w].content, owed', Designs')
      BY <1>2, <3>1, <3>2 DEF DocumentsSound
    <3> HIDE DEF c
    <3>4. CloseSound(c, doc', owed', Designs', Open')
      BY <1>2, <2>6, <3>1, <3>3 DEF CloseSound
    <3> QED
      BY <2>6, <3>1, <3>4 DEF CallSound
  <2>10. LockOf(c) = <<"close", w>> /\ LockOf(c) # NoLock /\ ~Opens(c) /\ ~Opens(Top)
         /\ LockOf(Top) = NoLock
    BY <1>1, <1>2, <2>6 DEF LockOf, Closing, Opens, NoLock, Unlocked
  <2>11. Held' = Held \cup {<<"close", w>>} /\ <<"close", w>> \notin Held
    <3>1. {v \in Window : doc'[v].closing} = {v \in Window : doc[v].closing} \cup {w}
      BY <1>2, <2>2, <2>3
    <3>2. reopening' = reopening /\ quitting' = quitting
      BY <1>2 DEF KeepsFlags
    <3>3. Held' = Held \cup {<<"close", w>>}
      BY <3>1, <3>2 DEF Held
    <3>4. <<"close", w>> \notin Held
      BY <1>4 DEF Held
    <3> QED
      BY <3>3, <3>4
  <2>12. NoLock \notin Held
    BY DEF SessionInv, LocksFollow
  <2>13. Relocks(LockOf(c)) /\ openingFiles' = openingFiles
    BY <1>2, <2>10, <2>11, <2>12 DEF Relocks, KeepsFlags
  <2> HIDE DEF c
  <2> QED
    BY <1>1, <2>6, <2>8, <2>9, <2>10, <2>13, MovedOn
<1> QED
  BY <1>3, <1>4

-----------------------------------------------------------------------------
(* The end of a close.                                                       *)

LEMMA QuietCarries ==
  ASSUME SessionInv, Quiet, UNCHANGED fileVars, UNCHANGED running,
         ~Running("save", "writing"), ~Running("save", "writing")'
  PROVE  Carries
<1>1. UNCHANGED <<disk, behind, job>> /\ Known' = Known
  BY DEF fileVars, Quiet, Known
<1>2. FileInv'
  BY InvNext DEF SessionInv
<1>3. WritingSound'
  BY <1>1, WritingKept DEF SessionInv
<1> QED
  BY <1>2, <1>3, QuietTypes, QuietDocuments, QuietWork, QuietSurvives DEF SessionInv, Carries

\* A close under way holds the lock of its window, which is open.
LEMMA ClosingTop ==
  ASSUME SessionInv, stack # <<>>, Top.op = "close", Top.at \in {"saveChanges", "saved", "destroy"}
  PROVE  /\ Top.win \in Window /\ Top.win \in Open /\ typing = NoTyping
         /\ LockOf(Top) = <<"close", Top.win>> /\ ~Opens(Top)
         /\ ~Running("save", "writing")
         /\ IsDocument(doc[Top.win]) /\ DOMAIN doc = Window
BY TopSound DEF CallSound, CloseSound, Closing, Committing, LockOf, Opens, Running, SessionInv,
                SessionTypes

\* A window that is not closing any more.
LEMMA ReopenedFacts ==
  ASSUME SessionInv, NEW w \in Window,
         \/ doc' = [doc EXCEPT ![w].closing = FALSE]
         \/ \E level : doc' = [doc EXCEPT ![w].closing = FALSE, ![w].level = level]
  PROVE  /\ DOMAIN doc' = Window
         /\ \A v \in Window : IsDocument(doc'[v]) /\ SameWork(doc[v], doc'[v])
         /\ doc'[w].closing = FALSE
         /\ \A v \in Window \ {w} : doc'[v] = doc[v]
<1>1. DOMAIN doc = Window /\ \A v \in Window : IsDocument(doc[v])
  BY DEF SessionInv, SessionTypes
<1>2. /\ DOMAIN doc' = Window /\ \A v \in Window \ {w} : doc'[v] = doc[v]
      /\ \/ doc'[w] = [doc[w] EXCEPT !.closing = FALSE]
         \/ \E level : doc'[w] = [doc[w] EXCEPT !.closing = FALSE, !.level = level]
  BY <1>1
<1>3. /\ IsDocument(doc'[w]) /\ SameWork(doc[w], doc'[w]) /\ doc'[w].closing = FALSE
  BY <1>1, <1>2 DEF IsDocument, SameWork, Fields
<1> QED
  BY <1>1, <1>2, <1>3 DEF SameWork

LEMMA Unlocks ==
  ASSUME SessionInv, NEW w \in Window, LockOf(Top) = <<"close", w>>,
         doc'[w].closing = FALSE, \A v \in Window \ {w} : doc'[v] = doc[v],
         UNCHANGED <<reopening, quitting>>
  PROVE  Relocks(NoLock)
<1>1. {v \in Window : doc'[v].closing} = {v \in Window : doc[v].closing} \ {w}
  OBVIOUS
<1>2. Held' = Held \ {<<"close", w>>}
  BY <1>1 DEF Held
<1>3. NoLock \notin Held
  BY DEF SessionInv, LocksFollow
<1> QED
  BY <1>2, <1>3 DEF Relocks

\* The close is given up and its window stays open.
LEMMA CloseGivesUp ==
  ASSUME SessionInv, stack # <<>>, Top.op = "close", Top.at \in {"saveChanges", "saved"},
         Return(FALSE), Reopened(Top.win),
         UNCHANGED <<listed, typing, recent, quitting, leaving, owed>>, KeepsFlags, KeepsFiles
  PROVE  SessionInv'
<1>1. /\ Top.win \in Window /\ LockOf(Top) = <<"close", Top.win>> /\ ~Opens(Top)
      /\ ~Running("save", "writing")
  BY ClosingTop
<1>2. /\ DOMAIN doc' = Window
      /\ \A v \in Window : IsDocument(doc'[v]) /\ SameWork(doc[v], doc'[v])
      /\ doc'[Top.win].closing = FALSE
      /\ \A v \in Window \ {Top.win} : doc'[v] = doc[v]
  BY <1>1, ReopenedFacts DEF Reopened
<1>3. Leaves /\ returned' \in BOOLEAN
  BY TopSound, ReturnLeaves
<1>4. UNCHANGED fileVars /\ UNCHANGED <<disk, behind>> /\ UNCHANGED running
  BY DEF KeepsFiles, fileVars
<1>5. Quiet
  BY <1>2, <1>3, <1>4, SameDesigns DEF Quiet, KeepsFlags, KeepsFiles, SessionInv, SessionTypes
<1>6. Carries
  BY <1>1, <1>3, <1>4, <1>5, WaitingBelow, QuietCarries
<1>7. Relocks(NoLock) /\ openingFiles' = openingFiles
  BY <1>1, <1>2, Unlocks DEF KeepsFlags
<1> QED
  BY <1>1, <1>3, <1>6, <1>7, LeftOn

LEMMA ClosingCall ==
  ASSUME SessionInv, stack # <<>>, Top.op = "close", Top.at \in {"saveChanges", "saved"},
         NEW at \in {"saved", "destroy"}, NEW due, NEW designs,
         at = "destroy" => IsSafe(doc[Top.win].content, due, designs)
  PROVE  /\ CallSound(At(at), doc, due, designs, Open, typing)
         /\ LockOf(At(at)) = LockOf(Top) /\ ~Opens(At(at)) /\ at \in Places
<1>1. at \in Places
  BY DEF Places
<1>2. /\ At(at).op = "close" /\ At(at).at = at /\ At(at).win = Top.win
      /\ Top.win \in Window /\ Top.win \in Open /\ typing = NoTyping
  BY <1>1, AtFacts, ClosingTop
<1> QED
  BY <1>1, <1>2 DEF CallSound, CloseSound, Closing, LockOf, Opens

LEMMA SaveChangesAnsweredKeeps ==
  ASSUME SessionInv, SaveChangesAnswered PROVE SessionInv'
<1> DEFINE w == Top.win
<1>1. stack # <<>> /\ Top.op = "close" /\ Top.at = "saveChanges"
  BY DEF SaveChangesAnswered, Running
<1>2. UNCHANGED <<listed, typing, recent, quitting, leaving>> /\ KeepsFlags /\ KeepsFiles
  BY DEF SaveChangesAnswered
<1>3. w \in Window /\ ~Opens(Top) /\ ~Running("save", "writing") /\ stack \in Seq(CallType)
  BY <1>1, ClosingTop, TopSound
<1>4. UNCHANGED fileVars /\ UNCHANGED <<disk, behind>> /\ UNCHANGED running
  BY <1>2 DEF KeepsFiles, fileVars
<1>5. ASSUME CanAnswer, Calls("saved", SaveCall(w)), UNCHANGED <<doc, owed, returned>>
      PROVE  SessionInv'
  <2>1. /\ Fresh(SaveCall(w), doc) /\ SaveCall(w) \in CallType
        /\ SaveCall(w).op = "save" /\ SaveCall(w).win = w
    BY <1>3, <1>5, AliveAnswer, SaveCalls DEF Fresh
  <2>2. /\ CallSound(At("saved"), doc, owed, Designs, Open, typing)
        /\ LockOf(At("saved")) = LockOf(Top) /\ ~Opens(At("saved")) /\ "saved" \in Places
    BY <1>1, ClosingCall
  <2>3. /\ Enters(At("saved"), SaveCall(w))
        /\ At("saved").op = "close" /\ At("saved").win = w /\ At("saved").at = "saved"
        /\ At("saved").content \in Known
    BY <1>1, <1>3, <1>5, <2>1, <2>2, EntersFrom, AtFacts
  <2>4. Same
    BY <1>2, <1>5 DEF Same, Plain, KeepsFlags, KeepsFiles, SessionInv, SessionTypes
  <2>5. Relocks(LockOf(At("saved"))) /\ openingFiles' = openingFiles /\ Waits(At("saved"))
    BY <1>1, <2>2, <2>3, <2>4, SameLocks DEF Waits
  <2> QED
    BY <1>1, <1>3, <2>1, <2>2, <2>3, <2>4, <2>5, Entered DEF Same
<1>6. ASSUME Goes("destroy"), Lose({doc[w].content}), UNCHANGED <<doc, returned>>
      PROVE  SessionInv'
  <2>1. doc[w].content \notin owed' /\ owed' \subseteq owed
    BY <1>6 DEF Lose
  <2>2. IsSafe(doc[w].content, owed', Designs')
    BY <2>1 DEF IsSafe
  <2>3. /\ CallSound(At("destroy"), doc, owed', Designs', Open, typing)
        /\ LockOf(At("destroy")) = LockOf(Top) /\ ~Opens(At("destroy")) /\ "destroy" \in Places
    BY <1>1, <2>2, ClosingCall
  <2>4. /\ Moves(At("destroy")) /\ At("destroy").op = "close" /\ At("destroy").at = "destroy"
        /\ At("destroy").content \in Known
    BY <1>1, <1>3, <1>6, <2>3, MovesTo, AtFacts
  <2>5. Quiet
    BY <1>2, <1>4, <1>6, <2>1, SameDesigns
       DEF Quiet, KeepsFlags, KeepsFiles, SessionInv, SessionTypes, SameWork
  <2>6. ~Running("save", "writing")'
    BY <2>4 DEF Running, Top, Moves
  <2>7. Carries
    BY <1>3, <1>4, <2>5, <2>6, QuietCarries
  <2>8. Open' = Open /\ typing' = typing /\ doc' = doc /\ openingFiles' = openingFiles
    BY <1>2, <1>6 DEF Open, KeepsFlags
  <2>9. CallSound(At("destroy"), doc', owed', Designs', Open', typing')
    BY <2>3, <2>8
  <2>10. Relocks(LockOf(At("destroy")))
    BY <1>1, <1>2, <2>3, <2>8, LocksSame DEF KeepsFlags
  <2> QED
    BY <1>1, <1>3, <2>3, <2>4, <2>7, <2>8, <2>9, <2>10, MovedOn
<1>7. ASSUME Return(FALSE), Reopened(w), UNCHANGED owed PROVE SessionInv'
  BY <1>1, <1>2, <1>7, CloseGivesUp
<1> QED
  BY <1>5, <1>6, <1>7 DEF SaveChangesAnswered

LEMMA CloseSavedKeeps ==
  ASSUME SessionInv, CloseSaved PROVE SessionInv'
<1> DEFINE w == Top.win
<1>1. stack # <<>> /\ Top.op = "close" /\ Top.at = "saved"
  BY DEF CloseSaved, Running
<1>2. UNCHANGED <<listed, typing, recent, quitting, leaving, owed>> /\ KeepsFlags /\ KeepsFiles
  BY DEF CloseSaved
<1>3. w \in Window /\ ~Opens(Top) /\ ~Running("save", "writing") /\ stack \in Seq(CallType)
  BY <1>1, ClosingTop, TopSound
<1>4. CASE returned
  <2>1. Goes("destroy") /\ UNCHANGED <<doc, returned>>
    BY <1>4 DEF CloseSaved
  <2>2. doc[w].saved
    BY <1>1, <1>4 DEF SessionInv, StackSound, Running
  <2>3. IsSafe(doc[w].content, owed, Designs)
    BY <1>3, <2>2 DEF SessionInv, DocumentsSound
  <2>4. /\ CallSound(At("destroy"), doc, owed, Designs, Open, typing)
        /\ LockOf(At("destroy")) = LockOf(Top) /\ ~Opens(At("destroy")) /\ "destroy" \in Places
    BY <1>1, <2>3, ClosingCall
  <2>5. /\ Moves(At("destroy")) /\ At("destroy").op = "close" /\ At("destroy").at = "destroy"
        /\ At("destroy").content \in Known
    BY <1>1, <1>3, <2>1, <2>4, MovesTo, AtFacts
  <2>6. Same
    BY <1>2, <2>1 DEF Same, Plain, KeepsFlags, KeepsFiles, SessionInv, SessionTypes
  <2>7. Relocks(LockOf(At("destroy"))) /\ openingFiles' = openingFiles
    BY <1>1, <2>4, <2>6, SameLocks
  <2> QED
    BY <1>1, <1>3, <2>4, <2>5, <2>6, <2>7, Moved DEF Same
<1>5. CASE ~returned
  BY <1>1, <1>2, <1>5, CloseGivesUp DEF CloseSaved
<1> QED
  BY <1>4, <1>5

\* What a close removes is safe: its window leaves the list, no other close of
\* it is under way, and the calls below it go on.
LEMMA CloseEndsKeeps ==
  ASSUME SessionInv, CloseEnds PROVE SessionInv'
<1> DEFINE w == Top.win
<1>0. SessionTypes /\ DocumentsSound /\ WorkIsKept /\ StackSound /\ LocksFollow
  BY DEF SessionInv
<1>1. stack # <<>> /\ Top.op = "close" /\ Top.at = "destroy"
  BY DEF CloseEnds, Running
<1>2. /\ w \in Window /\ typing = NoTyping /\ LockOf(Top) = <<"close", w>> /\ ~Opens(Top)
      /\ ~Running("save", "writing") /\ stack \in Seq(CallType)
      /\ IsSafe(doc[w].content, owed, Designs)
      /\ Len(stack) \in Nat \ {0} /\ Top = stack[Len(stack)]
  BY <1>1, ClosingTop, TopSound DEF CloseSound
<1>3. /\ doc' = [doc EXCEPT ![w].closing = FALSE, ![w].level = LoopLevel]
      /\ typing' = NoTyping /\ owed' = owed
  <2>1. Committed = doc /\ typing.win = NoWindow
    BY <1>0, <1>2, TypingFacts DEF Committed
  <2>2. doc' = [Committed EXCEPT ![w].closing = FALSE, ![w].level = LoopLevel]
    BY DEF CloseEnds
  <2>3. owed' = owed \ {doc[v].content : v \in {typing.win} \ {NoWindow}} /\ typing' = NoTyping
    BY DEF CloseEnds, CommitEdits, Lose
  <2> QED
    BY <2>1, <2>2, <2>3
<1>4. /\ DOMAIN doc' = Window
      /\ \A v \in Window : IsDocument(doc'[v]) /\ SameWork(doc[v], doc'[v])
      /\ doc'[w].closing = FALSE
      /\ \A v \in Window \ {w} : doc'[v] = doc[v]
  BY <1>2, <1>3, ReopenedFacts
<1>5. /\ UNCHANGED <<recent, quitting, settings, connected, work, running, openingFiles,
                     reopening, disk, behind, job>>
      /\ UNCHANGED fileVars
  BY DEF CloseEnds, KeepsFlags, KeepsFiles, fileVars
<1>6. Designs' = Designs /\ Known' = Known /\ \A f \in File : Stored(f)' = Stored(f)
  BY <1>5, SameDesigns DEF Known
<1>7. /\ listed' \in Seq(Window) /\ IsInjective(listed')
      /\ Open' = Open \ {w} /\ (listed' = <<>> => Open' = {})
  <2>1. listed \in Seq(Window) /\ IsInjective(listed) /\ listed' = RemoveFirst(listed, w)
    BY <1>0 DEF SessionTypes, CloseEnds
  <2>2. /\ listed' \in Seq(Window) /\ IsInjective(listed')
        /\ Open' = Open \ {w}
    BY <2>1, RemoveFirstFacts DEF Open
  <2>3. listed' = <<>> => Open' = {}
    <3>1. Open' = {listed'[i] : i \in 1 .. Len(listed')}
      BY <2>2, ElementsOf DEF Open
    <3> QED
      BY <3>1
  <2> QED
    BY <2>2, <2>3
<1>8. \A v : (IsListed(v) <=> v \in Open) /\ (IsListed(v)' <=> v \in Open')
  BY DEF IsListed, Open
<1>9. Leaves /\ returned' \in BOOLEAN
  BY <1>1, <1>2, ReturnLeaves DEF CloseEnds
<1>10. leaving' \in BOOLEAN /\ (leaving' => leaving \/ listed' = <<>>)
  <2>1. leaving \in BOOLEAN /\ connected \in BOOLEAN
    BY <1>0 DEF SessionTypes
  <2>2. \/ leaving' = (leaving \/ connected) /\ listed' = <<>>
        \/ leaving' = leaving
    BY DEF CloseEnds, ExitRequested
  <2> QED
    BY <2>1, <2>2
<1>11. SessionTypes'
  <2>1. \A v \in Window : IsDocument(doc[v])'
    BY <1>4, <1>6 DEF IsDocument
  <2> QED
    BY <1>0, <1>3, <1>4, <1>5, <1>7, <1>9, <1>10, <2>1 DEF SessionTypes
<1>12. DocumentsSound'
  <2>1. \A v \in Window :
          /\ Alive(v)' => doc'[v].content # Nothing
          /\ IsListed(v)' => Alive(v)'
          /\ doc'[v].saved => IsSafe(doc'[v].content, owed', Designs')
          /\ doc'[v].base \in owed' => doc'[v].content = doc'[v].base
    BY <1>0, <1>3, <1>4, <1>6, <1>7, <1>8 DEF DocumentsSound, SameWork, Alive
  <2>2. leaving' => typing' = NoTyping /\ \A v \in Window : IsListed(v)' => doc'[v].saved
    BY <1>0, <1>3, <1>4, <1>7, <1>8, <1>10 DEF DocumentsSound, SameWork
  <2> QED
    BY <2>1, <2>2 DEF DocumentsSound
<1>13. WorkIsKept'
  <2> SUFFICES ASSUME NEW c \in owed'
               PROVE  \/ \E v \in Window : IsListed(v)' /\ doc'[v].content = c
                      \/ \E f \in File : Stored(f)' = c
    BY DEF WorkIsKept
  <2>1. c \in owed /\ c # typing.content
    BY <1>0, <1>2, <1>3, TypingFacts, WorkFacts
  <2>2. ASSUME NEW v \in Window, IsListed(v), doc[v].content = c
        PROVE  \/ \E u \in Window : IsListed(u)' /\ doc'[u].content = c
               \/ \E f \in File : Stored(f)' = c
    <3>1. CASE v = w
      BY <1>2, <1>6, <2>1, <2>2, <3>1 DEF IsSafe, Designs
    <3>2. CASE v # w
      BY <1>4, <1>7, <1>8, <2>2, <3>2
    <3> QED
      BY <3>1, <3>2
  <2> QED
    BY <1>0, <1>6, <2>1, <2>2 DEF WorkIsKept
<1>14. Survive
  BY <1>3, <1>4, <1>5, <1>6 DEF Survive, WindowSurvives, SameWork
<1>15. StillOpen
  <2> SUFFICES ASSUME NEW i \in 1 .. Len(stack) - 1, Closing(stack[i])
               PROVE  stack[i].win \in Open'
    BY DEF StillOpen
  <2>1. i \in 1 .. Len(stack) /\ Len(stack) \in 1 .. Len(stack) /\ i # Len(stack)
    BY <1>2
  <2>2. stack[i].win \in Open /\ LockOf(stack[i]) = <<"close", stack[i].win>>
    BY <1>0, <2>1, ClosingIsOpen DEF LockOf
  <2>3. LockOf(stack[i]) # NoLock /\ LockOf(stack[Len(stack)]) = <<"close", w>>
    BY <1>2, <2>2 DEF NoLock
  <2>4. stack[i].win # w
    BY <1>0, <2>1, <2>2, <2>3 DEF LocksFollow
  <2> QED
    BY <1>7, <2>2, <2>4
<1>16. FileInv' /\ WritingSound'
  BY <1>2, <1>5, <1>6, <1>9, InvNext, WritingKept, WaitingBelow DEF SessionInv
<1>17. Carries
  BY <1>5, <1>11, <1>12, <1>13, <1>14, <1>15, <1>16 DEF Carries
<1>18. Relocks(NoLock)
  BY <1>2, <1>4, <1>5, Unlocks
<1> QED
  BY <1>1, <1>2, <1>5, <1>9, <1>17, <1>18, LeftOn

LEMMA CloseStepKeeps ==
  ASSUME SessionInv, CloseStep PROVE SessionInv'
BY CloseBeginsKeeps, SaveChangesAnsweredKeeps, CloseSavedKeeps, CloseEndsKeeps DEF CloseStep

-----------------------------------------------------------------------------
(* Quitting.                                                                 *)

QuitLock == <<"quit", NoWindow>>
ReopenLock == <<"reopen", NoWindow>>

LEMMA FlagLocks ==
  /\ QuitLock # NoLock /\ ReopenLock # NoLock /\ QuitLock # ReopenLock
  /\ QuitLock \in Held <=> quitting
  /\ ReopenLock \in Held <=> reopening
  /\ \A w : <<"close", w>> # QuitLock /\ <<"close", w>> # ReopenLock
<1>1. /\ QuitLock # NoLock /\ ReopenLock # NoLock /\ QuitLock # ReopenLock
      /\ \A w : <<"close", w>> # QuitLock /\ <<"close", w>> # ReopenLock
  BY DEF QuitLock, ReopenLock, NoLock
<1>2. Held = {<<"close", w>> : w \in {v \in Window : doc[v].closing}}
               \cup (IF reopening THEN {ReopenLock} ELSE {})
               \cup (IF quitting THEN {QuitLock} ELSE {})
  BY DEF Held, QuitLock, ReopenLock
<1> QED
  BY <1>1, <1>2

LEMMA FlagsMove ==
  ASSUME SessionInv, \A w \in Window : doc'[w].closing = doc[w].closing,
         {quitting', reopening'} \subseteq BOOLEAN
  PROVE  /\ quitting' /\ reopening' = reopening => Held' = Held \cup {QuitLock}
         /\ ~quitting' /\ reopening' = reopening => Held' = Held \ {QuitLock}
         /\ reopening' /\ quitting' = quitting => Held' = Held \cup {ReopenLock}
         /\ ~reopening' /\ quitting' = quitting => Held' = Held \ {ReopenLock}
         /\ NoLock \notin Held
<1> DEFINE C == {<<"close", w>> : w \in {v \in Window : doc[v].closing}}
<1>1. {v \in Window : doc'[v].closing} = {v \in Window : doc[v].closing}
  OBVIOUS
<1>2. C' = C
  BY <1>1
<1>3. Held = C \cup (IF reopening THEN {ReopenLock} ELSE {})
               \cup (IF quitting THEN {QuitLock} ELSE {})
  BY DEF Held, QuitLock, ReopenLock
<1>4. Held' = C' \cup (IF reopening' THEN {ReopenLock} ELSE {})
                 \cup (IF quitting' THEN {QuitLock} ELSE {})
  BY DEF Held, QuitLock, ReopenLock
<1>5. QuitLock \notin C /\ ReopenLock \notin C
  BY FlagLocks
<1>6. NoLock \notin Held
  BY DEF SessionInv, LocksFollow
<1> HIDE DEF C
<1> QED
  BY <1>2, <1>3, <1>4, <1>5, <1>6, FlagLocks

LEMMA QuitIsPlain ==
  ASSUME SessionInv, QuitUnchanged, {returned', quitting', leaving'} \subseteq BOOLEAN,
         leaving' => leaving \/ listed = <<>>
  PROVE  Plain /\ UNCHANGED <<openingFiles, reopening, doc>>
BY DEF QuitUnchanged, KeepsFlags, KeepsFiles, Plain, SessionInv, SessionTypes

LEMMA QuitPlaces ==
  ASSUME SessionInv, stack # <<>>, Top.op = "quit", NEW at \in {"quit", "next", "closed"}
  PROVE  /\ at \in Places /\ At(at).op = "quit" /\ At(at).at = at /\ At(at).win = Top.win
         /\ At(at).content \in Known /\ ~Opens(At(at)) /\ ~Opens(Top)
         /\ LockOf(At(at)) = IF at = "quit" THEN NoLock ELSE QuitLock
         /\ CallSound(At(at), doc, owed, Designs, Open, typing)
         /\ ~Running("save", "writing") /\ stack \in Seq(CallType)
<1>1. at \in Places
  BY DEF Places
<1>2. /\ At(at).op = "quit" /\ At(at).at = at /\ At(at).win = Top.win /\ At(at).content \in Known
  BY <1>1, AtFacts
<1> QED
  BY <1>1, <1>2, TopSound DEF Opens, LockOf, Closing, QuitLock, CallSound, Committing, Running

LEMMA QuitBeginsKeeps ==
  ASSUME SessionInv, QuitBegins PROVE SessionInv'
<1>1. stack # <<>> /\ Top.op = "quit" /\ Top.at = "quit"
  BY DEF QuitBegins, Running
<1>2. QuitUnchanged /\ leaving' = leaving /\ leaving \in BOOLEAN /\ quitting \in BOOLEAN
      /\ returned \in BOOLEAN
  BY DEF QuitBegins, SessionInv, SessionTypes
<1>3. LockOf(Top) = NoLock /\ ~Opens(Top)
  BY <1>1 DEF LockOf, Closing, Opens
<1>4. CASE quitting
  <2>1. Return(FALSE) /\ quitting' = quitting
    BY <1>4 DEF QuitBegins
  <2>2. Leaves /\ returned' \in BOOLEAN
    BY <1>1, <2>1, TopSound, ReturnLeaves
  <2>3. Same
    BY <1>2, <2>1, <2>2, QuitIsPlain DEF Same
  <2> QED
    BY <1>1, <1>3, <2>2, <2>3, LeftFreely DEF Unlocked
<1>5. CASE ~quitting
  <2>1. Goes("next") /\ quitting' = TRUE /\ returned' = returned
    BY <1>5 DEF QuitBegins
  <2>2. Plain /\ UNCHANGED <<openingFiles, reopening, doc>>
    BY <1>2, <2>1, QuitIsPlain
  <2>3. Moves(At("next"))
    BY <1>1, <2>1, QuitPlaces, MovesTo
  <2>4. Relocks(LockOf(At("next")))
    <3>1. LockOf(At("next")) = QuitLock /\ QuitLock \notin Held
      BY <1>1, <1>5, QuitPlaces, FlagLocks
    <3>2. Held' = Held \cup {QuitLock} /\ NoLock \notin Held /\ QuitLock # NoLock
      BY <1>2, <2>1, <2>2, FlagsMove, FlagLocks DEF SessionInv, SessionTypes
    <3> QED
      BY <1>3, <3>1, <3>2 DEF Relocks
  <2> QED
    BY <1>1, <2>2, <2>3, <2>4, QuitPlaces, Moved
<1> QED
  BY <1>4, <1>5

\* The lock goes with the call that had it.
LEMMA QuitReturns ==
  ASSUME SessionInv, stack # <<>>, Top.op = "quit", Top.at \in {"next", "closed"},
         NEW value \in BOOLEAN, Return(value), quitting' = FALSE, QuitUnchanged,
         leaving' \in BOOLEAN, leaving' => leaving \/ listed = <<>>
  PROVE  SessionInv'
<1>1. Leaves /\ returned' \in BOOLEAN
  BY TopSound, ReturnLeaves
<1>2. Plain /\ UNCHANGED <<openingFiles, reopening, doc>>
  BY <1>1, QuitIsPlain
<1>3. LockOf(Top) = QuitLock /\ ~Opens(Top) /\ ~Running("save", "writing")
  BY DEF LockOf, Closing, Opens, QuitLock, Running
<1>4. Relocks(NoLock)
  <2>1. Held' = Held \ {QuitLock} /\ NoLock \notin Held
    BY <1>2, FlagsMove DEF SessionInv, SessionTypes
  <2> QED
    BY <1>3, <2>1 DEF Relocks
<1> QED
  BY <1>1, <1>2, <1>3, <1>4, Left

LEMMA QuitNextKeeps ==
  ASSUME SessionInv, QuitNext PROVE SessionInv'
<1>1. stack # <<>> /\ Top.op = "quit" /\ Top.at = "next" /\ QuitUnchanged
  BY DEF QuitNext, Running
<1>2. {leaving, quitting, returned, connected} \subseteq BOOLEAN
  BY DEF SessionInv, SessionTypes
<1>3. CASE listed = <<>>
  BY <1>1, <1>2, <1>3, QuitReturns DEF QuitNext, ExitRequested
<1>4. CASE listed # <<>>
  <2> DEFINE w == LastWindow
  <2>1. Calls("closed", CloseCall(w)) /\ UNCHANGED <<leaving, quitting, returned>>
    BY <1>4 DEF QuitNext
  <2>2. w \in Window
    BY <1>4, ListedFacts DEF SessionInv
  <2>3. Fresh(CloseCall(w), doc) /\ CloseCall(w).op = "close"
    BY <2>2, CloseCalls
  <2>4. Enters(At("closed"), CloseCall(w))
    BY <1>1, <2>1, <2>3, QuitPlaces, EntersFrom DEF Fresh
  <2>5. Same
    BY <1>1, <1>2, <2>1, QuitIsPlain DEF Same
  <2>6. LockOf(Top) = QuitLock
    BY <1>1 DEF LockOf, Closing, QuitLock
  <2>7. Relocks(LockOf(At("closed"))) /\ openingFiles' = openingFiles
    BY <1>1, <2>5, <2>6, SameLocks, QuitPlaces
  <2>8. Waits(At("closed"))
    BY <1>1, QuitPlaces DEF Waits
  <2> QED
    BY <1>1, <2>3, <2>4, <2>5, <2>7, <2>8, QuitPlaces, Entered DEF Same
<1> QED
  BY <1>3, <1>4

LEMMA QuitClosedKeeps ==
  ASSUME SessionInv, QuitClosed PROVE SessionInv'
<1>1. stack # <<>> /\ Top.op = "quit" /\ Top.at = "closed" /\ QuitUnchanged /\ leaving' = leaving
  BY DEF QuitClosed, Running
<1>2. {leaving, quitting, returned, connected} \subseteq BOOLEAN
  BY DEF SessionInv, SessionTypes
<1>3. CASE returned
  <2>1. Goes("next") /\ UNCHANGED <<quitting, returned>>
    BY <1>3 DEF QuitClosed
  <2>2. Moves(At("next"))
    BY <1>1, <2>1, QuitPlaces, MovesTo
  <2>3. Same
    BY <1>1, <1>2, <2>1, QuitIsPlain DEF Same
  <2>4. LockOf(Top) = QuitLock
    BY <1>1 DEF LockOf, Closing, QuitLock
  <2>5. Relocks(LockOf(At("next"))) /\ openingFiles' = openingFiles
    BY <1>1, <2>3, <2>4, SameLocks, QuitPlaces
  <2> QED
    BY <1>1, <2>2, <2>3, <2>5, QuitPlaces, Moved DEF Same
<1>4. CASE ~returned
  <2>1. Return(FALSE) /\ quitting' = FALSE
    BY <1>4 DEF QuitClosed
  <2>2. FALSE \in BOOLEAN /\ leaving' \in BOOLEAN /\ (leaving' => leaving)
    BY <1>1, <1>2
  <2> QED
    BY <1>1, <2>1, <2>2, QuitReturns
<1> QED
  BY <1>3, <1>4

LEMMA QuitStepKeeps ==
  ASSUME SessionInv, QuitStep PROVE SessionInv'
BY QuitBeginsKeeps, QuitNextKeeps, QuitClosedKeeps DEF QuitStep

-----------------------------------------------------------------------------
(* Opening.                                                                  *)

LEMMA ListsOfFiles ==
  ASSUME NEW files \in FileLists
  PROVE  files \in Seq(File)
<1>1. PICK n \in 0 .. FilesAtOnce : files \in [1 .. n -> File]
  BY DEF FileLists
<1>2. n \in Nat
  BY <1>1
<1> QED
  BY <1>1, <1>2

LEMMA OpenIsPlain ==
  ASSUME SessionInv, OpenUnchanged, UNCHANGED <<listed, doc>>, returned' \in BOOLEAN,
         recent' \in Seq(File) /\ IsInjective(recent')
  PROVE  Same
BY DEF OpenUnchanged, KeepsFlags, KeepsFiles, Same, Plain, SessionInv, SessionTypes

LEMMA OpenGoesOn ==
  ASSUME SessionInv, stack # <<>>, Top.op = "open", OpenUnchanged, UNCHANGED <<listed, doc>>,
         returned' = returned, recent' \in Seq(File) /\ IsInjective(recent'),
         NEW c \in CallType, GoesWith(c), c.op = "open", c.content \in Known, c.at # "writing",
         Top.at # "writing", OpenSound(c, owed, Designs)
  PROVE  SessionInv'
<1>1. Same
  BY OpenIsPlain DEF SessionInv, SessionTypes
<1>2. Moves(c)
  BY TopSound, MovesWith
<1>3. CallSound(c, doc, owed, Designs, Open, typing)
  BY DEF CallSound, Committing
<1> QED
  BY <1>1, <1>2, <1>3, MovedFreely DEF FreeOps

LEMMA OpenReturns ==
  ASSUME SessionInv, stack # <<>>, Top.op \in {"open", "recent"}, OpenUnchanged,
         UNCHANGED <<listed, doc>>, NEW value \in BOOLEAN, Return(value), Top.at # "writing",
         recent' \in Seq(File) /\ IsInjective(recent')
  PROVE  SessionInv'
<1>1. Leaves /\ returned' \in BOOLEAN
  BY TopSound, ReturnLeaves
<1> QED
  BY <1>1, OpenIsPlain, FreeOfLocks, LeftFreely DEF FreeOps

LEMMA RecentIsSound ==
  ASSUME SessionInv
  PROVE  /\ recent \in Seq(File) /\ IsInjective(recent) /\ returned \in BOOLEAN
         /\ \A f \in File : AddRecent(f) \/ RemoveRecent(f) =>
              recent' \in Seq(File) /\ IsInjective(recent')
<1>1. recent \in Seq(File) /\ IsInjective(recent) /\ returned \in BOOLEAN
  BY DEF SessionInv, SessionTypes
<1> QED
  BY <1>1, RecentKept

LEMMA OpenFileChosenKeeps ==
  ASSUME SessionInv, OpenFileChosen PROVE SessionInv'
<1>1. stack # <<>> /\ Top.op = "open" /\ Top.at = "openFile" /\ OpenUnchanged
      /\ UNCHANGED <<listed, doc, recent>>
  BY DEF OpenFileChosen, Running
<1>2. ASSUME NEW files \in FileLists \ {<<>>},
             GoesWith([Top EXCEPT !.at = "open", !.files = files]), UNCHANGED returned
      PROVE  SessionInv'
  <2> DEFINE c == [Top EXCEPT !.at = "open", !.files = files]
  <2>1. files \in Seq(File) /\ Top \in CallType /\ Top.content \in Known
    BY <1>1, <1>2, ListsOfFiles, TopSound
  <2>2. c \in CallType /\ c.op = "open" /\ c.at = "open" /\ c.content = Top.content
    BY <1>1, <2>1 DEF CallType, Places
  <2>3. GoesWith(c)
    BY <1>2
  <2> HIDE DEF c
  <2>4. OpenSound(c, owed, Designs)
    BY <2>2 DEF OpenSound
  <2> QED
    BY <1>1, <1>2, <2>1, <2>2, <2>3, <2>4, RecentIsSound, OpenGoesOn
<1>3. CASE Return(FALSE)
  BY <1>1, <1>3, RecentIsSound, OpenReturns
<1> QED
  BY <1>2, <1>3 DEF OpenFileChosen

LEMMA FileOpenedKeeps ==
  ASSUME SessionInv, stack # <<>>, Top.op = "open", Top.at # "writing", OpenUnchanged,
         UNCHANGED <<listed, doc, returned>>, Top.files # <<>>, FileOpened(Head(Top.files))
  PROVE  SessionInv'
<1> DEFINE c == [Top EXCEPT !.at = "open", !.files = Tail(Top.files), !.flag = TRUE]
<1>1. Top \in CallType /\ Top.content \in Known
  BY TopSound
<1>2. Tail(Top.files) \in Seq(File) /\ Head(Top.files) \in File
  BY <1>1 DEF CallType
<1>3. c \in CallType /\ c.op = "open" /\ c.at = "open" /\ c.content = Top.content
  BY <1>1, <1>2 DEF CallType, Places
<1>4. GoesWith(c) /\ AddRecent(Head(Top.files))
  BY DEF FileOpened
<1> HIDE DEF c
<1>5. OpenSound(c, owed, Designs)
  BY <1>3 DEF OpenSound
<1> QED
  BY <1>1, <1>2, <1>3, <1>4, <1>5, RecentIsSound, OpenGoesOn

LEMMA OpenNextKeeps ==
  ASSUME SessionInv, OpenNext PROVE SessionInv'
<1>1. stack # <<>> /\ Top.op = "open" /\ Top.at = "open" /\ OpenUnchanged
      /\ UNCHANGED <<listed, doc>>
  BY DEF OpenNext, Running
<1>2. Top \in CallType /\ Top.content \in Known
  BY <1>1, TopSound
<1>3. CASE Top.files = <<>>
  <2>1. Return(Top.flag) /\ UNCHANGED recent /\ Top.flag \in BOOLEAN
    BY <1>2, <1>3 DEF OpenNext, CallType
  <2> QED
    BY <1>1, <2>1, RecentIsSound, OpenReturns
<1>4. CASE Top.files # <<>>
  <2> DEFINE f == Head(Top.files)
  <2>1. f \in File
    BY <1>2, <1>4 DEF CallType
  <2>2. \/ FileOpened(f)
        \/ /\ UNCHANGED recent
           /\ \/ Goes("loadFailed")
              \/ /\ Stored(f) # Nothing
                 /\ \E at \in {"loadWarnings", "loaded"} :
                      GoesWith([Top EXCEPT !.at = at, !.content = Stored(f)])
    BY <1>4 DEF OpenNext
  <2>3. UNCHANGED returned
    BY <1>4 DEF OpenNext
  <2>4. CASE FileOpened(f)
    BY <1>1, <1>4, <2>3, <2>4, FileOpenedKeeps
  <2>5. CASE UNCHANGED recent /\ Goes("loadFailed")
    <3>1. "loadFailed" \in Places
      BY DEF Places, Questions
    <3>2. /\ At("loadFailed") \in CallType /\ At("loadFailed").op = "open"
          /\ At("loadFailed").at = "loadFailed" /\ At("loadFailed").content \in Known
          /\ At("loadFailed").files = Top.files
      BY <1>1, <3>1, AtFacts
    <3>3. GoesWith(At("loadFailed"))
      BY <2>5 DEF Goes, GoesWith, At, Top
    <3>4. OpenSound(At("loadFailed"), owed, Designs)
      BY <1>4, <3>2 DEF OpenSound
    <3> QED
      BY <1>1, <2>3, <2>5, <3>2, <3>3, <3>4, RecentIsSound, OpenGoesOn
  <2>6. ASSUME UNCHANGED recent, Stored(f) # Nothing, NEW at \in {"loadWarnings", "loaded"},
               GoesWith([Top EXCEPT !.at = at, !.content = Stored(f)])
        PROVE  SessionInv'
    <3> DEFINE d == Stored(f)
               c == [Top EXCEPT !.at = at, !.content = d]
    <3>1. d \in Designs /\ d \in Known
      BY <2>1 DEF Designs, SessionInv, WritingSound
    <3>2. d \in Content \cup {Nothing}
      BY <3>1, WorkFacts DEF Known, SessionInv
    <3>3. d # Nothing /\ GoesWith(c) /\ at \in Places
      BY <2>6 DEF Places, Questions
    <3> HIDE DEF d
    <3>4. /\ c \in CallType /\ c.op = "open" /\ c.at = at /\ c.content = d
          /\ c.files = Top.files
      BY <1>1, <1>2, <3>2, <3>3 DEF CallType
    <3> HIDE DEF c
    <3>5. OpenSound(c, owed, Designs)
      BY <1>4, <3>1, <3>3, <3>4 DEF OpenSound, IsSafe
    <3> QED
      BY <1>1, <2>3, <2>6, <3>1, <3>3, <3>4, <3>5, RecentIsSound, OpenGoesOn
  <2> QED
    BY <2>2, <2>4, <2>5, <2>6
<1> QED
  BY <1>3, <1>4

LEMMA LoadMessageClosesKeeps ==
  ASSUME SessionInv, LoadMessageCloses PROVE SessionInv'
<1>1. stack # <<>> /\ Top.op = "open" /\ Top.at \in {"loadFailed", "loadWarnings"}
      /\ OpenUnchanged /\ UNCHANGED <<returned, listed, doc, recent>>
  BY DEF LoadMessageCloses, Running
<1>2. Top \in CallType /\ Top.content \in Known /\ OpenSound(Top, owed, Designs)
  BY <1>1, TopSound
<1>3. Top.files # <<>>
  BY <1>1, <1>2 DEF OpenSound
<1>4. CASE GoesWith([Top EXCEPT !.at = "open", !.files = Tail(Top.files)])
  <2> DEFINE c == [Top EXCEPT !.at = "open", !.files = Tail(Top.files)]
  <2>1. Tail(Top.files) \in Seq(File)
    BY <1>2, <1>3 DEF CallType
  <2>2. c \in CallType /\ c.op = "open" /\ c.at = "open" /\ c.content = Top.content
    BY <1>1, <1>2, <2>1 DEF CallType, Places
  <2>3. GoesWith(c)
    BY <1>4
  <2> HIDE DEF c
  <2>4. OpenSound(c, owed, Designs)
    BY <2>2 DEF OpenSound
  <2> QED
    BY <1>1, <1>2, <2>2, <2>3, <2>4, RecentIsSound, OpenGoesOn
<1>5. CASE Top.at = "loadWarnings" /\ Goes("loaded")
  <2>1. "loaded" \in Places
    BY DEF Places
  <2>2. /\ At("loaded") \in CallType /\ At("loaded").op = "open"
        /\ At("loaded").at = "loaded" /\ At("loaded").content = Top.content
        /\ At("loaded").files = Top.files
    BY <1>1, <2>1, AtFacts
  <2>3. GoesWith(At("loaded"))
    BY <1>5 DEF Goes, GoesWith, At, Top
  <2>4. OpenSound(At("loaded"), owed, Designs)
    BY <1>2, <1>5, <2>2 DEF OpenSound
  <2> QED
    BY <1>1, <1>2, <2>2, <2>3, <2>4, RecentIsSound, OpenGoesOn
<1> QED
  BY <1>4, <1>5 DEF LoadMessageCloses, Running

LEMMA DocumentOpenedKeeps ==
  ASSUME SessionInv, DocumentOpened PROVE SessionInv'
<1>1. stack # <<>> /\ Top.op = "open" /\ Top.at = "added"
  BY DEF DocumentOpened, Running
<1>2. Top.files # <<>>
  BY <1>1, TopSound DEF OpenSound
<1> QED
  BY <1>1, <1>2, FileOpenedKeeps DEF DocumentOpened

LEMMA RecentBeginsKeeps ==
  ASSUME SessionInv, RecentBegins PROVE SessionInv'
<1>1. stack # <<>> /\ Top.op = "recent" /\ Top.at = "recent" /\ OpenUnchanged
      /\ UNCHANGED <<returned, listed, doc, recent>>
      /\ Calls("opened", OpenCall(<<Top.file>>, Top.win))
  BY DEF RecentBegins, Running
<1>2. /\ Top.file \in File /\ Top.win \in Window \cup {NoWindow} /\ stack \in Seq(CallType)
  BY <1>1, TopSound DEF CallSound, CallType
<1> DEFINE d == OpenCall(<<Top.file>>, Top.win)
<1>3. <<Top.file>> \in Seq(File)
  BY <1>2
<1>4. Fresh(d, doc) /\ d \in CallType
  BY <1>2, <1>3, CallsWithFiles DEF Fresh
<1>5. "opened" \in Places
  BY DEF Places
<1> HIDE DEF d
<1>6. Enters(At("opened"), d)
  BY <1>1, <1>2, <1>4, <1>5, EntersFrom DEF d
<1>7. /\ At("opened").op = "recent" /\ At("opened").at = "opened"
      /\ At("opened").file = Top.file /\ At("opened").content \in Known
  BY <1>1, <1>5, AtFacts
<1>8. CallSound(At("opened"), doc, owed, Designs, Open, typing) /\ Waits(At("opened"))
  BY <1>2, <1>7 DEF CallSound, Committing, Waits
<1>9. Same
  BY <1>1, RecentIsSound, OpenIsPlain
<1> QED
  BY <1>1, <1>4, <1>6, <1>7, <1>8, <1>9, EnteredFreely DEF FreeOps

LEMMA RecentEndsKeeps ==
  ASSUME SessionInv, RecentEnds PROVE SessionInv'
<1>1. stack # <<>> /\ Top.op = "recent" /\ Top.at = "opened" /\ OpenUnchanged
      /\ UNCHANGED <<listed, doc>>
  BY DEF RecentEnds, Running
<1>2. Top.file \in File
  BY <1>1, TopSound DEF CallSound
<1>3. Return(returned) /\ (AddRecent(Top.file) \/ RemoveRecent(Top.file))
  BY DEF RecentEnds
<1> QED
  BY <1>1, <1>2, <1>3, RecentIsSound, OpenReturns

-----------------------------------------------------------------------------
(* New windows.                                                              *)

\* A window takes a slot that no window and no call uses.
Adds(content, file, replaceable) ==
  /\ FreeWindows # {}
  /\ doc' = [doc EXCEPT ![FreeWindow] = NewWindow(content, file, replaceable)]
  /\ listed' = Append(listed, FreeWindow)

LEMMA FreeFacts ==
  ASSUME SessionInv, FreeWindows # {}
  PROVE  /\ FreeWindow \in Window /\ ~doc[FreeWindow].alive /\ FreeWindow \notin Open
         /\ \A i \in 1 .. Len(stack) : stack[i].win # FreeWindow
         /\ doc[FreeWindow].closing = FALSE
<1> DEFINE w == FreeWindow
<1>1. w \in Window /\ Free(w)
  BY DEF FreeWindow, FreeWindows
<1> HIDE DEF w
<1>2. stack \in Seq(CallType)
  BY DEF SessionInv, StackSound
<1>3. ~doc[w].alive /\ \A i \in 1 .. Len(stack) : stack[i].win # w
  BY <1>1, <1>2 DEF Free, Alive
<1>4. w \notin Open
  BY <1>1, <1>3 DEF SessionInv, DocumentsSound, IsListed, Alive, Open
<1>5. doc[w].closing \in BOOLEAN
  BY <1>1 DEF SessionInv, SessionTypes, IsDocument
<1>6. ~doc[w].closing
  <2> SUFFICES ASSUME doc[w].closing PROVE FALSE
    OBVIOUS
  <2>1. <<"close", w>> \in Held
    BY <1>1 DEF Held
  <2>2. PICK i \in 1 .. Len(stack) : LockOf(stack[i]) = <<"close", w>>
    BY <2>1 DEF SessionInv, LocksFollow
  <2>3. stack[i].win = w
    BY <2>2 DEF LockOf, NoLock
  <2> QED
    BY <1>3, <2>3
<1> QED
  BY <1>1, <1>3, <1>4, <1>5, <1>6 DEF w

LEMMA AddsKeeps ==
  ASSUME SessionInv, NEW content \in 0 .. work, NEW file \in File \cup {Nothing},
         NEW replaceable \in BOOLEAN, Adds(content, file, replaceable),
         IsSafe(content, owed, Designs),
         UNCHANGED <<fileVars, settings, typing, work, owed, running, leaving, quitting>>,
         recent' \in Seq(File) /\ IsInjective(recent'),
         {returned', connected', openingFiles', reopening'} \subseteq BOOLEAN
  PROVE  /\ FileInv' /\ SessionTypes' /\ DocumentsSound' /\ WorkIsKept' /\ Survive /\ StillOpen
         /\ Designs' = Designs /\ Known' = Known /\ UNCHANGED <<disk, behind, job>>
         /\ \A w \in Window : doc'[w].closing = doc[w].closing
         /\ \A w \in Window : doc[w].alive => doc'[w].alive
<1> DEFINE n == FreeWindow
           d == NewWindow(content, file, replaceable)
<1>0. SessionTypes /\ DocumentsSound /\ WorkIsKept /\ StackSound
  BY DEF SessionInv
<1>1. /\ n \in Window /\ ~doc[n].alive /\ n \notin Open
      /\ \A i \in 1 .. Len(stack) : stack[i].win # n
      /\ doc[n].closing = FALSE
  BY FreeFacts DEF Adds
<1>2. d = NewWindow(content, file, replaceable)
  OBVIOUS
<1>3. /\ DOMAIN doc = Window /\ \A w \in Window : IsDocument(doc[w])
      /\ listed \in Seq(Window) /\ IsInjective(listed)
  BY <1>0 DEF SessionTypes
<1>4. doc' = [doc EXCEPT ![n] = d] /\ listed' = Append(listed, n)
  BY DEF Adds
<1> HIDE DEF n, d
<1>17. /\ IsDocument(d) /\ d.alive = TRUE /\ d.content = content /\ d.saved = TRUE
       /\ d.base \in {content, Nothing} /\ d.closing = FALSE
  BY <1>2 DEF NewWindow, NoDocument, IsDocument, Known, Fields
<1>5. /\ DOMAIN doc' = Window /\ doc'[n] = d
      /\ \A w \in Window : w # n => doc'[w] = doc[w]
  BY <1>1, <1>3, <1>4
<1>6. listed' \in Seq(Window) /\ IsInjective(listed') /\ Open' = Open \cup {n}
  BY <1>1, <1>3, <1>4, AppendFacts DEF Open
<1>7. \A w : (IsListed(w) <=> w \in Open) /\ (IsListed(w)' <=> w \in Open')
  BY DEF IsListed, Open
<1>8. UNCHANGED <<disk, behind, job, settings, typing, work, owed, running, leaving, quitting>>
      /\ UNCHANGED fileVars
  BY DEF fileVars
<1>9. Designs' = Designs /\ Known' = Known /\ \A f \in File : Stored(f)' = Stored(f)
  BY <1>8, SameDesigns DEF Known
<1>10. SessionTypes'
  <2>1. \A w \in Window : IsDocument(doc[w])'
    <3>1. \A w \in Window : IsDocument(doc'[w])
      BY <1>17, <1>3, <1>5
    <3> QED
      BY <1>9, <3>1 DEF IsDocument
  <2>2. (typing = NoTyping \/ (typing \in [win: Window, content: 1 .. work] /\ IsListed(typing.win)))'
    BY <1>0, <1>6, <1>7, <1>8 DEF SessionTypes
  <2>3. (settings \in SettingsType /\ work \in 0 .. MaxWork /\ owed \subseteq 1 .. work)'
    BY <1>0, <1>8 DEF SessionTypes
  <2>4. ({returned, quitting, leaving, connected, running, openingFiles, reopening} \subseteq BOOLEAN)'
    BY <1>0, <1>8 DEF SessionTypes
  <2> QED
    BY <1>5, <1>6, <2>1, <2>2, <2>3, <2>4 DEF SessionTypes
<1>11. DocumentsSound'
  <2>1. content # Nothing /\ Nothing \notin owed
    BY <1>0, WorkFacts
  <2>2. ASSUME NEW w \in Window
        PROVE  /\ Alive(w)' => doc'[w].content # Nothing
               /\ IsListed(w)' => Alive(w)'
               /\ doc'[w].saved => IsSafe(doc'[w].content, owed', Designs')
               /\ doc'[w].base \in owed' => doc'[w].content = doc'[w].base
               /\ leaving' => typing' = NoTyping /\ (IsListed(w)' => doc'[w].saved)
    <3>1. CASE w = n
      <4>1. leaving' => typing' = NoTyping
        BY <1>0, <1>8 DEF DocumentsSound
      <4> QED
        BY <1>17, <1>5, <1>8, <1>9, <2>1, <3>1, <4>1 DEF Alive
    <3>2. CASE w # n
      <4>1. doc'[w] = doc[w] /\ (IsListed(w)' <=> IsListed(w))
        BY <1>5, <1>6, <1>7, <3>2
      <4> QED
        BY <1>0, <1>8, <1>9, <4>1 DEF DocumentsSound, Alive
    <3> QED
      BY <3>1, <3>2
  <2>3. leaving' => typing' = NoTyping
    BY <1>0, <1>8 DEF DocumentsSound
  <2> QED
    BY <2>2, <2>3 DEF DocumentsSound
<1>12. WorkIsKept'
  <2> SUFFICES ASSUME NEW c \in owed'
               PROVE  \/ typing'.content = c
                      \/ \E w \in Window : IsListed(w)' /\ doc'[w].content = c
                      \/ \E f \in File : Stored(f)' = c
    BY DEF WorkIsKept
  <2>1. ASSUME NEW w \in Window, IsListed(w), doc[w].content = c
        PROVE  IsListed(w)' /\ doc'[w].content = c
    BY <1>1, <1>5, <1>6, <1>7, <2>1
  <2> QED
    BY <1>0, <1>8, <1>9, <2>1 DEF WorkIsKept
<1>13. Survive
  <2>1. \A i \in 1 .. Len(stack) : stack[i].win \in Window => doc'[stack[i].win] = doc[stack[i].win]
    BY <1>1, <1>5
  <2> QED
    BY <1>8, <1>9, <2>1 DEF Survive, WindowSurvives
<1>14. StillOpen
  <2>1. \A i \in 1 .. Len(stack) - 1 : i \in 1 .. Len(stack)
    BY <1>0 DEF StackSound
  <2> QED
    BY <1>0, <1>6, <2>1, ClosingIsOpen DEF StillOpen
<1>15. FileInv'
  BY <1>8, InvNext DEF SessionInv
<1>16. \A w \in Window : doc'[w].closing = doc[w].closing /\ (doc[w].alive => doc'[w].alive)
  BY <1>1, <1>17, <1>5
<1> QED
  BY <1>8, <1>9, <1>10, <1>11, <1>12, <1>13, <1>14, <1>15, <1>16

LEMMA DocumentAddedKeeps ==
  ASSUME SessionInv, DocumentAdded PROVE SessionInv'
<1> DEFINE f == Head(Top.files)
<1>1. stack # <<>> /\ Top.op = "open" /\ Top.at = "loaded" /\ OpenUnchanged
      /\ UNCHANGED <<returned, recent>>
  BY DEF DocumentAdded, Running
<1>2. /\ Top \in CallType /\ stack \in Seq(CallType) /\ Top.content \in Known
      /\ Top.files # <<>> /\ Top.content # Nothing /\ IsSafe(Top.content, owed, Designs)
  BY <1>1, TopSound DEF OpenSound
<1>3. f \in File /\ Top.content \in 0 .. work
  BY <1>2 DEF CallType, Known
<1>4. Adds(Top.content, f, FALSE)
  BY DEF DocumentAdded, Adds
<1>5. /\ FileInv' /\ SessionTypes' /\ DocumentsSound' /\ WorkIsKept' /\ Survive /\ StillOpen
      /\ Designs' = Designs /\ Known' = Known /\ UNCHANGED <<disk, behind, job>>
      /\ \A w \in Window : doc'[w].closing = doc[w].closing
  <2>1. UNCHANGED <<fileVars, settings, typing, work, owed, running, leaving, quitting>>
        /\ UNCHANGED <<returned, recent, connected, openingFiles, reopening>>
    BY <1>1 DEF OpenUnchanged, KeepsFlags, KeepsFiles
  <2>2. {returned', connected', openingFiles', reopening'} \subseteq BOOLEAN
        /\ recent' \in Seq(File) /\ IsInjective(recent')
    BY <2>1 DEF SessionInv, SessionTypes
  <2>3. f \in File \cup {Nothing} /\ FALSE \in BOOLEAN
    BY <1>3
  <2> HIDE DEF f
  <2> QED
    BY <1>2, <1>3, <1>4, <2>1, <2>2, <2>3, AddsKeeps
<1>6. "added" \in Places
  BY DEF Places
<1> DEFINE c == At("added")
<1>7. c.op = "open" /\ c.at = "added" /\ c.files = Top.files /\ c.content \in Known
  BY <1>1, <1>6, AtFacts
<1>8. CASE IsReplaced(Top.win)
  <2>1. Top.win \in Window
    BY <1>8, ListedFacts DEF IsReplaced, SessionInv
  <2>2. Calls("added", CloseCall(Top.win))
    BY <1>8 DEF DocumentAdded
  <2>3. Fresh(CloseCall(Top.win), doc') /\ CloseCall(Top.win) \in CallType
    BY <2>1, CloseCalls DEF Fresh
  <2>4. Enters(c, CloseCall(Top.win))
    BY <1>1, <1>2, <1>6, <2>2, <2>3, EntersFrom
  <2>5. CloseCall(Top.win).op = "close" /\ CloseCall(Top.win).at = "close"
    BY <2>1, CloseCalls DEF Fresh
  <2> HIDE DEF c
  <2>6. ~Running("save", "writing") /\ ~Running("save", "writing")'
    <3>1. Top' = CloseCall(Top.win)
      BY <2>4, StackTop DEF Enters, Top
    <3> QED
      BY <1>1, <2>5, <3>1 DEF Running
  <2>7. Carries
    BY <1>1, <1>5, <2>6, WritingKept DEF Carries, SessionInv, OpenUnchanged, KeepsFiles
  <2>8. CallSound(c, doc', owed', Designs', Open', typing') /\ Waits(c)
    BY <1>2, <1>7 DEF CallSound, Committing, OpenSound, Waits
  <2>9. LockOf(c) = LockOf(Top) /\ ~Opens(c) /\ ~Opens(Top)
    BY <1>1, <1>7, FreeOfLocks DEF FreeOps, Unlocked
  <2>10. Relocks(LockOf(c)) /\ openingFiles' = openingFiles
    BY <1>1, <1>5, <2>9, LocksSame DEF OpenUnchanged, KeepsFlags
  <2> QED
    BY <1>1, <1>7, <2>3, <2>4, <2>7, <2>8, <2>9, <2>10, EnteredOn
<1>9. CASE ~IsReplaced(Top.win)
  <2>1. Goes("added")
    BY <1>9 DEF DocumentAdded
  <2>2. Moves(c)
    BY <1>1, <1>2, <1>6, <2>1, MovesTo
  <2> HIDE DEF c
  <2>3. ~Running("save", "writing") /\ ~Running("save", "writing")'
    BY <1>1, <1>7, <2>2 DEF Running, Top, Moves
  <2>4. Carries
    BY <1>1, <1>5, <2>3, WritingKept DEF Carries, SessionInv, OpenUnchanged, KeepsFiles
  <2>5. CallSound(c, doc', owed', Designs', Open', typing')
    BY <1>2, <1>7 DEF CallSound, Committing, OpenSound
  <2>6. LockOf(c) = LockOf(Top) /\ ~Opens(c) /\ ~Opens(Top)
    BY <1>1, <1>7, FreeOfLocks DEF FreeOps, Unlocked
  <2>7. Relocks(LockOf(c)) /\ openingFiles' = openingFiles
    BY <1>1, <1>5, <2>6, LocksSame DEF OpenUnchanged, KeepsFlags
  <2> QED
    BY <1>1, <1>7, <2>2, <2>4, <2>5, <2>6, <2>7, MovedOn
<1> QED
  BY <1>8, <1>9

LEMMA OpenStepKeeps ==
  ASSUME SessionInv, OpenStep PROVE SessionInv'
BY OpenFileChosenKeeps, OpenNextKeeps, LoadMessageClosesKeeps, DocumentAddedKeeps,
   DocumentOpenedKeeps, RecentBeginsKeeps, RecentEndsKeeps DEF OpenStep

-----------------------------------------------------------------------------
(* The start, the reopen and the requests for files.                         *)

LEMMA SessionIsPlain ==
  ASSUME SessionInv, SessionUnchanged, UNCHANGED <<listed, doc>>,
         recent' \in Seq(File) /\ IsInjective(recent'),
         {returned', connected', openingFiles', reopening'} \subseteq BOOLEAN
  PROVE  Plain /\ UNCHANGED <<quitting, leaving>>
BY DEF SessionUnchanged, Plain, SessionInv, SessionTypes

LEMMA FilesBeginKeeps ==
  ASSUME SessionInv, FilesBegin PROVE SessionInv'
<1> DEFINE c == [Top EXCEPT !.at = "opened", !.flag = openingFiles]
           d == OpenCall(Top.files, Top.win)
<1>1. /\ stack # <<>> /\ Top.op = "files" /\ Top.at = "files" /\ SessionUnchanged
      /\ UNCHANGED <<returned, listed, doc, recent, connected, reopening>>
      /\ openingFiles' = TRUE
      /\ stack' = Append([stack EXCEPT ![Len(stack)] = c], d)
  BY DEF FilesBegin, Running
<1>2. /\ Top \in CallType /\ stack \in Seq(CallType) /\ Top.content \in Known
      /\ openingFiles \in BOOLEAN /\ reopening \in BOOLEAN /\ connected \in BOOLEAN
      /\ "opened" \in Places
  BY <1>1, TopSound DEF SessionInv, SessionTypes, Places
<1>3. /\ c \in CallType /\ c.op = "files" /\ c.at = "opened" /\ c.content = Top.content
      /\ c.flag = openingFiles
  BY <1>1, <1>2 DEF CallType
<1>4. Top.files \in Seq(File) /\ Top.win \in Window \cup {NoWindow}
  BY <1>2 DEF CallType
<1> HIDE DEF c
<1>5. Fresh(d, doc) /\ d \in CallType
  BY <1>4, CallsWithFiles DEF Fresh
<1>6. d.op = "open"
  BY <1>4 DEF OpenCall, Call
<1> HIDE DEF d
<1>7. Enters(c, d)
  BY <1>1, <1>2, <1>3, <1>5, EntersCall
<1>8. CallSound(c, doc, owed, Designs, Open, typing) /\ Waits(c)
  BY <1>3 DEF CallSound, Committing, Waits
<1>9. Plain /\ UNCHANGED <<quitting, reopening, doc>>
  BY <1>1, <1>2, RecentIsSound, SessionIsPlain
<1>10. /\ LockOf(c) = NoLock /\ LockOf(Top) = NoLock /\ Opens(c) /\ ~Opens(Top)
       /\ ~Running("save", "writing")
  BY <1>1, <1>3 DEF LockOf, Closing, Opens, Running
<1>11. Relocks(LockOf(c))
  BY <1>1, <1>9, <1>10, LocksSame
<1> QED
  BY <1>1, <1>2, <1>3, <1>5, <1>7, <1>8, <1>9, <1>10, <1>11, Entered

LEMMA FilesEndKeeps ==
  ASSUME SessionInv, FilesEnd PROVE SessionInv'
<1>1. /\ stack # <<>> /\ Top.op = "files" /\ Top.at = "opened" /\ SessionUnchanged
      /\ UNCHANGED <<listed, doc, recent, connected, reopening>>
      /\ openingFiles' = Top.flag /\ Return(returned)
  BY DEF FilesEnd, Running
<1>2. /\ Top \in CallType /\ reopening \in BOOLEAN /\ connected \in BOOLEAN /\ returned \in BOOLEAN
  BY <1>1, TopSound DEF SessionInv, SessionTypes
<1>3. Leaves /\ returned' \in BOOLEAN
  BY <1>1, <1>2, TopSound, ReturnLeaves
<1>4. Top.flag \in BOOLEAN
  BY <1>2 DEF CallType
<1>5. Plain /\ UNCHANGED <<quitting, reopening, doc>>
  BY <1>1, <1>2, <1>3, <1>4, RecentIsSound, SessionIsPlain
<1>6. LockOf(Top) = NoLock /\ Opens(Top) /\ ~Running("save", "writing")
  BY <1>1 DEF LockOf, Closing, Opens, Running
<1>7. Relocks(NoLock)
  BY <1>1, <1>5, <1>6, LocksSame
<1> QED
  BY <1>1, <1>3, <1>5, <1>6, <1>7, Left

\* A new design takes a window; nothing needs to be kept of it.
LEMMA NewDesignKeeps ==
  ASSUME SessionInv, NewDesignOpens,
         UNCHANGED <<fileVars, settings, typing, work, owed, running, leaving, quitting>>,
         recent' \in Seq(File) /\ IsInjective(recent'),
         {returned', connected', openingFiles', reopening'} \subseteq BOOLEAN
  PROVE  /\ FileInv' /\ SessionTypes' /\ DocumentsSound' /\ WorkIsKept' /\ Survive /\ StillOpen
         /\ Designs' = Designs /\ Known' = Known /\ UNCHANGED <<disk, behind, job>>
         /\ \A w \in Window : doc'[w].closing = doc[w].closing
         /\ \A w \in Window : doc[w].alive => doc'[w].alive
<1>1. 0 \in 0 .. work /\ 0 \notin owed
  BY WorkFacts DEF SessionInv
<1>2. IsSafe(0, owed, Designs)
  BY <1>1 DEF IsSafe
<1>3. Adds(0, Nothing, TRUE)
  BY DEF NewDesignOpens, Adds
<1>4. Nothing \in File \cup {Nothing} /\ TRUE \in BOOLEAN
  OBVIOUS
<1> QED
  BY <1>1, <1>2, <1>3, <1>4, AddsKeeps

LEMMA ReopenBeginsKeeps ==
  ASSUME SessionInv, ReopenBegins PROVE SessionInv'
<1>1. /\ stack # <<>> /\ Top.op = "reopen" /\ Top.at = "reopen" /\ SessionUnchanged
      /\ UNCHANGED <<recent, connected, openingFiles>>
  BY DEF ReopenBegins, Running
<1>2. /\ Top \in CallType /\ stack \in Seq(CallType) /\ Top.content \in Known
      /\ openingFiles \in BOOLEAN /\ reopening \in BOOLEAN /\ connected \in BOOLEAN
      /\ recent \in Seq(File) /\ IsInjective(recent) /\ returned \in BOOLEAN
  BY <1>1, TopSound DEF SessionInv, SessionTypes
<1>3. LockOf(Top) = NoLock /\ ~Opens(Top) /\ ~Running("save", "writing")
  BY <1>1 DEF LockOf, Closing, Opens, Running
<1>4. ASSUME Return(FALSE), UNCHANGED <<reopening, listed, doc>> PROVE SessionInv'
  <2>1. Leaves /\ returned' \in BOOLEAN
    BY <1>1, <1>2, <1>4, ReturnLeaves
  <2>2. Same
    BY <1>1, <1>2, <1>4, <2>1, SessionIsPlain DEF Same
  <2> QED
    BY <1>1, <1>3, <2>1, <2>2, LeftFreely DEF Unlocked
<1>5. ASSUME ~reopening, recent # <<>>, reopening' = TRUE, UNCHANGED <<returned, listed, doc>>,
             NEW c, c = [Top EXCEPT !.at = "opened", !.file = Head(recent)],
             stack' = Append([stack EXCEPT ![Len(stack)] = c],
                             OpenCall(<<Head(recent)>>, NoWindow))
      PROVE  SessionInv'
  <2> DEFINE f == Head(recent)
             d == OpenCall(<<f>>, NoWindow)
  <2>1. f \in File /\ "opened" \in Places
    BY <1>2, <1>5 DEF Places
  <2>2. /\ c \in CallType /\ c.op = "reopen" /\ c.at = "opened" /\ c.content = Top.content
        /\ c.file = f
    <3>1. c = [Top EXCEPT !.at = "opened", !.file = f]
      BY <1>5
    <3> HIDE DEF f
    <3> QED
      BY <1>1, <1>2, <2>1, <3>1 DEF CallType
  <2>3. stack' = Append([stack EXCEPT ![Len(stack)] = c], d)
    BY <1>5
  <2> HIDE DEF f
  <2>4. <<f>> \in Seq(File) /\ NoWindow \in Window \cup {NoWindow}
    BY <2>1
  <2>5. Fresh(d, doc) /\ d \in CallType
    BY <2>4, CallsWithFiles DEF Fresh
  <2> HIDE DEF d
  <2>6. Enters(c, d)
    BY <1>1, <1>2, <2>2, <2>3, <2>5, EntersCall
  <2>7. CallSound(c, doc, owed, Designs, Open, typing) /\ Waits(c)
    BY <2>1, <2>2 DEF CallSound, Committing, Waits
  <2>8. Plain /\ UNCHANGED <<quitting, openingFiles, doc>>
    BY <1>1, <1>2, <1>5, SessionIsPlain
  <2>9. LockOf(c) = ReopenLock /\ ~Opens(c)
    BY <2>2 DEF LockOf, Closing, Opens, ReopenLock
  <2>10. Relocks(LockOf(c))
    <3>1. ReopenLock \notin Held /\ ReopenLock # NoLock
      BY <1>5, FlagLocks
    <3>2. Held' = Held \cup {ReopenLock} /\ NoLock \notin Held
      BY <1>5, <2>8, FlagsMove DEF SessionInv, SessionTypes
    <3> QED
      BY <1>3, <2>9, <3>1, <3>2 DEF Relocks
  <2> QED
    BY <1>1, <1>2, <1>3, <2>2, <2>5, <2>6, <2>7, <2>8, <2>9, <2>10, Entered
<1>6. ASSUME NewDesignOpens, Return(TRUE), UNCHANGED reopening PROVE SessionInv'
  <2>1. Leaves /\ returned' \in BOOLEAN
    BY <1>1, <1>2, <1>6, ReturnLeaves
  <2>2. /\ FileInv' /\ SessionTypes' /\ DocumentsSound' /\ WorkIsKept' /\ Survive /\ StillOpen
        /\ Known' = Known /\ UNCHANGED <<disk, behind, job>>
        /\ \A w \in Window : doc'[w].closing = doc[w].closing
    BY <1>1, <1>2, <1>6, <2>1, NewDesignKeeps DEF SessionUnchanged
  <2>3. Carries
    BY <1>1, <1>3, <2>1, <2>2, WaitingBelow, WritingKept DEF Carries, SessionInv, SessionUnchanged
  <2>4. Relocks(NoLock)
    BY <1>1, <1>3, <1>6, <2>2, LocksSame DEF SessionUnchanged
  <2> QED
    BY <1>1, <1>3, <2>1, <2>3, <2>4, LeftOn
<1> QED
  BY <1>4, <1>5, <1>6 DEF ReopenBegins

LEMMA ReopenEndsKeeps ==
  ASSUME SessionInv, ReopenEnds PROVE SessionInv'
<1>1. /\ stack # <<>> /\ Top.op = "reopen" /\ Top.at = "opened" /\ SessionUnchanged
      /\ UNCHANGED <<connected, openingFiles>> /\ reopening' = FALSE /\ Return(TRUE)
  BY DEF ReopenEnds, Running
<1>2. /\ stack \in Seq(CallType) /\ Top.file \in File
      /\ openingFiles \in BOOLEAN /\ reopening \in BOOLEAN /\ connected \in BOOLEAN
      /\ quitting \in BOOLEAN
  BY <1>1, TopSound DEF SessionInv, SessionTypes, CallSound
<1>3. LockOf(Top) = ReopenLock /\ ~Opens(Top) /\ ~Running("save", "writing")
  BY <1>1 DEF LockOf, Closing, Opens, Running, ReopenLock
<1>4. Leaves /\ returned' \in BOOLEAN
  BY <1>1, <1>2, ReturnLeaves
<1>5. recent' \in Seq(File) /\ IsInjective(recent')
  BY <1>2, RecentIsSound DEF ReopenEnds
<1>6. ASSUME \A w \in Window : doc'[w].closing = doc[w].closing PROVE Relocks(NoLock)
  <2>1. quitting' = quitting /\ {quitting', reopening'} \subseteq BOOLEAN
    BY <1>1, <1>2 DEF SessionUnchanged
  <2>2. Held' = Held \ {ReopenLock} /\ NoLock \notin Held
    BY <1>1, <1>6, <2>1, FlagsMove
  <2> QED
    BY <1>3, <2>2 DEF Relocks
<1>7. CASE UNCHANGED <<listed, doc>>
  <2>1. Plain
    BY <1>1, <1>2, <1>4, <1>5, <1>7, SessionIsPlain
  <2> QED
    BY <1>1, <1>3, <1>4, <1>6, <1>7, <2>1, Left
<1>8. CASE NewDesignOpens
  <2>1. /\ FileInv' /\ SessionTypes' /\ DocumentsSound' /\ WorkIsKept' /\ Survive /\ StillOpen
        /\ Known' = Known /\ UNCHANGED <<disk, behind, job>>
        /\ \A w \in Window : doc'[w].closing = doc[w].closing
    BY <1>1, <1>2, <1>4, <1>5, <1>8, NewDesignKeeps DEF SessionUnchanged
  <2>2. Carries
    BY <1>1, <1>3, <1>4, <2>1, WaitingBelow, WritingKept DEF Carries, SessionInv, SessionUnchanged
  <2> QED
    BY <1>1, <1>3, <1>4, <1>6, <2>1, <2>2, LeftOn
<1> QED
  BY <1>7, <1>8 DEF ReopenEnds


LEMMA StartIsSame ==
  ASSUME SessionInv, SessionUnchanged,
         UNCHANGED <<listed, doc, recent, openingFiles, reopening>>,
         {returned', connected'} \subseteq BOOLEAN
  PROVE  Same
BY SessionIsPlain DEF SessionInv, SessionTypes, Same

\* A start, where it goes and what it calls, is sound anywhere.
LEMMA StartPlaces ==
  ASSUME SessionInv, stack # <<>>, Top.op = "start", Top.at # "writing",
         NEW at \in Places, at # "writing"
  PROVE  /\ At(at) \in CallType /\ At(at).op = "start" /\ At(at).at = at
         /\ At(at).content \in Known /\ Top.op \in FreeOps /\ stack \in Seq(CallType)
         /\ CallSound(At(at), doc, owed, Designs, Open, typing)
BY TopSound, AtFacts DEF CallSound, Committing, FreeOps

LEMMA StartGoes ==
  ASSUME SessionInv, Same, stack # <<>>, Top.op = "start", Top.at # "writing",
         NEW at \in Places, at # "writing", Goes(at)
  PROVE  SessionInv'
<1>1. Moves(At(at))
  BY TopSound, MovesTo
<1> QED
  BY <1>1, StartPlaces, MovedFreely

LEMMA StartCalls ==
  ASSUME SessionInv, Same, stack # <<>>, Top.op = "start", Top.at # "writing",
         NEW at \in {"opened", "first"}, NEW d, Fresh(d, doc), Calls(at, d)
  PROVE  SessionInv'
<1>1. at \in Places /\ at # "writing" /\ d \in CallType
  BY DEF Places, Fresh
<1>2. Enters(At(at), d)
  BY <1>1, TopSound, EntersFrom
<1>3. Waits(At(at))
  BY <1>1, StartPlaces DEF Waits
<1> QED
  BY <1>1, <1>2, <1>3, StartPlaces, EnteredFreely

LEMMA StartBeginsKeeps ==
  ASSUME SessionInv, StartBegins PROVE SessionInv'
<1>1. /\ stack # <<>> /\ Top.op = "start" /\ Top.at = "start" /\ SessionUnchanged
      /\ UNCHANGED <<returned, listed, doc, recent, connected, openingFiles, reopening>>
      /\ Calls("opened", FilesCall(Top.files, NoWindow))
  BY DEF StartBegins, Running
<1>2. Same
  BY <1>1, StartIsSame DEF SessionInv, SessionTypes
<1>3. Top.files \in Seq(File) /\ NoWindow \in Window \cup {NoWindow}
  BY <1>1, TopSound DEF CallType
<1>4. Fresh(FilesCall(Top.files, NoWindow), doc)
  BY <1>3, CallsWithFiles
<1> QED
  BY <1>1, <1>2, <1>4, StartCalls

LEMMA StartOpenedKeeps ==
  ASSUME SessionInv, StartOpened PROVE SessionInv'
<1>1. /\ stack # <<>> /\ Top.op = "start" /\ Top.at = "opened" /\ SessionUnchanged
      /\ UNCHANGED <<returned, listed, doc, recent, connected, openingFiles, reopening>>
      /\ Calls("first", ReopenCall) \/ Goes("first")
  BY DEF StartOpened, Running
<1>2. Same
  BY <1>1, StartIsSame DEF SessionInv, SessionTypes
<1>3. Fresh(ReopenCall, doc)
  BY OtherCalls
<1>4. "first" \in Places
  BY DEF Places
<1> QED
  BY <1>1, <1>2, <1>3, <1>4, StartCalls, StartGoes

LEMMA StartProblemsKeeps ==
  ASSUME SessionInv, StartProblems PROVE SessionInv'
<1>1. /\ stack # <<>> /\ Top.op = "start" /\ SessionUnchanged
      /\ Top.at \in {"first", "motorProblems", "databaseProblems"}
      /\ UNCHANGED <<returned, listed, doc, recent, connected, openingFiles, reopening>>
  BY DEF StartProblems, Running
<1>2. Same
  BY <1>1, StartIsSame DEF SessionInv, SessionTypes
<1>3. "shown" \in Places /\ "databaseProblems" \in Places
  BY DEF Places, Questions
<1>4. CASE Goes("shown") \/ Goes("databaseProblems")
  BY <1>1, <1>2, <1>3, <1>4, StartGoes
<1>5. ASSUME NEW at \in {"motorProblems", "databaseProblems"}, NEW c,
             c = [Top EXCEPT !.at = at, !.win = LastWindow], GoesWith(c)
      PROVE  SessionInv'
  <2>1. /\ Top \in CallType /\ Top.content \in Known /\ stack \in Seq(CallType)
        /\ LastWindow \in Window \cup {NoWindow}
    BY <1>1, TopSound, ListedFacts DEF SessionInv
  <2>2. c \in CallType /\ c.op = "start" /\ c.at = at /\ c.content = Top.content
    BY <1>1, <1>5, <2>1 DEF CallType, Places, Questions
  <2>3. Moves(c)
    BY <1>1, <1>5, <2>1, <2>2, MovesWith
  <2>4. CallSound(c, doc, owed, Designs, Open, typing)
    BY <2>2 DEF CallSound, Committing
  <2> QED
    BY <1>1, <1>2, <1>5, <2>1, <2>2, <2>3, <2>4, MovedFreely DEF FreeOps
<1>6. \/ Goes("shown") \/ Goes("databaseProblems")
      \/ \E at \in {"motorProblems", "databaseProblems"} :
           GoesWith([Top EXCEPT !.at = at, !.win = LastWindow])
  BY DEF StartProblems
<1> QED
  BY <1>4, <1>5, <1>6

LEMMA StartEndsKeeps ==
  ASSUME SessionInv, StartEnds PROVE SessionInv'
<1>1. /\ stack # <<>> /\ Top.op = "start" /\ Top.at = "shown" /\ SessionUnchanged
      /\ UNCHANGED <<listed, doc, recent, openingFiles, reopening>>
      /\ connected' = TRUE /\ Return(TRUE)
  BY DEF StartEnds, Running
<1>2. Leaves /\ returned' \in BOOLEAN
  BY <1>1, TopSound, ReturnLeaves
<1>3. Same
  BY <1>1, <1>2, StartIsSame
<1>4. Unlocked(Top)
  BY <1>1, FreeOfLocks DEF FreeOps
<1> QED
  BY <1>1, <1>2, <1>3, <1>4, LeftFreely

LEMMA SessionStepKeeps ==
  ASSUME SessionInv, SessionStep PROVE SessionInv'
BY FilesBeginKeeps, FilesEndKeeps, ReopenBeginsKeeps, ReopenEndsKeeps, StartBeginsKeeps,
   StartOpenedKeeps, StartProblemsKeeps, StartEndsKeeps DEF SessionStep

-----------------------------------------------------------------------------
(* The steps of a save that replace its file.                                *)

\* What a step of the file system's does to the designs: only the rename, which
\* is the last, puts the design of the save in the place of the old one.
LEMMA FileStepsKeep ==
  ASSUME FileInv, FileStep
  PROVE  /\ FileInv' /\ job'.target = job.target /\ job'.content = job.content
         /\ job.target \in File /\ job'.at # "idle"
         /\ \/ job'.at # "done" /\ Stores' = Stores
            \/ /\ job'.at = "done" /\ Stored(job.target)' = job.content
               /\ \A f \in File \ {job.target} : Stored(f)' = Stored(f)
<1>1. job \in Job /\ disk \in [Names -> Entry]
  BY DEF FileInv, FileTypeOK
<1>2. FileInv'
  BY InvNext DEF FileNext
<1>3. job.target \in File
  BY DEF FileStep, CreateTemporary, CopyPermissions, ClearReadOnly, Rename, RestoreReadOnly,
         RemoveTemporary, FileInv
<1>4. /\ job'.target = job.target /\ job'.content = job.content /\ job'.at # "idle"
      /\ ~Rename => job'.at # "done"
  <2>1. CASE CreateTemporary
    BY <1>1, <2>1, JobGoes DEF CreateTemporary, Job, Steps
  <2>2. CASE CopyPermissions \/ ClearReadOnly \/ RestoreReadOnly \/ RemoveTemporary
    <3>1. PICK s \in {"clear", "rename", "cleanup", "failed"} : GoesTo(s) \/ FailsAt(s)
      BY <2>2 DEF CopyPermissions, ClearReadOnly, RestoreReadOnly, RemoveTemporary
    <3>2. s \in Steps
      BY DEF Steps
    <3> QED
      BY <1>1, <3>1, <3>2, JobGoes
  <2>3. CASE Rename
    <3>1. PICK s \in {"done", "restore", "cleanup"} : GoesTo(s) \/ FailsAt(s)
      BY <2>3 DEF Rename
    <3>2. s \in Steps
      BY DEF Steps
    <3> QED
      BY <1>1, <2>3, <3>1, <3>2, JobGoes
  <2> QED
    BY <2>1, <2>2, <2>3 DEF FileStep
<1>5. CASE Rename
  <2>1. CASE ~UNCHANGED disk
    <3>1. /\ behind' = behind /\ job' = [job EXCEPT !.at = "done"]
          /\ disk'[job.target].kind = "file" /\ disk'[job.target].content = job.content
          /\ \A f \in File \ {job.target} : disk'[f] = disk[f]
      BY <1>5, <2>1, Renamed
    <3>2. job'.at = "done"
      BY <1>1, <3>1 DEF Job
    <3>3. Stored(job.target)' = job.content
      BY <1>4, <3>1 DEF Stored, Status
    <3>4. \A f \in File \ {job.target} : Stored(f)' = Stored(f)
      BY <3>1 DEF Stored, Status
    <3> QED
      BY <1>2, <1>3, <1>4, <3>2, <3>3, <3>4
  <2>2. CASE UNCHANGED disk
    <3>1. disk[job.temp].kind = "file" /\ job.temp \in TempName
      BY <1>5 DEF Rename, FileInv, Complete, WithTemporary
    <3>2. disk' # [disk EXCEPT ![job.target] = disk[job.temp], ![job.temp] = Absent]
      <4>1. disk'[job.temp].kind # Absent.kind
        BY <2>2, <3>1 DEF Absent
      <4>2. job.temp \in DOMAIN disk
        BY <1>1, <3>1, TemporaryIsNoTarget DEF Names
      <4> QED
        BY <4>1, <4>2
    <3>3. FailsAt(IF ClearsReadOnly THEN "restore" ELSE "cleanup")
      BY <1>5, <3>2 DEF Rename
    <3>4. job'.at # "done"
      BY <1>1, <3>3, JobGoes DEF Steps
    <3>5. Stores' = Stores
      BY <1>5, <2>2, StoresUnchanged DEF Rename
    <3> QED
      BY <1>2, <1>3, <1>4, <3>4, <3>5
  <2> QED
    BY <2>1, <2>2
<1>6. CASE ~Rename
  <2>1. Stores' = Stores
    BY <1>6, UntouchedSteps, UntouchedStores, AttributeStores DEF FileStep
  <2> QED
    BY <1>2, <1>3, <1>4, <1>6, <2>1
<1> QED
  BY <1>5, <1>6

\* What a save relies on outlives a quiet step.
LEMMA SaveSoundKept ==
  ASSUME Quiet, NEW c, SaveSound(c, doc, owed)
  PROVE  SaveSound(c, doc', owed')
<1>1. c.win \in Window /\ SameWork(doc[c.win], doc'[c.win]) /\ owed' \subseteq owed
  BY DEF SaveSound, Quiet
<1> QED
  BY <1>1 DEF SaveSound, SameWork

\* The save goes on with its file.
LEMMA WriteGoesOn ==
  ASSUME SessionInv, stack # <<>>, Top.op = "save", Top.at \notin {"save", "saveAs"},
         Quiet, FileInv', WritingSound', UNCHANGED running,
         UNCHANGED <<quitting, openingFiles, reopening>>,
         \A w \in Window : doc'[w].closing = doc[w].closing,
         NEW c, Moves(c), c.op = "save", c.win = Top.win, c.content \in Known,
         SaveSound(c, doc, owed)
  PROVE  SessionInv'
<1>1. Carries
  BY QuietTypes, QuietDocuments, QuietWork, QuietSurvives DEF SessionInv, Carries
<1>2. typing = NoTyping /\ typing' = typing
  BY TopSound DEF CallSound, Committing, Quiet
<1>3. CallSound(c, doc', owed', Designs', Open', typing')
  BY <1>2, SaveSoundKept DEF CallSound, Committing
<1>4. LockOf(c) = LockOf(Top) /\ ~Opens(c) /\ ~Opens(Top)
  BY FreeOfLocks DEF FreeOps, Unlocked
<1>5. Relocks(LockOf(c)) /\ openingFiles' = openingFiles
  BY <1>4, LocksSame
<1> QED
  BY <1>1, <1>3, <1>4, <1>5, MovedOn

\* The variables that the file steps of a save leave alone.
LEMMA WriteIsQuiet ==
  ASSUME SessionInv, WriteUnchanged, UNCHANGED sessionVars, owed' \subseteq owed,
         Designs \cap owed' \subseteq Designs', DOMAIN doc' = Window,
         \A w \in Window : IsDocument(doc'[w]) /\ SameWork(doc[w], doc'[w])
  PROVE  /\ Quiet /\ UNCHANGED running /\ UNCHANGED <<quitting, openingFiles, reopening>>
         /\ Known' = Known
BY DEF WriteUnchanged, sessionVars, Quiet, SessionInv, SessionTypes, Known

LEMMA SameDocuments ==
  ASSUME SessionInv, UNCHANGED doc
  PROVE  /\ DOMAIN doc' = Window
         /\ \A w \in Window : IsDocument(doc'[w]) /\ SameWork(doc[w], doc'[w])
         /\ \A w \in Window : doc'[w].closing = doc[w].closing
BY DEF SessionInv, SessionTypes, SameWork

\* A change of the images of one document.
LEMMA ImagesChange ==
  ASSUME SessionInv, NEW w \in Window, NEW images,
         \/ doc' = [doc EXCEPT ![w].ignored = images]
         \/ doc' = [doc EXCEPT ![w].lost = images]
  PROVE  /\ DOMAIN doc' = Window
         /\ \A v \in Window : IsDocument(doc'[v]) /\ SameWork(doc[v], doc'[v])
         /\ \A v \in Window : doc'[v].closing = doc[v].closing
<1>1. DOMAIN doc = Window /\ \A v \in Window : IsDocument(doc[v])
  BY DEF SessionInv, SessionTypes
<1>2. DOMAIN doc' = Window /\ \A v \in Window \ {w} : doc'[v] = doc[v]
  BY <1>1
<1> DEFINE d == doc[w]
<1>3. doc'[w] = [d EXCEPT !.ignored = images] \/ doc'[w] = [d EXCEPT !.lost = images]
  BY <1>1
<1>4. IsDocument(d)
  BY <1>1
<1> HIDE DEF d
<1>5. /\ DOMAIN doc'[w] = DOMAIN d
      /\ \A field \in DOMAIN d \ {"ignored", "lost"} : doc'[w][field] = d[field]
  BY <1>3
<1>6. /\ doc'[w].alive = d.alive /\ doc'[w].content = d.content /\ doc'[w].saved = d.saved
      /\ doc'[w].file = d.file /\ doc'[w].base = d.base
      /\ doc'[w].replaceable = d.replaceable /\ doc'[w].closing = d.closing
  BY <1>4, <1>5 DEF IsDocument, Fields
<1>7. IsDocument(doc'[w]) /\ SameWork(d, doc'[w]) /\ doc'[w].closing = d.closing
  BY <1>4, <1>5, <1>6 DEF IsDocument, SameWork
<1> QED
  BY <1>1, <1>2, <1>7 DEF d, SameWork

LEMMA WriteBeginsKeeps ==
  ASSUME SessionInv, WriteBegins, UNCHANGED sessionVars PROVE SessionInv'
<1>1. /\ stack # <<>> /\ Top.op = "save" /\ Top.at = "write"
      /\ Begin(Top.file) /\ Goes("writing") /\ UNCHANGED <<doc, owed>> /\ WriteUnchanged
  BY DEF WriteBegins, Running
<1>2. Top.file \in File /\ SaveSound(Top, doc, owed)
  BY <1>1, TopSound DEF SaveSound
<1>3. FileInv'
  BY <1>1, <1>2, InvNext DEF SessionInv, FileNext
<1>4. UNCHANGED <<disk, behind>>
  BY <1>1 DEF Begin
<1>5. Designs' = Designs
  BY <1>4, SameDesigns
<1>6. Quiet /\ UNCHANGED running /\ UNCHANGED <<quitting, openingFiles, reopening>>
      /\ Known' = Known
  BY <1>1, <1>5, SameDocuments, WriteIsQuiet
<1>7. "writing" \in Places
  BY DEF Places
<1> DEFINE c == At("writing")
<1>8. Moves(c) /\ c.at = "writing" /\ c.op = "save" /\ c.win = Top.win /\ c.file = Top.file
      /\ c.content = Top.content /\ c.agreed = Top.agreed /\ c.content \in Known
  BY <1>1, <1>7, TopSound, MovesTo, AtFacts
<1> HIDE DEF c
<1>9. SaveSound(c, doc, owed)
  BY <1>1, <1>2, <1>8 DEF SaveSound
<1>10. Top' = c /\ stack' # <<>>
  BY <1>8, StackTop DEF Moves, Top
<1>11. job'.at = "begun" /\ job'.target = Top.file /\ job'.content = Nothing
  BY <1>1 DEF Begin, Idle
<1>12. WritingSound'
  BY <1>5, <1>6, <1>8, <1>10, <1>11 DEF WritingSound, SessionInv, Running
<1> QED
  BY <1>1, <1>3, <1>6, <1>8, <1>9, <1>12, SameDocuments, WriteGoesOn

\* What holds while a save writes its file.
LEMMA WritingFacts ==
  ASSUME SessionInv, Running("save", "writing")
  PROVE  /\ stack # <<>> /\ Top.op = "save" /\ Top.at = "writing" /\ Top.win \in Window
         /\ Top \in CallType /\ Top.content \in Known /\ Top.file \in File
         /\ SaveSound(Top, doc, owed) /\ doc[Top.win].alive
         /\ doc[Top.win].content \in 0 .. work /\ doc[Top.win].content \in Content
         /\ job.at # "idle" /\ job.target = Top.file
         /\ job.content # Nothing => job.content = doc[Top.win].content
         /\ job.at = "done" => Stored(job.target) = job.content
         /\ job.content \in Known /\ Designs \subseteq Known /\ typing = NoTyping
<1>1. stack # <<>> /\ Top.op = "save" /\ Top.at = "writing"
  BY DEF Running
<1>2. /\ Top \in CallType /\ Top.content \in Known /\ SaveSound(Top, doc, owed)
      /\ Top.win \in Window /\ CallSound(Top, doc, owed, Designs, Open, typing)
  BY <1>1, TopSound
<1>3. doc[Top.win].alive /\ Top.file \in File /\ typing = NoTyping
  BY <1>1, <1>2 DEF SaveSound, CallSound, Committing
<1>4. doc[Top.win].content \in 0 .. work /\ 0 .. work \subseteq Content
  BY <1>2, <1>3, WorkFacts DEF SessionInv, DocumentsSound, SessionTypes, IsDocument, Known, Alive
<1>5. /\ job.at # "idle" /\ job.target = Top.file
      /\ job.content # Nothing => job.content = doc[Top.win].content
      /\ job.at = "done" => Stored(job.target) = job.content
      /\ Designs \subseteq Known
  BY DEF SessionInv, WritingSound
<1> QED
  BY <1>1, <1>2, <1>3, <1>4, <1>5 DEF Known

\* A step within the write, that leaves the call where it is.
LEMMA WritingGoesOn ==
  ASSUME SessionInv, Running("save", "writing"), WriteUnchanged, UNCHANGED sessionVars,
         FileInv', owed' \subseteq owed, Designs \cap owed' \subseteq Designs',
         Designs' \subseteq Known, DOMAIN doc' = Window,
         \A w \in Window : /\ IsDocument(doc'[w]) /\ SameWork(doc[w], doc'[w])
                           /\ doc'[w].closing = doc[w].closing,
         NEW c \in CallType, (stack' = stack /\ c = Top) \/ GoesWith(c),
         c.op = "save", c.at = "writing", c.win = Top.win, c.file = Top.file,
         c.content = Top.content, c.agreed = Top.agreed,
         job'.at # "idle", job'.target = job.target,
         job'.content # Nothing => job'.content = doc[Top.win].content,
         job'.at = "done" => Stored(job.target)' = job'.content
  PROVE  SessionInv'
<1>1. /\ stack # <<>> /\ Top.op = "save" /\ Top.at = "writing" /\ Top.win \in Window
      /\ Top.content \in Known /\ SaveSound(Top, doc, owed) /\ job.target = Top.file
      /\ stack \in Seq(CallType)
  BY WritingFacts, TopSound
<1>2. Moves(c)
  <2>1. CASE stack' = stack /\ c = Top
    BY <1>1, <2>1, StackTop DEF Moves, SameBelow
  <2>2. CASE GoesWith(c)
    BY <1>1, <2>2, MovesWith
  <2> QED
    BY <2>1, <2>2
<1>3. Quiet /\ UNCHANGED running /\ UNCHANGED <<quitting, openingFiles, reopening>>
      /\ Known' = Known
  BY WriteIsQuiet
<1>4. SaveSound(c, doc, owed)
  BY <1>1 DEF SaveSound
<1>5. Top' = c /\ stack' # <<>>
  BY <1>1, <1>2, StackTop DEF Moves, Top
<1>6. doc'[Top.win].content = doc[Top.win].content
  BY <1>1 DEF SameWork
<1>7. WritingSound'
  <2>1. Running("save", "writing")'
    BY <1>5 DEF Running
  <2>2. (Top').file = job'.target /\ (Top').win = Top.win
    BY <1>1, <1>5
  <2> QED
    BY <1>3, <1>6, <2>1, <2>2 DEF WritingSound
<1> QED
  BY <1>1, <1>2, <1>3, <1>4, <1>7, WriteGoesOn

\* The archive is the design of the document, which no question of the save's
\* has let anybody change.
LEMMA ArchiveKeeps ==
  ASSUME SessionInv, Archive, UNCHANGED sessionVars PROVE SessionInv'
<1> DEFINE w == Top.win
<1>1. /\ Running("save", "writing") /\ UNCHANGED owed /\ WriteUnchanged
      /\ \E n \in Reached(w) :
           /\ TurnsTaken(w, n)
           /\ \/ Write(doc[w].content) /\ UNCHANGED stack
              \/ /\ n + 1 \in Unfound(w) /\ ContentsFail("missing")
                 /\ GoesWith([Top EXCEPT !.decal = Decals[n + 1]])
              \/ ContentsFail("io") /\ UNCHANGED stack
  BY DEF Archive
<1>2. /\ stack # <<>> /\ w \in Window /\ Top \in CallType /\ Top.op = "save"
      /\ Top.at = "writing" /\ doc[w].content \in Content /\ Designs \subseteq Known
      /\ doc[w].content # Nothing
  BY <1>1, WritingFacts, NothingIsNoContent
<1>3. PICK n \in Reached(w) :
        /\ TurnsTaken(w, n)
        /\ \/ Write(doc[w].content) /\ UNCHANGED stack
           \/ /\ n + 1 \in Unfound(w) /\ ContentsFail("missing")
              /\ GoesWith([Top EXCEPT !.decal = Decals[n + 1]])
           \/ ContentsFail("io") /\ UNCHANGED stack
  BY <1>1
<1>4. /\ DOMAIN doc' = Window
      /\ \A v \in Window : IsDocument(doc'[v]) /\ SameWork(doc[v], doc'[v])
      /\ \A v \in Window : doc'[v].closing = doc[v].closing
  <2> DEFINE images == doc[w].ignored \ {Decals[i] : i \in 1 .. n}
  <2>1. doc' = [doc EXCEPT ![w].ignored = images]
    BY <1>3 DEF TurnsTaken
  <2> HIDE DEF images, w
  <2> QED
    BY <1>2, <2>1, ImagesChange
<1>5. \/ Write(doc[w].content)
      \/ \E e \in {"missing", "io"} : ContentsFail(e)
  BY <1>3
<1>6. FileInv' /\ Untouched
  <2>1. {"missing", "io"} = Errors \ {"none"}
    BY DEF Errors
  <2> QED
    BY <1>2, <1>5, <2>1, InvNext, UntouchedSteps DEF SessionInv, FileNext
<1>7. Designs' = Designs
  BY <1>6, SameDesigns
<1>8. /\ job'.target = job.target /\ job'.at \in {"written", "cleanup"}
      /\ job'.content # Nothing => job'.content = doc[w].content
  <2>1. job \in Job
    BY DEF SessionInv, FileInv, FileTypeOK
  <2>2. CASE Write(doc[w].content)
    <3>1. job.content = Nothing
      BY <2>2 DEF Write, SessionInv, FileInv
    <3> QED
      BY <2>1, <2>2, <3>1 DEF Write, FailsAt, Job
  <2>3. ASSUME NEW e \in {"missing", "io"}, ContentsFail(e)
        PROVE  /\ job'.target = job.target /\ job'.at = "cleanup"
               /\ job'.content = Nothing
    <3>1. job.content = Nothing
      BY <2>3 DEF ContentsFail, SessionInv, FileInv
    <3> QED
      BY <2>1, <2>3, <3>1 DEF ContentsFail, Job
  <2> QED
    BY <1>5, <2>2, <2>3
<1>9. PICK c \in CallType :
        /\ (stack' = stack /\ c = Top) \/ GoesWith(c)
        /\ c.op = "save" /\ c.at = "writing" /\ c.win = Top.win /\ c.file = Top.file
        /\ c.content = Top.content /\ c.agreed = Top.agreed
  <2>1. CASE UNCHANGED stack
    BY <1>2, <2>1
  <2>2. CASE n + 1 \in Unfound(w) /\ GoesWith([Top EXCEPT !.decal = Decals[n + 1]])
    <3> DEFINE decal == Decals[n + 1]
               c == [Top EXCEPT !.decal = decal]
    <3>1. decal \in Missing
      BY <2>2 DEF Unfound, Missing, ToSet
    <3>2. GoesWith(c)
      BY <2>2
    <3> HIDE DEF decal
    <3>3. /\ c \in CallType /\ c.op = "save" /\ c.at = "writing" /\ c.win = Top.win
          /\ c.file = Top.file /\ c.content = Top.content /\ c.agreed = Top.agreed
      BY <1>2, <3>1 DEF CallType
    <3> QED
      BY <3>2, <3>3
  <2> QED
    BY <1>3, <2>1, <2>2
<1> HIDE DEF w
<1>10. owed' \subseteq owed /\ Designs \cap owed' \subseteq Designs' /\ Designs' \subseteq Known
  BY <1>1, <1>2, <1>7
<1>11. job'.content # Nothing => job'.content = doc[Top.win].content
  BY <1>8 DEF w
<1>12. job'.at # "idle" /\ job'.at # "done"
  BY <1>8
<1> QED
  BY <1>1, <1>4, <1>6, <1>8, <1>9, <1>10, <1>11, <1>12, WritingGoesOn

\* What the rename replaces is lost by the user's leave, or was not known to
\* this save; or it is the design that the save puts in its place.
LEMMA FileProceedsKeeps ==
  ASSUME SessionInv, FileProceeds, UNCHANGED sessionVars PROVE SessionInv'
<1> DEFINE old == Stored(job.target)
           w == Top.win
<1>1. /\ Running("save", "writing") /\ FileStep /\ UNCHANGED <<doc, stack>> /\ WriteUnchanged
      /\ IF job'.at = "done" /\ (Top.agreed \/ old # Top.content)
         THEN owed' = owed \ ({old} \ {job.content}) ELSE owed' = owed
  BY DEF FileProceeds, Lose
<1>2. /\ stack # <<>> /\ w \in Window /\ Top \in CallType /\ Top.op = "save"
      /\ Top.at = "writing" /\ SaveSound(Top, doc, owed) /\ doc[w].alive
      /\ job.content # Nothing => job.content = doc[w].content
      /\ job.content \in Known /\ Designs \subseteq Known /\ Nothing \notin owed
  BY <1>1, WritingFacts, WorkFacts DEF SessionInv
<1>3. /\ FileInv' /\ job'.target = job.target /\ job'.content = job.content
      /\ job.target \in File /\ job'.at # "idle"
      /\ \/ job'.at # "done" /\ Stores' = Stores
         \/ /\ job'.at = "done" /\ Stored(job.target)' = job.content
            /\ \A f \in File \ {job.target} : Stored(f)' = Stored(f)
  BY <1>1, FileStepsKeep DEF SessionInv
<1>4. job'.at = "done" => job.content # Nothing
  <2>1. FileInv'
    BY <1>3
  <2>2. job'.at = "done" => job'.content \in Content
    BY <2>1 DEF FileInv
  <2> QED
    BY <1>3, <2>2, NothingIsNoContent
<1>5. owed' \subseteq owed
  BY <1>1
<1> HIDE DEF old, w
<1>6. /\ Designs \cap owed' \subseteq Designs' /\ Designs' \subseteq Known
      /\ job'.at = "done" => Stored(job.target)' = job'.content
  <2>1. CASE Stores' = Stores /\ job'.at # "done"
    <3>1. Designs' = Designs
      BY <2>1, SameDesigns
    <3> QED
      BY <1>2, <2>1, <3>1
  <2>2. CASE /\ job'.at = "done" /\ Stored(job.target)' = job.content
             /\ \A f \in File \ {job.target} : Stored(f)' = Stored(f)
    <3>1. \A f \in File : Stored(f)' \in {Stored(f), job.content}
      BY <1>3, <2>2
    <3>2. Designs' \subseteq Designs \cup {job.content}
      BY <3>1 DEF Designs
    <3>3. \A f \in File \ {job.target} : Stored(f) \in Designs'
      BY <2>2 DEF Designs
    <3>4. job.content \in Designs'
      BY <1>3, <2>2 DEF Designs
    <3>5. old \in owed' => old = job.content
      <4> SUFFICES ASSUME old \in owed', old # job.content PROVE FALSE
        OBVIOUS
      <4>1. ~Top.agreed /\ old = Top.content /\ old \in owed
        BY <1>1, <2>2
      <4>2. doc[w].content = Top.content
        BY <1>2, <4>1 DEF SaveSound, w
      <4> QED
        BY <1>2, <1>4, <2>2, <4>1, <4>2
    <3>6. Designs \cap owed' \subseteq Designs'
      BY <3>3, <3>4, <3>5 DEF Designs, old
    <3> QED
      BY <1>2, <1>3, <2>2, <3>2, <3>6
  <2> QED
    BY <1>3, <2>1, <2>2
<1>7. /\ DOMAIN doc' = Window
      /\ \A v \in Window : /\ IsDocument(doc'[v]) /\ SameWork(doc[v], doc'[v])
                           /\ doc'[v].closing = doc[v].closing
  BY <1>1, SameDocuments
<1>8. job'.content # Nothing => job'.content = doc[Top.win].content
  BY <1>2, <1>3 DEF w
<1>9. stack' = stack /\ Top = Top
  BY <1>1
<1> QED
  BY <1>1, <1>2, <1>3, <1>5, <1>6, <1>7, <1>8, <1>9, WritingGoesOn

\* The file is there: its document is saved.
LEMMA WriteSucceedsKeeps ==
  ASSUME SessionInv, WriteSucceeds, UNCHANGED sessionVars PROVE SessionInv'
<1> DEFINE w == Top.win
           d == doc[w]
           f == Top.file
           b == job.content
<1>1. /\ Running("save", "writing") /\ job.at = "done" /\ Returned /\ UNCHANGED owed
      /\ WriteUnchanged
      /\ doc' = [doc EXCEPT ![w].file = f, ![w].base = b, ![w].saved = TRUE]
      /\ \E at \in {"saveWarnings", "saved"} : Goes(at)
  BY DEF WriteSucceeds
<1>2. /\ stack # <<>> /\ w \in Window /\ f \in File /\ Top.op = "save"
      /\ Top.at = "writing" /\ d.alive /\ typing = NoTyping /\ b \in Known
      /\ Stored(job.target) = b /\ job.target = f
      /\ b # Nothing => b = d.content
  BY <1>1, WritingFacts
<1>3. b # Nothing
  BY <1>1, NothingIsNoContent DEF SessionInv, FileInv
<1>4. d.content = b /\ b \in Designs
  BY <1>2, <1>3 DEF Designs
<1>0. SessionTypes /\ DocumentsSound /\ WorkIsKept /\ StackSound
  BY DEF SessionInv
<1>5. DOMAIN doc = Window /\ \A v \in Window : IsDocument(doc[v])
  BY <1>0 DEF SessionTypes
<1> HIDE DEF w, f, b
<1>6. /\ DOMAIN doc' = Window /\ \A v \in Window \ {w} : doc'[v] = doc[v]
      /\ doc'[w] = [d EXCEPT !.file = f, !.base = b, !.saved = TRUE]
  BY <1>1, <1>2, <1>5
<1>7. IsDocument(d)
  BY <1>2, <1>5
<1> HIDE DEF d
<1>8. /\ IsDocument(doc'[w]) /\ doc'[w].content = d.content /\ doc'[w].alive = d.alive
      /\ doc'[w].base = b /\ doc'[w].saved = TRUE /\ doc'[w].closing = d.closing
  BY <1>2, <1>6, <1>7 DEF IsDocument, Fields
<1>9. \A v \in Window : /\ IsDocument(doc'[v]) /\ doc'[v].content = doc[v].content
                        /\ doc'[v].alive = doc[v].alive /\ doc'[v].closing = doc[v].closing
                        /\ (doc'[v].saved => doc[v].saved \/ v = w)
                        /\ (doc[v].saved => doc'[v].saved)
                        /\ doc'[v].base \in {doc[v].base, doc'[v].content}
  BY <1>4, <1>5, <1>6, <1>8 DEF d
<1>10. /\ UNCHANGED <<disk, behind, settings, listed, typing, work, owed, leaving, running>>
       /\ UNCHANGED <<quitting, openingFiles, reopening, returned, recent, connected>>
  BY <1>1 DEF Returned, WriteUnchanged, sessionVars
<1>11. Designs' = Designs /\ Known' = Known /\ Open' = Open
       /\ (\A g \in File : Stored(g)' = Stored(g)) /\ \A v : IsListed(v)' <=> IsListed(v)
  BY <1>10, SameDesigns DEF Known, Open, IsListed
<1>12. FileInv'
  BY <1>1, InvNext DEF SessionInv, FileNext
<1>13. SessionTypes'
  <2>1. \A v \in Window : IsDocument(doc[v])'
    BY <1>9, <1>11 DEF IsDocument
  <2> QED
    BY <1>0, <1>6, <1>10, <1>11, <2>1 DEF SessionTypes
<1>14. DocumentsSound'
  <2>1. ASSUME NEW v \in Window
        PROVE  /\ Alive(v)' => doc'[v].content # Nothing
               /\ IsListed(v)' => Alive(v)'
               /\ doc'[v].saved => IsSafe(doc'[v].content, owed', Designs')
               /\ doc'[v].base \in owed' => doc'[v].content = doc'[v].base
               /\ leaving' => (IsListed(v)' => doc'[v].saved)
    <3>1. doc'[v].saved => IsSafe(doc'[v].content, owed', Designs')
      <4>1. CASE v = w
        BY <1>4, <1>8, <1>11, <4>1 DEF IsSafe
      <4>2. CASE v # w
        BY <1>0, <1>9, <1>10, <1>11, <4>2 DEF DocumentsSound, IsSafe
      <4> QED
        BY <4>1, <4>2
    <3> QED
      BY <1>0, <1>9, <1>10, <1>11, <3>1 DEF DocumentsSound, Alive
  <2> QED
    BY <1>0, <1>10, <2>1 DEF DocumentsSound
<1>15. WorkIsKept'
  BY <1>0, <1>9, <1>10, <1>11 DEF WorkIsKept
<1>16. Survive /\ StillOpen
  <2>1. \A v \in Window : WindowSurvives(v)
    BY <1>9 DEF WindowSurvives
  <2> QED
    BY <1>0, <1>10, <1>11, <2>1, SameOpen DEF Survive
<1>17. PICK at \in {"saveWarnings", "saved"} : Goes(at)
  BY <1>1
<1>18. at \in Places
  BY DEF Places, Questions
<1> DEFINE c == At(at)
<1>19. /\ Moves(c) /\ c.at = at /\ c.op = "save" /\ c.win = w /\ c.file = f /\ c.content \in Known
  BY <1>2, <1>17, <1>18, TopSound, MovesTo, AtFacts DEF w, f
<1> HIDE DEF c
<1>20. CallSound(c, doc', owed', Designs', Open', typing')
  <2>1. SaveSound(c, doc', owed')
    BY <1>2, <1>8, <1>17, <1>19 DEF SaveSound
  <2> QED
    BY <1>2, <1>10, <1>19, <2>1 DEF CallSound
<1>21. WritingSound'
  <2>1. ~Running("save", "writing")'
    BY <1>17, <1>19 DEF Running, Top, Moves
  <2>2. job'.at = "idle"
    BY <1>1 DEF Returned, Idle
  <2>3. Designs \subseteq Known
    BY DEF SessionInv, WritingSound
  <2> QED
    BY <1>11, <2>1, <2>2, <2>3 DEF WritingSound
<1>22. Carries
  BY <1>10, <1>12, <1>13, <1>14, <1>15, <1>16, <1>21 DEF Carries
<1>23. LockOf(c) = LockOf(Top) /\ ~Opens(c) /\ ~Opens(Top)
  BY <1>2, <1>19, FreeOfLocks DEF FreeOps, Unlocked
<1>24. Relocks(LockOf(c)) /\ openingFiles' = openingFiles
  BY <1>2, <1>9, <1>10, <1>23, LocksSame
<1> QED
  BY <1>2, <1>19, <1>20, <1>22, <1>23, <1>24, MovedOn DEF w

LEMMA WriteFailsKeeps ==
  ASSUME SessionInv, WriteFails, UNCHANGED sessionVars PROVE SessionInv'
<1>1. /\ Running("save", "writing") /\ Returned /\ UNCHANGED <<doc, owed>> /\ WriteUnchanged
      /\ \E at \in {"decalFile", "saveFailed"} : Goes(at)
  BY DEF WriteFails
<1>2. /\ stack # <<>> /\ Top.op = "save" /\ Top.at = "writing" /\ Top.file \in File
      /\ SaveSound(Top, doc, owed) /\ Designs \subseteq Known
  BY <1>1, WritingFacts
<1>3. FileInv' /\ UNCHANGED <<disk, behind>> /\ job'.at = "idle"
  BY <1>1, InvNext DEF SessionInv, FileNext, Returned, Idle
<1>4. Designs' = Designs
  BY <1>3, SameDesigns
<1>5. Quiet /\ UNCHANGED running /\ UNCHANGED <<quitting, openingFiles, reopening>>
      /\ Known' = Known
  BY <1>1, <1>4, SameDocuments, WriteIsQuiet
<1>6. PICK at \in {"decalFile", "saveFailed"} : Goes(at)
  BY <1>1
<1>7. at \in Places
  BY DEF Places, Questions
<1> DEFINE c == At(at)
<1>8. /\ Moves(c) /\ c.at = at /\ c.op = "save" /\ c.win = Top.win /\ c.file = Top.file
      /\ c.content = Top.content /\ c.agreed = Top.agreed /\ c.content \in Known
  BY <1>2, <1>6, <1>7, TopSound, MovesTo, AtFacts
<1> HIDE DEF c
<1>9. SaveSound(c, doc, owed)
  BY <1>2, <1>6, <1>8 DEF SaveSound
<1>10. WritingSound'
  <2>1. ~Running("save", "writing")'
    BY <1>6, <1>8 DEF Running, Top, Moves
  <2> QED
    BY <1>2, <1>3, <1>4, <1>5, <2>1 DEF WritingSound
<1> QED
  BY <1>1, <1>2, <1>3, <1>5, <1>8, <1>9, <1>10, SameDocuments, WriteGoesOn

LEMMA DecalFileAnsweredKeeps ==
  ASSUME SessionInv, DecalFileAnswered, UNCHANGED sessionVars PROVE SessionInv'
<1>1. stack # <<>> /\ Top.op = "save" /\ Top.at = "decalFile" /\ UNCHANGED <<typing, owed>>
      /\ SaveUnchanged
  BY DEF DecalFileAnswered, Running
<1>2. Top.win \in Window /\ SaveSound(Top, doc, owed)
  BY <1>1, TopSound
<1>3. CASE Return(FALSE) /\ UNCHANGED doc
  BY <1>1, <1>3, SaveGivesUp
<1>4. ASSUME doc[Top.win].alive, Goes("write"), UNCHANGED returned, NEW images,
             \/ doc' = [doc EXCEPT ![Top.win].ignored = images]
             \/ doc' = [doc EXCEPT ![Top.win].lost = images]
      PROVE  SessionInv'
  <2>1. /\ DOMAIN doc' = Window
        /\ \A v \in Window : IsDocument(doc'[v]) /\ SameWork(doc[v], doc'[v])
        /\ \A v \in Window : doc'[v].closing = doc[v].closing
    BY <1>2, <1>4, ImagesChange
  <2>2. UNCHANGED fileVars /\ UNCHANGED <<disk, behind, job>> /\ WriteUnchanged
    BY <1>1, <1>4 DEF SaveUnchanged, WriteUnchanged, fileVars
  <2>3. FileInv' /\ Designs' = Designs
    BY <2>2, InvNext, SameDesigns DEF SessionInv
  <2>4. Quiet /\ UNCHANGED running /\ UNCHANGED <<quitting, openingFiles, reopening>>
        /\ Known' = Known
    BY <1>1, <2>1, <2>2, <2>3, WriteIsQuiet
  <2>5. "write" \in Places
    BY DEF Places
  <2> DEFINE c == At("write")
  <2>6. /\ Moves(c) /\ c.at = "write" /\ c.op = "save" /\ c.win = Top.win /\ c.file = Top.file
        /\ c.content = Top.content /\ c.agreed = Top.agreed /\ c.content \in Known
    BY <1>1, <1>4, <2>5, TopSound, MovesTo, AtFacts
  <2> HIDE DEF c
  <2>7. SaveSound(c, doc, owed)
    BY <1>1, <1>2, <1>4, <2>6 DEF SaveSound
  <2>8. ~Running("save", "writing") /\ ~Running("save", "writing")'
    BY <1>1, <2>6 DEF Running, Top, Moves
  <2>9. WritingSound'
    BY <2>2, <2>4, <2>8, WritingKept DEF SessionInv
  <2> QED
    BY <1>1, <2>1, <2>3, <2>4, <2>6, <2>7, <2>9, WriteGoesOn
<1>5. CASE /\ Alive(Top.win) /\ LeaveOut(Top.win, Top.decal) /\ Goes("write")
           /\ UNCHANGED returned
  BY <1>4, <1>5 DEF LeaveOut, Alive
<1>6. CASE /\ CanAnswer /\ Goes("write") /\ UNCHANGED returned
           /\ doc' = [doc EXCEPT ![Top.win].lost = @ \ {Top.decal}]
  BY <1>2, <1>4, <1>6, AliveAnswer
<1> QED
  BY <1>3, <1>5, <1>6 DEF DecalFileAnswered

LEMMA SaveProceedsKeeps ==
  ASSUME SessionInv, SaveProceeds PROVE SessionInv'
BY SaveBeginsKeeps, SaveAsBeginsKeeps, DesignInfoClosesKeeps, SaveFileChosenKeeps,
   OverwriteAnsweredKeeps, StorageOptionsKeep, WriteBeginsKeeps, ArchiveKeeps,
   FileProceedsKeeps, WriteSucceedsKeeps, WriteFailsKeeps, DecalFileAnsweredKeeps,
   SaveFailedClosesKeeps, SaveEndsKeeps
DEF SaveProceeds, SaveStep

LEMMA ProceedsKeeps ==
  ASSUME SessionInv, Proceeds PROVE SessionInv'
BY SaveProceedsKeeps, CloseStepKeeps, QuitStepKeeps, OpenStepKeeps, SessionStepKeeps
DEF Proceeds

-----------------------------------------------------------------------------
(* Calls that a request, the user or the start makes.                        *)

\* The first call of a stack, or none: nothing is locked.
LEMMA StartsSound ==
  ASSUME SessionInv, stack = <<>>, NEW d, Starts(d), Fresh(d, doc'), running',
         \A w \in Window : doc'[w].closing = doc[w].closing,
         UNCHANGED <<reopening, quitting, openingFiles>>
  PROVE  StackSound' /\ LocksFollow' /\ OpeningFollows' /\ ~Running("save", "writing")'
<1>1. /\ stack' \in Seq(CallType) /\ Len(stack') = 1 /\ stack'[1] = d /\ stack' # <<>>
      /\ Top' = d
  <2>1. stack' \in Seq(CallType) /\ Len(stack') = 1 /\ stack'[1] = d
    BY DEF Starts
  <2>2. stack' # <<>>
    <3> SUFFICES ASSUME stack' = <<>> PROVE FALSE
      OBVIOUS
    <3>1. Len(<<>>) = 1
      BY <2>1
    <3> QED
      BY <3>1
  <2>3. Top' = d
    BY <2>1 DEF Top
  <2> QED
    BY <2>1, <2>2, <2>3
<1>2. /\ CallSound(d, doc', owed', Designs', Open', typing') /\ d.content \in Known'
      /\ LockOf(d) = NoLock /\ ~Opens(d) /\ d.at \notin {"saved", "writing"}
  BY FreshSound
<1>3. \A i : i \in 1 .. Len(stack') <=> i = 1
  BY <1>1
<1>4. 1 .. Len(stack') - 1 = {}
  BY <1>1
<1>5. StackSound'
  BY <1>1, <1>2, <1>3, <1>4 DEF StackSound, Running
<1>6. Len(stack) = 0 /\ 1 .. Len(stack) = {}
  OBVIOUS
<1>7. Held' = Held /\ Held = {}
  BY <1>6, HeldKept DEF SessionInv, LocksFollow
<1>8. LocksFollow'
  BY <1>1, <1>2, <1>3, <1>7 DEF LocksFollow
<1>9. ~openingFiles
  BY <1>6 DEF SessionInv, OpeningFollows
<1>10. OpeningFollows'
  BY <1>1, <1>2, <1>3, <1>9 DEF OpeningFollows
<1> QED
  BY <1>1, <1>2, <1>5, <1>8, <1>10 DEF Running

LEMMA IdleSound ==
  ASSUME SessionInv, stack = <<>>, stack' = <<>>,
         \A w \in Window : doc'[w].closing = doc[w].closing,
         UNCHANGED <<reopening, quitting, openingFiles>>
  PROVE  /\ StackSound' /\ LocksFollow' /\ OpeningFollows'
         /\ ~Running("save", "writing") /\ ~Running("save", "writing")'
<1>1. Len(stack) = 0 /\ 1 .. Len(stack) = {} /\ 1 .. Len(stack) - 1 = {} /\ stack' = stack
      /\ stack' \in Seq(CallType)
  OBVIOUS
<1>2. StackSound'
  BY <1>1 DEF StackSound, Running
<1>3. Held' = Held
  BY HeldKept
<1>4. LocksFollow' /\ OpeningFollows'
  BY <1>1, <1>3 DEF SessionInv, LocksFollow, OpeningFollows
<1> QED
  BY <1>1, <1>2, <1>4 DEF Running

\* A call above the question that is asked, or of the event loop of main().
LEMMA Pushed ==
  ASSUME SessionInv, Same, running, InEventLoop, NEW d, Fresh(d, doc), Push(d)
  PROVE  SessionInv'
<1>1. stack \in Seq(CallType) /\ d \in CallType
  BY DEF SessionInv, StackSound, Fresh
<1>2. CASE stack # <<>>
  <2>1. Enters(Top, d)
    BY <1>1, <1>2, Pushes
  <2>2. Asks(Top) /\ Waits(Top) /\ Top.at \notin {"saved", "writing"}
    BY <1>2 DEF InEventLoop, Waits, Asks, Questions
  <2>3. CallSound(Top, doc, owed, Designs, Open, typing) /\ Top.content \in Known
    BY <1>2, TopSound
  <2>4. Relocks(LockOf(Top)) /\ openingFiles' = openingFiles
    BY <1>2, SameLocks
  <2> QED
    BY <2>1, <2>2, <2>3, <2>4, Entered DEF Running, Same
<1>3. CASE stack = <<>>
  <2>1. Starts(d)
    BY <1>1, <1>3, Pushes
  <2>2. doc' = doc /\ running' /\ UNCHANGED <<reopening, quitting, openingFiles>>
    BY DEF Same, Plain
  <2>3. StackSound' /\ LocksFollow' /\ OpeningFollows' /\ ~Running("save", "writing")'
    BY <1>3, <2>1, <2>2, StartsSound
  <2>4. ~Running("save", "writing")
    BY <1>3 DEF Running
  <2> QED
    BY <2>3, <2>4, PlainKeeps, PlainWriting DEF SessionInv, Same
<1> QED
  BY <1>2, <1>3

LEMMA RequestsKeep ==
  ASSUME SessionInv, NEW d, Fresh(d, doc), Requests(d)
  PROVE  SessionInv'
<1>1. Same
  BY DEF Requests, Same, Plain, SessionInv, SessionTypes
<1> QED
  BY <1>1, Pushed DEF Requests

LEMMA EventsKeep ==
  ASSUME SessionInv,
         QuitEvent \/ Activated \/ \E files \in FileLists : OpenFilesEvent(files)
  PROVE  SessionInv'
<1>1. CASE QuitEvent \/ Activated
  BY <1>1, OtherCalls, RequestsKeep DEF QuitEvent, Activated
<1>2. ASSUME NEW files \in FileLists, OpenFilesEvent(files) PROVE SessionInv'
  <2>1. files \in Seq(File) /\ LastWindow \in Window \cup {NoWindow}
    BY ListsOfFiles, ListedFacts DEF SessionInv
  <2>2. Fresh(FilesCall(files, LastWindow), doc)
    BY <2>1, CallsWithFiles
  <2> QED
    BY <1>2, <2>2, RequestsKeep DEF OpenFilesEvent
<1> QED
  BY <1>1, <1>2

-----------------------------------------------------------------------------
(* The user.                                                                 *)

LEMMA OriginFacts ==
  ASSUME SessionInv, NEW w \in Origins
  PROVE  /\ w \in Window \cup {NoWindow}
         /\ w # NoWindow => w \in Window /\ doc[w].alive
<1>1. w \in Open \/ w = NoWindow
  BY DEF Origins, Open
<1>2. w \in Open => w \in Window /\ IsListed(w)
  BY ListedFacts DEF SessionInv
<1> QED
  BY <1>1, <1>2 DEF SessionInv, DocumentsSound, Alive

LEMMA MenuItemKeeps ==
  ASSUME SessionInv, MenuItem PROVE SessionInv'
<1>1. /\ UsersTurn /\ UNCHANGED <<doc, typing, work, owed>> /\ UserUnchanged
      /\ \E w \in Origins : \E call \in MenuCalls(w) : Push(call)
  BY DEF MenuItem
<1>2. Same
  BY <1>1 DEF UserUnchanged, KeepsFlags, Same, Plain, SessionInv, SessionTypes
<1>3. PICK w \in Origins : \E call \in MenuCalls(w) : Push(call)
  BY <1>1
<1>4. PICK call \in MenuCalls(w) : Push(call)
  BY <1>3
<1>5. w \in Window \cup {NoWindow} /\ (w # NoWindow => w \in Window /\ doc[w].alive)
  BY OriginFacts
<1>6. Fresh(call, doc)
  <2>1. CASE call = QuitCall
    BY <2>1, OtherCalls
  <2>2. ASSUME NEW f \in ToSet(recent), call = RecentCall(f, w) PROVE Fresh(call, doc)
    <3>1. f \in File
      BY ElementsOf DEF SessionInv, SessionTypes
    <3> QED
      BY <1>5, <2>2, <3>1, RecentCalls
  <2>3. ASSUME NEW files \in FileLists,
               call = [OpenCall(files, w) EXCEPT !.at = "openFile"]
        PROVE  Fresh(call, doc)
    <3>1. files \in Seq(File)
      BY ListsOfFiles
    <3> QED
      BY <1>5, <2>3, <3>1, CallsWithFiles
  <2>4. CASE w # NoWindow /\ call \in {SaveCall(w), SaveAsCall(w), CloseCall(w)}
    BY <1>5, <2>4, SaveCalls, CloseCalls
  <2> QED
    BY <2>1, <2>2, <2>3, <2>4 DEF MenuCalls
<1> QED
  BY <1>1, <1>2, <1>4, <1>6, Pushed DEF UsersTurn, InEventLoop

LEMMA NewKeeps ==
  ASSUME SessionInv, New PROVE SessionInv'
<1>1. /\ stack = <<>> /\ running /\ NewDesignOpens
      /\ UNCHANGED <<fileVars, settings, typing, work, owed, running, leaving, quitting>>
      /\ UNCHANGED <<returned, recent, connected, openingFiles, reopening>>
  BY DEF New, UsersTurn, KeepsFlags
<1>2. /\ recent' \in Seq(File) /\ IsInjective(recent')
      /\ {returned', connected', openingFiles', reopening'} \subseteq BOOLEAN
  BY <1>1 DEF SessionInv, SessionTypes
<1>3. /\ FileInv' /\ SessionTypes' /\ DocumentsSound' /\ WorkIsKept'
      /\ Known' = Known /\ UNCHANGED <<disk, behind, job>>
      /\ \A w \in Window : doc'[w].closing = doc[w].closing
  BY <1>1, <1>2, NewDesignKeeps
<1>4. /\ StackSound' /\ LocksFollow' /\ OpeningFollows'
      /\ ~Running("save", "writing") /\ ~Running("save", "writing")'
  <2>1. CASE UNCHANGED stack
    BY <1>1, <1>3, <2>1, IdleSound
  <2>2. ASSUME NEW w \in Origins, w # NoWindow, Push(CloseCall(w))
        PROVE  /\ StackSound' /\ LocksFollow' /\ OpeningFollows'
               /\ ~Running("save", "writing") /\ ~Running("save", "writing")'
    <3>1. w \in Window
      BY <2>2, OriginFacts
    <3>2. Fresh(CloseCall(w), doc') /\ CloseCall(w) \in CallType
      BY <3>1, CloseCalls DEF Fresh
    <3>3. Starts(CloseCall(w))
      BY <1>1, <2>2, <3>2, Pushes
    <3> QED
      BY <1>1, <1>3, <3>2, <3>3, StartsSound DEF Running
  <2> QED
    BY <2>1, <2>2 DEF New, IsReplaced
<1>5. WritingSound'
  BY <1>3, <1>4, WritingKept DEF SessionInv
<1> QED
  BY <1>3, <1>4, <1>5 DEF SessionInv

\* A new design: none that a file, a window or the dialog has.
LEMMA NewWork ==
  ASSUME SessionInv, work < MaxWork, work' = work + 1
  PROVE  /\ work + 1 \in 1 .. work' /\ work' \in 0 .. MaxWork /\ work + 1 \notin Known
         /\ work + 1 # Nothing /\ Known \subseteq Known' /\ 1 .. work \subseteq 1 .. work'
         /\ work + 1 \in Known' /\ work + 1 \notin owed /\ work + 1 \notin Designs
<1>1. work \in 0 .. MaxWork /\ MaxWork \in Nat /\ owed \subseteq 1 .. work
  BY WorkBound DEF SessionInv, SessionTypes
<1>2. /\ work + 1 \in 0 .. MaxWork /\ work + 1 \in 1 .. work' /\ work + 1 \notin 0 .. work
      /\ 0 .. work \subseteq 0 .. work' /\ 1 .. work \subseteq 1 .. work'
      /\ work + 1 \in 0 .. work' /\ work + 1 \notin owed
  BY <1>1
<1>3. work + 1 # Nothing
  BY <1>2, ContentAssumption, NothingIsNoContent
<1>4. work + 1 \notin Known
  BY <1>2, <1>3 DEF Known
<1>5. Known \subseteq Known' /\ work + 1 \in Known'
  BY <1>2 DEF Known
<1>6. work + 1 \notin Designs
  BY <1>4 DEF SessionInv, WritingSound
<1>7. work' \in 0 .. MaxWork
  BY <1>2
<1> QED
  BY <1>2, <1>3, <1>4, <1>5, <1>6, <1>7

LEMMA UserKeepsFiles ==
  ASSUME SessionInv, stack = <<>>, UserUnchanged, UNCHANGED stack, Known \subseteq Known',
         \A w \in Window : doc'[w].closing = doc[w].closing
  PROVE  /\ FileInv' /\ WritingSound' /\ StackSound' /\ LocksFollow' /\ OpeningFollows'
         /\ Designs' = Designs /\ Open' = Open /\ \A w : IsListed(w)' <=> IsListed(w)
         /\ \A f \in File : Stored(f)' = Stored(f)
<1>1. UNCHANGED fileVars /\ UNCHANGED <<disk, behind, job, listed>>
      /\ UNCHANGED <<reopening, quitting, openingFiles>>
  BY DEF UserUnchanged, KeepsFlags, fileVars
<1>2. FileInv'
  BY <1>1, InvNext DEF SessionInv
<1>3. /\ StackSound' /\ LocksFollow' /\ OpeningFollows'
      /\ ~Running("save", "writing") /\ ~Running("save", "writing")'
  BY <1>1, IdleSound
<1>4. WritingSound'
  BY <1>1, <1>3, WritingKept DEF SessionInv
<1> QED
  BY <1>1, <1>2, <1>3, <1>4, SameDesigns DEF Open, IsListed

\* An edit takes the place of a design that the user thereby gave up.
LEMMA EditDesignKeeps ==
  ASSUME SessionInv, NEW w \in Window, EditDesign(w) PROVE SessionInv'
<1> DEFINE d == doc[w]
           c == work + 1
<1>1. /\ stack = <<>> /\ ~leaving /\ IsListed(w) /\ work < MaxWork /\ work' = c
      /\ doc' = [doc EXCEPT ![w].content = c, ![w].saved = FALSE]
      /\ owed' = (owed \ {d.content}) \cup {c}
      /\ UNCHANGED <<stack, typing>> /\ UserUnchanged
  BY DEF EditDesign, UsersTurn
<1>0. SessionTypes /\ DocumentsSound /\ WorkIsKept
  BY DEF SessionInv
<1>2. /\ c \in 1 .. work' /\ work' \in 0 .. MaxWork /\ c \notin Known
      /\ c # Nothing /\ Known \subseteq Known' /\ 1 .. work \subseteq 1 .. work'
      /\ c \in Known' /\ c \notin owed /\ c \notin Designs
  BY <1>1, NewWork
<1>3. DOMAIN doc = Window /\ \A v \in Window : IsDocument(doc[v])
  BY <1>0 DEF SessionTypes
<1>4. d.alive
  BY <1>0, <1>1 DEF DocumentsSound, Alive
<1> HIDE DEF c
<1>5. /\ DOMAIN doc' = Window /\ \A v \in Window \ {w} : doc'[v] = doc[v]
      /\ doc'[w] = [d EXCEPT !.content = c, !.saved = FALSE]
  BY <1>1, <1>3
<1>6. IsDocument(d)
  BY <1>3
<1> HIDE DEF d
<1>7. /\ DOMAIN doc'[w] = Fields /\ doc'[w].content = c /\ doc'[w].saved = FALSE
      /\ doc'[w].alive = d.alive /\ doc'[w].base = d.base /\ doc'[w].file = d.file
      /\ doc'[w].closing = d.closing /\ doc'[w].replaceable = d.replaceable
  BY <1>5, <1>6 DEF IsDocument, Fields
<1>8. \A v \in Window : doc'[v].closing = doc[v].closing
  BY <1>5, <1>7 DEF d
<1>9. /\ FileInv' /\ WritingSound' /\ StackSound' /\ LocksFollow' /\ OpeningFollows'
      /\ Designs' = Designs /\ Open' = Open /\ \A v : IsListed(v)' <=> IsListed(v)
      /\ \A f \in File : Stored(f)' = Stored(f)
  BY <1>1, <1>2, <1>8, UserKeepsFiles
<1>10. SessionTypes'
  <2>1. \A v \in Window : IsDocument(doc[v])'
    <3>1. ASSUME NEW v \in Window, v # w PROVE IsDocument(doc[v])'
      <4>1. doc'[v] = doc[v] /\ IsDocument(doc[v])
        BY <1>3, <1>5, <3>1
      <4> QED
        BY <1>2, <4>1 DEF IsDocument
    <3>2. IsDocument(doc[w])'
      BY <1>2, <1>6, <1>7 DEF IsDocument
    <3> QED
      BY <3>1, <3>2
  <2>2. (typing = NoTyping \/ (typing \in [win: Window, content: 1 .. work] /\ IsListed(typing.win)))'
    <3>1. CASE typing = NoTyping
      BY <1>1, <3>1 DEF NoTyping
    <3>2. CASE typing \in [win: Window, content: 1 .. work] /\ IsListed(typing.win)
      BY <1>1, <1>2, <1>9, <3>2
    <3> QED
      BY <1>0, <3>1, <3>2 DEF SessionTypes
  <2>3. owed' \subseteq 1 .. work'
    BY <1>0, <1>1, <1>2 DEF SessionTypes
  <2> QED
    BY <1>0, <1>1, <1>2, <1>5, <2>1, <2>2, <2>3 DEF SessionTypes, UserUnchanged, KeepsFlags
<1>11. DocumentsSound'
  <2>1. ASSUME NEW v \in Window
        PROVE  /\ Alive(v)' => doc'[v].content # Nothing
               /\ IsListed(v)' => Alive(v)'
               /\ doc'[v].saved => IsSafe(doc'[v].content, owed', Designs')
               /\ doc'[v].base \in owed' => doc'[v].content = doc'[v].base
    <3>1. CASE v = w
      <4>1. d.base # c /\ (d.base \in owed => d.content = d.base)
        BY <1>0, <1>2, <1>6 DEF DocumentsSound, IsDocument, d
      <4>2. doc'[v].base \notin owed'
        BY <1>1, <1>7, <3>1, <4>1
      <4> QED
        BY <1>2, <1>4, <1>7, <3>1, <4>2 DEF Alive
    <3>2. CASE v # w
      <4>1. doc'[v] = doc[v] /\ doc[v].content # c /\ doc[v].base # c
        BY <1>2, <1>3, <1>5, <3>2 DEF IsDocument
      <4>2. owed' \subseteq owed \cup {c}
        BY <1>1
      <4>3. doc[v].saved => IsSafe(doc[v].content, owed, Designs)
        BY <1>0 DEF DocumentsSound
      <4>4. doc'[v].saved => IsSafe(doc'[v].content, owed', Designs')
        BY <1>9, <4>1, <4>2, <4>3 DEF IsSafe
      <4>5. doc'[v].base \in owed' => doc'[v].content = doc'[v].base
        BY <1>0, <4>1, <4>2 DEF DocumentsSound
      <4>6. (Alive(v)' => doc'[v].content # Nothing) /\ (IsListed(v)' => Alive(v)')
        BY <1>0, <1>9, <4>1 DEF DocumentsSound, Alive
      <4> QED
        BY <4>4, <4>5, <4>6
    <3> QED
      BY <3>1, <3>2
  <2>2. ~leaving'
    BY <1>1 DEF UserUnchanged
  <2> QED
    BY <2>1, <2>2 DEF DocumentsSound
<1>12. WorkIsKept'
  <2> SUFFICES ASSUME NEW e \in owed'
               PROVE  \/ typing'.content = e
                      \/ \E v \in Window : IsListed(v)' /\ doc'[v].content = e
                      \/ \E f \in File : Stored(f)' = e
    BY DEF WorkIsKept
  <2>1. CASE e = c
    BY <1>1, <1>7, <1>9, <2>1
  <2>2. CASE e # c
    <3>1. e \in owed /\ e # d.content
      BY <1>1, <2>2
    <3>2. ASSUME NEW v \in Window, IsListed(v), doc[v].content = e
          PROVE  IsListed(v)' /\ doc'[v].content = e
      BY <1>5, <1>9, <3>1, <3>2 DEF d
    <3> QED
      BY <1>0, <1>1, <1>9, <3>1, <3>2 DEF WorkIsKept
  <2> QED
    BY <2>1, <2>2
<1> QED
  BY <1>9, <1>10, <1>11, <1>12 DEF SessionInv

LEMMA TypeInDialogKeeps ==
  ASSUME SessionInv, NEW w \in Window, TypeInDialog(w) PROVE SessionInv'
<1> DEFINE c == work + 1
<1>1. /\ stack = <<>> /\ ~leaving /\ IsListed(w) /\ work < MaxWork /\ work' = c
      /\ typing = NoTyping /\ typing' = [win |-> w, content |-> c]
      /\ owed' = owed \cup {c} /\ UNCHANGED <<stack, doc>> /\ UserUnchanged
  BY DEF TypeInDialog, UsersTurn
<1>0. SessionTypes /\ DocumentsSound /\ WorkIsKept
  BY DEF SessionInv
<1>2. /\ c \in 1 .. work' /\ work' \in 0 .. MaxWork /\ c \notin Known
      /\ c # Nothing /\ Known \subseteq Known' /\ 1 .. work \subseteq 1 .. work'
  BY <1>1, NewWork
<1>3. DOMAIN doc = Window /\ \A v \in Window : IsDocument(doc[v])
  BY <1>0 DEF SessionTypes
<1> HIDE DEF c
<1>4. /\ FileInv' /\ WritingSound' /\ StackSound' /\ LocksFollow' /\ OpeningFollows'
      /\ Designs' = Designs /\ Open' = Open /\ \A v : IsListed(v)' <=> IsListed(v)
      /\ \A f \in File : Stored(f)' = Stored(f)
  BY <1>1, <1>2, UserKeepsFiles
<1>5. SessionTypes'
  <2>1. \A v \in Window : IsDocument(doc[v])'
    BY <1>1, <1>2, <1>3 DEF IsDocument
  <2>2. typing' \in [win: Window, content: 1 .. work'] /\ IsListed(typing.win)'
    <3>1. typing'.win = w
      BY <1>1
    <3>2. IsListed(w)' /\ typing' \in [win: Window, content: 1 .. work']
      BY <1>1, <1>2, <1>4
    <3> QED
      BY <3>1, <3>2 DEF IsListed
  <2>3. owed' \subseteq 1 .. work'
    BY <1>0, <1>1, <1>2 DEF SessionTypes
  <2> QED
    BY <1>0, <1>1, <1>2, <2>1, <2>2, <2>3 DEF SessionTypes, UserUnchanged, KeepsFlags
<1>6. DocumentsSound'
  <2>1. \A v \in Window : doc[v].content # c /\ doc[v].base # c
    BY <1>2, <1>3 DEF IsDocument
  <2>2. ~leaving'
    BY <1>1 DEF UserUnchanged
  <2> QED
    BY <1>0, <1>1, <1>4, <2>1, <2>2 DEF DocumentsSound, Alive, IsSafe
<1>7. WorkIsKept'
  <2> SUFFICES ASSUME NEW e \in owed'
               PROVE  \/ typing'.content = e
                      \/ \E v \in Window : IsListed(v)' /\ doc'[v].content = e
                      \/ \E f \in File : Stored(f)' = e
    BY DEF WorkIsKept
  <2>1. CASE e = c
    BY <1>1, <2>1
  <2>2. CASE e # c
    <3>1. e \in owed /\ typing.content # e
      BY <1>0, <1>1, <2>2, TypingFacts, WorkFacts
    <3> QED
      BY <1>0, <1>1, <1>4, <3>1 DEF WorkIsKept
  <2> QED
    BY <2>1, <2>2
<1> QED
  BY <1>4, <1>5, <1>6, <1>7 DEF SessionInv

LEMMA UserActKeeps ==
  ASSUME SessionInv, UserAct PROVE SessionInv'
BY MenuItemKeeps, NewKeeps, EditDesignKeeps, TypeInDialogKeeps DEF UserAct

-----------------------------------------------------------------------------
(* The event loop and the process.                                           *)

\* A window that is deleted is closed, and its work kept or given up.
LEMMA DeleteClosedKeeps ==
  ASSUME SessionInv, NEW w \in Window, DeleteClosed(w) PROVE SessionInv'
<1>0. SessionTypes /\ DocumentsSound /\ WorkIsKept /\ StackSound
  BY DEF SessionInv
<1>1. /\ running /\ InEventLoop /\ Alive(w) /\ ~IsListed(w)
      /\ doc' = [doc EXCEPT ![w] = NoDocument]
      /\ UNCHANGED <<stack, typing, work, owed>> /\ UserUnchanged
  BY DEF DeleteClosed
<1>2. /\ UNCHANGED fileVars /\ UNCHANGED <<disk, behind, job, listed, settings, running, leaving>>
      /\ UNCHANGED <<reopening, quitting, openingFiles, returned, recent, connected>>
  BY <1>1 DEF UserUnchanged, KeepsFlags, fileVars
<1>3. DOMAIN doc = Window /\ \A v \in Window : IsDocument(doc[v])
  BY <1>0 DEF SessionTypes
<1>4. DOMAIN doc' = Window /\ doc'[w] = NoDocument /\ \A v \in Window \ {w} : doc'[v] = doc[v]
  BY <1>1, <1>3
<1>5. /\ IsDocument(NoDocument) /\ NoDocument.alive = FALSE /\ NoDocument.content = Nothing
      /\ NoDocument.base = Nothing /\ NoDocument.saved = TRUE /\ NoDocument.closing = FALSE
  BY DEF NoDocument, IsDocument, Known, Fields
<1>6. Nothing \notin owed
  BY <1>0, WorkFacts
<1>7. doc[w].closing = FALSE
  <2>1. doc[w].closing \in BOOLEAN
    BY <1>3 DEF IsDocument
  <2>2. ASSUME doc[w].closing PROVE FALSE
    <3>1. <<"close", w>> \in Held
      BY <2>2 DEF Held
    <3>2. PICK i \in 1 .. Len(stack) : LockOf(stack[i]) = <<"close", w>>
      BY <3>1 DEF SessionInv, LocksFollow
    <3>3. Closing(stack[i]) /\ stack[i].win = w
      BY <3>2 DEF LockOf, NoLock
    <3> QED
      BY <1>0, <1>1, <3>3, ClosingIsOpen DEF IsListed, Open
  <2> QED
    BY <2>1, <2>2
<1>8. \A v \in Window : doc'[v].closing = doc[v].closing
  BY <1>4, <1>5, <1>7
<1>9. /\ FileInv' /\ Designs' = Designs /\ Known' = Known /\ Open' = Open
      /\ (\A f \in File : Stored(f)' = Stored(f)) /\ \A v : IsListed(v)' <=> IsListed(v)
  BY <1>1, <1>2, InvNext, SameDesigns DEF SessionInv, Known, Open, IsListed
<1>10. SessionTypes'
  <2>1. \A v \in Window : IsDocument(doc[v])'
    <3>1. \A v \in Window : IsDocument(doc'[v])
      BY <1>3, <1>4, <1>5
    <3> QED
      BY <1>9, <3>1 DEF IsDocument
  <2>2. (typing = NoTyping \/ (typing \in [win: Window, content: 1 .. work] /\ IsListed(typing.win)))'
    BY <1>0, <1>1, <1>2 DEF SessionTypes, IsListed
  <2> QED
    BY <1>0, <1>1, <1>2, <1>4, <2>1, <2>2 DEF SessionTypes
<1>11. DocumentsSound'
  <2>1. ASSUME NEW v \in Window
        PROVE  /\ Alive(v)' => doc'[v].content # Nothing
               /\ IsListed(v)' => Alive(v)'
               /\ doc'[v].saved => IsSafe(doc'[v].content, owed', Designs')
               /\ doc'[v].base \in owed' => doc'[v].content = doc'[v].base
               /\ leaving' => typing' = NoTyping /\ (IsListed(v)' => doc'[v].saved)
    <3>1. leaving' => typing' = NoTyping
      BY <1>0, <1>1, <1>2 DEF DocumentsSound
    <3>2. CASE v = w
      BY <1>1, <1>4, <1>5, <1>6, <1>9, <3>1, <3>2 DEF Alive, IsSafe
    <3>3. CASE v # w
      <4>1. doc'[v] = doc[v]
        BY <1>4, <3>3
      <4> QED
        BY <1>0, <1>1, <1>2, <1>9, <4>1 DEF DocumentsSound, Alive
    <3> QED
      BY <3>2, <3>3
  <2>2. leaving' => typing' = NoTyping
    BY <1>0, <1>1, <1>2 DEF DocumentsSound
  <2> QED
    BY <2>1, <2>2 DEF DocumentsSound
<1>12. WorkIsKept'
  <2>1. \A v \in Window : IsListed(v) => doc'[v] = doc[v]
    BY <1>1, <1>4
  <2> QED
    BY <1>0, <1>1, <1>9, <2>1 DEF WorkIsKept
<1>13. ~Running("save", "writing") /\ ~Running("save", "writing")'
  BY <1>1 DEF InEventLoop, Running, Asks, Questions, Top
<1>14. WritingSound'
  BY <1>2, <1>9, <1>13, WritingKept DEF SessionInv
<1>15. CASE stack = <<>>
  BY <1>1, <1>2, <1>8, <1>9, <1>10, <1>11, <1>12, <1>14, <1>15, IdleSound DEF SessionInv
<1>16. CASE stack # <<>>
  <2>1. /\ Asks(Top) /\ Waits(Top) /\ ~Opens(Top) /\ Top.at \notin {"saved", "writing"}
    BY <1>1, <1>16 DEF InEventLoop, Waits, Asks, Questions, Opens
  <2>2. Survive /\ StillOpen
    <3>1. \A v \in Window : WindowSurvives(v)
      BY <1>4, <1>5 DEF WindowSurvives
    <3> QED
      BY <1>0, <1>1, <1>2, <1>9, <3>1, SameOpen DEF Survive
  <2>3. Carries
    BY <1>2, <1>9, <1>10, <1>11, <1>12, <1>14, <2>2 DEF Carries
  <2>4. Len(stack) \in 1 .. Len(stack) /\ Top = stack[Len(stack)] /\ stack \in Seq(CallType)
        /\ Top \in CallType /\ Top.content \in Known
    BY <1>16, TopSound
  <2>5. Moves(Top)
    BY <1>1, <1>16, <2>4 DEF Moves, SameBelow
  <2>6. CallSound(Top, doc', owed', Designs', Open', typing')
    <3>1. Closing(Top) => Top.win \in Open'
      BY <1>0, <1>9, <2>4, ClosingIsOpen
    <3> QED
      BY <1>0, <2>1, <2>2, <2>4, <3>1, WaitingSurvives
  <2>7. Relocks(LockOf(Top)) /\ openingFiles' = openingFiles
    BY <1>2, <1>8, <1>16, LocksSame
  <2> QED
    BY <2>1, <2>3, <2>4, <2>5, <2>6, <2>7, MovedOn
<1> QED
  BY <1>15, <1>16

\* What is in the files is all that must be kept when the process is gone.
LEMMA MemoryGoneKeeps ==
  ASSUME SessionInv, MemoryGone, FileInv', UNCHANGED <<disk, behind>>, job' = Idle,
         owed' \subseteq owed, owed' \subseteq Designs
  PROVE  SessionInv'
<1>0. SessionTypes
  BY DEF SessionInv
<1>1. Designs' = Designs /\ Known' = Known
  BY SameDesigns DEF Known, MemoryGone
<1>2. /\ stack' = <<>> /\ Len(stack') = 0 /\ 1 .. Len(stack') = {}
      /\ 1 .. Len(stack') - 1 = {} /\ stack' \in Seq(CallType)
  BY DEF MemoryGone
<1>3. listed' = <<>> /\ \A w : ~IsListed(w)'
  <2>1. listed' = <<>>
    BY DEF MemoryGone
  <2>2. ToSet(<<>>) = {}
    BY DEF ToSet
  <2> QED
    BY <2>1, <2>2 DEF IsListed
<1>4. /\ IsDocument(NoDocument) /\ NoDocument.alive = FALSE /\ NoDocument.content = Nothing
      /\ NoDocument.base = Nothing /\ NoDocument.closing = FALSE
  BY DEF NoDocument, IsDocument, Known, Fields
<1>5. DOMAIN doc' = Window /\ \A w \in Window : doc'[w] = NoDocument
  BY DEF MemoryGone
<1>6. Nothing \notin owed'
  BY <1>0, WorkFacts
<1>7. SessionTypes'
  <2>1. \A w \in Window : IsDocument(doc[w])'
    <3>1. \A w \in Window : IsDocument(doc'[w])
      BY <1>4, <1>5
    <3> QED
      BY <1>1, <3>1 DEF IsDocument
  <2>2. listed' \in Seq(Window) /\ IsInjective(listed')
    BY <1>3 DEF IsInjective
  <2> QED
    BY <1>0, <1>5, <2>1, <2>2 DEF SessionTypes, MemoryGone
<1>8. DocumentsSound'
  BY <1>3, <1>4, <1>5, <1>6 DEF DocumentsSound, MemoryGone, Alive, IsSafe
<1>9. WorkIsKept'
  BY <1>1 DEF WorkIsKept, Designs
<1>10. ~Running("save", "writing")'
  BY <1>2 DEF Running
<1>11. WritingSound'
  <2>1. Designs \subseteq Known /\ job'.at = "idle"
    BY DEF SessionInv, WritingSound, Idle
  <2> QED
    BY <1>1, <1>10, <2>1 DEF WritingSound
<1>12. StackSound'
  BY <1>2 DEF StackSound, Running
<1>13. Held' = {}
  <2>1. {w \in Window : doc'[w].closing} = {}
    BY <1>4, <1>5
  <2>2. ~reopening' /\ ~quitting'
    BY DEF MemoryGone
  <2> QED
    BY <2>1, <2>2 DEF Held
<1>14. LocksFollow' /\ OpeningFollows'
  <2>1. ~openingFiles'
    BY DEF MemoryGone
  <2> QED
    BY <1>2, <1>13, <2>1 DEF LocksFollow, OpeningFollows
<1> QED
  BY <1>7, <1>8, <1>9, <1>11, <1>12, <1>14 DEF SessionInv

\* An application that leaves has saved or given up all.
LEMMA LeaveKeeps ==
  ASSUME SessionInv, Leave PROVE SessionInv'
<1>1. leaving /\ stack = <<>> /\ MemoryGone /\ UNCHANGED fileVars /\ owed' = owed
  BY DEF Leave
<1>2. FileInv' /\ UNCHANGED <<disk, behind, job>>
  BY <1>1, InvNext DEF SessionInv, fileVars
<1>3. job = Idle
  BY <1>1 DEF SessionInv, WritingSound, Running, FileInv
<1>4. owed \subseteq Designs
  <2> SUFFICES ASSUME NEW c \in owed PROVE c \in Designs
    OBVIOUS
  <2>1. typing.content # c
    <3>1. typing = NoTyping
      BY <1>1 DEF SessionInv, DocumentsSound
    <3> QED
      BY <3>1, TypingFacts, WorkFacts DEF SessionInv
  <2>2. ASSUME NEW w \in Window, IsListed(w), doc[w].content = c PROVE c \in Designs
    BY <1>1, <2>2 DEF SessionInv, DocumentsSound, IsSafe
  <2> QED
    BY <2>1, <2>2 DEF SessionInv, WorkIsKept, Designs
<1> QED
  BY <1>1, <1>2, <1>3, <1>4, MemoryGoneKeeps

\* A crash takes what is not saved, which nobody owes; the rest is in a file.
LEMMA CrashKeeps ==
  ASSUME SessionInv, Crash PROVE SessionInv'
<1>1. /\ owed' = owed \ ({doc[w].content : w \in {v \in ToSet(listed) : ~doc[v].saved}}
                           \cup {typing.content})
      /\ FileCrash /\ MemoryGone
  BY DEF Crash, Lose
<1>2. FileInv' /\ UNCHANGED <<disk, behind>> /\ job' = Idle
  BY <1>1, InvNext DEF SessionInv, FileNext, FileCrash
<1>3. owed' \subseteq Designs
  <2> SUFFICES ASSUME NEW c \in owed' PROVE c \in Designs
    OBVIOUS
  <2>1. c \in owed /\ typing.content # c
    BY <1>1
  <2>2. ASSUME NEW w \in Window, IsListed(w), doc[w].content = c PROVE c \in Designs
    <3>1. doc[w].saved
      BY <1>1, <2>2 DEF IsListed
    <3> QED
      BY <2>1, <2>2, <3>1 DEF SessionInv, DocumentsSound, IsSafe
  <2> QED
    BY <2>1, <2>2 DEF SessionInv, WorkIsKept, Designs
<1> QED
  BY <1>1, <1>2, <1>3, MemoryGoneKeeps

\* A step that changes nothing but the control of a stack that was empty.
LEMMA StillQuiet ==
  ASSUME SessionInv,
         UNCHANGED <<fileVars, settings, returned, listed, doc, typing, recent, quitting,
                     leaving, connected, work, owed, openingFiles, reopening>>,
         running' \in BOOLEAN
  PROVE  /\ FileInv' /\ SessionTypes' /\ DocumentsSound' /\ WorkIsKept'
         /\ UNCHANGED <<disk, behind, job>> /\ Designs' = Designs /\ Known' = Known
         /\ Open' = Open
         /\ \A w \in Window : doc'[w].closing = doc[w].closing
<1>1. UNCHANGED fileVars /\ UNCHANGED <<disk, behind, job>>
  BY DEF fileVars
<1>2. FileInv' /\ Designs' = Designs /\ Known' = Known /\ Open' = Open
  BY <1>1, InvNext, SameDesigns DEF SessionInv, Known, Open
<1>3. \A w \in Window : /\ IsDocument(doc'[w]) /\ SameWork(doc[w], doc'[w])
                        /\ doc'[w].closing = doc[w].closing
  BY SameDocuments
<1>4. Quiet
  BY <1>2, <1>3 DEF Quiet, SessionInv, SessionTypes
<1> QED
  BY <1>1, <1>2, <1>3, <1>4, QuietTypes, QuietDocuments, QuietWork DEF SessionInv

LEMMA StartKeeps ==
  ASSUME SessionInv, NEW files \in FileLists, Start(files) PROVE SessionInv'
<1> DEFINE d == StartCall(files)
<1>1. /\ ~running /\ running' /\ running' = TRUE /\ stack' = <<d>>
      /\ UNCHANGED <<fileVars, settings, returned, listed, doc, typing, recent, quitting,
                     leaving, connected, work, owed, openingFiles, reopening>>
  BY DEF Start
<1>2. stack = <<>>
  BY <1>1 DEF SessionInv, StackSound
<1>3. files \in Seq(File) /\ NoWindow \in Window \cup {NoWindow}
  BY ListsOfFiles
<1>4. Fresh(d, doc') /\ d \in CallType
  BY <1>3, CallsWithFiles DEF Fresh
<1> HIDE DEF d
<1>5. Starts(d)
  BY <1>1, <1>4 DEF Starts
<1>6. /\ FileInv' /\ SessionTypes' /\ DocumentsSound' /\ WorkIsKept'
      /\ UNCHANGED <<disk, behind, job>> /\ Known' = Known
      /\ \A w \in Window : doc'[w].closing = doc[w].closing
  BY <1>1, StillQuiet
<1>7. StackSound' /\ LocksFollow' /\ OpeningFollows' /\ ~Running("save", "writing")'
  BY <1>1, <1>2, <1>4, <1>5, <1>6, StartsSound
<1>8. ~Running("save", "writing")
  BY <1>2 DEF Running
<1>9. WritingSound'
  BY <1>6, <1>7, <1>8, WritingKept DEF SessionInv
<1> QED
  BY <1>6, <1>7, <1>9 DEF SessionInv

LEMMA StutterKeeps ==
  ASSUME SessionInv, UNCHANGED vars PROVE SessionInv'
<1>1. /\ UNCHANGED <<fileVars, settings, returned, listed, doc, typing, recent, quitting,
                     leaving, connected, work, owed, openingFiles, reopening>>
      /\ stack' = stack /\ running' = running
  BY DEF vars, windowVars, sessionVars
<1>2. /\ FileInv' /\ SessionTypes' /\ DocumentsSound' /\ WorkIsKept'
      /\ UNCHANGED <<disk, behind, job>> /\ Designs' = Designs /\ Known' = Known
      /\ Open' = Open
      /\ \A w \in Window : doc'[w].closing = doc[w].closing
  BY <1>1, StillQuiet DEF SessionInv, SessionTypes
<1>3. Held' = Held
  BY <1>1, <1>2, HeldKept
<1>4. Top' = Top
  BY <1>1 DEF Top
<1>5. StackSound'
  BY <1>1, <1>2, <1>4 DEF SessionInv, StackSound, Running
<1>6. LocksFollow' /\ OpeningFollows'
  BY <1>1, <1>3 DEF SessionInv, LocksFollow, OpeningFollows
<1>7. WritingSound'
  <2>1. CASE ~Running("save", "writing")
    <3>1. ~Running("save", "writing")'
      BY <1>1, <1>4, <2>1 DEF Running
    <3> QED
      BY <1>2, <2>1, <3>1, WritingKept DEF SessionInv
  <2>2. CASE Running("save", "writing")
    <3>1. Running("save", "writing")'
      BY <1>1, <1>4, <2>2 DEF Running
    <3>2. Stored(job.target)' = Stored(job.target)
      BY <1>2 DEF Stored, Status
    <3> QED
      BY <1>1, <1>2, <1>4, <2>2, <3>1, <3>2 DEF SessionInv, WritingSound
  <2> QED
    BY <2>1, <2>2
<1> QED
  BY <1>2, <1>5, <1>6, <1>7 DEF SessionInv

-----------------------------------------------------------------------------
(* The invariant holds, and what follows from it.                            *)

LEMMA SessionInit == Init => SessionInv
<1> SUFFICES ASSUME Init PROVE SessionInv
  OBVIOUS
<1>1. /\ FileInit /\ settings \in SettingsType /\ stack = <<>> /\ returned = FALSE
      /\ listed = <<>> /\ doc = [w \in Window |-> NoDocument] /\ typing = NoTyping
      /\ recent \in {<<>>} \cup {<<f>> : f \in File}
      /\ quitting = FALSE /\ leaving = FALSE /\ connected = FALSE /\ work \in 0 .. MaxWork
      /\ \A f \in File : Stored(f) \in 0 .. work \cup {Nothing}
      /\ owed = {c \in 1 .. work : \E f \in File : Stored(f) = c}
      /\ running = FALSE /\ openingFiles = FALSE /\ reopening = FALSE
  BY DEF Init
<1>2. FileInv /\ job.at = "idle"
  BY <1>1, InvInit DEF FileInit, Idle
<1>3. /\ Len(stack) = 0 /\ 1 .. Len(stack) = {} /\ 1 .. Len(stack) - 1 = {}
      /\ stack \in Seq(CallType)
  BY <1>1
<1>4. ToSet(<<>>) = {}
  BY DEF ToSet
<1>5. \A w : ~IsListed(w)
  BY <1>1, <1>4 DEF IsListed
<1>6. /\ IsDocument(NoDocument) /\ NoDocument.alive = FALSE /\ NoDocument.content = Nothing
      /\ NoDocument.base = Nothing /\ NoDocument.closing = FALSE
  BY DEF NoDocument, IsDocument, Known, Fields
<1>7. DOMAIN doc = Window /\ \A w \in Window : doc[w] = NoDocument
  BY <1>1
<1>8. recent \in Seq(File) /\ IsInjective(recent)
  <2>1. CASE recent = <<>>
    BY <2>1 DEF IsInjective
  <2>2. ASSUME NEW f \in File, recent = <<f>> PROVE recent \in Seq(File) /\ IsInjective(recent)
    BY <2>2 DEF IsInjective
  <2> QED
    BY <1>1, <2>1, <2>2
<1>9. listed \in Seq(Window) /\ IsInjective(listed)
  BY <1>1 DEF IsInjective
<1>10. SessionTypes
  BY <1>1, <1>6, <1>7, <1>8, <1>9 DEF SessionTypes
<1>11. Nothing \notin owed
  BY <1>10, WorkFacts
<1>12. DocumentsSound
  BY <1>1, <1>5, <1>6, <1>7, <1>11 DEF DocumentsSound, Alive, IsSafe
<1>13. WorkIsKept
  BY <1>1 DEF WorkIsKept
<1>14. StackSound
  BY <1>1, <1>3 DEF StackSound, Running
<1>15. Held = {}
  <2>1. {w \in Window : doc[w].closing} = {}
    BY <1>6, <1>7
  <2> QED
    BY <1>1, <2>1 DEF Held
<1>16. LocksFollow /\ OpeningFollows
  BY <1>1, <1>3, <1>15 DEF LocksFollow, OpeningFollows
<1>17. WritingSound
  BY <1>1, <1>2 DEF WritingSound, Running, Designs, Known
<1> QED
  BY <1>2, <1>10, <1>12, <1>13, <1>14, <1>16, <1>17 DEF SessionInv

LEMMA SessionNext == SessionInv /\ [Next]_vars => SessionInv'
BY ProceedsKeeps, EventsKeep, UserActKeeps, DeleteClosedKeeps, LeaveKeeps, CrashKeeps,
   StartKeeps, StutterKeeps
DEF Next

\* The invariant holds.
THEOREM SessionInvHolds == Spec => []SessionInv
BY SessionInit, SessionNext, PTL DEF Spec

\* The state of the session keeps its shape: no window is listed twice and no
\* file is recent twice, and a listed window is alive (WindowManager's
\* m_entries, RecentFiles::addFile()).
THEOREM SessionTypesHold == Spec => []TypeOK
<1>1. SessionInv => TypeOK
  <2> SUFFICES ASSUME SessionInv PROVE TypeOK
    OBVIOUS
  <2>1. FileTypeOK /\ SessionTypes /\ DocumentsSound
    BY DEF SessionInv, FileInv
  <2>2. \A w \in Window : IsListed(w) => Alive(w) /\ doc[w].content \in 0 .. work
    BY <2>1 DEF SessionTypes, DocumentsSound, IsDocument, Known, Alive
  <2>3. typing # NoTyping => IsListed(typing.win)
    BY <2>1, TypingFacts
  <2> QED
    BY <2>1, <2>2, <2>3 DEF TypeOK, SessionTypes
<1> QED
  BY <1>1, SessionInvHolds, PTL

\* No design that the user did not give up is lost: through every order of
\* questions, nested closes and quits, failing saves, crashes and restarts it
\* stays typed, in an open window or whole in a file (confirmClose(), save(),
\* commitPendingEdits(), replaceFileWith()).
THEOREM WorkStaysKept == Spec => []WorkIsKept
<1>1. SessionInv => WorkIsKept
  BY DEF SessionInv
<1> QED
  BY <1>1, SessionInvHolds, PTL

\* A save goes on after its questions only while its window is there, and a
\* close that closes finds the window still open (destroyLater()).
THEOREM CallsHaveTheirWindows == Spec => []WindowsOutliveTheirCalls
<1>1. SessionInv => WindowsOutliveTheirCalls
  <2> SUFFICES ASSUME SessionInv PROVE WindowsOutliveTheirCalls
    OBVIOUS
  <2>1. ASSUME NEW at \in {"save", "saveAs", "verify", "write", "writing"}, Running("save", at)
        PROVE  Alive(Top.win)
    BY <2>1, TopSound DEF Running, SaveSound, Alive
  <2>2. ASSUME NEW at \in {"saved", "destroy"}, Running("close", at)
        PROVE  IsListed(Top.win)
    <3>1. stack # <<>> /\ Top.op = "close" /\ Closing(Top)
      BY <2>2 DEF Running, Closing
    <3>2. Top.win \in Open
      BY <3>1, TopSound DEF CloseSound
    <3> QED
      BY <3>2 DEF IsListed, Open
  <2> QED
    BY <2>1, <2>2 DEF WindowsOutliveTheirCalls
<1> QED
  BY <1>1, SessionInvHolds, PTL

\* As many calls have a lock as it is taken.
LEMMA LockCount ==
  ASSUME SessionInv, NEW lock, lock # NoLock
  PROVE  Cardinality({i \in DOMAIN stack : LockOf(stack[i]) = lock})
           = (IF lock \in Held THEN 1 ELSE 0)
<1> DEFINE S == {i \in DOMAIN stack : LockOf(stack[i]) = lock}
<1>1. /\ DOMAIN stack = 1 .. Len(stack)
      /\ lock \in Held <=> \E i \in 1 .. Len(stack) : LockOf(stack[i]) = lock
      /\ \A i, j \in 1 .. Len(stack) : LockOf(stack[i]) = lock /\ LockOf(stack[j]) = lock => i = j
  <2>1. DOMAIN stack = 1 .. Len(stack)
    BY DEF SessionInv, StackSound
  <2> QED
    BY <2>1 DEF SessionInv, LocksFollow
<1>2. CASE lock \in Held
  <2>1. PICK i \in DOMAIN stack : LockOf(stack[i]) = lock
    BY <1>1, <1>2
  <2>2. S = {i}
    BY <1>1, <2>1
  <2> QED
    BY <1>2, <2>2, FS_Singleton
<1>3. CASE lock \notin Held
  <2>1. S = {}
    BY <1>1, <1>3
  <2> QED
    BY <1>3, <2>1, FS_EmptySet
<1> QED
  BY <1>2, <1>3

\* The guards against a second reopen, quit or close of a window are set just
\* while one such call is under way, and m_openingFiles while files are opened,
\* in whatever order the nested calls end.
THEOREM FlagsAreRight == Spec => []FlagsFollowCalls
<1>1. SessionInv => FlagsFollowCalls
  <2> SUFFICES ASSUME SessionInv PROVE FlagsFollowCalls
    OBVIOUS
  <2>1. DOMAIN stack = 1 .. Len(stack)
    BY DEF SessionInv, StackSound
  <2>2. openingFiles <=> UnderWay("files", {"opened"}) # {}
    BY <2>1 DEF SessionInv, OpeningFollows, Opens, UnderWay
  <2>3. /\ QuitLock # NoLock /\ ReopenLock # NoLock /\ QuitLock # ReopenLock
        /\ QuitLock \in Held <=> quitting
        /\ ReopenLock \in Held <=> reopening
        /\ \A w : <<"close", w>> # QuitLock /\ <<"close", w>> # ReopenLock
    BY FlagLocks
  <2>4. UnderWay("reopen", {"opened"}) = {i \in DOMAIN stack : LockOf(stack[i]) = ReopenLock}
    <3>1. ASSUME NEW c
          PROVE  (c.op = "reopen" /\ c.at \in {"opened"}) <=> LockOf(c) = ReopenLock
      BY <2>3 DEF LockOf, Closing, ReopenLock, QuitLock
    <3> QED
      BY <3>1 DEF UnderWay
  <2>5. UnderWay("quit", {"next", "closed"}) = {i \in DOMAIN stack : LockOf(stack[i]) = QuitLock}
    <3>1. ASSUME NEW c
          PROVE  (c.op = "quit" /\ c.at \in {"next", "closed"}) <=> LockOf(c) = QuitLock
      BY <2>3 DEF LockOf, Closing, ReopenLock, QuitLock
    <3> QED
      BY <3>1 DEF UnderWay
  <2>6. ASSUME NEW w \in Window
        PROVE  Cardinality({i \in UnderWay("close", {"saveChanges", "saved", "destroy"}) :
                              stack[i].win = w}) = (IF doc[w].closing THEN 1 ELSE 0)
    <3> DEFINE lock == <<"close", w>>
    <3>1. ASSUME NEW c
          PROVE  (Closing(c) /\ c.win = w) <=> LockOf(c) = lock
      BY DEF LockOf, NoLock
    <3>2. {i \in UnderWay("close", {"saveChanges", "saved", "destroy"}) : stack[i].win = w}
            = {i \in DOMAIN stack : LockOf(stack[i]) = lock}
      BY <3>1 DEF UnderWay, Closing
    <3>3. lock # NoLock
      BY DEF NoLock
    <3>4. lock \in Held <=> doc[w].closing
      BY DEF Held
    <3> HIDE DEF lock
    <3> QED
      BY <3>2, <3>3, <3>4, LockCount
  <2> QED
    BY <2>2, <2>3, <2>4, <2>5, <2>6, LockCount DEF FlagsFollowCalls
<1> QED
  BY <1>1, SessionInvHolds, PTL

-----------------------------------------------------------------------------
(* The files under the session.                                              *)

\* What the session does to the files are steps of their replacement.
LEMMA FilesMove == SessionInv /\ [Next]_vars => [FileNext]_fileVars
<1> SUFFICES ASSUME SessionInv, [Next]_vars PROVE FileNext \/ UNCHANGED fileVars
  OBVIOUS
<1> HIDE DEF fileVars
<1>1. CASE UNCHANGED vars
  BY <1>1 DEF vars
<1>2. CASE SaveProceeds
  <2>1. CASE WriteBegins
    <3>1. Top.file \in File /\ Begin(Top.file)
      BY <2>1, TopSound DEF WriteBegins, Running, SaveSound
    <3> QED
      BY <3>1 DEF FileNext
  <2>2. CASE Archive
    <3>1. doc[Top.win].content \in Content
      BY <2>2, WritingFacts DEF Archive
    <3>2. Write(doc[Top.win].content) \/ ContentsFail("missing") \/ ContentsFail("io")
      BY <2>2 DEF Archive
    <3> QED
      BY <3>1, <3>2 DEF FileNext, Errors
  <2>3. CASE FileProceeds \/ WriteSucceeds \/ WriteFails
    BY <2>3 DEF FileProceeds, WriteSucceeds, WriteFails, FileNext
  <2> QED
    BY <1>2, <2>1, <2>2, <2>3
    DEF SaveProceeds, SaveStep, SaveUnchanged, SaveBegins, SaveAsBegins, DesignInfoCloses,
        SaveFileChosen, OverwriteAnswered, StorageOptionsVerified, StorageOptionsAnswered,
        DecalFileAnswered, SaveFailedCloses, SaveEnds
<1>3. CASE CloseStep \/ QuitStep
  BY <1>3 DEF CloseStep, CloseBegins, SaveChangesAnswered, CloseSaved, CloseEnds, KeepsFiles,
              QuitStep, QuitBegins, QuitNext, QuitClosed, QuitUnchanged
<1>4. CASE OpenStep
  BY <1>4 DEF OpenStep, OpenFileChosen, OpenNext, LoadMessageCloses, DocumentAdded,
              DocumentOpened, RecentBegins, RecentEnds, OpenUnchanged, KeepsFiles
<1>5. CASE SessionStep
  BY <1>5 DEF SessionStep, FilesBegin, FilesEnd, ReopenBegins, ReopenEnds, StartBegins,
              StartOpened, StartProblems, StartEnds, SessionUnchanged
<1>6. CASE QuitEvent \/ Activated \/ \E files \in FileLists : OpenFilesEvent(files)
  BY <1>6 DEF QuitEvent, Activated, OpenFilesEvent, Requests
<1>7. CASE UserAct \/ \E w \in Window : DeleteClosed(w)
  BY <1>7 DEF UserAct, MenuItem, New, EditDesign, TypeInDialog, UserUnchanged, DeleteClosed
<1>8. CASE Leave \/ \E files \in FileLists : Start(files)
  BY <1>8 DEF Leave, Start
<1>9. CASE Crash
  BY <1>9 DEF Crash, FileNext
<1> QED
  BY <1>1, <1>2, <1>3, <1>4, <1>5, <1>6, <1>7, <1>8, <1>9 DEF Next, Proceeds

LEMMA SessionReplaces == Spec => FileSpec
<1>1. Init => FileInit
  BY DEF Init
<1> QED
  BY <1>1, FilesMove, SessionInvHolds, PTL DEF Spec, FileSpec

\* Each design file is, at any time of the session, the whole of what it was or
\* of what a save put there (replaceFile()'s comment), through crashes too.
THEOREM SessionImplementsStore == Spec => ImplementsStore
BY SessionReplaces, ReplacementIsWhole, PTL

\* Nothing in the session changes a design file but the rename that ends a
\* save, or its read-only attribute where a rename would be refused for it.
THEOREM SessionReplacesByRename == Spec => OnlyTheRenameReplaces
BY SessionReplaces, ReplacesOnlyByRename, PTL
=============================================================================
