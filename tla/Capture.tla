------------------------------ MODULE Capture ------------------------------
(***************************************************************************)
(* Screen capture.  A treeland capture context lets the user choose a      *)
(* source with the window selector, of which there is one, and then makes  *)
(* one frame and a session of it (CaptureGlobal).  GXDE's screenshot       *)
(* frames capture an output, a window's scene or a window's surface        *)
(* (GxdeScreenshotManager::Frame).  Captures lock what they read from:     *)
(* attach_render_locks and software_cursor_locks of an output, the         *)
(* start/stop count of a scene source.  Requests, commits of outputs, the  *)
(* user, the session lock and the loss of an output, a window or an object *)
(* come in any order.                                                      *)
(*                                                                         *)
(* Pixels, formats and sizes are abstracted to whether a copy works.       *)
(***************************************************************************)
EXTENDS Naturals, FiniteSets

CONSTANTS
  Contexts,   \* treeland capture contexts
  Objects,    \* frames, sessions and screenshots
  Displays,   \* wlr_outputs; one that went never comes back
  Windows,    \* windows, each with a scene source and a surface
  Nobody      \* nullptr

ASSUME CaptureAssumption == Nobody \notin Contexts \cup Objects \cup Displays \cup Windows

VARIABLES
  contexts_,        \* contexts by name, for those that exist
  objects_,         \* frames_ and sessions_ of both protocols, likewise
  selector,         \* who waits for the WindowSelector, and the output under its cursor
  sources,          \* outputs and windows that exist
  locks,            \* attach_render_locks; for a window, starts less stops
  cursor_locks,     \* software_cursor_locks
  capture_locked    \* SessionLocked()

captureVars == <<contexts_, objects_, selector, sources, locks, cursor_locks, capture_locked>>

\* kind      a treeland frame or session, or a screenshot of an output, a
\*           window's scene or a window's surface
\* context   the back-pointer to the treeland context
\* target    the output or window it listens to
\* run       output_locked, started or capture_started_
\* idle      start_idle_ is pending
\* cursor    it locks, or would lock, software cursors
\* buffer    it has a buffer; for a session, awaiting_ack
\* dead      failed or terminal_
Object(kind, context, target, cursor) ==
  [kind |-> kind, context |-> context, target |-> target, run |-> FALSE, idle |-> FALSE,
   cursor |-> cursor, buffer |-> FALSE, dead |-> FALSE]

Treeland == {"frame", "session"}

CaptureInit ==
  /\ contexts_ = << >> /\ objects_ = << >>
  /\ selector = [owner |-> Nobody, output |-> Nobody]
  /\ sources = Displays \cup Windows
  /\ locks = [t \in Displays \cup Windows |-> 0]
  /\ cursor_locks = [o \in Displays |-> 0]
  /\ capture_locked = FALSE

With(f, x, value) == [y \in DOMAIN f \cup {x} |-> IF y = x THEN value ELSE f[y]]

Without(f, set) == [y \in DOMAIN f \ set |-> f[y]]

\* wlr_output_lock_attach_render and wlr_output_lock_software_cursors, or the
\* source's start: one more lock for an object that begins to run.
Lock(object) ==
  /\ locks' = IF object.kind = "surface" THEN locks
              ELSE [locks EXCEPT ![object.target] = @ + 1]
  /\ cursor_locks' = IF object.cursor THEN [cursor_locks EXCEPT ![object.target] = @ + 1]
                     ELSE cursor_locks

\* UnlockOutput, Stop and StopCapture of the objects of a set: those that run
\* give back what they locked.
Unlock(set) ==
  LET held == {x \in set : objects_[x].run /\ objects_[x].kind # "surface"}
      Of(t) == {x \in held : objects_[x].target = t}
  IN  /\ locks' = [t \in DOMAIN locks |-> locks[t] - Cardinality(Of(t))]
      /\ cursor_locks' = [o \in Displays |->
           cursor_locks[o] - Cardinality({x \in Of(o) : objects_[x].cursor})]

-----------------------------------------------------------------------------
(* Choosing a source.                                                      *)

\* GetContext
GetContext(c) ==
  /\ c \notin DOMAIN contexts_
  /\ contexts_' = With(contexts_, c,
       [output |-> Nobody, selected |-> FALSE, selecting |-> FALSE, requested |-> FALSE,
        cursor |-> FALSE, frame |-> Nobody, session |-> Nobody])
  /\ UNCHANGED <<objects_, selector, sources, locks, cursor_locks, capture_locked>>

\* SelectSource, when it is not refused at once; Start fails while the
\* selector is in use.
SelectSource(c, cursor) ==
  /\ c \in DOMAIN contexts_
  /\ ~capture_locked /\ ~contexts_[c].selected /\ ~contexts_[c].selecting
  /\ LET free == selector.owner = Nobody
     IN  /\ contexts_' = [contexts_ EXCEPT ![c].cursor = cursor, ![c].selecting = free]
         /\ IF free THEN selector' = [selector EXCEPT !.owner = c] ELSE UNCHANGED selector
  /\ UNCHANGED <<objects_, sources, locks, cursor_locks, capture_locked>>

\* HandleMotion: the selector's cursor is over an output.
SelectorMotion(o) ==
  /\ selector.owner # Nobody /\ o \in sources \cap Displays
  /\ selector' = [selector EXCEPT !.output = o]
  /\ UNCHANGED <<contexts_, objects_, sources, locks, cursor_locks, capture_locked>>

NoSelection == [owner |-> Nobody, output |-> Nobody]

\* Finish with a selection: the callback of SelectSource, and CompleteSelection
\* when the target lies on the output.
FinishSelection(fits) ==
  /\ selector.owner # Nobody /\ selector.output # Nobody
  /\ contexts_' = [contexts_ EXCEPT
       ![selector.owner].selecting = FALSE, ![selector.owner].selected = fits,
       ![selector.owner].output = IF fits THEN selector.output ELSE @]
  /\ selector' = NoSelection
  /\ UNCHANGED <<objects_, sources, locks, cursor_locks, capture_locked>>

\* WindowSelector::Cancel by the user, a shortcut, the window menu, a touch
\* that ends or the mask surface that goes: Finish without one.
CancelSelection ==
  /\ selector.owner # Nobody
  /\ contexts_' = [contexts_ EXCEPT ![selector.owner].selecting = FALSE]
  /\ selector' = NoSelection
  /\ UNCHANGED <<objects_, sources, locks, cursor_locks, capture_locked>>

\* Mutant: the selector is left running for a context that is gone.
Faulty_DestroyContext(c) ==
  /\ c \in DOMAIN contexts_
  /\ LET children == {contexts_[c].frame, contexts_[c].session} \ {Nobody}
     IN  /\ contexts_' = Without(contexts_, {c})
         /\ objects_' = Without(objects_, children)
         /\ Unlock(children)
  /\ UNCHANGED <<selector, sources, capture_locked>>

\* DestroyContext takes its frame and its session with it.
DestroyContext(c) ==
  /\ c \in DOMAIN contexts_
  /\ LET children == {contexts_[c].frame, contexts_[c].session} \ {Nobody}
     IN  /\ contexts_' = Without(contexts_, {c})
         /\ objects_' = Without(objects_, children)
         /\ Unlock(children)
  /\ selector' = IF contexts_[c].selecting THEN NoSelection ELSE selector
  /\ UNCHANGED <<sources, capture_locked>>

-----------------------------------------------------------------------------
(* Treeland frames and sessions.                                           *)

\* Capture: the first frame of a context waits for a commit of its output; any
\* other fails and belongs to no context.
CaptureFrame(c, x) ==
  /\ c \in DOMAIN contexts_ /\ x \notin DOMAIN objects_
  /\ LET context == contexts_[c]
         frame == Object("frame", c, context.output, FALSE)
         failed == [frame EXCEPT !.target = Nobody, !.dead = TRUE]
     IN  IF context.requested
         THEN /\ objects_' = With(objects_, x, [failed EXCEPT !.context = Nobody])
              /\ UNCHANGED <<contexts_, locks, cursor_locks>>
         ELSE /\ contexts_' = [contexts_ EXCEPT ![c].requested = TRUE, ![c].frame = x]
              /\ IF context.output # Nobody /\ ~capture_locked
                 THEN objects_' = With(objects_, x, [frame EXCEPT !.run = TRUE]) /\ Lock(frame)
                 ELSE objects_' = With(objects_, x, failed) /\ UNCHANGED <<locks, cursor_locks>>
  /\ UNCHANGED <<selector, sources, capture_locked>>

\* Mutant: the frame keeps the output locked.
Faulty_FrameCommit(x, fits) ==
  /\ objects_[x].kind = "frame" /\ objects_[x].run
  /\ objects_' = [objects_ EXCEPT ![x].run = FALSE, ![x].buffer = TRUE, ![x].dead = ~fits]
  /\ UNCHANGED <<contexts_, selector, sources, locks, cursor_locks, capture_locked>>

\* Frame::OnCommit takes the first buffer of the output and unlocks it, then
\* fails if the source is not inside it.
FrameCommit(x, fits) ==
  /\ objects_[x].kind = "frame" /\ objects_[x].run
  /\ objects_' = [objects_ EXCEPT ![x].run = FALSE, ![x].buffer = TRUE, ![x].dead = ~fits]
  /\ Unlock({x})
  /\ UNCHANGED <<contexts_, selector, sources, capture_locked>>

\* CopyFrame: fails without a buffer, or when the copy does not work.
CopyFrame(x, works) ==
  /\ objects_[x].kind = "frame"
  /\ objects_' = [objects_ EXCEPT ![x].dead = @ \/ ~objects_[x].buffer \/ ~works]
  /\ UNCHANGED <<contexts_, selector, sources, locks, cursor_locks, capture_locked>>

\* CreateSession: one at a time for a context; any other belongs to none.
CreateSession(c, x) ==
  /\ c \in DOMAIN contexts_ /\ x \notin DOMAIN objects_
  /\ IF contexts_[c].session # Nobody
     THEN /\ objects_' = With(objects_, x, Object("session", Nobody, Nobody, FALSE))
          /\ UNCHANGED contexts_
     ELSE /\ objects_' = With(objects_, x, Object("session", c, contexts_[c].output, FALSE))
          /\ contexts_' = [contexts_ EXCEPT ![c].session = x]
  /\ UNCHANGED <<selector, sources, locks, cursor_locks, capture_locked>>

\* StartSession, when it is not refused.  A session created before its output
\* went still points to it: starting that one is not modelled.
StartSession(x) ==
  /\ objects_[x].kind = "session" /\ ~objects_[x].run
  /\ objects_[x].target \in sources /\ objects_[x].context # Nobody /\ ~capture_locked
  /\ LET c == objects_[x].context
         session == [objects_[x] EXCEPT !.run = TRUE, !.cursor = contexts_[c].cursor]
     IN  /\ contexts_[c].selected
         /\ objects_' = [objects_ EXCEPT ![x] = session]
         /\ Lock(session)
  /\ UNCHANGED <<contexts_, selector, sources, capture_locked>>

\* Session::OnCommit sends a frame and then waits for SessionFrameDone.
SessionCommit(x) ==
  /\ objects_[x].kind = "session" /\ objects_[x].run /\ ~objects_[x].buffer
  /\ objects_' = [objects_ EXCEPT ![x].buffer = TRUE]
  /\ UNCHANGED <<contexts_, selector, sources, locks, cursor_locks, capture_locked>>

SessionFrameDone(x) ==
  /\ objects_[x].kind = "session" /\ objects_[x].run /\ objects_[x].buffer
  /\ objects_' = [objects_ EXCEPT ![x].buffer = FALSE]
  /\ UNCHANGED <<contexts_, selector, sources, locks, cursor_locks, capture_locked>>

-----------------------------------------------------------------------------
(* GXDE screenshots.                                                       *)

\* BeginOutput, BeginScene and BeginSurface; the scene source starts from an
\* idle callback, a surface is copied at once.
BeginShot(x, kind, target, cursor, works) ==
  /\ x \notin DOMAIN objects_
  /\ LET shot == Object(kind, Nobody, target, cursor)
     IN  IF capture_locked \/ (kind = "surface" /\ ~works)
         THEN /\ objects_' = With(objects_, x, [shot EXCEPT !.target = Nobody, !.dead = TRUE])
              /\ UNCHANGED <<locks, cursor_locks>>
         ELSE CASE kind = "output" ->
                     objects_' = With(objects_, x, [shot EXCEPT !.run = TRUE]) /\ Lock(shot)
                [] kind = "scene" -> /\ objects_' = With(objects_, x, [shot EXCEPT !.idle = TRUE])
                                     /\ UNCHANGED <<locks, cursor_locks>>
                [] kind = "surface" ->
                     /\ objects_' = With(objects_, x, [shot EXCEPT !.run = TRUE, !.buffer = TRUE])
                     /\ UNCHANGED <<locks, cursor_locks>>
  /\ UNCHANGED <<contexts_, selector, sources, capture_locked>>

\* Fail and StopCapture(true): everything is given back.
Stopped(object) ==
  [object EXCEPT !.run = FALSE, !.idle = FALSE, !.buffer = FALSE, !.target = Nobody]

FailShot(x) == objects_' = [objects_ EXCEPT ![x] = [Stopped(@) EXCEPT !.dead = TRUE]] /\ Unlock({x})

\* StartScene
StartScene(x) ==
  /\ objects_[x].idle
  /\ IF capture_locked THEN FailShot(x)
     ELSE /\ objects_' = [objects_ EXCEPT ![x].idle = FALSE, ![x].run = TRUE]
          /\ Lock(objects_[x])
  /\ UNCHANGED <<contexts_, selector, sources, capture_locked>>

\* OnOutputCommit, OnSourceFrame and OnSurfaceCommit: a copy for a shot without
\* a buffer.  Under the session lock the first two fail, the third waits.
ShotCommit(x, works) ==
  /\ objects_[x].kind \notin Treeland /\ objects_[x].run /\ ~objects_[x].buffer
  /\ IF works /\ ~capture_locked
     THEN objects_' = [objects_ EXCEPT ![x].buffer = TRUE] /\ UNCHANGED <<locks, cursor_locks>>
     ELSE IF objects_[x].kind = "surface" /\ capture_locked
     THEN UNCHANGED <<objects_, locks, cursor_locks>>
     ELSE FailShot(x)
  /\ UNCHANGED <<contexts_, selector, sources, capture_locked>>

\* Release: the client is done with the buffer and may want another.
Release(x, want) ==
  /\ objects_[x].kind \notin Treeland
  /\ IF objects_[x].dead \/ (want /\ ~capture_locked)
     THEN objects_' = [objects_ EXCEPT ![x].buffer = FALSE] /\ UNCHANGED <<locks, cursor_locks>>
     ELSE objects_' = [objects_ EXCEPT ![x] = Stopped(@)] /\ Unlock({x})
  /\ UNCHANGED <<contexts_, selector, sources, capture_locked>>

-----------------------------------------------------------------------------
\* DestroyFrame, DestroySession and ~Frame: a context forgets its own.
DestroyObject(x) ==
  /\ objects_' = Without(objects_, {x})
  /\ contexts_' = [c \in DOMAIN contexts_ |-> [contexts_[c] EXCEPT
       !.frame = IF @ = x THEN Nobody ELSE @, !.session = IF @ = x THEN Nobody ELSE @]]
  /\ Unlock({x})
  /\ UNCHANGED <<selector, sources, capture_locked>>

\* What OnOutputDestroy, OnSourceDestroy and OnSurfaceDestroy leave of an
\* object that listened to the source.  A session listens once it is started.
Bereft(object) ==
  IF object.kind = "session" /\ ~object.run THEN object
  ELSE IF object.kind = "session"
  THEN [object EXCEPT !.run = FALSE, !.target = Nobody, !.cursor = FALSE]
  ELSE IF object.kind = "frame"
  THEN [object EXCEPT !.run = FALSE, !.target = Nobody, !.dead = TRUE]
  ELSE [Stopped(object) EXCEPT !.dead = TRUE]

\* An output or a window goes: the selector is cancelled if it was over it,
\* contexts and objects are told, and its locks go with it.
SourceDestroyed(t) ==
  /\ t \in sources
  /\ sources' = sources \ {t}
  /\ objects_' = [x \in DOMAIN objects_ |->
       IF objects_[x].target = t THEN Bereft(objects_[x]) ELSE objects_[x]]
  /\ LET cancelled == selector.owner # Nobody /\ selector.output = t
     IN  /\ contexts_' = [c \in DOMAIN contexts_ |-> [contexts_[c] EXCEPT
              !.output = IF @ = t THEN Nobody ELSE @,
              !.selecting = @ /\ ~(cancelled /\ selector.owner = c)]]
         /\ selector' = IF cancelled THEN NoSelection ELSE selector
  /\ locks' = [locks EXCEPT ![t] = 0]
  /\ cursor_locks' = [o \in Displays |-> IF o = t THEN 0 ELSE cursor_locks[o]]
  /\ UNCHANGED capture_locked

\* The session is locked or unlocked.
ToggleLock ==
  /\ capture_locked' = ~capture_locked
  /\ UNCHANGED <<contexts_, objects_, selector, sources, locks, cursor_locks>>

CaptureNext ==
  \/ \E c \in Contexts : GetContext(c)
  \/ \E c \in Contexts, cursor \in BOOLEAN : SelectSource(c, cursor)
  \/ \E o \in Displays : SelectorMotion(o)
  \/ \E fits \in BOOLEAN : FinishSelection(fits)
  \/ CancelSelection
  \/ \E c \in Contexts : DestroyContext(c)
  \/ \E c \in Contexts, x \in Objects : CaptureFrame(c, x)
  \/ \E x \in DOMAIN objects_, fits \in BOOLEAN : FrameCommit(x, fits)
  \/ \E x \in DOMAIN objects_, works \in BOOLEAN : CopyFrame(x, works)
  \/ \E c \in Contexts, x \in Objects : CreateSession(c, x)
  \/ \E x \in DOMAIN objects_ : StartSession(x)
  \/ \E x \in DOMAIN objects_ : SessionCommit(x)
  \/ \E x \in DOMAIN objects_ : SessionFrameDone(x)
  \/ \E x \in Objects, o \in sources \cap Displays, cursor \in BOOLEAN :
       BeginShot(x, "output", o, cursor, TRUE)
  \/ \E x \in Objects, w \in sources \cap Windows, kind \in {"scene", "surface"}, works \in BOOLEAN :
       BeginShot(x, kind, w, FALSE, works)
  \/ \E x \in DOMAIN objects_ : StartScene(x)
  \/ \E x \in DOMAIN objects_, works \in BOOLEAN : ShotCommit(x, works)
  \/ \E x \in DOMAIN objects_, want \in BOOLEAN : Release(x, want)
  \/ \E x \in DOMAIN objects_ : DestroyObject(x)
  \/ \E t \in sources : SourceDestroyed(t)
  \/ ToggleLock

CaptureSpec == CaptureInit /\ [][CaptureNext]_captureVars

-----------------------------------------------------------------------------
\* The locks of an output, and the start count of a window's scene source, are
\* exactly those of the captures that run: none is leaked when a capture ends
\* in whichever way, and none is given back twice, which wlroots asserts
\* (Frame::UnlockOutput, Session::Stop, GxdeScreenshotManager::StopCapture).
LocksAreOwned ==
  LET running == {x \in DOMAIN objects_ : objects_[x].run /\ objects_[x].kind # "surface"}
      Of(t) == {x \in running : objects_[x].target = t}
  IN  /\ \A t \in sources : locks[t] = Cardinality(Of(t))
      /\ \A o \in sources \cap Displays :
           cursor_locks[o] = Cardinality({x \in Of(o) : objects_[x].cursor})

\* What points to a context points to one that exists and that knows of it.  The
\* window selector runs exactly for the context that waits for it, so every
\* answer reaches a context and none waits for an answer that never comes; a
\* frame or session with a back-pointer is the one its context has: "destroying
\* its context cannot leave a dangling back-pointer" (SelectSource,
\* DestroyContext, WindowSelector::Finish, Capture, CreateSession).
ContextsAreAnswered ==
  /\ {c \in DOMAIN contexts_ : contexts_[c].selecting} = {selector.owner} \ {Nobody}
  /\ \A x \in DOMAIN objects_ : LET c == objects_[x].context IN
       c # Nobody => c \in DOMAIN contexts_ /\ x \in {contexts_[c].frame, contexts_[c].session}

=============================================================================
