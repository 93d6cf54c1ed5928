---------------------------- MODULE CaptureProofs ----------------------------
(***************************************************************************)
(* Captures, for any number of outputs, windows, contexts and captures:    *)
(* no lock of an output or a source is leaked or given back twice, and     *)
(* nothing points to a context that is gone.                               *)
(***************************************************************************)
EXTENDS Capture, TLAPS, FiniteSetTheorems

Captured == Displays \cup Windows

CaptureObject ==
  [kind : {"frame", "session", "output", "scene", "surface"}, context : Contexts \cup {Nobody},
   target : Captured \cup {Nobody}, run : BOOLEAN, idle : BOOLEAN, cursor : BOOLEAN,
   buffer : BOOLEAN, dead : BOOLEAN]

CaptureContext ==
  [output : Displays \cup {Nobody}, selected : BOOLEAN, selecting : BOOLEAN,
   requested : BOOLEAN, cursor : BOOLEAN, frame : Objects \cup {Nobody},
   session : Objects \cup {Nobody}]

CaptureTypeOK ==
  /\ DOMAIN objects_ \subseteq Objects /\ IsFiniteSet(DOMAIN objects_)
  /\ objects_ \in [DOMAIN objects_ -> CaptureObject]
  /\ DOMAIN contexts_ \subseteq Contexts
  /\ contexts_ \in [DOMAIN contexts_ -> CaptureContext]
  /\ selector \in [owner : Contexts \cup {Nobody}, output : Displays \cup {Nobody}]
  /\ sources \subseteq Captured
  /\ locks \in [Captured -> Nat]
  /\ cursor_locks \in [Displays -> Nat]
  /\ capture_locked \in BOOLEAN

\* An object that runs, or is about to, reads from a source that exists, and
\* only outputs are captured with a cursor.
Reads(object, existing) ==
  /\ object.run \/ object.idle => object.target \in existing
  /\ object.idle => ~object.run /\ object.kind = "scene"
  /\ object.kind \in {"frame", "session", "output"} => object.target \in Displays \cup {Nobody}
  /\ object.cursor => object.kind \in {"session", "output"}

\* The captures that hold a lock of a source, and those that hide its cursor.
Holders(objects, t) ==
  {x \in DOMAIN objects : objects[x].run /\ objects[x].kind # "surface" /\ objects[x].target = t}

CursorHolders(objects, t) == {x \in Holders(objects, t) : objects[x].cursor}

Counted(objects, count, cursor_count) ==
  /\ \A t \in Captured : count[t] = Cardinality(Holders(objects, t))
  /\ \A o \in Displays : cursor_count[o] = Cardinality(CursorHolders(objects, o))

\* A context and its frame and session know of each other.
Paired(contexts, objects) ==
  /\ \A x \in DOMAIN objects : LET c == objects[x].context IN
       c # Nobody => c \in DOMAIN contexts /\ x \in {contexts[c].frame, contexts[c].session}
  /\ \A c \in DOMAIN contexts : \A x \in {contexts[c].frame, contexts[c].session} \ {Nobody} :
       x \in DOMAIN objects /\ objects[x].context = c
  /\ \A c \in DOMAIN contexts : contexts[c].frame # Nobody => contexts[c].requested

\* The selector runs exactly for the context that waits for it.
Selecting(contexts, chooser) ==
  {c \in DOMAIN contexts : contexts[c].selecting} = {chooser.owner} \ {Nobody}

\* What contexts and the selector remember exists.
Remembered(contexts, chooser, existing) ==
  /\ chooser.output \in existing \cup {Nobody}
  /\ chooser.owner = Nobody => chooser.output = Nobody
  /\ \A c \in DOMAIN contexts : contexts[c].output \in existing \cup {Nobody}

CaptureGood ==
  /\ CaptureTypeOK
  /\ \A x \in DOMAIN objects_ : Reads(objects_[x], sources)
  /\ Counted(objects_, locks, cursor_locks)
  /\ Paired(contexts_, objects_)
  /\ Selecting(contexts_, selector)
  /\ Remembered(contexts_, selector, sources)

-----------------------------------------------------------------------------
(* Counting locks.                                                         *)

LEMMA FiniteSubset ==
  ASSUME NEW S, IsFiniteSet(S), NEW T \in SUBSET S
  PROVE  IsFiniteSet(T) /\ Cardinality(T) \in Nat
<1>1. IsFiniteSet(T)
  BY FS_Subset
<1> QED
  BY <1>1, FS_CardinalityType

LEMMA OneMore ==
  ASSUME NEW S, IsFiniteSet(S), NEW x, x \notin S
  PROVE  Cardinality(S \cup {x}) = Cardinality(S) + 1
BY FS_AddElement

LEMMA Fewer ==
  ASSUME NEW S, IsFiniteSet(S), NEW T
  PROVE  Cardinality(S \ T) = Cardinality(S) - Cardinality(S \cap T)
BY FS_Difference

LEMMA NoneHeld == Cardinality({}) = 0
BY FS_EmptySet

LEMMA HoldersFinite ==
  ASSUME NEW f, IsFiniteSet(DOMAIN f), NEW t
  PROVE  /\ IsFiniteSet(Holders(f, t)) /\ Cardinality(Holders(f, t)) \in Nat
         /\ IsFiniteSet(CursorHolders(f, t)) /\ Cardinality(CursorHolders(f, t)) \in Nat
<1>1. Holders(f, t) \in SUBSET DOMAIN f /\ CursorHolders(f, t) \in SUBSET DOMAIN f
  BY DEF Holders, CursorHolders
<1> QED
  BY <1>1, FiniteSubset, Zenon

\* What runs in one runs in the other, on the same source.
Alike(f, g) ==
  /\ \A y \in DOMAIN f : f[y].run =>
       /\ y \in DOMAIN g /\ g[y].run /\ g[y].kind = f[y].kind
       /\ g[y].target = f[y].target /\ g[y].cursor = f[y].cursor
  /\ \A y \in DOMAIN g : g[y].run => y \in DOMAIN f /\ f[y].run

LEMMA AlikeCounted ==
  ASSUME NEW f, NEW g, NEW l, NEW k, Alike(f, g), Counted(f, l, k)
  PROVE  Counted(g, l, k)
<1>1. ASSUME NEW t PROVE Holders(f, t) = Holders(g, t) /\ CursorHolders(f, t) = CursorHolders(g, t)
  BY DEF Alike, Holders, CursorHolders
<1> QED
  BY <1>1 DEF Counted

\* Lock counts a capture that begins to run.
LEMMA LockTaken ==
  ASSUME NEW g, NEW x, NEW object,
         IsFiniteSet(DOMAIN objects_), locks \in [Captured -> Nat],
         cursor_locks \in [Displays -> Nat], Counted(objects_, locks, cursor_locks),
         x \in DOMAIN objects_ => ~objects_[x].run,
         DOMAIN g = DOMAIN objects_ \cup {x},
         \A y \in DOMAIN objects_ \ {x} : g[y] = objects_[y],
         g[x].run, g[x].kind = object.kind, g[x].target = object.target,
         g[x].cursor = object.cursor, object.cursor \in BOOLEAN,
         object.kind # "surface", object.target \in Captured,
         object.cursor => object.target \in Displays,
         Lock(object)
  PROVE  /\ locks' \in [Captured -> Nat] /\ cursor_locks' \in [Displays -> Nat]
         /\ Counted(g, locks', cursor_locks')
<1> DEFINE o == object.target
<1>1. ASSUME NEW t PROVE /\ Holders(g, t) = IF t = o THEN Holders(objects_, t) \cup {x}
                                            ELSE Holders(objects_, t)
                         /\ CursorHolders(g, t) = IF t = o /\ object.cursor
                                                  THEN CursorHolders(objects_, t) \cup {x}
                                                  ELSE CursorHolders(objects_, t)
                         /\ x \notin Holders(objects_, t) /\ x \notin CursorHolders(objects_, t)
  BY DEF Holders, CursorHolders
<1>2. ASSUME NEW t
      PROVE  /\ Cardinality(Holders(g, t)) = Cardinality(Holders(objects_, t)) +
                  IF t = o THEN 1 ELSE 0
             /\ Cardinality(CursorHolders(g, t)) = Cardinality(CursorHolders(objects_, t)) +
                  IF t = o /\ object.cursor THEN 1 ELSE 0
  <2>1. Cardinality(Holders(objects_, t) \cup {x}) = Cardinality(Holders(objects_, t)) + 1
    <3>1. x \notin Holders(objects_, t) /\ IsFiniteSet(Holders(objects_, t))
      BY <1>1, HoldersFinite, Zenon
    <3> QED
      BY <3>1, OneMore, Zenon
  <2>2. Cardinality(CursorHolders(objects_, t) \cup {x}) = Cardinality(CursorHolders(objects_, t)) + 1
    <3>1. x \notin CursorHolders(objects_, t) /\ IsFiniteSet(CursorHolders(objects_, t))
      BY <1>1, HoldersFinite, Zenon
    <3> QED
      BY <3>1, OneMore, Zenon
  <2>3. Cardinality(Holders(objects_, t)) \in Nat /\ Cardinality(CursorHolders(objects_, t)) \in Nat
    BY HoldersFinite, Zenon
  <2>4. Cardinality(Holders(g, t)) = Cardinality(Holders(objects_, t)) + IF t = o THEN 1 ELSE 0
    <3>1. Holders(g, t) = IF t = o THEN Holders(objects_, t) \cup {x} ELSE Holders(objects_, t)
      BY <1>1, Zenon
    <3> QED
      BY <2>1, <2>3, <3>1
  <2>5. Cardinality(CursorHolders(g, t)) = Cardinality(CursorHolders(objects_, t)) +
          IF t = o /\ object.cursor THEN 1 ELSE 0
    <3>1. CursorHolders(g, t) = IF t = o /\ object.cursor THEN CursorHolders(objects_, t) \cup {x}
                                ELSE CursorHolders(objects_, t)
      BY <1>1, Zenon
    <3> QED
      BY <2>2, <2>3, <3>1
  <2> QED
    BY <2>4, <2>5
<1>3. locks' = [locks EXCEPT ![o] = @ + 1]
  BY DEF Lock
<1>4. cursor_locks' = IF object.cursor THEN [cursor_locks EXCEPT ![o] = @ + 1] ELSE cursor_locks
  BY DEF Lock
<1>5. locks' \in [Captured -> Nat] /\ cursor_locks' \in [Displays -> Nat]
  BY <1>3, <1>4
<1>6. ASSUME NEW t \in Captured PROVE locks'[t] = Cardinality(Holders(g, t))
  BY <1>2, <1>3 DEF Counted
<1>7. ASSUME NEW t \in Displays PROVE cursor_locks'[t] = Cardinality(CursorHolders(g, t))
  BY <1>2, <1>4 DEF Counted
<1> QED
  BY <1>5, <1>6, <1>7 DEF Counted

\* Unlock gives back what captures that end, or go, held.
LEMMA LocksReturned ==
  ASSUME NEW g, NEW set \in SUBSET DOMAIN objects_,
         IsFiniteSet(DOMAIN objects_), locks \in [Captured -> Nat],
         cursor_locks \in [Displays -> Nat], Counted(objects_, locks, cursor_locks),
         DOMAIN g \subseteq DOMAIN objects_,
         \A y \in DOMAIN objects_ \ set : y \in DOMAIN g /\ g[y] = objects_[y],
         \A y \in DOMAIN g \cap set : ~g[y].run,
         Unlock(set)
  PROVE  /\ locks' \in [Captured -> Nat] /\ cursor_locks' \in [Displays -> Nat]
         /\ Counted(g, locks', cursor_locks')
<1>1. ASSUME NEW t PROVE /\ Holders(g, t) = Holders(objects_, t) \ set
                         /\ CursorHolders(g, t) = CursorHolders(objects_, t) \ set
  BY DEF Holders, CursorHolders
<1> DEFINE Held == {x \in set : objects_[x].run /\ objects_[x].kind # "surface"}
           Of(t) == {x \in Held : objects_[x].target = t}
           CursorOf(t) == {x \in Of(t) : objects_[x].cursor}
<1>2. ASSUME NEW t PROVE /\ Of(t) = Holders(objects_, t) \cap set
                         /\ CursorOf(t) = CursorHolders(objects_, t) \cap set
  BY DEF Holders, CursorHolders
<1>3. ASSUME NEW t
      PROVE  /\ Cardinality(Holders(g, t)) = Cardinality(Holders(objects_, t)) - Cardinality(Of(t))
             /\ Cardinality(CursorHolders(g, t)) =
                  Cardinality(CursorHolders(objects_, t)) - Cardinality(CursorOf(t))
  <2>1. IsFiniteSet(Holders(objects_, t)) /\ IsFiniteSet(CursorHolders(objects_, t))
    BY HoldersFinite, Zenon
  <2>2. Cardinality(Holders(objects_, t) \ set) =
          Cardinality(Holders(objects_, t)) - Cardinality(Holders(objects_, t) \cap set)
    BY <2>1, Fewer, Zenon
  <2>3. Cardinality(CursorHolders(objects_, t) \ set) =
          Cardinality(CursorHolders(objects_, t)) - Cardinality(CursorHolders(objects_, t) \cap set)
    BY <2>1, Fewer, Zenon
  <2> HIDE DEF Of, CursorOf
  <2> QED
    BY <1>1, <1>2, <2>2, <2>3
<1>4. ASSUME NEW t PROVE /\ Cardinality(Holders(g, t)) \in Nat
                         /\ Cardinality(CursorHolders(g, t)) \in Nat
  <2>1. IsFiniteSet(DOMAIN g)
    BY FiniteSubset, Zenon
  <2> QED
    BY <2>1, HoldersFinite, Zenon
<1>5. /\ locks' = [t \in DOMAIN locks |-> locks[t] - Cardinality(Of(t))]
      /\ cursor_locks' = [t \in Displays |-> cursor_locks[t] - Cardinality(CursorOf(t))]
  BY DEF Unlock
<1> HIDE DEF Of, CursorOf
<1>6. ASSUME NEW t \in Captured PROVE locks'[t] = Cardinality(Holders(g, t))
  BY <1>3, <1>5 DEF Counted
<1>7. ASSUME NEW t \in Displays PROVE cursor_locks'[t] = Cardinality(CursorHolders(g, t))
  BY <1>3, <1>5 DEF Counted
<1>8. locks' \in [Captured -> Nat]
  BY <1>4, <1>5, <1>6
<1>9. cursor_locks' \in [Displays -> Nat]
  BY <1>4, <1>5, <1>7
<1> QED
  BY <1>6, <1>7, <1>8, <1>9 DEF Counted

-----------------------------------------------------------------------------
(* One object changes.                                                     *)

\* The object keeps its context, and reads from what exists.
LEMMA ObjectChanges ==
  ASSUME CaptureGood, NEW x \in DOMAIN objects_, NEW o \in CaptureObject,
         o.context = objects_[x].context, Reads(o, sources),
         objects_' = [objects_ EXCEPT ![x] = o],
         UNCHANGED <<contexts_, selector, sources, capture_locked>>,
         locks' \in [Captured -> Nat], cursor_locks' \in [Displays -> Nat],
         Counted(objects_', locks', cursor_locks')
  PROVE  CaptureGood'
<1>1. /\ DOMAIN objects_' = DOMAIN objects_ /\ objects_'[x] = o
      /\ \A y \in DOMAIN objects_ \ {x} : objects_'[y] = objects_[y]
  BY DEF CaptureGood, CaptureTypeOK
<1>2. objects_' \in [DOMAIN objects_' -> CaptureObject]
  BY DEF CaptureGood, CaptureTypeOK
<1>3. CaptureTypeOK'
  BY <1>1, <1>2 DEF CaptureGood, CaptureTypeOK
<1>4. \A y \in DOMAIN objects_' : Reads(objects_'[y], sources')
  BY <1>1 DEF CaptureGood
<1>5. \A y \in DOMAIN objects_ : objects_'[y].context = objects_[y].context
  BY <1>1
<1>6. Paired(contexts_, objects_')
  BY <1>1, <1>5 DEF CaptureGood, Paired
<1> QED
  BY <1>3, <1>4, <1>6 DEF CaptureGood

\* It reads as before.
LEMMA ObjectAlike ==
  ASSUME CaptureGood, NEW x \in DOMAIN objects_, NEW o \in CaptureObject,
         o.context = objects_[x].context, Reads(o, sources), o.run = objects_[x].run,
         o.kind = objects_[x].kind, o.target = objects_[x].target, o.cursor = objects_[x].cursor,
         objects_' = [objects_ EXCEPT ![x] = o],
         UNCHANGED <<contexts_, selector, sources, locks, cursor_locks, capture_locked>>
  PROVE  CaptureGood'
<1>1. /\ DOMAIN objects_' = DOMAIN objects_ /\ objects_'[x] = o
      /\ \A y \in DOMAIN objects_ \ {x} : objects_'[y] = objects_[y]
  BY DEF CaptureGood, CaptureTypeOK
<1>2. Alike(objects_, objects_')
  BY <1>1 DEF Alike
<1>3. Counted(objects_', locks', cursor_locks')
  BY <1>2, AlikeCounted DEF CaptureGood
<1> QED
  BY <1>3, ObjectChanges DEF CaptureGood, CaptureTypeOK

\* It stops, if it ran.
LEMMA ObjectStops ==
  ASSUME CaptureGood, NEW x \in DOMAIN objects_, NEW o \in CaptureObject,
         o.context = objects_[x].context, Reads(o, sources), ~o.run,
         objects_' = [objects_ EXCEPT ![x] = o], Unlock({x}),
         UNCHANGED <<contexts_, selector, sources, capture_locked>>
  PROVE  CaptureGood'
<1> DEFINE g == [objects_ EXCEPT ![x] = o]
<1>1. /\ DOMAIN g = DOMAIN objects_ /\ g[x] = o
      /\ \A y \in DOMAIN objects_ \ {x} : g[y] = objects_[y]
  BY DEF CaptureGood, CaptureTypeOK
<1> HIDE DEF g
<1>2. /\ {x} \in SUBSET DOMAIN objects_ /\ DOMAIN g \subseteq DOMAIN objects_
      /\ \A y \in DOMAIN objects_ \ {x} : y \in DOMAIN g /\ g[y] = objects_[y]
      /\ \A y \in DOMAIN g \cap {x} : ~g[y].run
  BY <1>1
<1>3. /\ IsFiniteSet(DOMAIN objects_) /\ locks \in [Captured -> Nat]
      /\ cursor_locks \in [Displays -> Nat] /\ Counted(objects_, locks, cursor_locks)
  BY DEF CaptureGood, CaptureTypeOK
<1>4. /\ locks' \in [Captured -> Nat] /\ cursor_locks' \in [Displays -> Nat]
      /\ Counted(g, locks', cursor_locks')
  BY <1>2, <1>3, LocksReturned
<1> QED
  BY <1>4, ObjectChanges DEF g

\* It begins to run.
LEMMA ObjectRuns ==
  ASSUME CaptureGood, NEW x \in DOMAIN objects_, NEW o \in CaptureObject, NEW object,
         o.context = objects_[x].context, Reads(o, sources), ~objects_[x].run, o.run,
         o.kind # "surface", o.target \in Captured, o.cursor => o.target \in Displays,
         object.kind = o.kind, object.target = o.target, object.cursor = o.cursor,
         objects_' = [objects_ EXCEPT ![x] = o], Lock(object),
         UNCHANGED <<contexts_, selector, sources, capture_locked>>
  PROVE  CaptureGood'
<1> DEFINE g == [objects_ EXCEPT ![x] = o]
<1>1. /\ DOMAIN g = DOMAIN objects_ \cup {x} /\ g[x] = o
      /\ \A y \in DOMAIN objects_ \ {x} : g[y] = objects_[y]
  BY DEF CaptureGood, CaptureTypeOK
<1> HIDE DEF g
<1>2. /\ IsFiniteSet(DOMAIN objects_) /\ locks \in [Captured -> Nat]
      /\ cursor_locks \in [Displays -> Nat] /\ Counted(objects_, locks, cursor_locks)
      /\ object.cursor \in BOOLEAN
  BY DEF CaptureGood, CaptureTypeOK, CaptureObject
<1>3. /\ locks' \in [Captured -> Nat] /\ cursor_locks' \in [Displays -> Nat]
      /\ Counted(g, locks', cursor_locks')
  BY <1>1, <1>2, LockTaken
<1> QED
  BY <1>3, ObjectChanges DEF g

LEMMA ObjectTyped ==
  ASSUME CaptureGood, NEW x \in DOMAIN objects_
  PROVE  objects_[x] \in CaptureObject /\ Reads(objects_[x], sources)
BY DEF CaptureGood, CaptureTypeOK

LEMMA FrameCommitGood ==
  ASSUME CaptureGood, NEW x \in DOMAIN objects_, NEW fits \in BOOLEAN, FrameCommit(x, fits)
  PROVE  CaptureGood'
<1> DEFINE o == [objects_[x] EXCEPT !.run = FALSE, !.buffer = TRUE, !.dead = ~fits]
<1>1. objects_[x] \in CaptureObject /\ Reads(objects_[x], sources)
  BY ObjectTyped
<1>2. o \in CaptureObject /\ o.context = objects_[x].context /\ ~o.run
  BY <1>1 DEF CaptureObject
<1>3. Reads(o, sources)
  BY <1>1 DEF CaptureObject, Reads
<1>4. objects_' = [objects_ EXCEPT ![x] = o]
  BY DEF FrameCommit, CaptureGood, CaptureTypeOK
<1> HIDE DEF o
<1> QED
  BY <1>2, <1>3, <1>4, ObjectStops DEF FrameCommit

LEMMA CopyFrameGood ==
  ASSUME CaptureGood, NEW x \in DOMAIN objects_, NEW works \in BOOLEAN, CopyFrame(x, works)
  PROVE  CaptureGood'
<1> DEFINE d == objects_[x].dead \/ ~objects_[x].buffer \/ ~works
           o == [objects_[x] EXCEPT !.dead = d]
<1>1. objects_[x] \in CaptureObject /\ Reads(objects_[x], sources) /\ d \in BOOLEAN
  BY ObjectTyped
<1>2. objects_' = [objects_ EXCEPT ![x] = o]
  BY DEF CopyFrame, CaptureGood, CaptureTypeOK
<1> HIDE DEF d
<1>3. /\ o \in CaptureObject /\ o.context = objects_[x].context /\ o.run = objects_[x].run
      /\ o.kind = objects_[x].kind /\ o.target = objects_[x].target
      /\ o.cursor = objects_[x].cursor
  BY <1>1 DEF CaptureObject
<1>4. Reads(o, sources)
  BY <1>1 DEF CaptureObject, Reads
<1> HIDE DEF o
<1> QED
  BY <1>2, <1>3, <1>4, ObjectAlike DEF CopyFrame

LEMMA BufferGood ==
  ASSUME CaptureGood, NEW x \in DOMAIN objects_, NEW b \in BOOLEAN,
         objects_' = [objects_ EXCEPT ![x].buffer = b],
         UNCHANGED <<contexts_, selector, sources, locks, cursor_locks, capture_locked>>
  PROVE  CaptureGood'
<1> DEFINE o == [objects_[x] EXCEPT !.buffer = b]
<1>1. objects_[x] \in CaptureObject /\ Reads(objects_[x], sources)
  BY ObjectTyped
<1>2. objects_' = [objects_ EXCEPT ![x] = o]
  BY DEF CaptureGood, CaptureTypeOK
<1>3. /\ o \in CaptureObject /\ o.context = objects_[x].context /\ o.run = objects_[x].run
      /\ o.kind = objects_[x].kind /\ o.target = objects_[x].target
      /\ o.cursor = objects_[x].cursor
  BY <1>1 DEF CaptureObject
<1>4. Reads(o, sources)
  BY <1>1 DEF CaptureObject, Reads
<1> HIDE DEF o
<1> QED
  BY <1>2, <1>3, <1>4, ObjectAlike

LEMMA StoppedGood ==
  ASSUME CaptureGood, NEW x \in DOMAIN objects_, NEW d \in BOOLEAN,
         objects_' = [objects_ EXCEPT ![x] = [Stopped(objects_[x]) EXCEPT !.dead = d]],
         Unlock({x}), UNCHANGED <<contexts_, selector, sources, capture_locked>>
  PROVE  CaptureGood'
<1> DEFINE o == [Stopped(objects_[x]) EXCEPT !.dead = d]
<1>1. objects_[x] \in CaptureObject /\ Reads(objects_[x], sources)
  BY ObjectTyped
<1>2. o \in CaptureObject /\ o.context = objects_[x].context /\ ~o.run
  BY <1>1 DEF CaptureObject, Stopped
<1>3. Reads(o, sources)
  BY <1>1 DEF CaptureObject, Reads, Stopped
<1> HIDE DEF o
<1> QED
  BY <1>2, <1>3, ObjectStops DEF o

LEMMA FailShotGood ==
  ASSUME CaptureGood, NEW x \in DOMAIN objects_, FailShot(x),
         UNCHANGED <<contexts_, selector, sources, capture_locked>>
  PROVE  CaptureGood'
<1>1. objects_' = [objects_ EXCEPT ![x] = [Stopped(objects_[x]) EXCEPT !.dead = TRUE]]
  BY DEF FailShot
<1> QED
  BY <1>1, StoppedGood DEF FailShot

LEMMA ReleaseGood ==
  ASSUME CaptureGood, NEW x \in DOMAIN objects_, NEW want \in BOOLEAN, Release(x, want)
  PROVE  CaptureGood'
<1>1. CASE objects_[x].dead \/ (want /\ ~capture_locked)
  BY <1>1, BufferGood DEF Release
<1>2. CASE ~(objects_[x].dead \/ (want /\ ~capture_locked))
  <2>1. objects_[x] \in CaptureObject
    BY ObjectTyped
  <2>2. Stopped(objects_[x]) = [Stopped(objects_[x]) EXCEPT !.dead = objects_[x].dead]
    BY <2>1 DEF CaptureObject, Stopped
  <2>3. objects_' = [objects_ EXCEPT ![x] = [Stopped(objects_[x]) EXCEPT !.dead = objects_[x].dead]]
    BY <1>2, <2>2 DEF Release
  <2>4. objects_[x].dead \in BOOLEAN
    BY <2>1 DEF CaptureObject
  <2> QED
    BY <1>2, <2>3, <2>4, StoppedGood DEF Release
<1> QED
  BY <1>1, <1>2

LEMMA ShotCommitGood ==
  ASSUME CaptureGood, NEW x \in DOMAIN objects_, NEW works \in BOOLEAN, ShotCommit(x, works)
  PROVE  CaptureGood'
<1>1. CASE works /\ ~capture_locked
  BY <1>1, BufferGood DEF ShotCommit
<1>2. CASE ~(works /\ ~capture_locked) /\ objects_[x].kind = "surface" /\ capture_locked
  BY <1>2 DEF ShotCommit, CaptureGood, CaptureTypeOK
<1>3. CASE ~(works /\ ~capture_locked) /\ ~(objects_[x].kind = "surface" /\ capture_locked)
  BY <1>3, FailShotGood DEF ShotCommit
<1> QED
  BY <1>1, <1>2, <1>3

LEMMA StartSceneGood ==
  ASSUME CaptureGood, NEW x \in DOMAIN objects_, StartScene(x) PROVE CaptureGood'
<1>1. CASE capture_locked
  BY <1>1, FailShotGood DEF StartScene
<1>2. CASE ~capture_locked
  <2> DEFINE o == [objects_[x] EXCEPT !.idle = FALSE, !.run = TRUE]
  <2>1. objects_[x] \in CaptureObject /\ Reads(objects_[x], sources) /\ objects_[x].idle
    BY ObjectTyped DEF StartScene
  <2>2. /\ o \in CaptureObject /\ o.context = objects_[x].context /\ o.run
        /\ o.kind = objects_[x].kind /\ o.target = objects_[x].target
        /\ o.cursor = objects_[x].cursor /\ ~o.idle
    BY <2>1 DEF CaptureObject
  <2>3. objects_' = [objects_ EXCEPT ![x] = o] /\ Lock(objects_[x])
    BY <1>2 DEF StartScene, CaptureGood, CaptureTypeOK
  <2> HIDE DEF o
  <2>4. /\ ~objects_[x].run /\ o.kind = "scene" /\ o.target \in sources /\ ~o.cursor
        /\ sources \subseteq Captured
    BY <2>1, <2>2 DEF Reads, CaptureGood, CaptureTypeOK
  <2>5. Reads(o, sources) /\ o.target \in Captured
    BY <2>2, <2>4 DEF Reads
  <2> QED
    BY <2>2, <2>3, <2>4, <2>5, ObjectRuns DEF StartScene
<1> QED
  BY <1>1, <1>2

LEMMA StartSessionGood ==
  ASSUME CaptureGood, NEW x \in DOMAIN objects_, StartSession(x) PROVE CaptureGood'
<1> DEFINE c == objects_[x].context
           o == [objects_[x] EXCEPT !.run = TRUE, !.cursor = contexts_[c].cursor]
<1>1. /\ objects_[x] \in CaptureObject /\ Reads(objects_[x], sources) /\ ~objects_[x].run
      /\ objects_[x].kind = "session" /\ objects_[x].target \in sources /\ c # Nobody
  BY ObjectTyped DEF StartSession
<1>2. contexts_[c].cursor \in BOOLEAN
  BY <1>1 DEF CaptureGood, Paired, CaptureTypeOK, CaptureContext
<1>3. objects_' = [objects_ EXCEPT ![x] = o] /\ Lock(o)
  BY DEF StartSession
<1>4. /\ o \in CaptureObject /\ o.context = objects_[x].context /\ o.run
      /\ o.kind = objects_[x].kind /\ o.target = objects_[x].target /\ o.idle = objects_[x].idle
  BY <1>1, <1>2 DEF CaptureObject
<1> HIDE DEF o, c
<1>5. sources \subseteq Captured /\ Nobody \notin Captured
  BY CaptureAssumption DEF CaptureGood, CaptureTypeOK, Captured
<1>6. Reads(o, sources) /\ o.target \in Captured /\ o.target \in Displays /\ o.kind # "surface"
  BY <1>1, <1>4, <1>5 DEF Reads
<1> QED
  BY <1>1, <1>3, <1>4, <1>6, ObjectRuns DEF StartSession

-----------------------------------------------------------------------------
(* One object is made.                                                     *)

\* The contexts choose as before.
SameChoice(before, after) ==
  /\ after \in [DOMAIN before -> CaptureContext]
  /\ \A c \in DOMAIN before : /\ after[c].output = before[c].output
                              /\ after[c].selecting = before[c].selecting

LEMMA ObjectMade ==
  ASSUME CaptureGood, NEW x \in Objects \ DOMAIN objects_, NEW o \in CaptureObject,
         Reads(o, sources), objects_' = With(objects_, x, o),
         SameChoice(contexts_, contexts_'), Paired(contexts_', objects_'),
         UNCHANGED <<selector, sources, capture_locked>>,
         locks' \in [Captured -> Nat], cursor_locks' \in [Displays -> Nat],
         Counted(objects_', locks', cursor_locks')
  PROVE  CaptureGood'
<1>1. /\ DOMAIN objects_' = DOMAIN objects_ \cup {x} /\ objects_'[x] = o
      /\ \A y \in DOMAIN objects_ \ {x} : objects_'[y] = objects_[y]
  BY DEF With
<1>2. objects_' \in [DOMAIN objects_' -> CaptureObject]
  <2>1. objects_' = [y \in DOMAIN objects_' |-> objects_'[y]]
    BY <1>1 DEF With
  <2> QED
    BY <1>1, <2>1 DEF CaptureGood, CaptureTypeOK
<1>3. IsFiniteSet(DOMAIN objects_')
  BY <1>1, FS_AddElement DEF CaptureGood, CaptureTypeOK
<1>4. /\ DOMAIN contexts_' = DOMAIN contexts_ /\ DOMAIN contexts_' \subseteq Contexts
      /\ contexts_' \in [DOMAIN contexts_' -> CaptureContext]
  BY DEF SameChoice, CaptureGood, CaptureTypeOK
<1>5. CaptureTypeOK'
  BY <1>1, <1>2, <1>3, <1>4 DEF CaptureGood, CaptureTypeOK
<1>6. \A y \in DOMAIN objects_' : Reads(objects_'[y], sources')
  BY <1>1 DEF CaptureGood
<1>7. Selecting(contexts_', selector') /\ Remembered(contexts_', selector', sources')
  BY <1>4 DEF CaptureGood, SameChoice, Selecting, Remembered
<1> QED
  BY <1>5, <1>6, <1>7 DEF CaptureGood

\* An object that does not run changes no count.
LEMMA IdleMade ==
  ASSUME CaptureGood, NEW x \in Objects \ DOMAIN objects_, NEW o \in CaptureObject,
         Reads(o, sources), ~o.run \/ o.kind = "surface", objects_' = With(objects_, x, o),
         SameChoice(contexts_, contexts_'), Paired(contexts_', objects_'),
         UNCHANGED <<selector, sources, locks, cursor_locks, capture_locked>>
  PROVE  CaptureGood'
<1>1. /\ DOMAIN objects_' = DOMAIN objects_ \cup {x} /\ objects_'[x] = o
      /\ \A y \in DOMAIN objects_ \ {x} : objects_'[y] = objects_[y]
  BY DEF With
<1>2. ASSUME NEW t PROVE /\ Holders(objects_', t) = Holders(objects_, t)
                         /\ CursorHolders(objects_', t) = CursorHolders(objects_, t)
  BY <1>1 DEF Holders, CursorHolders
<1>3. Counted(objects_', locks', cursor_locks')
  BY <1>2 DEF Counted, CaptureGood
<1> QED
  BY <1>3, ObjectMade DEF CaptureGood, CaptureTypeOK

\* One that runs has locked its source.
LEMMA RunningMade ==
  ASSUME CaptureGood, NEW x \in Objects \ DOMAIN objects_, NEW o \in CaptureObject, NEW object,
         Reads(o, sources), o.run, o.kind # "surface", o.target \in Captured,
         o.cursor => o.target \in Displays, object.kind = o.kind, object.target = o.target,
         object.cursor = o.cursor, objects_' = With(objects_, x, o), Lock(object),
         SameChoice(contexts_, contexts_'), Paired(contexts_', objects_'),
         UNCHANGED <<selector, sources, capture_locked>>
  PROVE  CaptureGood'
<1> DEFINE g == With(objects_, x, o)
<1>1. /\ DOMAIN g = DOMAIN objects_ \cup {x} /\ g[x] = o
      /\ \A y \in DOMAIN objects_ \ {x} : g[y] = objects_[y]
  BY DEF With
<1> HIDE DEF g
<1>2. /\ IsFiniteSet(DOMAIN objects_) /\ locks \in [Captured -> Nat]
      /\ cursor_locks \in [Displays -> Nat] /\ Counted(objects_, locks, cursor_locks)
      /\ object.cursor \in BOOLEAN
  BY DEF CaptureGood, CaptureTypeOK, CaptureObject
<1>3. /\ locks' \in [Captured -> Nat] /\ cursor_locks' \in [Displays -> Nat]
      /\ Counted(g, locks', cursor_locks')
  BY <1>1, <1>2, LockTaken
<1> QED
  BY <1>3, ObjectMade DEF g

LEMMA SameContexts == ASSUME CaptureGood PROVE SameChoice(contexts_, contexts_)
BY DEF SameChoice, CaptureGood, CaptureTypeOK

\* An object without a context.
LEMMA StrayPaired ==
  ASSUME CaptureGood, NEW x \in Objects \ DOMAIN objects_, NEW o, o.context = Nobody
  PROVE  Paired(contexts_, With(objects_, x, o))
<1> DEFINE g == With(objects_, x, o)
<1>1. /\ DOMAIN g = DOMAIN objects_ \cup {x} /\ g[x] = o
      /\ \A y \in DOMAIN objects_ \ {x} : g[y] = objects_[y]
  BY DEF With
<1> HIDE DEF g
<1>2. Paired(contexts_, g)
  BY <1>1 DEF CaptureGood, Paired
<1> QED
  BY <1>2 DEF g

LEMMA StrayMade ==
  ASSUME CaptureGood, NEW x \in Objects \ DOMAIN objects_, NEW o \in CaptureObject,
         o.context = Nobody, Reads(o, sources), ~o.run \/ o.kind = "surface",
         objects_' = With(objects_, x, o),
         UNCHANGED <<contexts_, selector, sources, locks, cursor_locks, capture_locked>>
  PROVE  CaptureGood'
<1>1. Paired(contexts_, With(objects_, x, o)) /\ SameChoice(contexts_, contexts_)
  BY StrayPaired, SameContexts, Zenon
<1>2. Paired(contexts_', objects_') /\ SameChoice(contexts_, contexts_')
  BY <1>1, Zenon
<1> QED
  BY <1>2, IdleMade

LEMMA BeginShotGood ==
  ASSUME CaptureGood, NEW x \in Objects, NEW target \in sources, NEW cursor \in BOOLEAN,
         NEW works \in BOOLEAN,
         NEW kind, (kind = "output" /\ target \in Displays) \/
                   (kind \in {"scene", "surface"} /\ ~cursor),
         BeginShot(x, kind, target, cursor, works)
  PROVE  CaptureGood'
<1> DEFINE shot == Object(kind, Nobody, target, cursor)
<1>1. x \in Objects \ DOMAIN objects_ /\ sources \subseteq Captured
  BY DEF BeginShot, CaptureGood, CaptureTypeOK
<1>2. /\ shot \in CaptureObject /\ shot.kind = kind /\ shot.context = Nobody
      /\ shot.target = target /\ shot.cursor = cursor /\ ~shot.run /\ ~shot.idle
  BY <1>1 DEF Object, CaptureObject
<1> HIDE DEF shot
<1>3. CASE capture_locked \/ (kind = "surface" /\ ~works)
  <2> DEFINE o == [shot EXCEPT !.target = Nobody, !.dead = TRUE]
  <2>1. /\ o \in CaptureObject /\ o.kind = kind /\ o.context = Nobody /\ o.target = Nobody
        /\ o.cursor = cursor /\ ~o.run /\ ~o.idle
    BY <1>2 DEF CaptureObject
  <2>2. objects_' = With(objects_, x, o) /\ UNCHANGED <<locks, cursor_locks>>
    BY <1>3 DEF BeginShot, shot
  <2> HIDE DEF o
  <2>3. Reads(o, sources)
    BY <2>1 DEF Reads
  <2> QED
    BY <1>1, <2>1, <2>2, <2>3, StrayMade DEF BeginShot
<1>4. CASE ~(capture_locked \/ (kind = "surface" /\ ~works)) /\ kind = "output"
  <2> DEFINE o == [shot EXCEPT !.run = TRUE]
  <2>1. /\ o \in CaptureObject /\ o.kind = kind /\ o.context = Nobody /\ o.target = target
        /\ o.cursor = cursor /\ o.run /\ ~o.idle
    BY <1>2 DEF CaptureObject
  <2>2. objects_' = With(objects_, x, o) /\ Lock(shot)
    BY <1>4 DEF BeginShot, shot
  <2> HIDE DEF o
  <2>3. Reads(o, sources) /\ o.target \in Captured /\ o.target \in Displays
    BY <1>1, <1>4, <2>1 DEF Reads
  <2>4. Paired(contexts_, With(objects_, x, o)) /\ SameChoice(contexts_, contexts_)
    BY <1>1, <2>1, StrayPaired, SameContexts, Zenon
  <2>5. Paired(contexts_', objects_') /\ SameChoice(contexts_, contexts_')
    BY <2>2, <2>4, Zenon DEF BeginShot
  <2> QED
    BY <1>1, <1>2, <1>4, <2>1, <2>2, <2>3, <2>5, RunningMade DEF BeginShot
<1>5. CASE ~(capture_locked \/ (kind = "surface" /\ ~works)) /\ kind = "scene"
  <2> DEFINE o == [shot EXCEPT !.idle = TRUE]
  <2>1. /\ o \in CaptureObject /\ o.kind = kind /\ o.context = Nobody /\ o.target = target
        /\ o.cursor = cursor /\ ~o.run /\ o.idle
    BY <1>2 DEF CaptureObject
  <2>2. objects_' = With(objects_, x, o) /\ UNCHANGED <<locks, cursor_locks>>
    BY <1>5 DEF BeginShot, shot
  <2> HIDE DEF o
  <2>3. Reads(o, sources)
    BY <1>5, <2>1 DEF Reads
  <2> QED
    BY <1>1, <2>1, <2>2, <2>3, StrayMade DEF BeginShot
<1>6. CASE ~(capture_locked \/ (kind = "surface" /\ ~works)) /\ kind = "surface"
  <2> DEFINE o == [shot EXCEPT !.run = TRUE, !.buffer = TRUE]
  <2>1. /\ o \in CaptureObject /\ o.kind = kind /\ o.context = Nobody /\ o.target = target
        /\ o.cursor = cursor /\ o.run /\ ~o.idle
    BY <1>2 DEF CaptureObject
  <2>2. objects_' = With(objects_, x, o) /\ UNCHANGED <<locks, cursor_locks>>
    BY <1>6 DEF BeginShot, shot
  <2> HIDE DEF o
  <2>3. Reads(o, sources)
    BY <1>6, <2>1 DEF Reads
  <2> QED
    BY <1>1, <1>6, <2>1, <2>2, <2>3, StrayMade DEF BeginShot
<1> QED
  BY <1>3, <1>4, <1>5, <1>6


\* A context gets a frame or a session where it had none.
LEMMA NewPaired ==
  ASSUME CaptureGood, NEW x \in Objects \ DOMAIN objects_, NEW o, NEW c \in DOMAIN contexts_,
         o.context = c, NEW f, DOMAIN f = DOMAIN contexts_,
         \A e \in DOMAIN contexts_ \ {c} : f[e] = contexts_[e],
         \/ f[c].frame = x /\ f[c].session = contexts_[c].session
            /\ ~contexts_[c].requested /\ f[c].requested
         \/ f[c].session = x /\ f[c].frame = contexts_[c].frame
            /\ contexts_[c].session = Nobody /\ f[c].requested = contexts_[c].requested
  PROVE  Paired(f, With(objects_, x, o))
<1> DEFINE g == With(objects_, x, o)
<1>1. /\ DOMAIN g = DOMAIN objects_ \cup {x} /\ g[x] = o
      /\ \A y \in DOMAIN objects_ \ {x} : g[y] = objects_[y]
  BY DEF With
<1> HIDE DEF g
<1>2. Paired(contexts_, objects_)
  BY DEF CaptureGood
<1>3. ASSUME NEW y \in DOMAIN objects_, objects_[y].context # Nobody
      PROVE  /\ objects_[y].context \in DOMAIN f
             /\ y \in {f[objects_[y].context].frame, f[objects_[y].context].session}
  <2> DEFINE e == objects_[y].context
  <2>1. e # Nobody /\ e \in DOMAIN contexts_ /\ y \in {contexts_[e].frame, contexts_[e].session}
    BY <1>2, <1>3 DEF Paired
  <2>2. y # Nobody /\ (~contexts_[c].requested => contexts_[c].frame = Nobody)
    BY <1>2, CaptureAssumption DEF Paired, CaptureGood, CaptureTypeOK
  <2> HIDE DEF e
  <2>3. e \in DOMAIN f /\ y \in {f[e].frame, f[e].session}
    BY <2>1, <2>2
  <2> QED
    BY <2>3 DEF e
<1>4. ASSUME NEW y \in DOMAIN g, g[y].context # Nobody
      PROVE  g[y].context \in DOMAIN f /\ y \in {f[g[y].context].frame, f[g[y].context].session}
  BY <1>1, <1>3, <1>4
<1>5. ASSUME NEW e \in DOMAIN f, NEW y \in {f[e].frame, f[e].session} \ {Nobody}
      PROVE  y \in DOMAIN g /\ g[y].context = e
  BY <1>1, <1>2 DEF Paired
<1>6. \A e \in DOMAIN f : f[e].frame # Nobody => f[e].requested
  BY <1>2 DEF Paired
<1>7. Paired(f, g)
  BY <1>4, <1>5, <1>6 DEF Paired
<1> QED
  BY <1>7 DEF g

\* Capture gives a context its first frame.
LEMMA CaptureFrameGood ==
  ASSUME CaptureGood, NEW c \in Contexts, NEW x \in Objects, CaptureFrame(c, x)
  PROVE  CaptureGood'
<1> DEFINE frame == Object("frame", c, contexts_[c].output, FALSE)
           failed == [frame EXCEPT !.target = Nobody, !.dead = TRUE]
<1>1. /\ x \in Objects \ DOMAIN objects_ /\ c \in DOMAIN contexts_
      /\ contexts_[c] \in CaptureContext /\ sources \subseteq Captured
      /\ contexts_[c].output \in sources \cup {Nobody}
      /\ contexts_[c].output \in Displays \cup {Nobody}
  BY DEF CaptureFrame, CaptureGood, CaptureTypeOK, Remembered, CaptureContext
<1>2. /\ frame \in CaptureObject /\ frame.kind = "frame" /\ frame.context = c /\ ~frame.cursor
      /\ frame.target = contexts_[c].output /\ ~frame.run /\ ~frame.idle
  BY <1>1 DEF Object, CaptureObject, Captured
<1> HIDE DEF frame
<1>3. /\ failed \in CaptureObject /\ failed.kind = "frame" /\ failed.context = c
      /\ ~failed.cursor /\ failed.target = Nobody /\ ~failed.run /\ ~failed.idle
  BY <1>2 DEF CaptureObject
<1>4. CASE contexts_[c].requested
  <2> DEFINE o == [failed EXCEPT !.context = Nobody]
  <2>1. objects_' = With(objects_, x, o) /\ UNCHANGED <<contexts_, locks, cursor_locks>>
    BY <1>4, Zenon DEF CaptureFrame, frame
  <2> HIDE DEF failed
  <2>2. /\ o \in CaptureObject /\ o.kind = "frame" /\ o.context = Nobody
        /\ ~o.cursor /\ o.target = Nobody /\ ~o.run /\ ~o.idle
    BY <1>3 DEF CaptureObject
  <2> HIDE DEF o
  <2>3. Reads(o, sources)
    BY <2>2 DEF Reads
  <2> QED
    BY <1>1, <2>1, <2>2, <2>3, StrayMade DEF CaptureFrame
<1>5. CASE ~contexts_[c].requested
  <2> DEFINE d == [contexts_[c] EXCEPT !.requested = TRUE, !.frame = x]
             f == [contexts_ EXCEPT ![c] = d]
  <2>1. contexts_' = f
    BY <1>1, <1>5 DEF CaptureFrame, CaptureGood, CaptureTypeOK
  <2>2. /\ d \in CaptureContext /\ d.output = contexts_[c].output /\ d.requested
        /\ d.selecting = contexts_[c].selecting /\ d.frame = x
        /\ d.session = contexts_[c].session
    BY <1>1 DEF CaptureContext
  <2> HIDE DEF d
  <2>3. /\ DOMAIN f = DOMAIN contexts_ /\ f[c] = d /\ f \in [DOMAIN contexts_ -> CaptureContext]
        /\ \A e \in DOMAIN contexts_ \ {c} : f[e] = contexts_[e]
    BY <1>1, <2>2 DEF CaptureGood, CaptureTypeOK
  <2> HIDE DEF f
  <2>4. SameChoice(contexts_, contexts_')
    BY <2>1, <2>2, <2>3 DEF SameChoice
  <2>5. ASSUME NEW o, o.context = c, objects_' = With(objects_, x, o)
        PROVE  Paired(contexts_', objects_')
    BY <1>1, <1>5, <2>1, <2>2, <2>3, <2>5, NewPaired
  <2>6. CASE contexts_[c].output # Nobody /\ ~capture_locked
    <3> DEFINE o == [frame EXCEPT !.run = TRUE]
    <3>1. objects_' = With(objects_, x, o) /\ Lock(frame)
      BY <1>5, <2>6, Zenon DEF CaptureFrame, frame
    <3>2. /\ o \in CaptureObject /\ o.kind = "frame" /\ o.context = c
          /\ ~o.cursor /\ o.target = contexts_[c].output /\ o.run /\ ~o.idle
      BY <1>2 DEF CaptureObject
    <3> HIDE DEF o
    <3>3. Reads(o, sources) /\ o.target \in Captured
      BY <1>1, <2>6, <3>2 DEF Reads
    <3>4. o.cursor = frame.cursor
      BY <1>2, <3>2 DEF CaptureObject
    <3>5. Paired(contexts_', objects_')
      BY <2>5, <3>1, <3>2
    <3> QED
      BY <1>1, <1>2, <2>4, <3>1, <3>2, <3>3, <3>4, <3>5, RunningMade DEF CaptureFrame
  <2>7. CASE ~(contexts_[c].output # Nobody /\ ~capture_locked)
    <3>1. objects_' = With(objects_, x, failed) /\ UNCHANGED <<locks, cursor_locks>>
      BY <1>5, <2>7, Zenon DEF CaptureFrame, frame
    <3> HIDE DEF failed
    <3>2. Reads(failed, sources)
      BY <1>3 DEF Reads
    <3>3. Paired(contexts_', objects_')
      BY <1>3, <2>5, <3>1
    <3> QED
      BY <1>1, <1>3, <2>4, <3>1, <3>2, <3>3, IdleMade DEF CaptureFrame
  <2> QED
    BY <2>6, <2>7
<1> QED
  BY <1>4, <1>5

LEMMA CreateSessionGood ==
  ASSUME CaptureGood, NEW c \in Contexts, NEW x \in Objects, CreateSession(c, x)
  PROVE  CaptureGood'
<1>1. /\ x \in Objects \ DOMAIN objects_ /\ c \in DOMAIN contexts_
      /\ contexts_[c] \in CaptureContext /\ sources \subseteq Captured
      /\ contexts_[c].output \in Displays \cup {Nobody}
  BY DEF CreateSession, CaptureGood, CaptureTypeOK, CaptureContext
<1>2. CASE contexts_[c].session # Nobody
  <2> DEFINE o == Object("session", Nobody, Nobody, FALSE)
  <2>1. /\ o \in CaptureObject /\ o.kind = "session" /\ o.context = Nobody
        /\ ~o.cursor /\ o.target = Nobody /\ ~o.run /\ ~o.idle
    BY DEF Object, CaptureObject
  <2>2. objects_' = With(objects_, x, o) /\ UNCHANGED contexts_
    BY <1>2, Zenon DEF CreateSession
  <2> HIDE DEF o
  <2>3. Reads(o, sources)
    BY <2>1 DEF Reads
  <2> QED
    BY <1>1, <2>1, <2>2, <2>3, StrayMade DEF CreateSession
<1>3. CASE contexts_[c].session = Nobody
  <2> DEFINE o == Object("session", c, contexts_[c].output, FALSE)
             d == [contexts_[c] EXCEPT !.session = x]
             f == [contexts_ EXCEPT ![c] = d]
  <2>1. /\ o \in CaptureObject /\ o.kind = "session" /\ o.context = c
        /\ ~o.cursor /\ o.target = contexts_[c].output /\ ~o.run /\ ~o.idle
    BY <1>1 DEF Object, CaptureObject, Captured
  <2>2. objects_' = With(objects_, x, o)
    BY <1>3, Zenon DEF CreateSession
  <2>3. contexts_' = f
    BY <1>1, <1>3 DEF CreateSession, CaptureGood, CaptureTypeOK
  <2>4. /\ d \in CaptureContext /\ d.output = contexts_[c].output
        /\ d.requested = contexts_[c].requested /\ d.selecting = contexts_[c].selecting
        /\ d.frame = contexts_[c].frame /\ d.session = x
    BY <1>1 DEF CaptureContext
  <2> HIDE DEF o, d
  <2>5. /\ DOMAIN f = DOMAIN contexts_ /\ f[c] = d /\ f \in [DOMAIN contexts_ -> CaptureContext]
        /\ \A e \in DOMAIN contexts_ \ {c} : f[e] = contexts_[e]
    BY <1>1, <2>4 DEF CaptureGood, CaptureTypeOK
  <2> HIDE DEF f
  <2>6. SameChoice(contexts_, contexts_')
    BY <2>3, <2>4, <2>5 DEF SameChoice
  <2>7. Paired(contexts_', objects_')
    BY <1>1, <1>3, <2>1, <2>2, <2>3, <2>4, <2>5, NewPaired
  <2>8. Reads(o, sources)
    BY <1>1, <2>1 DEF Reads
  <2> QED
    BY <1>1, <2>1, <2>2, <2>6, <2>7, <2>8, IdleMade DEF CreateSession
<1> QED
  BY <1>2, <1>3


-----------------------------------------------------------------------------
(* The contexts and the selector.                                          *)

\* Only what is chosen changes.
LEMMA ChoiceGood ==
  ASSUME CaptureGood, NEW f, contexts_' = f, f \in [DOMAIN contexts_ -> CaptureContext],
         \A c \in DOMAIN contexts_ : /\ f[c].frame = contexts_[c].frame
                                     /\ f[c].session = contexts_[c].session
                                     /\ f[c].requested = contexts_[c].requested,
         selector' \in [owner : Contexts \cup {Nobody}, output : Displays \cup {Nobody}],
         Selecting(f, selector'), Remembered(f, selector', sources),
         UNCHANGED <<objects_, sources, locks, cursor_locks, capture_locked>>
  PROVE  CaptureGood'
<1>1. DOMAIN f = DOMAIN contexts_ /\ contexts_' \in [DOMAIN contexts_' -> CaptureContext]
  OBVIOUS
<1>2. CaptureTypeOK'
  BY <1>1 DEF CaptureGood, CaptureTypeOK
<1>3. Paired(f, objects_)
  BY <1>1 DEF CaptureGood, Paired
<1> QED
  BY <1>2, <1>3 DEF CaptureGood

LEMMA GetContextGood == ASSUME CaptureGood, NEW c \in Contexts, GetContext(c) PROVE CaptureGood'
<1> DEFINE d == [output |-> Nobody, selected |-> FALSE, selecting |-> FALSE, requested |-> FALSE,
                 cursor |-> FALSE, frame |-> Nobody, session |-> Nobody]
           f == With(contexts_, c, d)
<1>1. /\ contexts_' = f /\ c \notin DOMAIN contexts_
      /\ UNCHANGED <<objects_, selector, sources, locks, cursor_locks, capture_locked>>
  BY Zenon DEF GetContext
<1>2. /\ d \in CaptureContext /\ d.output = Nobody /\ ~d.selecting /\ d.frame = Nobody
      /\ d.session = Nobody
  BY DEF CaptureContext
<1> HIDE DEF d
<1>3. /\ DOMAIN f = DOMAIN contexts_ \cup {c} /\ f[c] = d
      /\ \A e \in DOMAIN contexts_ : f[e] = contexts_[e]
      /\ f = [e \in DOMAIN f |-> f[e]]
  BY <1>1 DEF With
<1> HIDE DEF f
<1>4. DOMAIN f \subseteq Contexts /\ f \in [DOMAIN f -> CaptureContext]
  BY <1>2, <1>3 DEF CaptureGood, CaptureTypeOK
<1>5. CaptureTypeOK'
  BY <1>1, <1>4 DEF CaptureGood, CaptureTypeOK
<1>6. Paired(f, objects_)
  BY <1>2, <1>3 DEF CaptureGood, Paired
<1>7. Selecting(f, selector) /\ Remembered(f, selector, sources)
  BY <1>2, <1>3 DEF CaptureGood, Selecting, Remembered
<1> QED
  BY <1>1, <1>5, <1>6, <1>7 DEF CaptureGood

LEMMA SelectSourceGood ==
  ASSUME CaptureGood, NEW c \in Contexts, NEW cursor \in BOOLEAN, SelectSource(c, cursor)
  PROVE  CaptureGood'
<1> DEFINE free == selector.owner = Nobody
           d == [contexts_[c] EXCEPT !.cursor = cursor, !.selecting = free]
           f == [contexts_ EXCEPT ![c] = d]
           s == [selector EXCEPT !.owner = IF free THEN c ELSE @]
<1>1. /\ c \in DOMAIN contexts_ /\ contexts_[c] \in CaptureContext
      /\ selector \in [owner : Contexts \cup {Nobody}, output : Displays \cup {Nobody}]
      /\ ~contexts_[c].selecting /\ c # Nobody
  BY CaptureAssumption DEF SelectSource, CaptureGood, CaptureTypeOK
<1>2. contexts_' = f
  BY <1>1 DEF SelectSource, CaptureGood, CaptureTypeOK
<1>3. selector' = s
  BY <1>1 DEF SelectSource
<1>4. /\ s \in [owner : Contexts \cup {Nobody}, output : Displays \cup {Nobody}]
      /\ s.owner = (IF free THEN c ELSE selector.owner) /\ s.output = selector.output
  BY <1>1
<1>5. /\ d \in CaptureContext /\ d.selecting = free /\ d.output = contexts_[c].output
      /\ d.frame = contexts_[c].frame /\ d.session = contexts_[c].session
      /\ d.requested = contexts_[c].requested
  BY <1>1 DEF CaptureContext
<1> HIDE DEF d, s
<1>6. /\ DOMAIN f = DOMAIN contexts_ /\ f[c] = d /\ f \in [DOMAIN contexts_ -> CaptureContext]
      /\ \A e \in DOMAIN contexts_ \ {c} : f[e] = contexts_[e]
  BY <1>1, <1>5 DEF CaptureGood, CaptureTypeOK
<1> HIDE DEF f
<1>7. Selecting(f, s)
  <2>1. {e \in DOMAIN contexts_ : contexts_[e].selecting} = {selector.owner} \ {Nobody}
    BY DEF CaptureGood, Selecting
  <2>2. CASE free
    <3>1. f[c].selecting /\ s.owner = c
      BY <1>4, <1>5, <1>6, <2>2
    <3>2. \A e \in DOMAIN f : f[e].selecting <=> e = c
      BY <1>6, <2>1, <2>2, <3>1
    <3> QED
      BY <1>1, <1>6, <3>1, <3>2 DEF Selecting
  <2>3. CASE ~free
    <3>1. ~f[c].selecting /\ s.owner = selector.owner
      BY <1>4, <1>5, <1>6, <2>3
    <3>2. {e \in DOMAIN f : f[e].selecting} = {e \in DOMAIN contexts_ : contexts_[e].selecting}
      BY <1>1, <1>6, <3>1
    <3> QED
      BY <2>1, <3>1, <3>2 DEF Selecting
  <2> QED
    BY <2>2, <2>3
<1>8. Remembered(f, s, sources)
  BY <1>1, <1>4, <1>5, <1>6 DEF CaptureGood, Remembered
<1>9. \A e \in DOMAIN contexts_ : /\ f[e].frame = contexts_[e].frame
                                  /\ f[e].session = contexts_[e].session
                                  /\ f[e].requested = contexts_[e].requested
  BY <1>5, <1>6
<1> QED
  BY <1>2, <1>3, <1>4, <1>6, <1>7, <1>8, <1>9, ChoiceGood DEF SelectSource

LEMMA SelectorMotionGood ==
  ASSUME CaptureGood, NEW o \in Displays, SelectorMotion(o) PROVE CaptureGood'
<1> DEFINE s == [selector EXCEPT !.output = o]
<1>1. /\ selector \in [owner : Contexts \cup {Nobody}, output : Displays \cup {Nobody}]
      /\ selector' = s /\ selector.owner # Nobody /\ o \in sources
      /\ contexts_ \in [DOMAIN contexts_ -> CaptureContext]
  BY DEF SelectorMotion, CaptureGood, CaptureTypeOK
<1>2. /\ s \in [owner : Contexts \cup {Nobody}, output : Displays \cup {Nobody}]
      /\ s.owner = selector.owner /\ s.output = o
  BY <1>1
<1> HIDE DEF s
<1>3. Selecting(contexts_, s) /\ Remembered(contexts_, s, sources)
  BY <1>1, <1>2 DEF CaptureGood, Selecting, Remembered
<1> QED
  BY <1>1, <1>2, <1>3, ChoiceGood DEF SelectorMotion

\* The selector ends: its context no longer waits, and may have a source.
LEMMA SelectionEnds ==
  ASSUME CaptureGood, NEW c, c = selector.owner, c # Nobody, NEW d \in CaptureContext,
         d.frame = contexts_[c].frame, d.session = contexts_[c].session,
         d.requested = contexts_[c].requested, ~d.selecting, d.output \in sources \cup {Nobody},
         contexts_' = [contexts_ EXCEPT ![c] = d], selector' = NoSelection,
         UNCHANGED <<objects_, sources, locks, cursor_locks, capture_locked>>
  PROVE  CaptureGood'
<1> DEFINE f == [contexts_ EXCEPT ![c] = d]
<1>1. c \in DOMAIN contexts_ /\ \A e \in DOMAIN contexts_ \ {c} : ~contexts_[e].selecting
  BY DEF CaptureGood, Selecting
<1>2. /\ DOMAIN f = DOMAIN contexts_ /\ f[c] = d /\ f \in [DOMAIN contexts_ -> CaptureContext]
      /\ \A e \in DOMAIN contexts_ \ {c} : f[e] = contexts_[e]
  BY <1>1 DEF CaptureGood, CaptureTypeOK
<1> HIDE DEF f
<1>3. /\ NoSelection \in [owner : Contexts \cup {Nobody}, output : Displays \cup {Nobody}]
      /\ NoSelection.owner = Nobody /\ NoSelection.output = Nobody
  BY DEF NoSelection
<1>4. Selecting(f, NoSelection)
  BY <1>1, <1>2, <1>3 DEF Selecting
<1>5. Remembered(f, NoSelection, sources)
  BY <1>1, <1>2, <1>3 DEF CaptureGood, Remembered
<1>6. \A e \in DOMAIN contexts_ : /\ f[e].frame = contexts_[e].frame
                                  /\ f[e].session = contexts_[e].session
                                  /\ f[e].requested = contexts_[e].requested
  BY <1>2
<1>7. contexts_' = f
  BY DEF f
<1> QED
  BY <1>2, <1>3, <1>4, <1>5, <1>6, <1>7, ChoiceGood

LEMMA WaitingContext ==
  ASSUME CaptureGood, selector.owner # Nobody
  PROVE  /\ selector.owner \in DOMAIN contexts_ /\ contexts_[selector.owner] \in CaptureContext
         /\ contexts_[selector.owner].output \in sources \cup {Nobody}
         /\ selector.output \in sources \cup {Nobody}
         /\ selector.output \in Displays \cup {Nobody}
<1>1. selector.owner \in DOMAIN contexts_
  BY DEF CaptureGood, Selecting
<1> QED
  BY <1>1 DEF CaptureGood, CaptureTypeOK, Remembered


LEMMA FinishSelectionGood ==
  ASSUME CaptureGood, NEW fits \in BOOLEAN, FinishSelection(fits) PROVE CaptureGood'
<1> DEFINE c == selector.owner
           o == IF fits THEN selector.output ELSE contexts_[c].output
           d == [contexts_[c] EXCEPT !.selecting = FALSE, !.selected = fits, !.output = o]
<1>1. /\ c # Nobody /\ c \in DOMAIN contexts_ /\ contexts_[c] \in CaptureContext
      /\ o \in sources \cup {Nobody} /\ o \in Displays \cup {Nobody}
  BY WaitingContext DEF FinishSelection, CaptureContext
<1>2. contexts_' = [contexts_ EXCEPT ![c] = d]
  BY <1>1 DEF FinishSelection, CaptureGood, CaptureTypeOK, CaptureContext
<1> HIDE DEF o
<1>3. /\ d \in CaptureContext /\ ~d.selecting /\ d.output = o /\ d.frame = contexts_[c].frame
      /\ d.session = contexts_[c].session /\ d.requested = contexts_[c].requested
  BY <1>1 DEF CaptureContext
<1> HIDE DEF d
<1> QED
  BY <1>1, <1>2, <1>3, SelectionEnds DEF FinishSelection

LEMMA CancelSelectionGood == ASSUME CaptureGood, CancelSelection PROVE CaptureGood'
<1> DEFINE c == selector.owner
           d == [contexts_[c] EXCEPT !.selecting = FALSE]
<1>1. /\ c # Nobody /\ c \in DOMAIN contexts_ /\ contexts_[c] \in CaptureContext
      /\ contexts_[c].output \in sources \cup {Nobody}
  BY WaitingContext DEF CancelSelection
<1>2. contexts_' = [contexts_ EXCEPT ![c] = d]
  BY DEF CancelSelection
<1>3. /\ d \in CaptureContext /\ ~d.selecting /\ d.output = contexts_[c].output
      /\ d.frame = contexts_[c].frame /\ d.session = contexts_[c].session
      /\ d.requested = contexts_[c].requested
  BY <1>1 DEF CaptureContext
<1> HIDE DEF d
<1> QED
  BY <1>1, <1>2, <1>3, SelectionEnds DEF CancelSelection

-----------------------------------------------------------------------------
(* Contexts, objects and sources go.                                       *)

\* Objects go, and what is left of the contexts knows of what is left of them.
LEMMA ObjectsGone ==
  ASSUME CaptureGood, NEW set \in SUBSET DOMAIN objects_, objects_' = Without(objects_, set),
         Unlock(set), NEW f, contexts_' = f, DOMAIN f \subseteq DOMAIN contexts_,
         f \in [DOMAIN f -> CaptureContext], Paired(f, Without(objects_, set)),
         selector' \in [owner : Contexts \cup {Nobody}, output : Displays \cup {Nobody}],
         Selecting(f, selector'), Remembered(f, selector', sources),
         UNCHANGED <<sources, capture_locked>>
  PROVE  CaptureGood'
<1> DEFINE g == Without(objects_, set)
<1>1. /\ DOMAIN g = DOMAIN objects_ \ set /\ \A y \in DOMAIN g : g[y] = objects_[y]
      /\ g = [y \in DOMAIN g |-> g[y]]
  BY DEF Without
<1> HIDE DEF g
<1>2. g \in [DOMAIN g -> CaptureObject] /\ \A y \in DOMAIN g : Reads(g[y], sources)
  BY <1>1 DEF CaptureGood, CaptureTypeOK
<1>3. /\ IsFiniteSet(DOMAIN objects_) /\ locks \in [Captured -> Nat]
      /\ cursor_locks \in [Displays -> Nat] /\ Counted(objects_, locks, cursor_locks)
      /\ DOMAIN objects_ \subseteq Objects /\ DOMAIN contexts_ \subseteq Contexts
  BY DEF CaptureGood, CaptureTypeOK
<1>4. /\ DOMAIN g \subseteq DOMAIN objects_
      /\ \A y \in DOMAIN objects_ \ set : y \in DOMAIN g /\ g[y] = objects_[y]
      /\ \A y \in DOMAIN g \cap set : ~g[y].run
  BY <1>1
<1>5. /\ locks' \in [Captured -> Nat] /\ cursor_locks' \in [Displays -> Nat]
      /\ Counted(g, locks', cursor_locks')
  BY <1>3, <1>4, LocksReturned
<1>6. IsFiniteSet(DOMAIN g)
  BY <1>3, <1>4, FiniteSubset, Zenon
<1>7. objects_' = g
  BY DEF g
<1>8. DOMAIN f \subseteq Contexts /\ DOMAIN g \subseteq Objects
  BY <1>3, <1>4
<1>9. CaptureTypeOK'
  BY <1>2, <1>5, <1>6, <1>7, <1>8 DEF CaptureGood, CaptureTypeOK
<1>10. Paired(f, g)
  BY DEF g
<1> QED
  BY <1>2, <1>5, <1>7, <1>9, <1>10 DEF CaptureGood

LEMMA DestroyContextGood ==
  ASSUME CaptureGood, NEW c \in Contexts, DestroyContext(c) PROVE CaptureGood'
<1> DEFINE children == {contexts_[c].frame, contexts_[c].session} \ {Nobody}
           f == Without(contexts_, {c})
           g == Without(objects_, children)
           s == IF contexts_[c].selecting THEN NoSelection ELSE selector
<1>1. /\ c \in DOMAIN contexts_ /\ contexts_' = f /\ objects_' = g /\ Unlock(children)
      /\ selector' = s /\ UNCHANGED <<sources, capture_locked>>
  BY Zenon DEF DestroyContext
<1>2. children \in SUBSET DOMAIN objects_ /\ \A x \in children : objects_[x].context = c
  BY <1>1 DEF CaptureGood, Paired
<1>3. \A x \in DOMAIN objects_ : objects_[x].context = c => x \in children
  BY CaptureAssumption DEF CaptureGood, Paired, CaptureTypeOK
<1>4. /\ DOMAIN f = DOMAIN contexts_ \ {c} /\ \A e \in DOMAIN f : f[e] = contexts_[e]
      /\ f = [e \in DOMAIN f |-> f[e]]
  BY DEF Without
<1>5. /\ DOMAIN g = DOMAIN objects_ \ children /\ \A y \in DOMAIN g : g[y] = objects_[y]
  BY DEF Without
<1> HIDE DEF children, f
<1>6. f \in [DOMAIN f -> CaptureContext]
  BY <1>4 DEF CaptureGood, CaptureTypeOK
<1>7. Paired(f, g)
  <2> HIDE DEF g
  <2>1. Paired(contexts_, objects_)
    BY DEF CaptureGood
  <2>2. ASSUME NEW x \in DOMAIN g, g[x].context # Nobody
        PROVE  /\ g[x].context \in DOMAIN f
               /\ x \in {f[g[x].context].frame, f[g[x].context].session}
    BY <1>3, <1>4, <1>5, <2>1, <2>2 DEF Paired
  <2>3. ASSUME NEW e \in DOMAIN f, NEW x \in {f[e].frame, f[e].session} \ {Nobody}
        PROVE  x \in DOMAIN g /\ g[x].context = e
    BY <1>2, <1>4, <1>5, <2>1 DEF Paired
  <2>4. \A e \in DOMAIN f : f[e].frame # Nobody => f[e].requested
    BY <1>4, <2>1 DEF Paired
  <2> QED
    BY <2>2, <2>3, <2>4 DEF Paired
<1>8. /\ s \in [owner : Contexts \cup {Nobody}, output : Displays \cup {Nobody}]
      /\ s.owner = (IF contexts_[c].selecting THEN Nobody ELSE selector.owner)
      /\ s.output = (IF contexts_[c].selecting THEN Nobody ELSE selector.output)
  BY DEF NoSelection, CaptureGood, CaptureTypeOK
<1> HIDE DEF s
<1>9. {e \in DOMAIN contexts_ : contexts_[e].selecting} = {selector.owner} \ {Nobody}
  BY DEF CaptureGood, Selecting
<1>10. Selecting(f, s)
  BY <1>1, <1>4, <1>8, <1>9 DEF Selecting
<1>11. Remembered(f, s, sources)
  BY <1>4, <1>8 DEF CaptureGood, Remembered
<1> QED
  BY <1>1, <1>2, <1>4, <1>6, <1>7, <1>8, <1>10, <1>11, ObjectsGone

LEMMA DestroyObjectGood ==
  ASSUME CaptureGood, NEW x \in DOMAIN objects_, DestroyObject(x) PROVE CaptureGood'
<1> DEFINE f == [c \in DOMAIN contexts_ |-> [contexts_[c] EXCEPT
                   !.frame = IF @ = x THEN Nobody ELSE @, !.session = IF @ = x THEN Nobody ELSE @]]
           g == Without(objects_, {x})
<1>1. /\ contexts_' = f /\ objects_' = g /\ Unlock({x})
      /\ UNCHANGED <<selector, sources, capture_locked>>
  BY Zenon DEF DestroyObject
<1>2. DOMAIN f = DOMAIN contexts_ /\ f = [c \in DOMAIN f |-> f[c]]
  OBVIOUS
<1>3. ASSUME NEW c \in DOMAIN contexts_
      PROVE  /\ f[c] \in CaptureContext /\ f[c].output = contexts_[c].output
             /\ f[c].frame = (IF contexts_[c].frame = x THEN Nobody ELSE contexts_[c].frame)
             /\ f[c].session = (IF contexts_[c].session = x THEN Nobody ELSE contexts_[c].session)
             /\ f[c].selecting = contexts_[c].selecting /\ f[c].requested = contexts_[c].requested
  <2>1. contexts_[c] \in CaptureContext
    BY DEF CaptureGood, CaptureTypeOK
  <2> QED
    BY <2>1 DEF CaptureContext
<1>4. DOMAIN g = DOMAIN objects_ \ {x} /\ \A y \in DOMAIN g : g[y] = objects_[y]
  BY DEF Without
<1> HIDE DEF f
<1>5. f \in [DOMAIN f -> CaptureContext]
  BY <1>2, <1>3
<1>6. Paired(f, g)
  <2> HIDE DEF g
  <2>1. Paired(contexts_, objects_)
    BY DEF CaptureGood
  <2>2. ASSUME NEW y \in DOMAIN g, g[y].context # Nobody
        PROVE  /\ g[y].context \in DOMAIN f
               /\ y \in {f[g[y].context].frame, f[g[y].context].session}
    BY <1>2, <1>3, <1>4, <2>1, <2>2 DEF Paired
  <2>3. ASSUME NEW e \in DOMAIN f, NEW y \in {f[e].frame, f[e].session} \ {Nobody}
        PROVE  y \in DOMAIN g /\ g[y].context = e
    BY <1>2, <1>3, <1>4, <2>1 DEF Paired
  <2>4. \A e \in DOMAIN f : f[e].frame # Nobody => f[e].requested
    BY <1>2, <1>3, <2>1 DEF Paired
  <2> QED
    BY <2>2, <2>3, <2>4 DEF Paired
<1>7. {c \in DOMAIN f : f[c].selecting} = {c \in DOMAIN contexts_ : contexts_[c].selecting}
  BY <1>2, <1>3
<1>8. Selecting(f, selector) /\ Remembered(f, selector, sources)
  BY <1>2, <1>3, <1>7 DEF CaptureGood, Selecting, Remembered
<1>9. selector \in [owner : Contexts \cup {Nobody}, output : Displays \cup {Nobody}]
  BY DEF CaptureGood, CaptureTypeOK
<1> QED
  BY <1>1, <1>2, <1>5, <1>6, <1>8, <1>9, ObjectsGone

\* What is left of an object when its source goes.
LEMMA BereftGood ==
  ASSUME NEW o \in CaptureObject, NEW t \in sources, Reads(o, sources), o.target = t,
         Nobody \notin sources
  PROVE  /\ Bereft(o) \in CaptureObject /\ Bereft(o).context = o.context /\ ~Bereft(o).run
         /\ Reads(Bereft(o), sources \ {t})
<1> DEFINE b == Bereft(o)
<1>1. CASE o.kind = "session" /\ ~o.run
  <2>1. b = o
    BY <1>1 DEF Bereft
  <2> QED
    BY <1>1, <2>1 DEF Reads
<1>2. CASE o.kind = "session" /\ o.run
  <2>1. b = [o EXCEPT !.run = FALSE, !.target = Nobody, !.cursor = FALSE]
    BY <1>2 DEF Bereft
  <2>2. /\ b \in CaptureObject /\ b.context = o.context /\ b.kind = o.kind /\ ~b.run
        /\ b.idle = o.idle /\ b.target = Nobody /\ ~b.cursor
    BY <2>1 DEF CaptureObject
  <2> HIDE DEF b
  <2>3. Reads(b, sources \ {t})
    BY <1>2, <2>2 DEF Reads
  <2> QED
    BY <2>2, <2>3 DEF b
<1>3. CASE o.kind = "frame"
  <2>1. b = [o EXCEPT !.run = FALSE, !.target = Nobody, !.dead = TRUE]
    BY <1>3 DEF Bereft
  <2>2. /\ b \in CaptureObject /\ b.context = o.context /\ b.kind = o.kind /\ ~b.run
        /\ b.idle = o.idle /\ b.target = Nobody /\ b.cursor = o.cursor
    BY <2>1 DEF CaptureObject
  <2> HIDE DEF b
  <2>3. Reads(b, sources \ {t})
    BY <1>3, <2>2 DEF Reads
  <2> QED
    BY <2>2, <2>3 DEF b
<1>4. CASE o.kind \notin {"session", "frame"}
  <2>1. b = [Stopped(o) EXCEPT !.dead = TRUE]
    BY <1>4 DEF Bereft
  <2>2. /\ b \in CaptureObject /\ b.context = o.context /\ b.kind = o.kind /\ ~b.run
        /\ ~b.idle /\ b.target = Nobody /\ b.cursor = o.cursor
    BY <2>1 DEF CaptureObject, Stopped
  <2> HIDE DEF b
  <2>3. Reads(b, sources \ {t})
    BY <2>2 DEF Reads
  <2> QED
    BY <2>2, <2>3 DEF b
<1>5. o.run \in BOOLEAN
  BY DEF CaptureObject
<1> QED
  BY <1>1, <1>2, <1>3, <1>4, <1>5, Zenon

LEMMA SourceDestroyedGood ==
  ASSUME CaptureGood, NEW t \in sources, SourceDestroyed(t) PROVE CaptureGood'
<1> DEFINE g == [x \in DOMAIN objects_ |->
                   IF objects_[x].target = t THEN Bereft(objects_[x]) ELSE objects_[x]]
           cancelled == selector.owner # Nobody /\ selector.output = t
           f == [c \in DOMAIN contexts_ |-> [contexts_[c] EXCEPT
                   !.output = IF @ = t THEN Nobody ELSE @,
                   !.selecting = @ /\ ~(cancelled /\ selector.owner = c)]]
           s == IF cancelled THEN NoSelection ELSE selector
<1>1. /\ objects_' = g /\ contexts_' = f /\ selector' = s /\ sources' = sources \ {t}
      /\ locks' = [locks EXCEPT ![t] = 0] /\ UNCHANGED capture_locked
      /\ cursor_locks' = [o \in Displays |-> IF o = t THEN 0 ELSE cursor_locks[o]]
  BY Zenon DEF SourceDestroyed
<1>2. Nobody \notin sources /\ t \in Captured /\ Nobody \notin Captured
  BY CaptureAssumption DEF CaptureGood, CaptureTypeOK, Captured
<1>3. DOMAIN g = DOMAIN objects_ /\ g = [x \in DOMAIN g |-> g[x]]
  OBVIOUS
<1>4. ASSUME NEW x \in DOMAIN objects_
      PROVE  /\ g[x] \in CaptureObject /\ g[x].context = objects_[x].context
             /\ Reads(g[x], sources \ {t})
             /\ objects_[x].target = t => ~g[x].run
             /\ objects_[x].target # t => g[x] = objects_[x]
  <2>1. objects_[x] \in CaptureObject /\ Reads(objects_[x], sources)
    BY ObjectTyped
  <2>2. CASE objects_[x].target = t
    BY <1>2, <2>1, <2>2, BereftGood
  <2>3. CASE objects_[x].target # t
    <3>1. g[x] = objects_[x]
      BY <2>3
    <3> QED
      BY <2>1, <2>3, <3>1 DEF Reads
  <2> QED
    BY <2>2, <2>3
<1> HIDE DEF g
<1>5. g \in [DOMAIN g -> CaptureObject]
  BY <1>3, <1>4
<1>6. Counted(g, locks', cursor_locks') /\ locks' \in [Captured -> Nat]
      /\ cursor_locks' \in [Displays -> Nat]
  <2>1. ASSUME NEW u, u # t
        PROVE  /\ Holders(g, u) = Holders(objects_, u)
               /\ CursorHolders(g, u) = CursorHolders(objects_, u)
    <3>1. ASSUME NEW x \in DOMAIN objects_, objects_[x].target = t
          PROVE  x \notin Holders(g, u) /\ x \notin Holders(objects_, u)
      BY <1>4, <2>1, <3>1 DEF Holders
    <3>2. ASSUME NEW x PROVE /\ x \in Holders(g, u) <=> x \in Holders(objects_, u)
                             /\ x \in Holders(g, u) => g[x] = objects_[x]
      BY <1>3, <1>4, <3>1 DEF Holders
    <3> QED
      BY <3>2 DEF CursorHolders
  <2>2. Holders(g, t) = {} /\ CursorHolders(g, t) = {}
    <3>1. \A x \in DOMAIN g : g[x].run => g[x].target # t
      BY <1>3, <1>4
    <3> QED
      BY <3>1 DEF Holders, CursorHolders
  <2>3. Cardinality(Holders(g, t)) = 0 /\ Cardinality(CursorHolders(g, t)) = 0
    BY <2>2, NoneHeld
  <2>4. /\ locks \in [Captured -> Nat] /\ cursor_locks \in [Displays -> Nat]
        /\ Counted(objects_, locks, cursor_locks)
    BY DEF CaptureGood, CaptureTypeOK
  <2> QED
    BY <1>1, <2>1, <2>3, <2>4 DEF Counted
<1>7. DOMAIN f = DOMAIN contexts_ /\ f = [c \in DOMAIN f |-> f[c]]
  OBVIOUS
<1>8. ASSUME NEW c \in DOMAIN contexts_
      PROVE  /\ f[c] \in CaptureContext /\ f[c].frame = contexts_[c].frame
             /\ f[c].output = (IF contexts_[c].output = t THEN Nobody ELSE contexts_[c].output)
             /\ f[c].session = contexts_[c].session /\ f[c].requested = contexts_[c].requested
             /\ f[c].selecting <=> contexts_[c].selecting /\ ~(cancelled /\ selector.owner = c)
  <2>1. contexts_[c] \in CaptureContext
    BY DEF CaptureGood, CaptureTypeOK
  <2> DEFINE o == IF contexts_[c].output = t THEN Nobody ELSE contexts_[c].output
             b == contexts_[c].selecting /\ ~(cancelled /\ selector.owner = c)
  <2>2. f[c] = [contexts_[c] EXCEPT !.output = o, !.selecting = b]
    BY <2>1 DEF CaptureContext
  <2>3. o \in Displays \cup {Nobody} /\ b \in BOOLEAN
    BY <2>1 DEF CaptureContext
  <2> HIDE DEF f, o, b
  <2>4. /\ f[c] \in CaptureContext /\ f[c].frame = contexts_[c].frame /\ f[c].output = o
        /\ f[c].session = contexts_[c].session /\ f[c].requested = contexts_[c].requested
        /\ f[c].selecting = b
    BY <2>1, <2>2, <2>3 DEF CaptureContext
  <2> QED
    BY <2>4 DEF o, b
<1> HIDE DEF f
<1>9. f \in [DOMAIN f -> CaptureContext] /\ DOMAIN f \subseteq Contexts
  BY <1>7, <1>8 DEF CaptureGood, CaptureTypeOK
<1>10. /\ s \in [owner : Contexts \cup {Nobody}, output : Displays \cup {Nobody}]
       /\ s.owner = (IF cancelled THEN Nobody ELSE selector.owner)
       /\ s.output = (IF cancelled THEN Nobody ELSE selector.output)
  BY DEF NoSelection, CaptureGood, CaptureTypeOK
<1> HIDE DEF s
<1>11. CaptureTypeOK'
  <2>1. IsFiniteSet(DOMAIN g) /\ DOMAIN g \subseteq Objects /\ sources \ {t} \subseteq Captured
    BY <1>3 DEF CaptureGood, CaptureTypeOK
  <2> QED
    BY <1>1, <1>5, <1>6, <1>9, <1>10, <2>1 DEF CaptureGood, CaptureTypeOK
<1>12. Paired(f, g)
  BY <1>3, <1>4, <1>7, <1>8 DEF CaptureGood, Paired
<1>13. Selecting(f, s)
  <2>1. {c \in DOMAIN contexts_ : contexts_[c].selecting} = {selector.owner} \ {Nobody}
    BY DEF CaptureGood, Selecting
  <2>2. {c \in DOMAIN f : f[c].selecting} = {s.owner} \ {Nobody}
    BY <1>7, <1>8, <1>10, <2>1
  <2> QED
    BY <2>2 DEF Selecting
<1>14. Remembered(f, s, sources \ {t})
  <2>1. Remembered(contexts_, selector, sources)
    BY DEF CaptureGood
  <2>2. \A c \in DOMAIN f : f[c].output \in (sources \ {t}) \cup {Nobody}
    BY <1>7, <1>8, <2>1 DEF Remembered
  <2>3. s.output \in (sources \ {t}) \cup {Nobody} /\ (s.owner = Nobody => s.output = Nobody)
    BY <1>2, <1>10, <2>1 DEF Remembered
  <2> QED
    BY <2>2, <2>3 DEF Remembered
<1> QED
  BY <1>1, <1>3, <1>4, <1>6, <1>11, <1>12, <1>13, <1>14 DEF CaptureGood

-----------------------------------------------------------------------------
(* The invariant, and what it says of the code.                            *)

LEMMA CaptureInitially == ASSUME CaptureInit PROVE CaptureGood
<1>1. DOMAIN objects_ = {} /\ DOMAIN contexts_ = {}
  BY DEF CaptureInit
<1>2. CaptureTypeOK
  <2>1. IsFiniteSet(DOMAIN objects_)
    BY <1>1, FS_EmptySet
  <2>2. objects_ \in [DOMAIN objects_ -> CaptureObject]
    BY <1>1 DEF CaptureInit
  <2>3. contexts_ \in [DOMAIN contexts_ -> CaptureContext]
    BY <1>1 DEF CaptureInit
  <2> QED
    BY <1>1, <2>1, <2>2, <2>3 DEF CaptureInit, CaptureTypeOK, Captured
<1>3. Counted(objects_, locks, cursor_locks)
  <2>1. ASSUME NEW t PROVE Holders(objects_, t) = {} /\ CursorHolders(objects_, t) = {}
    BY <1>1 DEF Holders, CursorHolders
  <2> QED
    BY <2>1, NoneHeld DEF CaptureInit, Counted, Captured
<1>4. Paired(contexts_, objects_)
  BY <1>1 DEF Paired
<1>5. Selecting(contexts_, selector) /\ Remembered(contexts_, selector, sources)
  BY <1>1 DEF CaptureInit, Selecting, Remembered
<1> QED
  BY <1>1, <1>2, <1>3, <1>4, <1>5 DEF CaptureGood

LEMMA CaptureStep == CaptureGood /\ [CaptureNext]_captureVars => CaptureGood'
<1> SUFFICES ASSUME CaptureGood, [CaptureNext]_captureVars PROVE CaptureGood'
  OBVIOUS
<1>1. CASE \E c \in Contexts : GetContext(c)
  BY <1>1, GetContextGood
<1>2. CASE \E c \in Contexts, cursor \in BOOLEAN : SelectSource(c, cursor)
  BY <1>2, SelectSourceGood
<1>3. CASE \E o \in Displays : SelectorMotion(o)
  BY <1>3, SelectorMotionGood
<1>4. CASE \E fits \in BOOLEAN : FinishSelection(fits)
  BY <1>4, FinishSelectionGood
<1>5. CASE CancelSelection
  BY <1>5, CancelSelectionGood
<1>6. CASE \E c \in Contexts : DestroyContext(c)
  BY <1>6, DestroyContextGood
<1>7. CASE \E c \in Contexts, x \in Objects : CaptureFrame(c, x)
  BY <1>7, CaptureFrameGood
<1>8. CASE \E x \in DOMAIN objects_, fits \in BOOLEAN : FrameCommit(x, fits)
  BY <1>8, FrameCommitGood
<1>9. CASE \E x \in DOMAIN objects_, works \in BOOLEAN : CopyFrame(x, works)
  BY <1>9, CopyFrameGood
<1>10. CASE \E c \in Contexts, x \in Objects : CreateSession(c, x)
  BY <1>10, CreateSessionGood
<1>11. CASE \E x \in DOMAIN objects_ : StartSession(x)
  BY <1>11, StartSessionGood
<1>12. CASE \E x \in DOMAIN objects_ : SessionCommit(x)
  BY <1>12, BufferGood DEF SessionCommit
<1>13. CASE \E x \in DOMAIN objects_ : SessionFrameDone(x)
  BY <1>13, BufferGood DEF SessionFrameDone
<1>14. CASE \E x \in Objects, o \in sources \cap Displays, cursor \in BOOLEAN :
              BeginShot(x, "output", o, cursor, TRUE)
  BY <1>14, BeginShotGood
<1>15. CASE \E x \in Objects, w \in sources \cap Windows, kind \in {"scene", "surface"},
               works \in BOOLEAN : BeginShot(x, kind, w, FALSE, works)
  BY <1>15, BeginShotGood
<1>16. CASE \E x \in DOMAIN objects_ : StartScene(x)
  BY <1>16, StartSceneGood
<1>17. CASE \E x \in DOMAIN objects_, works \in BOOLEAN : ShotCommit(x, works)
  BY <1>17, ShotCommitGood
<1>18. CASE \E x \in DOMAIN objects_, want \in BOOLEAN : Release(x, want)
  BY <1>18, ReleaseGood
<1>19. CASE \E x \in DOMAIN objects_ : DestroyObject(x)
  BY <1>19, DestroyObjectGood
<1>20. CASE \E t \in sources : SourceDestroyed(t)
  BY <1>20, SourceDestroyedGood
<1>21. CASE ToggleLock
  BY <1>21 DEF ToggleLock, CaptureGood, CaptureTypeOK
<1>22. CASE UNCHANGED captureVars
  BY <1>22 DEF captureVars, CaptureGood, CaptureTypeOK
<1> QED
  BY <1>1, <1>2, <1>3, <1>4, <1>5, <1>6, <1>7, <1>8, <1>9, <1>10, <1>11, <1>12, <1>13, <1>14,
     <1>15, <1>16, <1>17, <1>18, <1>19, <1>20, <1>21, <1>22, Zenon DEF CaptureNext

\* Every run of the captures keeps the inductive invariant: what runs reads from
\* a source that exists, the locks are counted, contexts and their frames and
\* sessions know of each other, and the selector runs for the context that waits
\* for it (CaptureGlobal, GxdeScreenshotManager, WindowSelector).
THEOREM CaptureIsGood == CaptureSpec => []CaptureGood
<1>1. CaptureInit => CaptureGood
  BY CaptureInitially
<1> QED
  BY <1>1, CaptureStep, PTL DEF CaptureSpec

\* In every run, for any outputs, windows and captures, the locks of an output
\* or a source that exists are those of the captures that run: a frame that is
\* taken, a capture that fails, stops or goes, a context that takes its frame and
\* session with it and a session lock between two commits all give back what was
\* locked, once (Frame::UnlockOutput, Session::Stop, StopCapture).
THEOREM CaptureLocksOwned == CaptureSpec => []LocksAreOwned
<1>1. CaptureGood => LocksAreOwned
  <2> SUFFICES ASSUME CaptureGood PROVE LocksAreOwned
    OBVIOUS
  <2> DEFINE running == {x \in DOMAIN objects_ : objects_[x].run /\ objects_[x].kind # "surface"}
             Of(t) == {x \in running : objects_[x].target = t}
             CursorOf(t) == {x \in Of(t) : objects_[x].cursor}
  <2>1. ASSUME NEW t PROVE Of(t) = Holders(objects_, t) /\ CursorOf(t) = CursorHolders(objects_, t)
    BY DEF Holders, CursorHolders
  <2> HIDE DEF Of, CursorOf
  <2>2. \A t \in sources : locks[t] = Cardinality(Of(t))
    BY <2>1 DEF CaptureGood, CaptureTypeOK, Counted
  <2>3. \A o \in sources \cap Displays : cursor_locks[o] = Cardinality(CursorOf(o))
    BY <2>1 DEF CaptureGood, Counted
  <2> QED
    BY <2>2, <2>3, Zenon DEF LocksAreOwned, Of, CursorOf
<1> QED
  BY <1>1, CaptureIsGood, PTL

\* In every run, the selector runs exactly for the context that waits for it,
\* and a back-pointer of a frame or session is to a context that exists and has
\* it, whichever of them the client destroys first and whenever an output under
\* the selector goes (SelectSource, DestroyContext, WindowSelector::Finish).
THEOREM CaptureContextsAnswered == CaptureSpec => []ContextsAreAnswered
<1>1. CaptureGood => ContextsAreAnswered
  BY Zenon DEF CaptureGood, Selecting, Paired, ContextsAreAnswered
<1> QED
  BY <1>1, CaptureIsGood, PTL

==============================================================================
