-------------------------- MODULE SelectionPersist --------------------------
(***************************************************************************)
(* The clipboard that outlives its owner.  SelectionPersist reads every    *)
(* mime type of the selection through a pipe as soon as a client sets it,  *)
(* and when the seat is left without a selection it installs its copy, in  *)
(* an idle callback of the event loop.  Owners write, stop half way, drop  *)
(* the source, clear the selection or exit at any time; readers paste from *)
(* the installed copy at their own pace.                                   *)
(*                                                                         *)
(* Data is counted in chunks of the size that Drain reads.                 *)
(***************************************************************************)
EXTENDS Naturals, FiniteSets, FiniteSetsExt

CONSTANTS
  Clients,              \* who may own the selection
  MimeTypes,
  Readers,              \* who may paste
  MaxChunks,            \* bound: the data of a mime type
  kMaxSelectionSize,
  SelectionEvents       \* the optional events of this instance

ASSUME SizesAssumption == MaxChunks \in Nat /\ kMaxSelectionSize \in Nat

VARIABLES
  alive,      \* the clients that run
  selection,  \* seat->selection_source
  cache_,     \* the copy; without entries there is none
  writers,    \* the pastes from the copy that are not finished
  last        \* history: the client that last set the selection, or "clear"

selectionVars == <<alive, selection, cache_, writers, last>>

Size == 0 .. MaxChunks

\* An entry of the copy.  pipe is what its owner has written and Drain has not
\* read, left what the owner has still to write, open its end of the pipe.
Entry == [state : {"reading", "complete", "failed"}, data : Size, pipe : Size,
          left : Size, open : BOOLEAN]

Entries == UNION {[mimes -> Entry] : mimes \in SUBSET MimeTypes}

NoEntries == [m \in {} |-> 0]

NoCache == [entries |-> NoEntries, total |-> 0, owned |-> FALSE, install |-> FALSE,
            owner |-> "none"]

Mimes == DOMAIN cache_.entries

SelectionTypeOK ==
  /\ alive \subseteq Clients
  /\ selection \in Clients \cup {"none", "cache"}
  /\ Mimes \subseteq MimeTypes
  /\ \A m \in Mimes : cache_.entries[m] \in Entry
  /\ cache_.total \in Nat
  /\ cache_.owned \in BOOLEAN /\ cache_.install \in BOOLEAN
  /\ cache_.owner \in Clients \cup {"none"}
  /\ \A w \in writers : w.reader \in Readers /\ w.mime \in Mimes /\ w.offset \in Size
  /\ last \in Clients \cup {"none", "clear"}

SelectionInit ==
  /\ alive = Clients /\ selection = "none" /\ cache_ = NoCache
  /\ writers = {} /\ last = "none"

(***************************************************************************)
(* The owner's end of the pipes.                                           *)
(***************************************************************************)
UpdateEntry(m, entry) == cache_' = [cache_ EXCEPT !.entries[m] = entry]

OwnerWrites(m) ==
  LET entry == cache_.entries[m] IN
  /\ m \in Mimes
  /\ cache_.owner \in alive
  /\ entry.state = "reading" /\ entry.open /\ entry.left > 0
  /\ UpdateEntry(m, [entry EXCEPT !.pipe = @ + 1, !.left = @ - 1])
  /\ UNCHANGED <<alive, selection, writers, last>>

OwnerCloses(m) ==
  LET entry == cache_.entries[m] IN
  /\ m \in Mimes
  /\ cache_.owner \in alive
  /\ entry.state = "reading" /\ entry.open /\ entry.left = 0
  /\ UpdateEntry(m, [entry EXCEPT !.open = FALSE])
  /\ UNCHANGED <<alive, selection, writers, last>>

(***************************************************************************)
(* Reading.                                                                *)
(***************************************************************************)
\* Reads what the owner has written so far; the end of file completes the entry.
Drain(cache, m) ==
  LET entry == cache.entries[m]
      room == kMaxSelectionSize - cache.total
      read == IF entry.pipe <= room THEN entry.pipe ELSE room
      state == IF entry.pipe > room THEN "failed"
               ELSE IF entry.open THEN "reading" ELSE "complete"
  IN  IF entry.state # "reading" THEN cache
      ELSE [cache EXCEPT !.total = @ + read,
              !.entries[m] = [entry EXCEPT !.data = @ + read, !.pipe = 0, !.state = state]]

OnReadable(m) ==
  /\ m \in Mimes
  /\ cache_.entries[m].state = "reading"
  /\ cache_.entries[m].pipe > 0 \/ ~cache_.entries[m].open
  /\ cache_' = Drain(cache_, m)
  /\ UNCHANGED <<alive, selection, writers, last>>

\* read fails: the entry is given up.
ReadError(m) ==
  /\ "error" \in SelectionEvents
  /\ m \in Mimes
  /\ cache_.entries[m].state = "reading"
  /\ UpdateEntry(m, [cache_.entries[m] EXCEPT !.state = "failed"])
  /\ UNCHANGED <<alive, selection, writers, last>>

(***************************************************************************)
(* The selection changes.                                                  *)
(***************************************************************************)
\* The pipes that could be opened for the types the client offers.
CreateSelection(c, offered, size) ==
  IF offered = {} THEN NoCache
  ELSE [entries |-> [m \in offered |-> [state |-> "reading", data |-> 0, pipe |-> 0,
                                        left |-> size[m], open |-> TRUE]],
        total |-> 0, owned |-> FALSE, install |-> FALSE, owner |-> c]

\* A client takes the selection: wlr_seat_set_selection destroys the source it
\* replaces, OnSetSelection the copy, with its pastes and its idle callback.
SetSelection(c, offered, size) ==
  /\ c \in alive
  /\ selection' = c
  /\ cache_' = CreateSelection(c, offered, size)
  /\ writers' = {}
  /\ last' = c
  /\ UNCHANGED alive

\* Mutant: only a copy that is read to the end is installed.
Faulty_OwnerIsGone(cache) ==
  IF cache.entries # NoEntries /\ ~cache.owned
     /\ \A m \in DOMAIN cache.entries : cache.entries[m].state # "reading"
  THEN [cache EXCEPT !.install = TRUE] ELSE cache

\* OnSetSelection when the seat has no selection any more.
OwnerIsGone(cache) ==
  IF cache.entries # NoEntries /\ ~cache.owned THEN [cache EXCEPT !.install = TRUE]
  ELSE cache

\* A client sets the selection to no source.
ClearSelection ==
  /\ "clear" \in SelectionEvents
  /\ selection # "none"
  /\ alive # {}
  /\ selection' = "none"
  /\ IF selection = "cache"
     THEN cache_' = NoCache /\ writers' = {}
     ELSE cache_' = OwnerIsGone(cache_) /\ UNCHANGED writers
  /\ last' = "clear"
  /\ UNCHANGED alive

\* The owner destroys its source; it may go on writing.
DropSource ==
  /\ selection \in Clients
  /\ selection' = "none"
  /\ cache_' = OwnerIsGone(cache_)
  /\ UNCHANGED <<alive, writers, last>>

\* The write ends of a process that exits are closed.
CloseEnds(cache, c) ==
  IF cache.owner # c THEN cache
  ELSE [cache EXCEPT !.entries = [m \in DOMAIN @ |-> [@[m] EXCEPT !.open = FALSE]]]

\* The connection of a client that exits, whatever it has written, is closed,
\* before its pipes or after them.
Exit(c) ==
  /\ c \in alive
  /\ alive' = alive \ {c}
  /\ selection' = IF selection = c THEN "none" ELSE selection
  /\ \E cache \in {cache_, CloseEnds(cache_, c)} :
       cache_' = IF selection = c THEN OwnerIsGone(cache) ELSE cache
  /\ UNCHANGED <<writers, last>>

\* The rest of an exit.
ExitCloses(c) ==
  /\ c \notin alive
  /\ cache_' = CloseEnds(cache_, c)
  /\ UNCHANGED <<alive, selection, writers, last>>

\* A new process.
Start(c) ==
  /\ c \notin alive
  /\ CloseEnds(cache_, c) = cache_
  /\ alive' = alive \cup {c}
  /\ UNCHANGED <<selection, cache_, writers, last>>

DrainAll(cache) == FoldSet(LAMBDA m, drained : Drain(drained, m), cache, Mimes)

\* Mutant: what has been read so far is good enough.
Faulty_Kept(entry) == entry.state # "failed" /\ entry.data > 0

Kept(entry) == entry.state = "complete" /\ entry.data > 0

\* The idle callback.
Install ==
  LET drained == DrainAll(cache_)
      kept == {m \in Mimes : Kept(drained.entries[m])}
  IN
  /\ cache_.install
  /\ IF selection # "none" THEN
       cache_' = [cache_ EXCEPT !.install = FALSE] /\ UNCHANGED selection
     ELSE IF kept = {} THEN
       cache_' = NoCache /\ UNCHANGED selection
     ELSE
       /\ cache_' = [drained EXCEPT !.entries = [m \in kept |-> @[m]],
                                    !.install = FALSE, !.owned = TRUE]
       /\ selection' = "cache"
  /\ UNCHANGED <<alive, writers, last>>

(***************************************************************************)
(* Pasting from the copy.                                                  *)
(***************************************************************************)
\* SendSelection writes what the pipe takes and leaves the rest to a Writer,
\* if the event loop takes it.
SendSelection(r, m, taken) ==
  /\ selection = "cache"
  /\ m \in Mimes /\ taken <= cache_.entries[m].data
  /\ \A w \in writers : w.reader # r
  /\ \/ taken < cache_.entries[m].data
        /\ writers' = writers \cup {[reader |-> r, mime |-> m, offset |-> taken]}
     \/ UNCHANGED writers
  /\ UNCHANGED <<alive, selection, cache_, last>>

\* Mutant: the writer is kept after the last chunk.
Faulty_OnWritable(w) ==
  /\ w \in writers
  /\ w.offset < cache_.entries[w.mime].data
  /\ writers' = (writers \ {w}) \cup {[w EXCEPT !.offset = @ + 1]}
  /\ UNCHANGED <<alive, selection, cache_, last>>

OnWritable(w) ==
  /\ w \in writers
  /\ writers' = IF w.offset + 1 = cache_.entries[w.mime].data THEN writers \ {w}
                ELSE (writers \ {w}) \cup {[w EXCEPT !.offset = @ + 1]}
  /\ UNCHANGED <<alive, selection, cache_, last>>

\* The reader closes its end.
ReaderGone(w) ==
  /\ w \in writers
  /\ writers' = writers \ {w}
  /\ UNCHANGED <<alive, selection, cache_, last>>

CacheNext ==
  \/ \E m \in MimeTypes : OwnerWrites(m) \/ OwnerCloses(m) \/ OnReadable(m) \/ ReadError(m)
  \/ Install

OwnerNext ==
  \/ \E c \in Clients, offered \in SUBSET MimeTypes :
       \E size \in [offered -> {0, MaxChunks}] : SetSelection(c, offered, size)
  \/ ClearSelection \/ DropSource
  \/ \E c \in Clients : Exit(c) \/ ExitCloses(c) \/ Start(c)

PasteNext ==
  \/ \E r \in Readers, m \in MimeTypes, taken \in Size : SendSelection(r, m, taken)
  \/ \E w \in writers : OnWritable(w) \/ ReaderGone(w)

SelectionNext == CacheNext \/ OwnerNext \/ PasteNext

SelectionSpec == SelectionInit /\ [][SelectionNext]_selectionVars

\* The event loop runs its idle callbacks and the pipes that are writable, and
\* readers read.
SelectionFairness ==
  /\ WF_selectionVars(Install)
  /\ \A r \in Readers : WF_selectionVars(\E w \in writers : w.reader = r /\ OnWritable(w))

(***************************************************************************)
(* Properties.                                                             *)
(***************************************************************************)

\* What is installed is the copy of the client that set the selection last, not
\* an older one that was waiting (OnSetSelection, Install), and all that this
\* client wrote under a type before its end of the pipe was closed, also when it
\* dropped the source or died while it wrote (Drain).  The copy never holds more
\* than the limit over all its mime types.
KeptIsTheLastCopy ==
  /\ MapThenSumSet(LAMBDA m : cache_.entries[m].data, Mimes) <= kMaxSelectionSize
  /\ selection = "cache" =>
       /\ \A m \in Mimes : cache_.entries[m].pipe = 0 /\ ~cache_.entries[m].open
       /\ last # "clear" => cache_.owner = last

\* When the owner of a fully read, non-empty copy goes, the clipboard is not
\* lost: it is set again, by the copy or by a client (OnSetSelection, Install).
ClipboardIsKept ==
  (selection = "none" /\ \E m \in Mimes : Kept(cache_.entries[m])) ~> selection # "none"

\* Every paste ends (OnWritable, DestroyWriter).
PasteEnds ==
  \A r \in Readers : (\E w \in writers : w.reader = r) ~> (\A w \in writers : w.reader # r)

\* A selection that a client unset stays unset until a client sets one
\* (OnSetSelection).
ClearedStaysClear == last = "clear" => selection = "none"
=============================================================================
