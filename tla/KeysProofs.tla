------------------------------ MODULE KeysProofs ------------------------------
(***************************************************************************)
(* Keys, for any keys, shortcuts and events: the overviews and the app     *)
(* switcher exclude one another, and shortcuts and clients see the release *)
(* of what they saw pressed, unless a view or the lock took it.            *)
(***************************************************************************)
EXTENDS Keys, TLAPS

\* The app switcher is up with at most the selector, and of the two overviews
\* one at most.
Apart(st) ==
  /\ st.previews = "off" \/ st.multitasking = "off"
  /\ st.switcher => st.previews = "off" /\ st.multitasking = "off" /\ ~st.menu

ViewsGood ==
  keys \in KeysType /\ Apart(keys) /\ (keys.switcher => "alt" \in keys.held \/ keys.missed)

\* What the views are.
SameViews(a, b) ==
  /\ a.menu = b.menu /\ a.selector = b.selector /\ a.switcher = b.switcher
  /\ a.previews = b.previews /\ a.multitasking = b.multitasking

\* The keys that are down and the histories of them.
SameKeys(a, b) ==
  a.held = b.held /\ a.missed = b.missed /\ a.astray = b.astray

\* What is recorded of the keys is the same; another client may have the keyboard.
Kept(a, b) ==
  /\ SameKeys(a, b) /\ a.active_keys_ = b.active_keys_ /\ a.capture = b.capture
  /\ a.locked = b.locked /\ a.im_grab = b.im_grab
  /\ (a.seen = b.seen /\ a.focus = b.focus) \/ a.seen = {}

LEMMA KeptTwice ==
  ASSUME NEW a, NEW b, NEW c, Kept(a, b), Kept(b, c) PROVE Kept(a, c)
BY DEF Kept, SameKeys

LEMMA KeptSelf == ASSUME NEW a PROVE Kept(a, a) /\ SameViews(a, a)
BY DEF Kept, SameKeys, SameViews

-----------------------------------------------------------------------------
(* The views close and open one another.                                   *)

LEMMA CancelMultitaskingViews ==
  ASSUME NEW st \in KeysType
  PROVE  LET r == CancelMultitasking(st) IN
         /\ r \in KeysType /\ Kept(r, st) /\ r.menu = st.menu /\ r.selector = st.selector
         /\ r.switcher = st.switcher /\ r.previews = st.previews
         /\ r.multitasking = IF st.multitasking = "active" THEN "closing" ELSE st.multitasking
<1> DEFINE z == [st EXCEPT !.multitasking = "closing"]
<1>1. /\ z \in KeysType /\ Kept(z, st) /\ z.menu = st.menu /\ z.selector = st.selector
      /\ z.switcher = st.switcher /\ z.previews = st.previews /\ z.multitasking = "closing"
  BY DEF KeysType, Phases, Kept, SameKeys
<1>2. CancelMultitasking(st) = IF st.multitasking = "active" THEN z ELSE st
  BY DEF CancelMultitasking
<1> HIDE DEF z
<1> QED
  BY <1>1, <1>2, KeptSelf

LEMMA CancelPreviewsViews ==
  ASSUME NEW st \in KeysType
  PROVE  LET r == CancelPreviews(st) IN
         /\ r \in KeysType /\ Kept(r, st) /\ r.menu = st.menu /\ r.selector = st.selector
         /\ r.switcher = st.switcher /\ r.multitasking = st.multitasking
         /\ r.previews = IF st.previews = "active" THEN "closing" ELSE st.previews
<1> DEFINE z == [st EXCEPT !.previews = "closing"]
<1>1. /\ z \in KeysType /\ Kept(z, st) /\ z.menu = st.menu /\ z.selector = st.selector
      /\ z.switcher = st.switcher /\ z.multitasking = st.multitasking /\ z.previews = "closing"
  BY DEF KeysType, Phases, Kept, SameKeys
<1>2. CancelPreviews(st) = IF st.previews = "active" THEN z ELSE st
  BY DEF CancelPreviews
<1> HIDE DEF z
<1> QED
  BY <1>1, <1>2, KeptSelf

LEMMA NotifyEnterKeeps ==
  ASSUME NEW st \in KeysType, NEW focus \in {"none", "window", "lock"}
  PROVE  LET r == NotifyEnter(st, focus) IN
         r \in KeysType /\ Kept(r, st) /\ SameViews(r, st) /\ r.seen = {}
BY Zenon DEF NotifyEnter, KeysType, Kept, SameKeys, SameViews

LEMMA ActivatedKeeps ==
  ASSUME NEW st \in KeysType, NEW choice
  PROVE  LET r == Activated(st, choice) IN r \in KeysType /\ Kept(r, st) /\ SameViews(r, st)
<1>1. Activated(st, choice) = st \/ Activated(st, choice) = NotifyEnter(st, "window")
  BY DEF Activated
<1> QED
  BY <1>1, KeptSelf, NotifyEnterKeeps

LEMMA MinimizedKeeps ==
  ASSUME NEW st \in KeysType, NEW choice
  PROVE  LET r == Minimized(st, choice) IN r \in KeysType /\ Kept(r, st) /\ SameViews(r, st)
<1>1. \/ Minimized(st, choice) = st
      \/ \E focus \in {"none", "window", "lock"} : Minimized(st, choice) = NotifyEnter(st, focus)
  BY DEF Minimized
<1> QED
  BY <1>1, KeptSelf, NotifyEnterKeeps

LEMMA ShowWindowMenuViews ==
  ASSUME NEW st \in KeysType, Apart(st)
  PROVE  LET r == ShowWindowMenu(st) IN
         r \in KeysType /\ Kept(r, st) /\ Apart(r) /\ (r.switcher => st.switcher)
<1>1. CASE st.locked
  BY <1>1, KeptSelf DEF ShowWindowMenu
<1>2. CASE ~st.locked
  <2> DEFINE a == CancelMultitasking(st)
             b == CancelPreviews(a)
             r == [b EXCEPT !.switcher = FALSE, !.selector = FALSE, !.menu = TRUE]
  <2>1. /\ a \in KeysType /\ Kept(a, st) /\ a.previews = st.previews
        /\ a.multitasking = IF st.multitasking = "active" THEN "closing" ELSE st.multitasking
    BY CancelMultitaskingViews, Zenon
  <2> HIDE DEF a
  <2>2. /\ b \in KeysType /\ Kept(b, a) /\ b.multitasking = a.multitasking
        /\ b.previews = IF a.previews = "active" THEN "closing" ELSE a.previews
    BY <2>1, CancelPreviewsViews, Zenon
  <2> HIDE DEF b
  <2>3. /\ r \in KeysType /\ Kept(r, b) /\ ~r.switcher
        /\ r.previews = b.previews /\ r.multitasking = b.multitasking
    BY <2>2, Zenon DEF KeysType, Kept, SameKeys
  <2>4. ShowWindowMenu(st) = r
    BY <1>2, Zenon DEF ShowWindowMenu, a, b
  <2> HIDE DEF r
  <2>5. Apart(r)
    BY <2>1, <2>2, <2>3 DEF Apart
  <2>6. Kept(r, st)
    BY <2>1, <2>2, <2>3, KeptTwice, Zenon
  <2> QED
    BY <2>3, <2>4, <2>5, <2>6
<1> QED
  BY <1>1, <1>2

\* The action of a shortcut that nobody above took the key of.
LEMMA RunActionViews ==
  ASSUME NEW st \in KeysType, Apart(st), NEW b \in BindingNames, NEW choice,
         st.previews = "off" \/ b = "super_a",
         st.multitasking = "off" \/ b \in {"super_s", "super_tab"}
  PROVE  LET r == RunAction(st, b, choice) IN
         /\ r \in KeysType /\ Kept(r, st) /\ Apart(r)
         /\ r.switcher => st.switcher \/ b \in {"alt_tab", "alt_shift_tab"}
<1> DEFINE r == RunAction(st, b, choice)
<1>1. CASE b \in {"alt_tab", "alt_shift_tab"}
  <2> DEFINE p == CancelPreviews(st)
             q == CancelMultitasking(p)
             z == [q EXCEPT !.menu = FALSE, !.switcher = TRUE]
  <2>1. /\ p \in KeysType /\ Kept(p, st) /\ p.multitasking = st.multitasking
        /\ p.previews = IF st.previews = "active" THEN "closing" ELSE st.previews
    BY CancelPreviewsViews, Zenon
  <2> HIDE DEF p
  <2>2. /\ q \in KeysType /\ Kept(q, p) /\ q.previews = p.previews
        /\ q.multitasking = IF p.multitasking = "active" THEN "closing" ELSE p.multitasking
    BY <2>1, CancelMultitaskingViews, Zenon
  <2> HIDE DEF q
  <2>3. /\ z \in KeysType /\ Kept(z, q) /\ ~z.menu /\ z.switcher
        /\ z.previews = q.previews /\ z.multitasking = q.multitasking
    BY <2>2, Zenon DEF KeysType, Kept, SameKeys
  <2>4. r = z
    BY <1>1 DEF RunAction, p, q
  <2> HIDE DEF r, z
  <2>5. Kept(z, st)
    BY <2>1, <2>2, <2>3, KeptTwice, Zenon
  <2> QED
    BY <1>1, <2>1, <2>2, <2>3, <2>4, <2>5 DEF Apart, r
<1>2. CASE b \in {"super_s", "super_tab"}
  <2> DEFINE p == CancelPreviews(st)
             q == [p EXCEPT !.menu = FALSE, !.selector = FALSE, !.switcher = FALSE]
             o == [q EXCEPT !.multitasking = "active"]
             z == ToggleMultitasking(q)
  <2>1. /\ p \in KeysType /\ Kept(p, st) /\ p.multitasking = st.multitasking
        /\ p.previews = IF st.previews = "active" THEN "closing" ELSE st.previews
    BY CancelPreviewsViews, Zenon
  <2> HIDE DEF p
  <2>2. /\ q \in KeysType /\ Kept(q, p) /\ ~q.switcher
        /\ q.previews = p.previews /\ q.multitasking = p.multitasking
    BY <2>1, Zenon DEF KeysType, Kept, SameKeys
  <2>4. r = z
    BY <1>2 DEF RunAction, p
  <2> HIDE DEF q
  <2>5. o \in KeysType /\ Kept(o, q) /\ o.previews = q.previews /\ o.switcher = q.switcher
    BY <2>2 DEF KeysType, Phases, Kept, SameKeys
  <2>6. z = o \/ z = CancelMultitasking(q)
    BY DEF ToggleMultitasking
  <2> HIDE DEF o, r, z
  <2>7. z \in KeysType /\ Kept(z, q) /\ z.previews = q.previews /\ z.switcher = q.switcher
    BY <2>2, <2>5, <2>6, CancelMultitaskingViews
  <2>8. Kept(z, st)
    BY <2>1, <2>2, <2>7, KeptTwice, Zenon
  <2> QED
    BY <1>2, <2>1, <2>2, <2>4, <2>7, <2>8 DEF Apart, r
<1>3. CASE b = "super_a"
  <2> DEFINE p == CancelMultitasking(st)
             q == [p EXCEPT !.menu = FALSE, !.selector = FALSE, !.switcher = FALSE]
             o == [q EXCEPT !.previews = "active"]
             z == TogglePreviews(q)
  <2>1. /\ p \in KeysType /\ Kept(p, st) /\ p.previews = st.previews
        /\ p.multitasking = IF st.multitasking = "active" THEN "closing" ELSE st.multitasking
    BY CancelMultitaskingViews, Zenon
  <2> HIDE DEF p
  <2>2. /\ q \in KeysType /\ Kept(q, p) /\ ~q.switcher
        /\ q.previews = p.previews /\ q.multitasking = p.multitasking
    BY <2>1, Zenon DEF KeysType, Kept, SameKeys
  <2>4. r = z
    BY <1>3 DEF RunAction, p
  <2> HIDE DEF q
  <2>5. o \in KeysType /\ Kept(o, q) /\ o.multitasking = q.multitasking /\ o.switcher = q.switcher
    BY <2>2 DEF KeysType, Phases, Kept, SameKeys
  <2>6. z = o \/ z = CancelPreviews(q)
    BY DEF TogglePreviews
  <2> HIDE DEF o, r, z
  <2>7. z \in KeysType /\ Kept(z, q) /\ z.multitasking = q.multitasking /\ z.switcher = q.switcher
    BY <2>2, <2>5, <2>6, CancelPreviewsViews
  <2>8. Kept(z, st)
    BY <2>1, <2>2, <2>7, KeptTwice, Zenon
  <2> QED
    BY <1>3, <2>1, <2>2, <2>4, <2>7, <2>8 DEF Apart, r
<1>4. CASE b = "alt_f3"
  <2>1. r = IF st.focus = "window" THEN ShowWindowMenu(st) ELSE st
    BY <1>4 DEF RunAction
  <2> HIDE DEF r
  <2> QED
    BY <2>1, ShowWindowMenuViews, KeptSelf DEF r
<1>5. CASE b = "alt_f9"
  <2>1. r = Minimized(st, choice)
    BY <1>5 DEF RunAction
  <2> HIDE DEF r
  <2> QED
    BY <2>1, MinimizedKeeps DEF r, SameViews, Apart
<1>6. CASE b \notin {"alt_tab", "alt_shift_tab", "super_s", "super_tab", "super_a", "alt_f3",
                     "alt_f9"}
  <2>1. r = st
    BY <1>6 DEF RunAction
  <2> HIDE DEF r
  <2> QED
    BY <2>1, KeptSelf DEF r
<1> QED
  BY <1>1, <1>2, <1>3, <1>4, <1>5, <1>6, Zenon

-----------------------------------------------------------------------------
(* The views are asked.                                                    *)

LEMMA ResultFields ==
  ASSUME NEW st
  PROVE  /\ Took(st).st = st /\ Took(st).took /\ Took(st).took \in BOOLEAN
         /\ Passed(st).st = st /\ ~Passed(st).took /\ Passed(st).took \in BOOLEAN
BY DEF Took, Passed

\* A view that is asked for a key.  Unless it is the selector, the app switcher
\* is not up if it takes the key; nothing has changed if it does not.
Asked(st, r) ==
  /\ r.st \in KeysType /\ r.took \in BOOLEAN /\ Apart(r.st) /\ Kept(r.st, st)
  /\ r.took => ~r.st.switcher \/ (st.selector /\ st.switcher)
  /\ ~r.took => r.st = st

LEMMA MenuAsked ==
  ASSUME NEW st \in KeysType, Apart(st), NEW key, NEW pressed \in BOOLEAN, NEW mods, NEW choice
  PROVE  Asked(st, MenuHandleKey(st, key, pressed, mods, choice))
<1> DEFINE z == [st EXCEPT !.menu = FALSE]
           n == Minimized(z, choice)
           r == MenuHandleKey(st, key, pressed, mods, choice)
<1>1. CASE ~st.menu \/ (~pressed /\ key = "f3")
  BY <1>1, ResultFields, KeptSelf DEF MenuHandleKey, Asked
<1>2. CASE ~(~st.menu \/ (~pressed /\ key = "f3"))
  <2>1. r = Took(z) \/ r = Took(st) \/ r = Took(n)
    BY <1>2 DEF MenuHandleKey, MenuActivate
  <2>2. /\ z \in KeysType /\ Kept(z, st) /\ z.switcher = st.switcher
        /\ z.previews = st.previews /\ z.multitasking = st.multitasking /\ ~z.menu
    BY DEF KeysType, Kept, SameKeys
  <2> HIDE DEF z
  <2>3. n \in KeysType /\ Kept(n, z) /\ SameViews(n, z)
    BY <2>2, MinimizedKeeps, Zenon
  <2> HIDE DEF n, r
  <2>4. Kept(n, st)
    BY <2>2, <2>3, KeptTwice, Zenon
  <2> QED
    BY <1>2, <2>1, <2>2, <2>3, <2>4, ResultFields, KeptSelf DEF Asked, Apart, SameViews, r
<1> QED
  BY <1>1, <1>2, Zenon

LEMMA SelectorAsked ==
  ASSUME NEW st \in KeysType, Apart(st), NEW key, NEW pressed \in BOOLEAN, NEW choice
  PROVE  Asked(st, SelectorHandleKey(st, key, pressed, choice))
<1> DEFINE z == [st EXCEPT !.selector = FALSE]
           r == SelectorHandleKey(st, key, pressed, choice)
<1>1. CASE ~st.selector
  BY <1>1, ResultFields, KeptSelf DEF SelectorHandleKey, Asked
<1>2. CASE st.selector
  <2>1. r = Took(z) \/ r = Took(st)
    BY <1>2, Zenon DEF SelectorHandleKey
  <2>2. /\ z \in KeysType /\ Kept(z, st) /\ z.switcher = st.switcher /\ z.menu = st.menu
        /\ z.previews = st.previews /\ z.multitasking = st.multitasking
    BY DEF KeysType, Kept, SameKeys
  <2>3. st.switcher \in BOOLEAN
    BY DEF KeysType
  <2> HIDE DEF z, r
  <2> QED
    BY <1>2, <2>1, <2>2, <2>3, ResultFields, KeptSelf DEF Asked, Apart, r
<1> QED
  BY <1>1, <1>2, Zenon

LEMMA PreviewsAsked ==
  ASSUME NEW st \in KeysType, Apart(st), NEW key, NEW pressed \in BOOLEAN, NEW mods, NEW choice
  PROVE  LET r == PreviewsHandleKey(st, key, pressed, mods, choice) IN
         Asked(st, r) /\ (~r.took => st.previews = "off" \/ ("super" \in mods /\ key = "a"))
<1> DEFINE z == CancelPreviews(st)
           a == Activated(st, choice)
           n == CancelPreviews(a)
           r == PreviewsHandleKey(st, key, pressed, mods, choice)
<1>1. /\ z \in KeysType /\ Kept(z, st) /\ z.switcher = st.switcher /\ z.menu = st.menu
      /\ z.multitasking = st.multitasking
      /\ z.previews = IF st.previews = "active" THEN "closing" ELSE st.previews
  BY CancelPreviewsViews, Zenon
<1>a. a \in KeysType /\ Kept(a, st) /\ SameViews(a, st)
  BY ActivatedKeeps, Zenon
<1>2. \/ r = Passed(st) /\ (st.previews = "off" \/ ("super" \in mods /\ key = "a"))
      \/ (r = Took(st) \/ r = Took(z) \/ r = Took(n)) /\ st.previews # "off"
  BY Zenon DEF PreviewsHandleKey
<1> HIDE DEF a
<1>n. /\ n \in KeysType /\ Kept(n, a) /\ n.switcher = a.switcher /\ n.menu = a.menu
      /\ n.multitasking = a.multitasking
      /\ n.previews = IF a.previews = "active" THEN "closing" ELSE a.previews
  BY <1>a, CancelPreviewsViews, Zenon
<1> HIDE DEF r, z, n
<1>3. CASE r = Passed(st) /\ (st.previews = "off" \/ ("super" \in mods /\ key = "a"))
  BY <1>3, ResultFields, KeptSelf DEF Asked, r
<1>4. CASE r = Took(st) /\ st.previews # "off"
  BY <1>4, ResultFields, KeptSelf DEF Asked, Apart, r
<1>5. CASE r = Took(z) /\ st.previews # "off"
  BY <1>1, <1>5, ResultFields DEF Asked, Apart, r
<1>6. CASE r = Took(n) /\ st.previews # "off"
  <2>1. Kept(n, st)
    BY <1>a, <1>n, KeptTwice, Zenon
  <2> QED
    BY <1>a, <1>n, <1>6, <2>1, ResultFields DEF Asked, Apart, SameViews, r
<1> QED
  BY <1>2, <1>3, <1>4, <1>5, <1>6

LEMMA MultitaskingAsked ==
  ASSUME NEW st \in KeysType, Apart(st), NEW key, NEW pressed \in BOOLEAN, NEW mods
  PROVE  LET r == MultitaskingHandleKey(st, key, pressed, mods) IN
         /\ Asked(st, r)
         /\ ~r.took => st.multitasking = "off" \/ ("super" \in mods /\ key \in {"s", "tab"})
<1> DEFINE z == CancelMultitasking(st)
           r == MultitaskingHandleKey(st, key, pressed, mods)
<1>1. /\ z \in KeysType /\ Kept(z, st) /\ z.switcher = st.switcher /\ z.menu = st.menu
      /\ z.previews = st.previews
      /\ z.multitasking = IF st.multitasking = "active" THEN "closing" ELSE st.multitasking
  BY CancelMultitaskingViews, Zenon
<1>2. \/ r = Passed(st) /\ (st.multitasking = "off" \/ ("super" \in mods /\ key \in {"s", "tab"}))
      \/ (r = Took(st) \/ r = Took(z)) /\ st.multitasking # "off"
  BY Zenon DEF MultitaskingHandleKey
<1> HIDE DEF r, z
<1>3. CASE r = Passed(st) /\ (st.multitasking = "off" \/ ("super" \in mods /\ key \in {"s", "tab"}))
  BY <1>3, ResultFields, KeptSelf DEF Asked, r
<1>4. CASE r = Took(st) /\ st.multitasking # "off"
  BY <1>4, ResultFields, KeptSelf DEF Asked, Apart, r
<1>5. CASE r = Took(z) /\ st.multitasking # "off"
  BY <1>1, <1>5, ResultFields DEF Asked, Apart, r
<1> QED
  BY <1>2, <1>3, <1>4, <1>5

\* The app switcher is asked after them, and ends when Alt is released as Alt.
Switched(st, key, pressed, mods, r) ==
  /\ r.st \in KeysType /\ r.took \in BOOLEAN /\ Kept(r.st, st) /\ Apart(r.st)
  /\ r.st.switcher => st.switcher /\ (key = "alt" /\ ~pressed => "shift" \in mods)
  /\ r.st.previews = st.previews /\ r.st.multitasking = st.multitasking

LEMMA SwitcherAsked ==
  ASSUME NEW st \in KeysType, Apart(st), NEW key, NEW pressed \in BOOLEAN, NEW mods, NEW choice
  PROVE  Switched(st, key, pressed, mods, SwitcherHandleKey(st, key, pressed, mods, choice))
<1> DEFINE r == SwitcherHandleKey(st, key, pressed, mods, choice)
           e == [st EXCEPT !.switcher = pressed]
           f == [st EXCEPT !.switcher = FALSE]
           n == Activated(f, choice)
<1>1. /\ e \in KeysType /\ Kept(e, st) /\ e.menu = st.menu
      /\ e.previews = st.previews /\ e.multitasking = st.multitasking /\ e.switcher = pressed
  BY DEF KeysType, Kept, SameKeys
<1>2. /\ f \in KeysType /\ Kept(f, st) /\ f.menu = st.menu
      /\ f.previews = st.previews /\ f.multitasking = st.multitasking /\ ~f.switcher
  BY Zenon DEF KeysType, Kept, SameKeys
<1>3. \/ r = Passed(st) /\ ~st.switcher
      \/ r = Passed(st) /\ key = "tab"
      \/ r = Took(e) /\ st.switcher /\ key = "escape"
      \/ r = Passed(n) \/ r = Took(n)
      \/ r = Took(st) /\ key = "return"
      \/ (r = Passed(st) \/ r = Took(st)) /\ ~(~pressed /\ IsAlt(key, mods))
  BY Zenon DEF SwitcherHandleKey, FinishSwitcher
<1> HIDE DEF e, f, r
<1>4. n \in KeysType /\ Kept(n, f) /\ SameViews(n, f)
  BY <1>2, ActivatedKeeps, Zenon
<1> HIDE DEF n
<1>5. Kept(n, st)
  BY <1>2, <1>4, KeptTwice, Zenon
<1>6. CASE \/ r = Passed(st) /\ (~st.switcher \/ key = "tab")
           \/ r = Took(st) /\ key = "return"
  BY <1>6, ResultFields, KeptSelf DEF r, Switched
<1>7. CASE r = Took(e) /\ st.switcher /\ key = "escape"
  BY <1>1, <1>7, ResultFields DEF r, Switched, Apart
<1>8. CASE r = Passed(n) \/ r = Took(n)
  BY <1>2, <1>4, <1>5, <1>8, ResultFields DEF r, Switched, Apart, SameViews
<1>9. CASE (r = Passed(st) \/ r = Took(st)) /\ ~(~pressed /\ IsAlt(key, mods))
  BY <1>9, ResultFields, KeptSelf DEF r, Switched, IsAlt
<1> QED
  BY <1>3, <1>6, <1>7, <1>8, <1>9

\* All of the views are asked in turn.
Offered(st, key, pressed, mods, r) ==
  /\ r.st \in KeysType /\ r.took \in BOOLEAN /\ Kept(r.st, st) /\ Apart(r.st)
  /\ r.st.switcher =>
       st.switcher /\ (key = "alt" /\ ~pressed => "shift" \in mods \/ st.selector)
  /\ ~r.took => /\ r.st.previews = "off" \/ ("super" \in mods /\ key = "a")
                /\ r.st.multitasking = "off" \/ ("super" \in mods /\ key \in {"s", "tab"})

LEMMA ViewsOffered ==
  ASSUME NEW st \in KeysType, Apart(st), NEW key, NEW pressed \in BOOLEAN, NEW mods, NEW choice
  PROVE  Offered(st, key, pressed, mods, OfferToViews(st, key, pressed, mods, choice))
<1> DEFINE menu == MenuHandleKey(st, key, pressed, mods, choice)
           selector == IF menu.took THEN menu ELSE SelectorHandleKey(menu.st, key, pressed, choice)
           previews == IF selector.took THEN selector
                       ELSE PreviewsHandleKey(selector.st, key, pressed, mods, choice)
           multitasking == IF previews.took THEN previews
                           ELSE MultitaskingHandleKey(previews.st, key, pressed, mods)
           r == OfferToViews(st, key, pressed, mods, choice)
<1>1. r = IF multitasking.took THEN multitasking
          ELSE SwitcherHandleKey(multitasking.st, key, pressed, mods, choice)
  BY DEF OfferToViews
<1> HIDE DEF r
<1>2. Asked(st, menu)
  BY MenuAsked
<1> HIDE DEF menu
<1>3. Asked(st, selector)
  BY <1>2, SelectorAsked DEF Asked
<1> HIDE DEF selector
<1>4. /\ Asked(st, previews)
      /\ ~previews.took => st.previews = "off" \/ ("super" \in mods /\ key = "a")
  <2>1. CASE selector.took
    BY <1>3, <2>1
  <2>2. CASE ~selector.took
    <3>1. selector.st = st /\ previews = PreviewsHandleKey(st, key, pressed, mods, choice)
      BY <1>3, <2>2 DEF Asked
    <3> HIDE DEF previews
    <3> QED
      BY <3>1, PreviewsAsked
  <2> QED
    BY <2>1, <2>2
<1> HIDE DEF previews
<1>5. /\ Asked(st, multitasking)
      /\ ~multitasking.took =>
           /\ st.previews = "off" \/ ("super" \in mods /\ key = "a")
           /\ st.multitasking = "off" \/ ("super" \in mods /\ key \in {"s", "tab"})
  <2>1. CASE previews.took
    BY <1>4, <2>1
  <2>2. CASE ~previews.took
    <3>1. previews.st = st /\ multitasking = MultitaskingHandleKey(st, key, pressed, mods)
      BY <1>4, <2>2 DEF Asked
    <3> HIDE DEF multitasking
    <3> QED
      BY <1>4, <2>2, <3>1, MultitaskingAsked
  <2> QED
    BY <2>1, <2>2
<1> HIDE DEF multitasking
<1>6. CASE multitasking.took
  <2>1. r = multitasking
    BY <1>1, <1>6
  <2> QED
    BY <1>5, <1>6, <2>1 DEF Asked, Offered, r
<1>7. CASE ~multitasking.took
  <2>1. r = SwitcherHandleKey(st, key, pressed, mods, choice)
    BY <1>1, <1>5, <1>7 DEF Asked
  <2>2. Switched(st, key, pressed, mods, r)
    BY <2>1, SwitcherAsked
  <2> QED
    BY <1>5, <1>7, <2>2 DEF Switched, Offered, r
<1> QED
  BY <1>6, <1>7

-----------------------------------------------------------------------------
(* KeyBindingManager, which leaves the keys and the locks alone.           *)

Around(a, b) ==
  /\ SameKeys(a, b) /\ a.locked = b.locked /\ a.im_grab = b.im_grab
  /\ (a.seen = b.seen /\ a.focus = b.focus) \/ a.seen = {}

\* A key has a record.
Pressed(st, key) == \E active \in st.active_keys_ : active[1] = key

LEMMA ActivePressed ==
  ASSUME NEW st, NEW key PROVE Active(st, key) # {} <=> Pressed(st, key)
BY DEF Active, Pressed

LEMMA NotCaptures == "none" \notin KeyNames /\ "armed" \notin KeyNames
BY NamesAssumption

LEMMA CapturedDoes ==
  ASSUME NEW st \in KeysType, NEW key \in KeyNames, NEW pressed \in BOOLEAN
  PROVE  LET r == HandleCapturedKey(st, key, pressed) IN
         /\ r.st \in KeysType /\ r.took /\ r.took \in BOOLEAN
         /\ SameViews(r.st, st) /\ Around(r.st, st)
         /\ r.st.active_keys_ = st.active_keys_
         /\ pressed => r.st.capture \in {st.capture, key}
         /\ ~pressed => r.st.capture = IF st.capture = key THEN "none" ELSE st.capture
<1> DEFINE c == [st EXCEPT !.capture = key]
           n == [st EXCEPT !.capture = "none"]
           r == HandleCapturedKey(st, key, pressed)
<1>1. /\ c \in KeysType /\ SameViews(c, st) /\ Around(c, st) /\ c.capture = key
      /\ c.active_keys_ = st.active_keys_
      /\ n \in KeysType /\ SameViews(n, st) /\ Around(n, st) /\ n.capture = "none"
      /\ n.active_keys_ = st.active_keys_
  BY DEF KeysType, SameViews, Around, SameKeys
<1>2. /\ pressed => r = Took(c) \/ r = Took(st)
      /\ ~pressed => r = IF st.capture = key THEN Took(n) ELSE Took(st)
  BY Zenon DEF HandleCapturedKey
<1>3. Around(st, st) /\ SameViews(st, st)
  BY DEF Around, SameKeys, SameViews
<1> HIDE DEF c, n, r
<1> QED
  BY <1>1, <1>2, <1>3, ResultFields DEF r

\* What a press leaves recorded.
PressRecorded(st, key, r) ==
  \/ /\ st.capture # "none" /\ r.took /\ r.st.active_keys_ = st.active_keys_
     /\ r.st.capture \in {st.capture, key}
  \/ st.capture = "none" /\ Pressed(st, key) /\ r.took /\ r.st = st
  \/ st.capture = "none" /\ ~Pressed(st, key) /\ ~r.took /\ r.st = st
  \/ /\ st.capture = "none" /\ ~Pressed(st, key) /\ r.took /\ r.st.capture = "none"
     /\ \E b \in BindingNames : r.st.active_keys_ = st.active_keys_ \cup {<<key, b>>}

\* A press reaches KeyBindingManager only past the views: whichever of them is
\* up leaves only the shortcuts that close it.
LEMMA HandlePressDoes ==
  ASSUME NEW st \in KeysType, Apart(st), NEW key \in KeyNames, NEW mods, NEW choice,
         st.previews = "off" \/ ("super" \in mods /\ key = "a"),
         st.multitasking = "off" \/ ("super" \in mods /\ key \in {"s", "tab"})
  PROVE  LET r == HandlePress(st, key, mods, choice) IN
         /\ r.st \in KeysType /\ r.took \in BOOLEAN /\ Apart(r.st) /\ Around(r.st, st)
         /\ r.st.switcher => st.switcher \/ "alt" \in mods
         /\ PressRecorded(st, key, r)
<1> DEFINE r == HandlePress(st, key, mods, choice)
<1>0. Around(st, st)
  BY DEF Around, SameKeys
<1>1. CASE st.capture # "none"
  <2>1. r = HandleCapturedKey(st, key, TRUE)
    BY <1>1, Zenon DEF HandlePress
  <2> HIDE DEF r
  <2>2. /\ r.st \in KeysType /\ r.took /\ r.took \in BOOLEAN
        /\ SameViews(r.st, st) /\ Around(r.st, st)
        /\ r.st.active_keys_ = st.active_keys_ /\ r.st.capture \in {st.capture, key}
    BY <2>1, CapturedDoes
  <2> QED
    BY <1>1, <2>2 DEF Apart, SameViews, PressRecorded, r
<1>2. CASE st.capture = "none" /\ Active(st, key) # {}
  <2> DEFINE b == (CHOOSE active \in Active(st, key) : TRUE)[2]
  <2>1. r = HandleRepeat(st, b, choice)
    BY <1>2, Zenon DEF HandlePress
  <2>2. b \in BindingNames
    BY <1>2 DEF Active, KeysType
  <2> HIDE DEF b
  <2>3. RunAction(st, b, choice) = st \/ Shortcut[b].no_repeat
    <3>1. CASE b = "alt_x"
      BY <3>1 DEF RunAction
    <3>2. CASE b # "alt_x"
      BY <2>2, <3>2, NamesAssumption DEF Shortcut
    <3> QED
      BY <3>1, <3>2
  <2>4. r = Took(st)
    BY <2>1, <2>3, Zenon DEF HandleRepeat, Took
  <2> HIDE DEF r
  <2> QED
    BY <1>0, <1>2, <2>4, ResultFields, ActivePressed DEF r, PressRecorded
<1>3. CASE st.capture = "none" /\ Active(st, key) = {} /\ Matching(st, key, mods) = {}
  <2>1. r = Passed(st)
    BY <1>3, Zenon DEF HandlePress
  <2> HIDE DEF r
  <2> QED
    BY <1>0, <1>3, <2>1, ResultFields, ActivePressed DEF r, PressRecorded
<1>4. CASE st.capture = "none" /\ Active(st, key) = {} /\ Matching(st, key, mods) # {}
  <2> DEFINE b == CHOOSE b \in Matching(st, key, mods) : TRUE
             a == RunAction(st, b, choice)
             k == a.active_keys_ \cup {<<key, b>>}
             z == [a EXCEPT !.active_keys_ = k]
  <2>1. r = [st |-> z, took |-> TRUE]
    BY <1>4, Zenon DEF HandlePress
  <2>2. b \in Matching(st, key, mods)
    BY <1>4
  <2> HIDE DEF b
  <2>3. /\ b \in BindingNames /\ b \in DOMAIN Shortcut
        /\ Shortcut[b].keysym = key /\ Shortcut[b].modifiers = mods
    BY <2>2, NamesAssumption DEF Matching, KeysType
  <2>4. /\ b \in {"alt_tab", "alt_shift_tab"} => "alt" \in mods
        /\ "super" \in mods /\ key = "a" => b = "super_a"
        /\ "super" \in mods /\ key \in {"s", "tab"} => b \in {"super_s", "super_tab"}
    BY <2>3 DEF Shortcut
  <2>5. /\ a \in KeysType /\ Apart(a) /\ Kept(a, st)
        /\ a.switcher => st.switcher \/ b \in {"alt_tab", "alt_shift_tab"}
    BY <2>3, <2>4, RunActionViews
  <2> HIDE DEF a
  <2>6. /\ k \in SUBSET (KeyNames \X BindingNames)
        /\ \E c \in BindingNames : k = st.active_keys_ \cup {<<key, c>>}
    BY <2>3, <2>5 DEF KeysType, Kept
  <2> HIDE DEF k
  <2>7. /\ z \in KeysType /\ SameViews(z, a) /\ Around(z, a) /\ z.active_keys_ = k
        /\ z.capture = a.capture
    BY <2>5, <2>6 DEF KeysType, SameViews, Around, SameKeys
  <2> HIDE DEF z, r
  <2>8. r.st = z /\ r.took /\ r.took \in BOOLEAN
    BY <2>1
  <2>9. Around(z, st) /\ z.capture = st.capture
    BY <2>5, <2>7 DEF Around, Kept, SameKeys
  <2>10. Apart(z) /\ (z.switcher => st.switcher \/ "alt" \in mods)
    BY <2>4, <2>5, <2>7 DEF Apart, SameViews
  <2>11. PressRecorded(st, key, r)
    BY <1>4, <2>6, <2>7, <2>8, <2>9, ActivePressed DEF PressRecorded
  <2> QED
    BY <2>7, <2>8, <2>9, <2>10, <2>11 DEF r
<1> QED
  BY <1>1, <1>2, <1>3, <1>4, Zenon

\* What a release leaves recorded.
ReleaseRecorded(st, key, r) ==
  \/ /\ Pressed(st, key) /\ r.took /\ r.st.capture = st.capture
     /\ r.st.active_keys_ = st.active_keys_ \ Active(st, key)
  \/ /\ ~Pressed(st, key) /\ st.capture # "none" /\ r.took
     /\ r.st.active_keys_ = st.active_keys_
     /\ r.st.capture = IF st.capture = key THEN "none" ELSE st.capture
  \/ ~Pressed(st, key) /\ st.capture = "none" /\ ~r.took /\ r.st = st

LEMMA HandleReleaseDoes ==
  ASSUME NEW st \in KeysType, NEW key \in KeyNames
  PROVE  LET r == HandleRelease(st, key) IN
         /\ r.st \in KeysType /\ r.took \in BOOLEAN /\ SameViews(r.st, st) /\ Around(r.st, st)
         /\ ReleaseRecorded(st, key, r)
<1> DEFINE r == HandleRelease(st, key)
           k == st.active_keys_ \ Active(st, key)
           z == [st EXCEPT !.active_keys_ = k]
<1>1. CASE Active(st, key) # {}
  <2>1. r = Took(z)
    BY <1>1, Zenon DEF HandleRelease
  <2>2. k \in SUBSET (KeyNames \X BindingNames)
    BY DEF KeysType
  <2> HIDE DEF k
  <2>3. /\ z \in KeysType /\ SameViews(z, st) /\ Around(z, st) /\ z.active_keys_ = k
        /\ z.capture = st.capture
    BY <2>2 DEF KeysType, SameViews, Around, SameKeys
  <2> HIDE DEF z, r
  <2> QED
    BY <1>1, <2>1, <2>3, ResultFields, ActivePressed DEF r, k, ReleaseRecorded
<1>2. CASE Active(st, key) = {} /\ st.capture # "none"
  <2>1. r = HandleCapturedKey(st, key, FALSE)
    BY <1>2, Zenon DEF HandleRelease
  <2> HIDE DEF r
  <2>2. /\ r.st \in KeysType /\ r.took /\ r.took \in BOOLEAN
        /\ SameViews(r.st, st) /\ Around(r.st, st) /\ r.st.active_keys_ = st.active_keys_
        /\ r.st.capture = IF st.capture = key THEN "none" ELSE st.capture
    BY <2>1, CapturedDoes
  <2> QED
    BY <1>2, <2>2, ActivePressed DEF r, ReleaseRecorded
<1>3. CASE Active(st, key) = {} /\ st.capture = "none"
  <2>1. r = Passed(st)
    BY <1>3, Zenon DEF HandleRelease
  <2> HIDE DEF r
  <2> QED
    BY <1>3, <2>1, ResultFields, ActivePressed
    DEF r, ReleaseRecorded, SameViews, Around, SameKeys
<1> QED
  BY <1>1, <1>2, <1>3, Zenon

-----------------------------------------------------------------------------
(* Keyboard::OnKey.                                                        *)

\* What the client is told.
Told(st, key, pressed, r) ==
  /\ r \in KeysType /\ SameViews(r, st) /\ SameKeys(r, st)
  /\ r.locked = st.locked /\ r.im_grab = st.im_grab /\ r.focus = st.focus
  /\ r.active_keys_ = st.active_keys_ /\ r.capture = st.capture
  /\ r.seen = IF st.focus = "none" THEN st.seen
              ELSE IF pressed THEN st.seen \cup {key} ELSE st.seen \ {key}

LEMMA NotifyKeyTells ==
  ASSUME NEW st \in KeysType, NEW key \in KeyNames, NEW pressed \in BOOLEAN
  PROVE  Told(st, key, pressed, NotifyKey(st, key, pressed))
<1> DEFINE s == IF pressed THEN st.seen \cup {key} ELSE st.seen \ {key}
           z == [st EXCEPT !.seen = s]
           r == NotifyKey(st, key, pressed)
<1>1. s \in SUBSET KeyNames
  BY DEF KeysType
<1>2. r = IF st.focus = "none" THEN st ELSE z
  BY DEF NotifyKey
<1> HIDE DEF s
<1>3. /\ z \in KeysType /\ SameViews(z, st) /\ SameKeys(z, st)
      /\ z.locked = st.locked /\ z.im_grab = st.im_grab /\ z.focus = st.focus
      /\ z.active_keys_ = st.active_keys_ /\ z.capture = st.capture /\ z.seen = s
  BY <1>1 DEF KeysType, SameViews, SameKeys
<1> HIDE DEF z, r
<1>5. CASE st.focus = "none"
  BY <1>2, <1>5 DEF r, Told, SameViews, SameKeys
<1>6. CASE st.focus # "none"
  BY <1>2, <1>3, <1>6 DEF r, s, Told
<1> QED
  BY <1>5, <1>6

\* A key is offered to the views, which leave a, and when they leave it, to
\* KeyBindingManager, which makes b of it, or under the lock straight to the
\* client.
Went(a, key, pressed, viewed, b, r) ==
  \/ viewed /\ r = a
  \/ ~viewed /\ a.locked /\ r = NotifyKey(a, key, pressed)
  \/ ~viewed /\ ~a.locked /\ (b.took \/ a.im_grab) /\ r = b.st
  \/ ~viewed /\ ~a.locked /\ ~b.took /\ ~a.im_grab /\ r = NotifyKey(b.st, key, pressed)

\* What the views leave of the state before the key.
Left(old, key, pressed, viewed, a) ==
  /\ a.held = IF pressed THEN old.held \cup {key} ELSE old.held \ {key}
  /\ a.missed = Missed(old, key, pressed)
  /\ a.astray = Strayed(old, key, pressed, viewed)
  /\ a.active_keys_ = old.active_keys_ /\ a.capture = old.capture
  /\ a.locked = old.locked /\ a.im_grab = old.im_grab
  /\ (a.seen = old.seen /\ a.focus = old.focus) \/ a.seen = {}

LeftViews(old, key, pressed, viewed, mods, a) ==
  /\ Apart(a)
  /\ a.switcher =>
       old.switcher /\ (key = "alt" /\ ~pressed => "shift" \in mods \/ old.selector)
  /\ ~viewed => /\ a.previews = "off" \/ ("super" \in mods /\ key = "a")
                /\ a.multitasking = "off" \/ ("super" \in mods /\ key \in {"s", "tab"})

LEMMA OnKeyParts ==
  ASSUME NEW old \in KeysType, Apart(old), NEW key \in KeyNames, NEW pressed \in BOOLEAN,
         NEW choice
  PROVE  \E a \in KeysType, viewed \in BOOLEAN :
           /\ Left(old, key, pressed, viewed, a)
           /\ LeftViews(old, key, pressed, viewed, old.held \cap Modifiers, a)
           /\ Went(a, key, pressed, viewed,
                   HandleKey(a, key, pressed, old.held \cap Modifiers, choice),
                   OnKey(old, key, pressed, choice))
<1> DEFINE mods == old.held \cap Modifiers
           h == IF pressed THEN old.held \cup {key} ELSE old.held \ {key}
           m == Missed(old, key, pressed)
           st == [old EXCEPT !.held = h, !.missed = m]
           views == OfferToViews(st, key, pressed, mods, choice)
           y == Strayed(old, key, pressed, views.took)
           a == [views.st EXCEPT !.astray = y]
           b == HandleKey(a, key, pressed, mods, choice)
           bindings == IF views.took \/ st.locked THEN [st |-> a, took |-> views.took] ELSE b
           r == OnKey(old, key, pressed, choice)
<1>1. r = IF bindings.took \/ (~st.locked /\ st.im_grab) THEN bindings.st
          ELSE NotifyKey(bindings.st, key, pressed)
  BY DEF OnKey
<1>2. h \in SUBSET KeyNames /\ m \in BOOLEAN
  BY DEF KeysType, Missed
<1> HIDE DEF h, m, r
<1>3. /\ st \in KeysType /\ st.held = h /\ st.missed = m /\ SameViews(st, old)
      /\ st.active_keys_ = old.active_keys_
      /\ st.capture = old.capture /\ st.seen = old.seen /\ st.focus = old.focus
      /\ st.locked = old.locked /\ st.im_grab = old.im_grab
  BY <1>2, Zenon DEF KeysType, SameViews
<1>4. Apart(st)
  BY <1>3 DEF Apart, SameViews
<1> HIDE DEF st, mods
<1>5. Offered(st, key, pressed, mods, views)
  BY <1>3, <1>4, ViewsOffered, Zenon
<1>6. y \in SUBSET KeyNames
  BY DEF Strayed, KeysType
<1> HIDE DEF views, y
<1>7. /\ views.st \in KeysType /\ views.took \in BOOLEAN /\ Kept(views.st, st) /\ Apart(views.st)
      /\ views.st.switcher =>
           st.switcher /\ (key = "alt" /\ ~pressed => "shift" \in mods \/ st.selector)
      /\ ~views.took =>
           /\ views.st.previews = "off" \/ ("super" \in mods /\ key = "a")
           /\ views.st.multitasking = "off" \/ ("super" \in mods /\ key \in {"s", "tab"})
  BY <1>5 DEF Offered
<1>8. /\ a \in KeysType /\ SameViews(a, views.st) /\ a.held = views.st.held
      /\ a.missed = views.st.missed /\ a.astray = y
      /\ a.active_keys_ = views.st.active_keys_ /\ a.capture = views.st.capture
      /\ a.seen = views.st.seen /\ a.focus = views.st.focus
      /\ a.locked = views.st.locked /\ a.im_grab = views.st.im_grab
  BY <1>6, <1>7, Zenon DEF KeysType, SameViews
<1> HIDE DEF a
<1>9. Left(old, key, pressed, views.took, a)
  BY <1>3, <1>7, <1>8 DEF Left, Kept, SameKeys, h, m, y
<1>10. LeftViews(old, key, pressed, views.took, mods, a)
  BY <1>3, <1>7, <1>8 DEF LeftViews, SameViews, Apart
<1>11. Went(a, key, pressed, views.took, b, r)
  <2>0. a.locked = st.locked /\ a.im_grab = st.im_grab
    BY <1>7, <1>8 DEF Kept
  <2>1. CASE views.took
    <3>1. bindings.took /\ bindings.st = a
      BY <2>1
    <3> QED
      BY <1>1, <2>1, <3>1 DEF Went
  <2>2. CASE ~views.took /\ st.locked
    <3>1. bindings.took = views.took /\ bindings.st = a
      BY <2>2
    <3> QED
      BY <1>1, <2>0, <2>2, <3>1 DEF Went
  <2>3. CASE ~views.took /\ ~st.locked
    <3>1. bindings = b
      BY <2>3
    <3> HIDE DEF b, bindings
    <3> QED
      BY <1>1, <2>0, <2>3, <3>1 DEF Went
  <2> QED
    BY <1>7, <2>1, <2>2, <2>3
<1> QED
  BY <1>7, <1>8, <1>9, <1>10, <1>11 DEF mods, b, r

\* The way of a key.  Only the release of Alt, as Alt, ends the app switcher's
\* hold on it, and only Alt+Tab with nothing else open begins it.
LEMMA OnKeyViews ==
  ASSUME NEW old \in KeysType, Apart(old), old.switcher => "alt" \in old.held \/ old.missed,
         NEW key \in KeyNames, NEW pressed \in BOOLEAN, NEW choice
  PROVE  LET r == OnKey(old, key, pressed, choice) IN
         r \in KeysType /\ Apart(r) /\ (r.switcher => "alt" \in r.held \/ r.missed)
<1> DEFINE mods == old.held \cap Modifiers
           r == OnKey(old, key, pressed, choice)
<1>1. PICK a \in KeysType, viewed \in BOOLEAN :
        /\ Left(old, key, pressed, viewed, a)
        /\ LeftViews(old, key, pressed, viewed, mods, a)
        /\ Went(a, key, pressed, viewed, HandleKey(a, key, pressed, mods, choice), r)
  BY OnKeyParts, Zenon
<1>2. "alt" \in mods => "alt" \in old.held
  OBVIOUS
<1>s. "shift" \in mods => "shift" \in old.held
  OBVIOUS
<1> HIDE DEF r, mods
<1> DEFINE b == HandleKey(a, key, pressed, mods, choice)
<1>3. /\ Apart(a)
      /\ a.switcher => old.switcher /\ (key = "alt" /\ ~pressed => "shift" \in mods \/ old.selector)
      /\ ~viewed => /\ a.previews = "off" \/ ("super" \in mods /\ key = "a")
                    /\ a.multitasking = "off" \/ ("super" \in mods /\ key \in {"s", "tab"})
  BY <1>1 DEF LeftViews
<1>4. a.switcher \/ (pressed /\ "alt" \in mods) => "alt" \in a.held \/ a.missed
  <2>1. /\ a.held = IF pressed THEN old.held \cup {key} ELSE old.held \ {key}
        /\ a.missed = Missed(old, key, pressed)
    BY <1>1 DEF Left
  <2>2. CASE key # "alt"
    BY <1>2, <1>3, <2>1, <2>2 DEF Missed
  <2>3. CASE key = "alt" /\ pressed
    BY <2>1, <2>3
  <2>4. CASE key = "alt" /\ ~pressed
    BY <1>s, <1>3, <2>1, <2>4 DEF Missed
  <2> QED
    BY <2>2, <2>3, <2>4
<1>5. ~viewed => /\ b.st \in KeysType /\ b.took \in BOOLEAN /\ Apart(b.st) /\ SameKeys(b.st, a)
                 /\ b.st.switcher => a.switcher \/ (pressed /\ "alt" \in mods)
  <2>1. CASE ~viewed /\ pressed
    <3>1. b = HandlePress(a, key, mods, choice)
      BY <2>1 DEF HandleKey
    <3> HIDE DEF b
    <3>2. /\ b.st \in KeysType /\ b.took \in BOOLEAN /\ Apart(b.st) /\ Around(b.st, a)
          /\ b.st.switcher => a.switcher \/ "alt" \in mods
      BY <1>3, <2>1, <3>1, HandlePressDoes
    <3> QED
      BY <2>1, <3>2 DEF Around
  <2>2. CASE ~viewed /\ ~pressed
    <3>1. b = HandleRelease(a, key)
      BY <2>2 DEF HandleKey
    <3> HIDE DEF b
    <3>2. b.st \in KeysType /\ b.took \in BOOLEAN /\ SameViews(b.st, a) /\ Around(b.st, a)
      BY <3>1, HandleReleaseDoes
    <3> QED
      BY <1>3, <3>2 DEF SameViews, Apart, Around
  <2> QED
    BY <2>1, <2>2
<1>6. \/ r = a
      \/ r = NotifyKey(a, key, pressed)
      \/ ~viewed /\ (r = b.st \/ r = NotifyKey(b.st, key, pressed))
  BY <1>1 DEF Went
<1> HIDE DEF b
<1>7. ASSUME NEW s \in KeysType, Apart(s), s.switcher => "alt" \in s.held \/ s.missed,
             r = s \/ r = NotifyKey(s, key, pressed)
      PROVE  r \in KeysType /\ Apart(r) /\ (r.switcher => "alt" \in r.held \/ r.missed)
  <2>1. CASE r = s
    BY <1>7, <2>1
  <2>2. CASE r = NotifyKey(s, key, pressed)
    <3>1. Told(s, key, pressed, r)
      BY <2>2, NotifyKeyTells
    <3> QED
      BY <1>7, <3>1 DEF Told, SameViews, SameKeys, Apart
  <2> QED
    BY <1>7, <2>1, <2>2
<1>8. CASE r = a \/ r = NotifyKey(a, key, pressed)
  BY <1>3, <1>4, <1>7, <1>8 DEF r
<1>9. CASE ~viewed /\ (r = b.st \/ r = NotifyKey(b.st, key, pressed))
  <2>1. b.st.switcher => "alt" \in b.st.held \/ b.st.missed
    BY <1>4, <1>5, <1>9 DEF SameKeys
  <2> QED
    BY <1>5, <1>7, <1>9, <2>1 DEF r
<1> QED
  BY <1>6, <1>8, <1>9

-----------------------------------------------------------------------------
(* What is recorded of the keys, and what the clients saw of them.         *)

\* A key with a record is down, or astray.  A press that is both a shortcut's and
\* a capture's began before the record went astray.  Clients know of no key that
\* is up, and, unless the session is locked, of no key of a shortcut, of a capture
\* or of the input method, but for what went astray.
RecordsDown(st) == \A key \in KeyNames : Pressed(st, key) => key \in st.held \cup st.astray

CaptureDown(st) ==
  st.capture \in KeyNames =>
    /\ st.capture \in st.held \cup st.astray
    /\ Pressed(st, st.capture) => st.capture \in st.astray

SeenDown(st) == st.seen \subseteq st.held \cup st.astray /\ (st.focus = "none" => st.seen = {})

RecordsUnseen(st) ==
  ~st.locked => /\ \A key \in st.seen : Pressed(st, key) => key \in st.astray
                /\ st.capture # "none" \/ st.im_grab => st.seen = {}

Balanced(st) == RecordsDown(st) /\ CaptureDown(st) /\ SeenDown(st) /\ RecordsUnseen(st)

KeysGood == ViewsGood /\ Balanced(keys)

\* Telling the client of a key.
LEMMA TellBalanced ==
  ASSUME NEW st \in KeysType, NEW key \in KeyNames, NEW pressed \in BOOLEAN,
         RecordsDown(st), CaptureDown(st), st.focus = "none" => st.seen = {},
         RecordsUnseen(st),
         st.seen \subseteq st.held \cup st.astray \cup {key}, pressed => key \in st.held,
         pressed /\ ~st.locked => ~Pressed(st, key) /\ st.capture = "none" /\ ~st.im_grab
  PROVE  Balanced(NotifyKey(st, key, pressed))
<1> DEFINE r == NotifyKey(st, key, pressed)
<1>1. Told(st, key, pressed, r)
  BY NotifyKeyTells, Zenon
<1> HIDE DEF r
<1>2. /\ r.held = st.held /\ r.astray = st.astray /\ r.focus = st.focus
      /\ r.locked = st.locked /\ r.im_grab = st.im_grab
      /\ r.active_keys_ = st.active_keys_ /\ r.capture = st.capture
      /\ r.seen = IF st.focus = "none" THEN st.seen
                  ELSE IF pressed THEN st.seen \cup {key} ELSE st.seen \ {key}
  BY <1>1 DEF Told, SameKeys
<1>3. \A k : Pressed(r, k) <=> Pressed(st, k)
  BY <1>2 DEF Pressed
<1>4. RecordsDown(r)
  BY <1>2, <1>3 DEF RecordsDown
<1>5. CaptureDown(r)
  BY <1>2, <1>3 DEF CaptureDown
<1>6. SeenDown(r)
  BY <1>2 DEF SeenDown
<1>7. RecordsUnseen(r)
  BY <1>2, <1>3 DEF RecordsUnseen
<1> QED
  BY <1>4, <1>5, <1>6, <1>7 DEF Balanced, r

\* What went astray and is waited for stays so.
LEMMA AstrayStays ==
  ASSUME NEW old \in KeysType, NEW key \in KeyNames, NEW pressed, NEW viewed, NEW a,
         Left(old, key, pressed, viewed, a)
  PROVE  /\ \A k \in KeyNames : Pressed(old, k) /\ k \in old.astray => k \in a.astray
         /\ \A k \in old.seen : k \in old.astray => k \in a.astray
         /\ old.capture \in old.astray => old.capture \in a.astray
         /\ pressed /\ key \in old.held => key \in a.astray
         /\ ~pressed /\ (viewed \/ (old.locked /\ (Pressed(old, key) \/ old.capture = key)))
              => key \in a.astray
<1>1. a.astray = Strayed(old, key, pressed, viewed)
  BY DEF Left
<1>2. \A k : Recorded(old, k) <=> Pressed(old, k) \/ old.capture = k
  BY ActivePressed DEF Recorded
<1> QED
  BY <1>1, <1>2 DEF Strayed, Waiting

\* The state the views leave is balanced but for the key itself, when it is
\* released and goes on.
LEMMA LeftBalanced ==
  ASSUME NEW old \in KeysType, Balanced(old), NEW key \in KeyNames, NEW pressed \in BOOLEAN,
         NEW viewed \in BOOLEAN, NEW a \in KeysType, Left(old, key, pressed, viewed, a)
  PROVE  /\ \A k \in KeyNames : Pressed(a, k) /\ k # key => k \in a.held \cup a.astray
         /\ \A k \in KeyNames : a.capture = k /\ k # key => k \in a.held \cup a.astray
         /\ a.capture \in KeyNames /\ Pressed(a, a.capture) => a.capture \in a.astray
         /\ a.seen \subseteq a.held \cup a.astray \cup {key}
         /\ a.focus = "none" => a.seen = {}
         /\ RecordsUnseen(a)
         /\ pressed \/ viewed => Balanced(a)
         /\ a.locked => RecordsDown(a) /\ CaptureDown(a)
         /\ pressed /\ (Pressed(a, key) \/ key \in a.seen) => key \in a.astray
<1>1. /\ a.held = IF pressed THEN old.held \cup {key} ELSE old.held \ {key}
      /\ a.active_keys_ = old.active_keys_ /\ a.capture = old.capture
      /\ a.locked = old.locked /\ a.im_grab = old.im_grab
      /\ (a.seen = old.seen /\ a.focus = old.focus) \/ a.seen = {}
  BY DEF Left
<1>2. /\ \A k \in KeyNames : Pressed(old, k) /\ k \in old.astray => k \in a.astray
      /\ \A k \in old.seen : k \in old.astray => k \in a.astray
      /\ old.capture \in old.astray => old.capture \in a.astray
      /\ pressed /\ key \in old.held => key \in a.astray
      /\ ~pressed /\ (viewed \/ (old.locked /\ (Pressed(old, key) \/ old.capture = key)))
           => key \in a.astray
  BY AstrayStays
<1>3. \A k : Pressed(a, k) <=> Pressed(old, k)
  BY <1>1 DEF Pressed
<1>4. old.seen \subseteq KeyNames
  BY DEF KeysType
<1>5. /\ \A k \in KeyNames : Pressed(a, k) /\ k # key => k \in a.held \cup a.astray
      /\ (pressed \/ viewed \/ old.locked) /\ Pressed(a, key) => key \in a.held \cup a.astray
  BY <1>1, <1>2, <1>3 DEF Balanced, RecordsDown
<1>6. /\ \A k \in KeyNames : a.capture = k /\ k # key => k \in a.held \cup a.astray
      /\ (pressed \/ viewed \/ old.locked) /\ a.capture = key => key \in a.held \cup a.astray
  BY <1>1, <1>2 DEF Balanced, CaptureDown
<1>7. a.capture \in KeyNames /\ Pressed(a, a.capture) => a.capture \in a.astray
  BY <1>1, <1>2, <1>3 DEF Balanced, CaptureDown
<1>8. /\ a.seen \subseteq a.held \cup a.astray \cup {key}
      /\ (pressed \/ viewed) => a.seen \subseteq a.held \cup a.astray
      /\ a.focus = "none" => a.seen = {}
  BY <1>1, <1>2 DEF Balanced, SeenDown
<1>9. RecordsUnseen(a)
  BY <1>1, <1>2, <1>3 DEF Balanced, RecordsUnseen
<1>10. (pressed \/ viewed \/ old.locked) => RecordsDown(a) /\ CaptureDown(a)
  BY <1>5, <1>6, <1>7 DEF RecordsDown, CaptureDown
<1>11. pressed /\ (Pressed(a, key) \/ key \in a.seen) => key \in a.astray
  BY <1>1, <1>2, <1>3 DEF Balanced, RecordsDown, SeenDown
<1> QED
  BY <1>1, <1>5, <1>6, <1>7, <1>8, <1>9, <1>10, <1>11 DEF Balanced, SeenDown

LEMMA PressBalanced ==
  ASSUME NEW old \in KeysType, Apart(old), Balanced(old), NEW key \in KeyNames, NEW choice
  PROVE  Balanced(OnKey(old, key, TRUE, choice))
<1> DEFINE r == OnKey(old, key, TRUE, choice)
           mods == old.held \cap Modifiers
<1>1. PICK a \in KeysType, viewed \in BOOLEAN :
        /\ Left(old, key, TRUE, viewed, a) /\ LeftViews(old, key, TRUE, viewed, mods, a)
        /\ Went(a, key, TRUE, viewed, HandleKey(a, key, TRUE, mods, choice), r)
  BY OnKeyParts, Zenon
<1> HIDE DEF r, mods
<1> DEFINE b == HandlePress(a, key, mods, choice)
<1>2. \/ r = a
      \/ a.locked /\ r = NotifyKey(a, key, TRUE)
      \/ ~viewed /\ ~a.locked /\ (b.took \/ a.im_grab) /\ r = b.st
      \/ ~viewed /\ ~a.locked /\ ~b.took /\ ~a.im_grab /\ r = NotifyKey(b.st, key, TRUE)
  BY <1>1, Zenon DEF HandleKey, Went
<1>3. ~viewed => b.st \in KeysType /\ b.took \in BOOLEAN /\ Around(b.st, a) /\ PressRecorded(a, key, b)
  BY <1>1, HandlePressDoes DEF LeftViews
<1> HIDE DEF b
<1>4. /\ Balanced(a) /\ (Pressed(a, key) \/ key \in a.seen => key \in a.astray)
      /\ a.held = old.held \cup {key}
  <2> DEFINE pressed == TRUE
  <2>1. pressed \in BOOLEAN /\ Left(old, key, pressed, viewed, a)
    BY <1>1
  <2> HIDE DEF pressed
  <2>2. /\ pressed \/ viewed => Balanced(a)
        /\ pressed /\ (Pressed(a, key) \/ key \in a.seen) => key \in a.astray
    BY <2>1, LeftBalanced
  <2> QED
    BY <2>1, <2>2 DEF Left, pressed
<1>5. RecordsDown(a) /\ CaptureDown(a) /\ SeenDown(a) /\ RecordsUnseen(a)
  BY <1>4 DEF Balanced
<1>6. CASE r = a
  BY <1>4, <1>6 DEF r
<1>7. CASE a.locked /\ r = NotifyKey(a, key, TRUE)
  <2>1. /\ a.focus = "none" => a.seen = {}
        /\ a.seen \subseteq a.held \cup a.astray \cup {key} /\ key \in a.held
    BY <1>4, <1>5 DEF SeenDown
  <2> QED
    BY <1>5, <1>7, <2>1, TellBalanced, Zenon DEF r
<1>8. CASE ~viewed /\ ~a.locked /\ (b.took \/ a.im_grab) /\ r = b.st
  <2>1. /\ r.held = a.held /\ r.astray = a.astray /\ r.locked = a.locked /\ r.im_grab = a.im_grab
        /\ (r.seen = a.seen /\ r.focus = a.focus) \/ r.seen = {}
    BY <1>3, <1>8 DEF Around, SameKeys
  <2>2. SeenDown(r)
    BY <1>5, <2>1 DEF SeenDown
  <2>3. CASE r = a
    BY <1>4, <2>3 DEF r
  <2>4. CASE /\ a.capture # "none" /\ r.active_keys_ = a.active_keys_
             /\ r.capture \in {a.capture, key}
    <3>1. \A k : Pressed(r, k) <=> Pressed(a, k)
      BY <2>4 DEF Pressed
    <3>2. RecordsDown(r)
      BY <1>5, <2>1, <3>1 DEF RecordsDown
    <3>3. CaptureDown(r)
      BY <1>4, <1>5, <2>1, <2>4, <3>1 DEF CaptureDown
    <3>4. RecordsUnseen(r)
      BY <1>5, <1>8, <2>1, <2>4, <3>1 DEF RecordsUnseen
    <3> QED
      BY <2>2, <3>2, <3>3, <3>4 DEF Balanced, r
  <2>5. CASE /\ a.capture = "none" /\ r.capture = "none"
             /\ \E c \in BindingNames : r.active_keys_ = a.active_keys_ \cup {<<key, c>>}
    <3>1. PICK c \in BindingNames : r.active_keys_ = a.active_keys_ \cup {<<key, c>>}
      BY <2>5
    <3>2. \A k \in KeyNames : Pressed(r, k) => Pressed(a, k) \/ k = key
      <4> SUFFICES ASSUME NEW k \in KeyNames, Pressed(r, k), ~Pressed(a, k) PROVE k = key
        OBVIOUS
      <4>1. PICK active \in r.active_keys_ : active[1] = k
        BY DEF Pressed
      <4>2. active \notin a.active_keys_
        BY <4>1 DEF Pressed
      <4>3. active = <<key, c>>
        BY <3>1, <4>2
      <4> QED
        BY <4>1, <4>3
    <3>3. RecordsDown(r)
      BY <1>4, <1>5, <2>1, <3>2 DEF RecordsDown
    <3>4. CaptureDown(r)
      BY <2>5, NotCaptures DEF CaptureDown
    <3>5. a.seen \subseteq KeyNames
      BY DEF KeysType
    <3>6. RecordsUnseen(r)
      BY <1>4, <1>5, <1>8, <2>1, <2>5, <3>2, <3>5 DEF RecordsUnseen
    <3> QED
      BY <2>2, <3>3, <3>4, <3>6 DEF Balanced, r
  <2> QED
    BY <1>3, <1>8, <2>3, <2>4, <2>5 DEF PressRecorded
<1>9. CASE ~viewed /\ ~a.locked /\ ~b.took /\ ~a.im_grab /\ r = NotifyKey(b.st, key, TRUE)
  <2>1. b.st = a /\ a.capture = "none" /\ ~Pressed(a, key)
    BY <1>3, <1>9 DEF PressRecorded
  <2>2. /\ a.focus = "none" => a.seen = {}
        /\ a.seen \subseteq a.held \cup a.astray \cup {key} /\ key \in a.held
    BY <1>4, <1>5 DEF SeenDown
  <2> QED
    BY <1>5, <1>9, <2>1, <2>2, TellBalanced, Zenon DEF r
<1> QED
  BY <1>2, <1>6, <1>7, <1>8, <1>9, Zenon

LEMMA ReleaseBalanced ==
  ASSUME NEW old \in KeysType, Apart(old), Balanced(old), NEW key \in KeyNames, NEW choice
  PROVE  Balanced(OnKey(old, key, FALSE, choice))
<1> DEFINE r == OnKey(old, key, FALSE, choice)
           mods == old.held \cap Modifiers
<1>1. PICK a \in KeysType, viewed \in BOOLEAN :
        /\ Left(old, key, FALSE, viewed, a) /\ LeftViews(old, key, FALSE, viewed, mods, a)
        /\ Went(a, key, FALSE, viewed, HandleKey(a, key, FALSE, mods, choice), r)
  BY OnKeyParts, Zenon
<1> HIDE DEF r, mods
<1> DEFINE b == HandleRelease(a, key)
<1>2. \/ viewed /\ r = a
      \/ a.locked /\ r = NotifyKey(a, key, FALSE)
      \/ ~a.locked /\ (b.took \/ a.im_grab) /\ r = b.st
      \/ ~a.locked /\ ~b.took /\ ~a.im_grab /\ r = NotifyKey(b.st, key, FALSE)
  BY <1>1, Zenon DEF HandleKey, Went
<1>3. /\ b.st \in KeysType /\ b.took \in BOOLEAN /\ Around(b.st, a)
      /\ ReleaseRecorded(a, key, b)
  BY HandleReleaseDoes
<1> HIDE DEF b
<1>4. /\ \A k \in KeyNames : Pressed(a, k) /\ k # key => k \in a.held \cup a.astray
      /\ \A k \in KeyNames : a.capture = k /\ k # key => k \in a.held \cup a.astray
      /\ a.capture \in KeyNames /\ Pressed(a, a.capture) => a.capture \in a.astray
      /\ a.seen \subseteq a.held \cup a.astray \cup {key}
      /\ a.focus = "none" => a.seen = {}
      /\ RecordsUnseen(a)
      /\ viewed => Balanced(a)
      /\ a.locked => RecordsDown(a) /\ CaptureDown(a)
  <2> DEFINE pressed == FALSE
  <2>1. pressed \in BOOLEAN /\ Left(old, key, pressed, viewed, a)
    BY <1>1
  <2> HIDE DEF pressed
  <2> QED
    BY <2>1, LeftBalanced
<1>5. CASE viewed /\ r = a
  BY <1>4, <1>5 DEF r
<1>6. CASE a.locked /\ r = NotifyKey(a, key, FALSE)
  BY <1>4, <1>6, TellBalanced, Zenon DEF r
<1>7. CASE ~a.locked /\ (b.took \/ a.im_grab) /\ r = b.st
  <2>1. /\ r.held = a.held /\ r.astray = a.astray /\ r.locked = a.locked /\ r.im_grab = a.im_grab
        /\ (r.seen = a.seen /\ r.focus = a.focus) \/ r.seen = {}
    BY <1>3, <1>7 DEF Around, SameKeys
  <2>2. \A k : Pressed(r, k) <=> Pressed(a, k) /\ k # key
    BY <1>3, <1>7, ActivePressed DEF Active, Pressed, ReleaseRecorded
  <2>3. /\ r.capture = a.capture \/ r.capture = "none"
        /\ r.capture = key => a.capture = key /\ Pressed(a, key)
    BY <1>3, <1>7, NotCaptures DEF ReleaseRecorded
  <2>4. RecordsDown(r)
    BY <1>4, <2>1, <2>2 DEF RecordsDown
  <2>5. CaptureDown(r)
    <3>1. CASE r.capture = key
      <4>1. key \in a.astray
        BY <1>4, <2>3, <3>1
      <4> QED
        BY <2>1, <3>1, <4>1 DEF CaptureDown
    <3>2. CASE r.capture # key
      BY <1>4, <2>1, <2>2, <2>3, <3>2, NotCaptures DEF CaptureDown
    <3> QED
      BY <3>1, <3>2
  <2>6. key \in a.seen => key \in a.astray
    BY <1>3, <1>4, <1>7 DEF RecordsUnseen, ReleaseRecorded
  <2>7. SeenDown(r)
    BY <1>4, <2>1, <2>6 DEF SeenDown
  <2>8. RecordsUnseen(r)
    BY <1>4, <1>7, <2>1, <2>2, <2>3 DEF RecordsUnseen
  <2> QED
    BY <2>4, <2>5, <2>7, <2>8 DEF Balanced, r
<1>8. CASE ~a.locked /\ ~b.took /\ ~a.im_grab /\ r = NotifyKey(b.st, key, FALSE)
  <2>1. b.st = a /\ a.capture = "none" /\ ~Pressed(a, key)
    BY <1>3, <1>8 DEF ReleaseRecorded
  <2>2. RecordsDown(a) /\ CaptureDown(a)
    BY <1>4, <2>1, NotCaptures DEF RecordsDown, CaptureDown
  <2> QED
    BY <1>4, <1>8, <2>1, <2>2, TellBalanced, Zenon DEF r
<1> QED
  BY <1>2, <1>5, <1>6, <1>7, <1>8, Zenon

-----------------------------------------------------------------------------
(* Everything else that happens meanwhile.                                 *)

\* An event between two keys: it keeps the records, or a part of them, opens no
\* app switcher, and perhaps makes the client forget the keys.
Between(r, st) ==
  /\ r \in KeysType /\ SameKeys(r, st) /\ Apart(r) /\ (r.switcher => st.switcher)
  /\ r.active_keys_ \subseteq st.active_keys_ /\ r.capture \in {st.capture, "none", "armed"}
  /\ r.seen = {} \/ /\ r.seen = st.seen /\ r.focus = st.focus /\ r.locked = st.locked
                    /\ r.im_grab => st.im_grab
                    /\ r.capture \in {st.capture, "none"}

LEMMA BetweenGood ==
  ASSUME KeysGood, Between(keys', keys) PROVE KeysGood'
<1> DEFINE r == keys'
<1>0. Balanced(keys) /\ ViewsGood
  BY DEF KeysGood
<1>b. /\ r \in KeysType /\ r.held = keys.held /\ r.missed = keys.missed /\ r.astray = keys.astray
      /\ Apart(r) /\ (r.switcher => keys.switcher)
      /\ r.active_keys_ \subseteq keys.active_keys_ /\ r.capture \in {keys.capture, "none", "armed"}
      /\ r.seen = {} \/ /\ r.seen = keys.seen /\ r.focus = keys.focus /\ r.locked = keys.locked
                        /\ r.im_grab => keys.im_grab
                        /\ r.capture \in {keys.capture, "none"}
  BY DEF Between, SameKeys
<1> HIDE DEF r
<1>1. \A k : Pressed(r, k) => Pressed(keys, k)
  BY <1>b DEF Pressed
<1>2. RecordsDown(r)
  BY <1>0, <1>b, <1>1 DEF Balanced, RecordsDown
<1>3. CaptureDown(r)
  BY <1>0, <1>b, <1>1, NotCaptures DEF Balanced, CaptureDown
<1>4. SeenDown(r)
  BY <1>0, <1>b DEF Balanced, SeenDown
<1>5. RecordsUnseen(r)
  BY <1>0, <1>b, <1>1 DEF Balanced, RecordsUnseen
<1>6. Balanced(r)
  BY <1>2, <1>3, <1>4, <1>5 DEF Balanced
<1>7. ViewsGood'
  BY <1>0, <1>b DEF ViewsGood, r
<1> QED
  BY <1>6, <1>7 DEF KeysGood, r

LEMMA ShortcutNextBetween ==
  ASSUME KeysGood, ShortcutNext PROVE Between(keys', keys)
<1>0. keys \in KeysType /\ Apart(keys)
  BY DEF KeysGood, ViewsGood
<1> USE DEF Between, SameKeys, Apart
<1>1. ASSUME NEW b \in BindingNames, Unregister(b) \/ Register(b) PROVE Between(keys', keys)
  BY <1>0, <1>1 DEF Unregister, Register, Do, KeysType
<1>2. ASSUME NEW blocked \in BOOLEAN, BlockAll(blocked) \/ InhibitShortcuts(blocked)
      PROVE  Between(keys', keys)
  BY <1>0, <1>2 DEF BlockAll, InhibitShortcuts, Do, KeysType
<1>3. ASSUME NEW b \in BindingNames, NEW blocked \in BOOLEAN, BlockType(Shortcut[b].type, blocked)
      PROVE  Between(keys', keys)
  <2> DEFINE type == Shortcut[b].type
             t == IF blocked THEN keys.type_blocked \cup {type} ELSE keys.type_blocked \ {type}
  <2>1. type \in Types
    BY NamesAssumption DEF Shortcut, Types
  <2>2. keys' = [keys EXCEPT !.type_blocked = t]
    BY <1>3 DEF BlockType, Do
  <2> HIDE DEF type
  <2>3. t \in SUBSET Types
    BY <1>0, <2>1 DEF KeysType
  <2> HIDE DEF t
  <2> QED
    BY <1>0, <2>2, <2>3 DEF KeysType
<1>4. CASE GrabNextKey
  BY <1>0, <1>4 DEF GrabNextKey, Do, KeysType
<1>5. CASE CancelGrab
  BY <1>0, <1>5 DEF CancelGrab, Do, KeysType
<1>6. CASE ForgetKeyboard
  <2> DEFINE c == IF keys.capture \in KeyNames THEN "none" ELSE keys.capture
  <2>1. c \in {keys.capture, "none"} /\ keys' = [keys EXCEPT !.active_keys_ = {}, !.capture = c]
    BY <1>6 DEF ForgetKeyboard, Do
  <2> HIDE DEF c
  <2> QED
    BY <1>0, <2>1 DEF KeysType
<1> QED
  BY <1>1, <1>2, <1>3, <1>4, <1>5, <1>6 DEF ShortcutNext

LEMMA OtherBetween ==
  ASSUME KeysGood,
         \/ FocusWindow \/ ClickMenu \/ ClickSelector \/ CompleteClose
         \/ \E grab \in BOOLEAN : InputMethodGrab(grab)
         \/ BeginSessionLock \/ FocusSessionLockSurface \/ UnlockSession
  PROVE  Between(keys', keys)
<1>0. keys \in KeysType /\ Apart(keys)
  BY DEF KeysGood, ViewsGood
<1>1. CASE FocusWindow \/ FocusSessionLockSurface
  <2>1. PICK focus \in {"none", "window", "lock"} : keys' = NotifyEnter(keys, focus)
    BY <1>1 DEF FocusWindow, FocusSessionLockSurface, Do
  <2> QED
    BY <1>0, <2>1, NotifyEnterKeeps DEF Between, Kept, SameViews, Apart
<1>2. CASE ClickMenu
  <2>1. CASE keys' = [keys EXCEPT !.menu = FALSE]
    BY <1>0, <2>1 DEF Between, SameKeys, Apart, KeysType
  <2>2. ASSUME NEW e \in KeysType, Kept(e, keys), SameViews(e, keys), keys' = ShowWindowMenu(e)
        PROVE  Between(keys', keys)
    <3>1. Apart(e)
      BY <1>0, <2>2 DEF SameViews, Apart
    <3>2. /\ keys' \in KeysType /\ Kept(keys', e) /\ Apart(keys')
          /\ (keys'.switcher => e.switcher)
      BY <2>2, <3>1, ShowWindowMenuViews
    <3>3. Kept(keys', keys)
      BY <2>2, <3>2, KeptTwice
    <3> QED
      BY <2>2, <3>2, <3>3 DEF Between, Kept, SameViews
  <2>3. CASE keys' = ShowWindowMenu(keys)
    BY <1>0, <2>2, <2>3, KeptSelf
  <2>4. CASE keys' = ShowWindowMenu(NotifyEnter(keys, "window"))
    BY <1>0, <2>2, <2>4, NotifyEnterKeeps
  <2> QED
    BY <1>2, <2>1, <2>3, <2>4 DEF ClickMenu, Do
<1>3. CASE ClickSelector
  BY <1>0, <1>3 DEF ClickSelector, Do, Between, SameKeys, Apart, KeysType
<1>4. CASE CompleteClose
  <2> DEFINE m == IF keys.multitasking = "closing" THEN "off" ELSE keys.multitasking
             p == IF keys.previews = "closing" THEN "off" ELSE keys.previews
  <2>1. keys' = [keys EXCEPT !.multitasking = m, !.previews = p]
    BY <1>4 DEF CompleteClose, Do
  <2>2. /\ m \in Phases /\ p \in Phases
        /\ keys.multitasking = "off" => m = "off"
        /\ keys.previews = "off" => p = "off"
    BY <1>0 DEF KeysType, Phases
  <2> HIDE DEF m, p
  <2> QED
    BY <1>0, <2>1, <2>2 DEF Between, SameKeys, Apart, KeysType
<1>5. ASSUME NEW grab \in BOOLEAN, InputMethodGrab(grab) PROVE Between(keys', keys)
  <2>1. CASE grab
    BY <1>0, <1>5, <2>1 DEF InputMethodGrab, Do, Between, SameKeys, Apart, KeysType
  <2>2. CASE ~grab
    BY <1>0, <1>5, <2>2 DEF InputMethodGrab, Do, Between, SameKeys, Apart, KeysType
  <2> QED
    BY <2>1, <2>2
<1>6. CASE BeginSessionLock
  BY <1>0, <1>6 DEF BeginSessionLock, Do, Between, SameKeys, Apart, KeysType
<1>7. CASE UnlockSession
  <2> DEFINE z == [keys EXCEPT !.locked = FALSE]
  <2>1. keys' = NotifyEnter(z, "window")
    BY <1>7 DEF UnlockSession, Do
  <2>2. /\ z \in KeysType /\ SameKeys(z, keys) /\ SameViews(z, keys)
        /\ z.active_keys_ = keys.active_keys_ /\ z.capture = keys.capture
    BY <1>0 DEF KeysType, SameKeys, SameViews
  <2> HIDE DEF z
  <2>3. keys' \in KeysType /\ Kept(keys', z) /\ SameViews(keys', z) /\ keys'.seen = {}
    BY <2>1, <2>2, NotifyEnterKeeps
  <2> QED
    BY <1>0, <2>2, <2>3 DEF Between, Kept, SameKeys, SameViews, Apart
<1> QED
  BY <1>1, <1>2, <1>3, <1>4, <1>5, <1>6, <1>7

LEMMA KeysStep == KeysGood /\ [Next]_keys => KeysGood'
<1> SUFFICES ASSUME KeysGood, [Next]_keys PROVE KeysGood'
  OBVIOUS
<1>1. /\ keys \in KeysType /\ Apart(keys) /\ (keys.switcher => "alt" \in keys.held \/ keys.missed)
      /\ Balanced(keys)
  BY DEF KeysGood, ViewsGood
<1>2. ASSUME NEW key \in KeyNames, NEW pressed \in BOOLEAN, NEW choice \in Choices,
             keys' = OnKey(keys, key, pressed, choice)
      PROVE  KeysGood'
  <2>1. ViewsGood'
    BY <1>1, <1>2, OnKeyViews DEF ViewsGood
  <2>2. CASE pressed
    BY <1>1, <1>2, <2>1, <2>2, PressBalanced DEF KeysGood
  <2>3. CASE ~pressed
    BY <1>1, <1>2, <2>1, <2>3, ReleaseBalanced DEF KeysGood
  <2> QED
    BY <2>2, <2>3
<1>3. CASE KeyNext
  BY <1>2, <1>3 DEF KeyNext, Press, Release, Do
<1>4. CASE ShortcutNext
  BY <1>4, ShortcutNextBetween, BetweenGood
<1>5. CASE \/ FocusWindow \/ ClickMenu \/ ClickSelector \/ CompleteClose
           \/ \E grab \in BOOLEAN : InputMethodGrab(grab)
           \/ BeginSessionLock \/ FocusSessionLockSurface \/ UnlockSession
  BY <1>5, OtherBetween, BetweenGood
<1>6. CASE UNCHANGED keys
  BY <1>6 DEF KeysGood, ViewsGood
<1> QED
  BY <1>3, <1>4, <1>5, <1>6 DEF Next

\* In every run, for any keys, shortcuts and events, the state is typed, at most
\* one of the overviews and the app switcher is open, the switcher is up only
\* while Alt is down or its release was missed, and what is recorded of a key,
\* whether it is down and what the clients saw of it agree as Balanced says
\* (Keyboard::OnKey).
THEOREM KeysStayGood == Spec => []KeysGood
<1>1. Init => KeysGood
  <2> SUFFICES ASSUME Init PROVE KeysGood
    OBVIOUS
  <2>1. keys \in KeysType
    BY DEF Init, KeysType, Phases
  <2> QED
    BY <2>1, NotCaptures DEF Init, KeysGood, ViewsGood, Apart, Balanced, RecordsDown,
                             CaptureDown, SeenDown, RecordsUnseen, Pressed
<1> QED
  BY <1>1, KeysStep, PTL DEF Spec

\* No shortcut, pointer, client, animation or session lock between two keys
\* brings the app switcher and an overview, or both overviews, up at once: each
\* takes the keys that would open another until it has closed
\* (Multitasking::HandleKey, WindowPreviews::HandleKey, AppSwitcher::HandleKey).
THEOREM KeysOverviewsExclude == Spec => []OverviewsExclude
<1>1. KeysGood => OverviewsExclude
  BY DEF KeysGood, ViewsGood, Apart, OverviewsExclude
<1> QED
  BY <1>1, KeysStayGood, PTL

\* The app switcher outlives the release of Alt only when Shift was down or the
\* selector took it, whoever else takes keys meanwhile (AppSwitcher::HandleKey,
\* ShowWindowMenu).
THEOREM KeysSwitcherNeedsAlt == Spec => []SwitcherNeedsAlt
<1>1. KeysGood => SwitcherNeedsAlt
  BY DEF KeysGood, ViewsGood, SwitcherNeedsAlt
<1> QED
  BY <1>1, KeysStayGood, PTL

\* A shortcut or a capture waits for the release of a key that is up only when a
\* view or the lock surface took that release, or a key was pressed twice:
\* KeyBindingManager::HandleKey, GrabNextKey, ForgetKeyboard, shortcuts registered
\* and blocked, views, the input method and the session lock in any order.
THEOREM KeysBalanced == Spec => []ShortcutStateBalanced
<1>1. KeysGood => ShortcutStateBalanced
  <2> SUFFICES ASSUME KeysGood PROVE ShortcutStateBalanced
    OBVIOUS
  <2>1. \A active \in keys.active_keys_ : active[1] \in KeyNames /\ Pressed(keys, active[1])
    BY DEF KeysGood, ViewsGood, KeysType, Pressed
  <2> QED
    BY <2>1 DEF KeysGood, Balanced, RecordsDown, CaptureDown, ShortcutStateBalanced
<1> QED
  BY <1>1, KeysStayGood, PTL

\* No client is left with a key down that is up, unless a view took the release or
\* the key was pressed twice: what it saw pressed it sees released, whichever
\* shortcut, capture, grab or lock came in between (Keyboard::OnKey).
THEOREM KeysNoStuck == Spec => []NoStuckKey
<1>1. KeysGood => NoStuckKey
  BY DEF KeysGood, Balanced, SeenDown, NoStuckKey
<1> QED
  BY <1>1, KeysStayGood, PTL

=============================================================================
