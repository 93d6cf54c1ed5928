-------------------------- MODULE SeatServicesProofs --------------------------
(***************************************************************************)
(* The services of the seat, for any number of clients, fingers, services  *)
(* and surfaces.  Each is proved on its own specification, and             *)
(* ServicesAreIndependent carries the result over to SeatSpec.             *)
(***************************************************************************)
EXTENDS SeatServices, TLAPS, FiniteSetTheorems

(***************************************************************************)
(* Idle.                                                                   *)
(***************************************************************************)
\* A timer or a report belongs to a timeout that exists, and one of 0 has no
\* timer.
IdleGood ==
  /\ notifier_inhibited \in BOOLEAN
  /\ idle \cup armed \subseteq timeouts_
  /\ armed \cap Instant = {}
  /\ IdleIsNeverLost

\* Every event keeps it.
LEMMA IdleStep == ASSUME IdleGood, [IdleNext]_idleVars PROVE IdleGood'
<1> USE DEF IdleGood, IdleIsNeverLost
<1>1. ASSUME NEW t \in Timeouts, GetTimeout(t) PROVE IdleGood'
  BY <1>1 DEF GetTimeout, Arm
<1>2. ASSUME NEW t \in Timeouts, Remove(t) PROVE IdleGood'
  BY <1>2 DEF Remove
<1>3. ASSUME NEW t \in Timeouts, SimulateUserActivity(t) PROVE IdleGood'
  BY <1>3, IdleAssumption DEF SimulateUserActivity, Arm
<1>4. ASSUME NEW t \in Timeouts, OnTimer(t) PROVE IdleGood'
  BY <1>4 DEF OnTimer
<1>5. ASSUME NEW inhibited \in BOOLEAN, SetInhibited(inhibited), UNCHANGED timeouts_ PROVE IdleGood'
  BY <1>5 DEF SetInhibited, Arm
<1>6. ASSUME UpdateIdleInhibition, UNCHANGED timeouts_ PROVE IdleGood'
  <2>1. Inhibits(inhibitors', mapped_surfaces', idle_locked') \in BOOLEAN
    BY DEF Inhibits
  <2> QED
    BY <2>1, <1>5, <1>6 DEF UpdateIdleInhibition
<1>7. ASSUME NEW s \in IdleSurfaces, NewIdleInhibitor(s) PROVE IdleGood'
  BY <1>7, <1>6 DEF NewIdleInhibitor
<1>8. ASSUME NEW s \in IdleSurfaces, InhibitorDestroyed(s) PROVE IdleGood'
  BY <1>8 DEF InhibitorDestroyed
<1>9. ASSUME NEW s \in IdleSurfaces, NEW looks \in BOOLEAN, MapSurface(s, looks) PROVE IdleGood'
  BY <1>9, <1>6 DEF MapSurface
<1>10. ASSUME NEW locked \in BOOLEAN, LockSession(locked) PROVE IdleGood'
  BY <1>10, <1>6 DEF LockSession
<1>11. ASSUME NotifyActivity PROVE IdleGood'
  BY <1>11 DEF NotifyActivity, Inhibits
<1>12. CASE UNCHANGED idleVars
  BY <1>12 DEF idleVars
<1> QED
  BY <1>1, <1>2, <1>3, <1>4, <1>7, <1>8, <1>9, <1>10, <1>11, <1>12 DEF IdleNext

\* No idle timeout is ever lost, whatever activity, inhibitors, locks and
\* clients do (KdeIdleManager, wlr_idle_notifier_v1, UpdateIdleInhibition).
THEOREM IdleNeverLost == IdleSpec => []IdleIsNeverLost
<1>1. IdleInit => IdleGood
  BY DEF IdleInit, IdleGood, IdleIsNeverLost
<1>2. IdleGood => IdleIsNeverLost
  BY DEF IdleGood
<1> QED
  BY <1>1, <1>2, IdleStep, PTL DEF IdleSpec

(***************************************************************************)
(* Blocked shortcuts.                                                      *)
(***************************************************************************)
\* The services on the bus that count in block_count_, and against a type for
\* their blacklist and for their whitelist.
BlockAllOf == {s \in ukui_shortcut_services_ : "all" \in ukui_shortcut_blacklists_[s]}
BlacklistsOf(t) ==
  {s \in ukui_shortcut_services_ :
     t \in ukui_shortcut_blacklists_[s] /\ "all" \notin ukui_shortcut_blacklists_[s]}
WhitelistsOf(t) ==
  {s \in ukui_shortcut_services_ : t \in NotWhitelisted(ukui_shortcut_whitelists_[s])}

BlocksShape ==
  /\ block_count_ \in Nat /\ type_block_counts_ \in [Types -> Nat]
  /\ shortcuts_blocked_ \in BOOLEAN
  /\ ukui_shortcut_services_ \subseteq Services /\ ukui_shortcut_block_all_ \subseteq Services
  /\ ukui_shortcut_blacklists_ \in [Services -> SUBSET (Types \cup {"all"})]
  /\ ukui_shortcut_whitelists_ \in [Services -> SUBSET Types]

\* Only a service on the bus is waited for or has lists, and it has none while
\* it is waited for; block_all remembers exactly the lists with WLCOM_ALL.
ListsAreOfServices ==
  \A s \in Services :
    /\ s \in ukui_shortcut_block_all_ <=> "all" \in ukui_shortcut_blacklists_[s]
    /\ "all" \in ukui_shortcut_blacklists_[s] => ukui_shortcut_blacklists_[s] = {"all"}
    /\ s \notin ukui_shortcut_services_ =>
         /\ ukui_shortcut_blacklists_[s] = {} /\ ukui_shortcut_whitelists_[s] = {}
         /\ <<s, "blacklist">> \notin pending /\ <<s, "whitelist">> \notin pending
    /\ <<s, "blacklist">> \in pending => ukui_shortcut_blacklists_[s] = {}
    /\ <<s, "whitelist">> \in pending => ukui_shortcut_whitelists_[s] = {}

Counted ==
  /\ block_count_ = Cardinality(BlockAllOf) + (IF shortcuts_blocked_ THEN 1 ELSE 0)
  /\ \A t \in Types :
       type_block_counts_[t] = Cardinality(BlacklistsOf(t)) + Cardinality(WhitelistsOf(t))

BlocksGood == BlocksShape /\ ListsAreOfServices /\ Counted

\* A list that names WLCOM_ALL names nothing else.
AllIsAlone == \A list \in Blacklists : "all" \in list => list = {"all"}

\* Counting one service more, and one less.
LEMMA CountServices ==
  ASSUME NEW S, S \subseteq Services, NEW s
  PROVE  /\ Cardinality(S) \in Nat
         /\ s \notin S => Cardinality(S \cup {s}) = Cardinality(S) + 1
         /\ s \in S => Cardinality(S) > 0 /\ Cardinality(S \ {s}) = Cardinality(S) - 1
<1>1. IsFiniteSet(S)
  BY BlacklistsAssumption, FS_Subset
<1>2. Cardinality(S) \in Nat
  BY <1>1, FS_CardinalityType
<1>3. s \notin S => Cardinality(S \cup {s}) = Cardinality(S) + 1
  BY <1>1, FS_AddElement
<1>4. ASSUME s \in S PROVE Cardinality(S) > 0 /\ Cardinality(S \ {s}) = Cardinality(S) - 1
  <2>1. Cardinality(S \ {s}) = Cardinality(S) - 1
    BY <1>1, <1>4, FS_RemoveElement
  <2>2. Cardinality(S) # 0
    BY <1>1, <1>4, FS_EmptySet
  <2> QED
    BY <1>2, <2>1, <2>2
<1> QED
  BY <1>2, <1>3, <1>4

\* The counted services are services, now and after a step.
LEMMA CountedAreServices ==
  ASSUME BlocksShape
  PROVE  /\ BlockAllOf \subseteq Services
         /\ \A t \in Types : BlacklistsOf(t) \subseteq Services /\ WhitelistsOf(t) \subseteq Services
BY DEF BlocksShape, BlockAllOf, BlacklistsOf, WhitelistsOf

\* A service that appears has no list yet.
LEMMA AddServiceGood ==
  ASSUME BlocksGood, NEW s \in Services, AddUkuiShortcutService(s) PROVE BlocksGood'
<1>1. BlocksShape'
  BY DEF BlocksGood, BlocksShape, AddUkuiShortcutService
<1>2. ListsAreOfServices'
  BY DEF BlocksGood, BlocksShape, ListsAreOfServices, AddUkuiShortcutService
<1>3. /\ BlockAllOf' = BlockAllOf
      /\ \A t \in Types : BlacklistsOf(t)' = BlacklistsOf(t) /\ WhitelistsOf(t)' = WhitelistsOf(t)
  BY DEF BlocksGood, BlocksShape, ListsAreOfServices, AddUkuiShortcutService,
         BlockAllOf, BlacklistsOf, WhitelistsOf, NotWhitelisted
<1>4. Counted'
  BY <1>3 DEF BlocksGood, Counted, AddUkuiShortcutService
<1> QED
  BY <1>1, <1>2, <1>4 DEF BlocksGood

\* A blacklist counts once, for everything or for each of its types.
LEMMA ApplyBlacklistGood ==
  ASSUME BlocksGood, AllIsAlone, NEW s \in Services, NEW types \in Blacklists,
         ApplyBlacklist(s, types)
  PROVE  BlocksGood'
<1>1. types \in SUBSET (Types \cup {"all"}) /\ ("all" \in types => types = {"all"})
  BY BlacklistsAssumption DEF AllIsAlone
<1>2. BlocksShape'
  BY <1>1 DEF BlocksGood, BlocksShape, ApplyBlacklist, BlockAll, BlockType
<1>3. ListsAreOfServices'
  BY <1>1 DEF BlocksGood, BlocksShape, ListsAreOfServices, ApplyBlacklist
<1>4. s \in ukui_shortcut_services_ /\ ukui_shortcut_blacklists_[s] = {}
  BY DEF BlocksGood, ListsAreOfServices, ApplyBlacklist
<1>5. \A t \in Types : WhitelistsOf(t)' = WhitelistsOf(t)
  BY DEF ApplyBlacklist, WhitelistsOf
<1>6. s \notin BlockAllOf /\ \A t \in Types : s \notin BlacklistsOf(t)
  BY <1>4 DEF BlockAllOf, BlacklistsOf
<1>7. BlockAllOf' = IF "all" \in types THEN BlockAllOf \cup {s} ELSE BlockAllOf
  BY <1>4 DEF BlocksGood, BlocksShape, ApplyBlacklist, BlockAllOf
<1>8. \A t \in Types : BlacklistsOf(t)' = IF t \in types /\ "all" \notin types
                                          THEN BlacklistsOf(t) \cup {s} ELSE BlacklistsOf(t)
  BY <1>4 DEF BlocksGood, BlocksShape, ApplyBlacklist, BlacklistsOf
<1>9. /\ Cardinality(BlockAllOf) \in Nat
      /\ Cardinality(BlockAllOf \cup {s}) = Cardinality(BlockAllOf) + 1
  BY <1>6, CountedAreServices, CountServices DEF BlocksGood
<1>10. \A t \in Types : /\ Cardinality(BlacklistsOf(t)) \in Nat /\ Cardinality(WhitelistsOf(t)) \in Nat
                        /\ Cardinality(BlacklistsOf(t) \cup {s}) = Cardinality(BlacklistsOf(t)) + 1
  BY <1>6, CountedAreServices, CountServices DEF BlocksGood
<1>11. Counted'
  <2>1. (block_count_ = Cardinality(BlockAllOf) + (IF shortcuts_blocked_ THEN 1 ELSE 0))'
    BY <1>7, <1>9 DEF BlocksGood, Counted, ApplyBlacklist, BlockAll
  <2>2. ASSUME NEW t \in Types
        PROVE  (type_block_counts_[t] = Cardinality(BlacklistsOf(t)) + Cardinality(WhitelistsOf(t)))'
    <3>1. t \in types => "all" \notin types
      BY <1>1, BlacklistsAssumption
    <3>2. type_block_counts_'[t] = IF t \in types THEN type_block_counts_[t] + 1
                                   ELSE type_block_counts_[t]
      BY <3>1 DEF ApplyBlacklist, BlockType
    <3>3. type_block_counts_[t] = Cardinality(BlacklistsOf(t)) + Cardinality(WhitelistsOf(t))
      BY DEF BlocksGood, Counted
    <3>4. CASE t \in types
      BY <3>1, <3>2, <3>3, <3>4, <1>5, <1>8, <1>10
    <3>5. CASE t \notin types
      BY <3>2, <3>3, <3>5, <1>5, <1>8
    <3> QED
      BY <3>4, <3>5
  <2> QED
    BY <2>1, <2>2 DEF Counted
<1> QED
  BY <1>2, <1>3, <1>11 DEF BlocksGood

\* A whitelist counts once for each type it leaves out.
LEMMA ApplyWhitelistGood ==
  ASSUME BlocksGood, NEW s \in Services, NEW types \in SUBSET Types, ApplyWhitelist(s, types)
  PROVE  BlocksGood'
<1>1. BlocksShape'
  BY DEF BlocksGood, BlocksShape, ApplyWhitelist, BlockType
<1>2. ListsAreOfServices'
  BY DEF BlocksGood, BlocksShape, ListsAreOfServices, ApplyWhitelist
<1>3. s \in ukui_shortcut_services_ /\ ukui_shortcut_whitelists_[s] = {}
  BY DEF BlocksGood, ListsAreOfServices, ApplyWhitelist
<1>4. BlockAllOf' = BlockAllOf /\ \A t \in Types : BlacklistsOf(t)' = BlacklistsOf(t)
  BY DEF ApplyWhitelist, BlockAllOf, BlacklistsOf
<1>5. \A t \in Types : s \notin WhitelistsOf(t)
  BY <1>3 DEF WhitelistsOf, NotWhitelisted
<1>6. \A t \in Types : WhitelistsOf(t)' = IF t \in NotWhitelisted(types)
                                          THEN WhitelistsOf(t) \cup {s} ELSE WhitelistsOf(t)
  BY <1>3 DEF BlocksGood, BlocksShape, ApplyWhitelist, WhitelistsOf, NotWhitelisted
<1>7. \A t \in Types : /\ Cardinality(BlacklistsOf(t)) \in Nat /\ Cardinality(WhitelistsOf(t)) \in Nat
                       /\ Cardinality(WhitelistsOf(t) \cup {s}) = Cardinality(WhitelistsOf(t)) + 1
  BY <1>5, CountedAreServices, CountServices DEF BlocksGood
<1>8. Counted'
  <2>1. (block_count_ = Cardinality(BlockAllOf) + (IF shortcuts_blocked_ THEN 1 ELSE 0))'
    BY <1>4 DEF BlocksGood, Counted, ApplyWhitelist
  <2>2. ASSUME NEW t \in Types
        PROVE  (type_block_counts_[t] = Cardinality(BlacklistsOf(t)) + Cardinality(WhitelistsOf(t)))'
    <3>1. type_block_counts_'[t] = IF t \in NotWhitelisted(types) THEN type_block_counts_[t] + 1
                                   ELSE type_block_counts_[t]
      BY DEF ApplyWhitelist, BlockType
    <3>2. type_block_counts_[t] = Cardinality(BlacklistsOf(t)) + Cardinality(WhitelistsOf(t))
      BY DEF BlocksGood, Counted
    <3>3. CASE t \in NotWhitelisted(types)
      BY <3>1, <3>2, <3>3, <1>4, <1>6, <1>7
    <3>4. CASE t \notin NotWhitelisted(types)
      BY <3>1, <3>2, <3>4, <1>4, <1>6
    <3> QED
      BY <3>3, <3>4
  <2> QED
    BY <2>1, <2>2 DEF Counted
<1> QED
  BY <1>1, <1>2, <1>8 DEF BlocksGood

\* A service that leaves takes back what it was counted for, and no more.
LEMMA RemoveServiceGood ==
  ASSUME BlocksGood, NEW s \in Services, RemoveUkuiShortcutService(s) PROVE BlocksGood'
<1>1. BlocksShape'
  BY DEF BlocksGood, BlocksShape, RemoveUkuiShortcutService, UnblockType, BlockAll
<1>2. ListsAreOfServices'
  BY DEF BlocksGood, BlocksShape, ListsAreOfServices, RemoveUkuiShortcutService
<1>3. BlockAllOf' = BlockAllOf \ {s}
  BY DEF BlocksGood, BlocksShape, BlockAllOf, RemoveUkuiShortcutService
<1>4. ASSUME NEW t \in Types
      PROVE  BlacklistsOf(t)' = BlacklistsOf(t) \ {s} /\ WhitelistsOf(t)' = WhitelistsOf(t) \ {s}
  BY DEF BlocksGood, BlocksShape, BlacklistsOf, WhitelistsOf, RemoveUkuiShortcutService
<1>5. s \in BlockAllOf <=> s \in ukui_shortcut_block_all_
  BY DEF BlocksGood, ListsAreOfServices, BlockAllOf, RemoveUkuiShortcutService
<1>6. (block_count_ = Cardinality(BlockAllOf) + (IF shortcuts_blocked_ THEN 1 ELSE 0))'
  <2>1. block_count_ = Cardinality(BlockAllOf) + (IF shortcuts_blocked_ THEN 1 ELSE 0)
    BY DEF BlocksGood, Counted
  <2>2. CASE s \in BlockAllOf
    <3>1. Cardinality(BlockAllOf) \in Nat /\ Cardinality(BlockAllOf) > 0
          /\ Cardinality(BlockAllOf \ {s}) = Cardinality(BlockAllOf) - 1
      BY <2>2, CountedAreServices, CountServices DEF BlocksGood
    <3> QED
      BY <2>1, <2>2, <3>1, <1>3, <1>5 DEF RemoveUkuiShortcutService, BlockAll
  <2>3. CASE s \notin BlockAllOf
    <3>1. BlockAllOf \ {s} = BlockAllOf
      BY <2>3
    <3> QED
      BY <2>1, <2>3, <3>1, <1>3, <1>5 DEF RemoveUkuiShortcutService
  <2> QED
    BY <2>2, <2>3
<1>7. ASSUME NEW t \in Types
      PROVE  (type_block_counts_[t] = Cardinality(BlacklistsOf(t)) + Cardinality(WhitelistsOf(t)))'
  <2> DEFINE Less(set) == IF s \in set THEN Cardinality(set) - 1 ELSE Cardinality(set)
  <2>1. ASSUME NEW set, set \subseteq Services
        PROVE  /\ Cardinality(set) \in Nat /\ (s \in set => Cardinality(set) > 0)
               /\ Cardinality(set \ {s}) = Less(set)
    <3>1. s \notin set => set \ {s} = set
      OBVIOUS
    <3> QED
      BY <2>1, <3>1, CountServices
  <2>2. type_block_counts_[t] = Cardinality(BlacklistsOf(t)) + Cardinality(WhitelistsOf(t))
    BY DEF BlocksGood, Counted
  <2>3. s \in BlacklistsOf(t) <=> t \in ukui_shortcut_blacklists_[s]
    <3>1. "all" \in ukui_shortcut_blacklists_[s] => ukui_shortcut_blacklists_[s] = {"all"}
      BY DEF BlocksGood, ListsAreOfServices
    <3>2. t # "all"
      BY BlacklistsAssumption
    <3> QED
      BY <3>1, <3>2 DEF BlacklistsOf, RemoveUkuiShortcutService
  <2>4. s \in WhitelistsOf(t) <=> t \in NotWhitelisted(ukui_shortcut_whitelists_[s])
    BY DEF WhitelistsOf, RemoveUkuiShortcutService
  <2>5. /\ Cardinality(BlacklistsOf(t)) \in Nat /\ Cardinality(WhitelistsOf(t)) \in Nat
        /\ s \in BlacklistsOf(t) => Cardinality(BlacklistsOf(t)) > 0
        /\ s \in WhitelistsOf(t) => Cardinality(WhitelistsOf(t)) > 0
        /\ Cardinality(BlacklistsOf(t) \ {s}) = Less(BlacklistsOf(t))
        /\ Cardinality(WhitelistsOf(t) \ {s}) = Less(WhitelistsOf(t))
    <3>1. BlacklistsOf(t) \subseteq Services /\ WhitelistsOf(t) \subseteq Services
      BY CountedAreServices DEF BlocksGood
    <3> HIDE DEF Less
    <3> QED
      BY <3>1, <2>1
  <2>6. type_block_counts_'[t] = Less(BlacklistsOf(t)) + Less(WhitelistsOf(t))
    <3> DEFINE once == UnblockType(type_block_counts_, ukui_shortcut_blacklists_[s])
    <3>1. once[t] = IF s \in BlacklistsOf(t) /\ type_block_counts_[t] > 0
                    THEN type_block_counts_[t] - 1 ELSE type_block_counts_[t]
      BY <2>3 DEF UnblockType
    <3>2. type_block_counts_'[t] = IF s \in WhitelistsOf(t) /\ once[t] > 0 THEN once[t] - 1 ELSE once[t]
      BY <2>4 DEF RemoveUkuiShortcutService, UnblockType
    <3> HIDE DEF once
    <3> QED
      BY <3>1, <3>2, <2>2, <2>5
  <2> QED
    BY <2>5, <2>6, <1>4
<1> QED
  BY <1>1, <1>2, <1>6, <1>7 DEF BlocksGood, Counted

\* KGlobalAccel counts once.
LEMMA BlockGlobalGood ==
  ASSUME BlocksGood, NEW block \in BOOLEAN, BlockGlobalShortcuts(block) PROVE BlocksGood'
<1>1. BlocksShape'
  BY DEF BlocksGood, BlocksShape, BlockGlobalShortcuts, BlockAll
<1>2. ListsAreOfServices'
  BY DEF BlocksGood, ListsAreOfServices, BlockGlobalShortcuts
<1>3. /\ BlockAllOf' = BlockAllOf
      /\ \A t \in Types : BlacklistsOf(t)' = BlacklistsOf(t) /\ WhitelistsOf(t)' = WhitelistsOf(t)
  BY DEF BlockGlobalShortcuts, BlockAllOf, BlacklistsOf, WhitelistsOf
<1>4. Cardinality(BlockAllOf) \in Nat
  BY CountedAreServices, CountServices DEF BlocksGood
<1>5. Counted'
  BY <1>3, <1>4 DEF BlocksGood, BlocksShape, Counted, BlockGlobalShortcuts, BlockAll
<1> QED
  BY <1>1, <1>2, <1>5 DEF BlocksGood

\* The blocks of the shortcuts are exactly those of the services on the bus, for
\* any number of services and types, if none answers WLCOM_ALL and a type in one
\* list: the types of such a list are taken back although they were not counted
\* (ApplyUkuiShortcutTypes, RemoveUkuiShortcutService, BlockGlobalShortcuts).
THEOREM BlocksCounted == ASSUME AllIsAlone PROVE BlocksSpec => []BlocksAreCounted
<1>1. BlocksInit => BlocksGood
  <2> SUFFICES ASSUME BlocksInit PROVE BlocksGood
    OBVIOUS
  <2>1. BlockAllOf = {} /\ \A t \in Types : BlacklistsOf(t) = {} /\ WhitelistsOf(t) = {}
    BY DEF BlocksInit, BlockAllOf, BlacklistsOf, WhitelistsOf
  <2>2. Counted
    BY <2>1, FS_EmptySet DEF BlocksInit, Counted
  <2> QED
    BY <2>2 DEF BlocksInit, BlocksGood, BlocksShape, ListsAreOfServices
<1>2. BlocksGood /\ [BlocksNext]_blocksVars => BlocksGood'
  <2> SUFFICES ASSUME BlocksGood, [BlocksNext]_blocksVars PROVE BlocksGood'
    OBVIOUS
  <2>1. CASE UNCHANGED blocksVars
    BY <2>1 DEF blocksVars, BlocksGood, BlocksShape, ListsAreOfServices, Counted, BlockAllOf,
                BlacklistsOf, WhitelistsOf
  <2> QED
    BY <2>1, AllIsAlone, AddServiceGood, ApplyBlacklistGood, ApplyWhitelistGood, RemoveServiceGood,
       BlockGlobalGood DEF BlocksNext
<1>3. BlocksGood => BlocksAreCounted
  BY DEF BlocksGood, Counted, BlocksAreCounted, BlockAllOf, BlacklistsOf, WhitelistsOf
<1> QED
  BY <1>1, <1>2, <1>3, PTL DEF BlocksSpec

(***************************************************************************)
(* Gestures.                                                               *)
(***************************************************************************)
GestureTypes == {"none", "swipe", "pinch", "hold"}

GestureRecord ==
  [type : GestureTypes, fingers : Nat, triggered : BOOLEAN, handled : BOOLEAN,
   direction : Directions \cup {"none"}]

\* The recogniser is in the gesture libinput reports, which is open exactly
\* then; only a triggered swipe has run an action before its end, and handled
\* says so.
PadGood ==
  /\ gesture_ \in GestureRecord /\ gesture_.type = pad
  /\ pad_acted \in BOOLEAN /\ pad_end \in {"open", "ended", "cancelled"}
  /\ pad_end = "open" <=> pad # "none"
  /\ pad = "swipe" => gesture_.fingers >= 3
  /\ pad_acted /\ pad # "none" => pad = "swipe" /\ gesture_.triggered /\ gesture_.handled
  /\ pad_swipe # NoSwipe =>
       gesture_.type = "swipe" /\ gesture_.triggered /\ Swipe(gesture_) = pad_swipe
  /\ HandledIsCancelled

\* A finger has one point, and is down while its touchscreen is there; a swipe
\* that was triggered has as many fingers as there are points.
TouchGood ==
  /\ touch_gesture_ \in GestureRecord
  /\ touch_points_ \subseteq [touch : Touches, id : Ids, moved : BOOLEAN]
  /\ IsFiniteSet(touch_points_)
  /\ \A p, q \in touch_points_ : p.touch = q.touch /\ p.id = q.id => p = q
  /\ \A p \in touch_points_ : p.touch \in plugged => <<p.touch, p.id>> \in fingers_down
  /\ touch_hold_timer_ \in BOOLEAN
  /\ touch_swipe # NoSwipe =>
       /\ touch_gesture_.type = "swipe" /\ touch_gesture_.triggered
       /\ Swipe(touch_gesture_) = touch_swipe /\ touch_points_ # {}
       /\ touch_gesture_.fingers = Cardinality(touch_points_)
  /\ HoldIsOfFingersDown

\* A gesture that begins has done nothing yet.
LEMMA BeginGestureGood ==
  ASSUME PadGood, NEW type \in {"swipe", "pinch", "hold"}, NEW fingers \in PadFingers,
         type = "swipe" => fingers >= 3, BeginGesture(type, fingers)
  PROVE  PadGood'
<1>1. gesture_' = [type |-> type, fingers |-> fingers, triggered |-> FALSE, handled |-> FALSE,
                   direction |-> "none"]
  BY DEF BeginGesture, NoGesture
<1>2. fingers \in Nat
  BY GestureAssumption
<1>3. pad_swipe = NoSwipe
  BY DEF PadGood, BeginGesture
<1>4. gesture_' \in GestureRecord
  BY <1>1, <1>2 DEF GestureRecord, GestureTypes
<1>5. gesture_'.type = type /\ gesture_'.fingers = fingers
  BY <1>1
<1> QED
  BY <1>3, <1>4, <1>5 DEF PadGood, BeginGesture, HandledIsCancelled

\* The trigger and what follows it record what they did.
LEMMA UpdateSwipeGood ==
  ASSUME PadGood, NEW far \in BOOLEAN, NEW direction \in Directions, UpdateSwipe(far, direction)
  PROVE  PadGood'
<1>1. PICK acted \in BOOLEAN :
        \/ /\ ~gesture_.triggered /\ far
           /\ TriggerSwipe(direction, acted)
        \/ /\ gesture_.triggered
           /\ gesture_' = [gesture_ EXCEPT !.handled = @ \/ acted]
           /\ pad_acted' = (pad_acted \/ acted)
           /\ UNCHANGED pad_swipe
  BY DEF UpdateSwipe
<1>2. CASE TriggerSwipe(direction, acted)
  BY <1>1, <1>2 DEF PadGood, GestureRecord, UpdateSwipe, TriggerSwipe, Swipe, HandledIsCancelled
<1>3. CASE gesture_.triggered
  BY <1>1, <1>3 DEF PadGood, GestureRecord, UpdateSwipe, Swipe, HandledIsCancelled, TriggerSwipe
<1> QED
  BY <1>1, <1>2, <1>3

\* The clients see an end that tells of every stage.
LEMMA EndSwipeGood ==
  ASSUME PadGood, NEW cancelled \in BOOLEAN, NEW direction \in Directions,
         EndSwipe(cancelled, direction)
  PROVE  PadGood'
<1>1. gesture_' = NoGesture /\ NoGesture \in GestureRecord /\ NoGesture.type = pad'
  BY DEF EndSwipe, NoGesture, GestureRecord, GestureTypes
<1>2. gesture_.fingers >= 3 /\ gesture_.fingers \in Nat
  BY DEF PadGood, EndSwipe, GestureRecord
<1>3. pad_swipe' = NoSwipe
  <2>1. ~(gesture_.fingers < 3)
    BY <1>2
  <2> QED
    BY <2>1, Zenon DEF EndSwipe
<1>4. \/ cancelled /\ SendEnd(cancelled, FALSE) /\ UNCHANGED pad_acted
      \/ \E triggered, stopped \in BOOLEAN :
           /\ gesture_.triggered => triggered = gesture_.handled
           /\ SendEnd(cancelled, triggered \/ stopped)
           /\ pad_acted' = (pad_acted \/ triggered \/ stopped)
  <2>1. ~(gesture_.fingers < 3)
    BY <1>2
  <2> QED
    BY <2>1, Zenon DEF EndSwipe
<1>5. /\ pad_end' \in {"ended", "cancelled"} /\ pad_acted' \in BOOLEAN
      /\ pad_acted' => pad_end' = "cancelled"
  <2>1. pad_acted \in BOOLEAN /\ (pad_acted => gesture_.triggered /\ gesture_.handled)
    BY DEF PadGood, EndSwipe
  <2> QED
    BY <2>1, <1>4 DEF SendEnd
<1> QED
  BY <1>1, <1>3, <1>5 DEF PadGood, EndSwipe, HandledIsCancelled

LEMMA EndPinchOrHoldGood ==
  ASSUME PadGood, NEW cancelled \in BOOLEAN, NEW direction \in {"none", "inward"},
         EndPinchOrHold(cancelled, direction)
  PROVE  PadGood'
<1>1. gesture_' = NoGesture /\ NoGesture \in GestureRecord /\ NoGesture.type = pad'
  BY DEF EndPinchOrHold, NoGesture, GestureRecord, GestureTypes
<1>2. pad_swipe' = NoSwipe
  BY DEF PadGood, EndPinchOrHold
<1>3. pad_end' \in {"ended", "cancelled"}
  BY DEF EndPinchOrHold, SendEnd
<1>4. pad_acted' \in BOOLEAN /\ (pad_acted' => pad_end' = "cancelled")
  BY DEF PadGood, EndPinchOrHold, SendEnd
<1> QED
  BY <1>1, <1>2, <1>3, <1>4 DEF PadGood, EndPinchOrHold, HandledIsCancelled

\* Where the fingers are does not change how many points a finger has.
LEMMA PointOfFinger ==
  ASSUME TouchGood, NEW p \in touch_points_, NEW moved
  PROVE  LET points == (touch_points_ \ {p}) \cup {[touch |-> p.touch, id |-> p.id, moved |-> moved]}
         IN  /\ IsFiniteSet(points) /\ Cardinality(points) = Cardinality(touch_points_)
             /\ Point(p.touch, p.id) = {p}
<1> DEFINE new == [touch |-> p.touch, id |-> p.id, moved |-> moved]
<1>1. Point(p.touch, p.id) = {p}
  BY DEF TouchGood, Point
<1>2. new \notin touch_points_ \ {p}
  BY <1>1 DEF Point
<1>3. /\ IsFiniteSet(touch_points_ \ {p})
      /\ Cardinality(touch_points_ \ {p}) = Cardinality(touch_points_) - 1
  BY FS_RemoveElement DEF TouchGood
<1>4. /\ IsFiniteSet((touch_points_ \ {p}) \cup {new})
      /\ Cardinality((touch_points_ \ {p}) \cup {new}) = Cardinality(touch_points_ \ {p}) + 1
  BY <1>2, <1>3, FS_AddElement
<1>5. Cardinality(touch_points_) \in Nat
  BY FS_CardinalityType DEF TouchGood
<1> QED
  BY <1>1, <1>3, <1>4, <1>5

\* A finger that comes down ends the swipe of the others and restarts the timer.
LEMMA TouchDownGood ==
  ASSUME TouchGood, NEW touch \in Touches, NEW id \in Ids, TouchDown(touch, id)
  PROVE  TouchGood'
<1> DEFINE old == {p \in touch_points_ : p.touch = touch}
           new == [touch |-> touch, id |-> id, moved |-> FALSE]
           points == old \cup {new}
<1>1. touch_points_' = points
  BY DEF TouchDown
<1>2. IsFiniteSet(old)
  BY FS_Subset DEF TouchGood
<1>3. IsFiniteSet(points)
  BY <1>2, FS_AddElement
<1>4. Cardinality(points) \in Nat
  BY <1>3, FS_CardinalityType
<1>5. points \subseteq [touch : Touches, id : Ids, moved : BOOLEAN]
  <2>1. new \in [touch : Touches, id : Ids, moved : BOOLEAN]
    OBVIOUS
  <2>2. touch_points_ \subseteq [touch : Touches, id : Ids, moved : BOOLEAN]
    BY DEF TouchGood
  <2> HIDE DEF new
  <2> QED
    BY <2>1, <2>2
<1>6. touch_gesture_' = [type |-> "hold", fingers |-> Cardinality(points), triggered |-> FALSE,
                         handled |-> FALSE, direction |-> "none"]
  BY DEF TouchDown, NoGesture
<1>7. touch_gesture_' \in GestureRecord
  BY <1>4, <1>6 DEF GestureRecord, GestureTypes
<1>8. \A p \in old : p.id # id
  BY DEF TouchGood, TouchDown
<1>9. \A p, q \in points : p.touch = q.touch /\ p.id = q.id => p = q
  <2>1. \A p, q \in old : p.touch = q.touch /\ p.id = q.id => p = q
    BY DEF TouchGood
  <2>2. new.id = id
    OBVIOUS
  <2> HIDE DEF new, old
  <2> QED
    BY <1>8, <2>1, <2>2
<1>10. \A p \in points : p.touch \in plugged' => <<p.touch, p.id>> \in fingers_down'
  BY DEF TouchGood, TouchDown
<1>11. touch_swipe' = NoSwipe
  BY DEF TouchGood, TouchDown
<1>12. HoldIsOfFingersDown'
  <2>1. new \in points /\ ~new.moved
    OBVIOUS
  <2> HIDE DEF points
  <2> QED
    BY <1>1, <1>6, <1>10, <2>1 DEF HoldIsOfFingersDown
<1> HIDE DEF points
<1> QED
  BY <1>1, <1>3, <1>5, <1>7, <1>9, <1>10, <1>11, <1>12 DEF TouchGood, TouchDown

\* A finger that moves stops the timer, and the others stay.
LEMMA TouchMotionGood ==
  ASSUME TouchGood, NEW touch \in Touches, NEW id \in Ids, NEW moved \in BOOLEAN,
         NEW far \in BOOLEAN, NEW direction \in Directions,
         TouchMotion(touch, id, moved, far, direction)
  PROVE  TouchGood'
<1> DEFINE new == [touch |-> touch, id |-> id, moved |-> moved]
           points == (touch_points_ \ Point(touch, id)) \cup {new}
           swipe == [touch_gesture_ EXCEPT !.type = "swipe", !.fingers = Cardinality(points)]
           triggered == [swipe EXCEPT !.triggered = TRUE, !.direction = direction]
<1>1. PICK p \in touch_points_ : p.touch = touch /\ p.id = id
  BY DEF TouchMotion, Point
<1>2. /\ IsFiniteSet(points) /\ Cardinality(points) = Cardinality(touch_points_)
      /\ Point(touch, id) = {p}
  BY <1>1, PointOfFinger
<1>3. Cardinality(points) \in Nat
  BY <1>2, FS_CardinalityType
<1>4. touch_points_' = points /\ touch_hold_timer_' = (touch_hold_timer_ /\ ~moved)
  BY DEF TouchMotion
<1>5. points \subseteq [touch : Touches, id : Ids, moved : BOOLEAN] /\ new \in points
  BY DEF TouchGood
<1>6. \A q, r \in points : q.touch = r.touch /\ q.id = r.id => q = r
  BY <1>2 DEF TouchGood, Point
<1>7. \A q \in points : q.touch \in plugged => <<q.touch, q.id>> \in fingers_down
  BY DEF TouchGood, TouchMotion
<1>8. UNCHANGED <<fingers_down, plugged>>
  BY DEF TouchMotion, padVars
<1> HIDE DEF points
<1>9. \/ UNCHANGED <<touch_gesture_, touch_swipe>>
      \/ moved /\ touch_gesture_' = triggered /\ touch_swipe' = Swipe(triggered)
      \/ moved /\ touch_gesture_' = swipe /\ UNCHANGED touch_swipe
  <2>1. (\A q \in points : q.moved) => moved
    BY <1>5
  <2> QED
    BY <2>1, Zenon DEF TouchMotion, points
<1>10. swipe \in GestureRecord /\ triggered \in GestureRecord
  BY <1>3 DEF TouchGood, GestureRecord, GestureTypes
<1>11. touch_gesture_' \in GestureRecord
  BY <1>9, <1>10 DEF TouchGood
<1>12. touch_swipe' # NoSwipe =>
         /\ touch_gesture_'.type = "swipe" /\ touch_gesture_'.triggered
         /\ Swipe(touch_gesture_') = touch_swipe' /\ points # {}
         /\ touch_gesture_'.fingers = Cardinality(points)
  BY <1>2, <1>5, <1>9 DEF TouchGood, GestureRecord, Swipe
<1>13. HoldIsOfFingersDown'
  <2> SUFFICES ASSUME touch_hold_timer_' PROVE HoldIsOfFingersDown'
    BY DEF HoldIsOfFingersDown
  <2>1. touch_hold_timer_ /\ ~moved
    BY <1>4 DEF TouchGood
  <2>2. touch_gesture_' = touch_gesture_ /\ ~new.moved
    BY <2>1, <1>9
  <2> QED
    BY <1>2, <1>4, <1>5, <1>7, <1>8, <2>1, <2>2 DEF TouchGood, HoldIsOfFingersDown
<1>14. touch_hold_timer_' \in BOOLEAN
  BY <1>4 DEF TouchGood
<1> QED
  BY <1>2, <1>4, <1>5, <1>6, <1>7, <1>8, <1>11, <1>12, <1>13, <1>14 DEF TouchGood

\* A finger that goes takes the gesture with it.
LEMMA TouchUpGood ==
  ASSUME TouchGood, NEW touch \in Touches, NEW id \in Ids, NEW cancelled \in BOOLEAN,
         TouchUp(touch, id, cancelled)
  PROVE  TouchGood'
<1>1. CASE Point(touch, id) = {}
  <2>1. UNCHANGED <<touch_gesture_, touch_points_, touch_hold_timer_, touch_swipe, plugged>>
    BY <1>1 DEF TouchUp
  <2>2. \A p \in touch_points_ : p.touch \in plugged => <<p.touch, p.id>> \in fingers_down'
    BY <1>1 DEF TouchGood, TouchUp, Point
  <2> QED
    BY <2>1, <2>2 DEF TouchGood, HoldIsOfFingersDown
<1>2. CASE Point(touch, id) # {}
  <2>1. touch_points_' = {} /\ touch_hold_timer_' = FALSE /\ touch_gesture_' = NoGesture
    BY <1>2 DEF TouchUp, ResetTouchGesture
  <2>2. touch_swipe' = NoSwipe
    BY <1>2 DEF TouchGood, TouchUp
  <2>3. NoGesture \in GestureRecord
    BY DEF NoGesture, GestureRecord, GestureTypes
  <2> QED
    BY <2>1, <2>2, <2>3, FS_EmptySet DEF TouchGood, HoldIsOfFingersDown
<1> QED
  BY <1>1, <1>2

\* Only a hold is triggered by the timer.
LEMMA HoldTimeoutGood == ASSUME TouchGood, HoldTimeout PROVE TouchGood'
<1>1. touch_gesture_' \in GestureRecord
  BY DEF TouchGood, GestureRecord, HoldTimeout
<1>2. touch_swipe # NoSwipe => UNCHANGED touch_gesture_
  BY DEF TouchGood, HoldTimeout
<1> QED
  BY <1>1, <1>2 DEF TouchGood, HoldTimeout, HoldIsOfFingersDown

\* The fingers of a touchscreen that goes are not asked for any more.
LEMMA UnplugGood == ASSUME TouchGood, NEW touch \in Touches, Unplug(touch) PROVE TouchGood'
<1>1. UNCHANGED <<touch_gesture_, touch_points_, touch_hold_timer_, touch_swipe>>
  BY DEF Unplug
<1>2. \A p \in touch_points_ : p.touch \in plugged' => <<p.touch, p.id>> \in fingers_down'
  BY DEF TouchGood, Unplug
<1> QED
  BY <1>1, <1>2 DEF TouchGood, HoldIsOfFingersDown

\* The touchpad and the touchscreens have recognisers of their own.
LEMMA GestureStep ==
  ASSUME PadGood, TouchGood, [GestureNext]_gestureVars PROVE PadGood' /\ TouchGood'
<1>1. ASSUME UNCHANGED padVars PROVE PadGood'
  BY <1>1 DEF padVars, PadGood, HandledIsCancelled
<1>2. ASSUME UNCHANGED touchVars PROVE TouchGood'
  BY <1>2 DEF touchVars, TouchGood, HoldIsOfFingersDown
<1>3. CASE \E type \in {"swipe", "pinch", "hold"}, fingers \in PadFingers :
             (type = "swipe" => fingers >= 3) /\ BeginGesture(type, fingers)
  BY <1>2, <1>3, BeginGestureGood DEF BeginGesture
<1>4. CASE \E far \in BOOLEAN, direction \in Directions : UpdateSwipe(far, direction)
  BY <1>2, <1>4, UpdateSwipeGood DEF UpdateSwipe
<1>5. CASE \E cancelled \in BOOLEAN, direction \in Directions : EndSwipe(cancelled, direction)
  BY <1>2, <1>5, EndSwipeGood DEF EndSwipe
<1>6. CASE \E cancelled \in BOOLEAN, direction \in {"none", "inward"} :
             EndPinchOrHold(cancelled, direction)
  BY <1>2, <1>6, EndPinchOrHoldGood DEF EndPinchOrHold
<1>7. ASSUME NEW touch \in Touches, NEW id \in Ids, TouchDown(touch, id) PROVE PadGood' /\ TouchGood'
  BY <1>1, <1>7, TouchDownGood DEF TouchDown
<1>8. ASSUME NEW touch \in Touches, NEW id \in Ids, NEW moved \in BOOLEAN, NEW far \in BOOLEAN,
             NEW direction \in Directions, TouchMotion(touch, id, moved, far, direction)
      PROVE  PadGood' /\ TouchGood'
  BY <1>1, <1>8, TouchMotionGood DEF TouchMotion
<1>9. ASSUME NEW touch \in Touches, NEW id \in Ids, NEW cancelled \in BOOLEAN,
             TouchUp(touch, id, cancelled)
      PROVE  PadGood' /\ TouchGood'
  BY <1>1, <1>9, TouchUpGood DEF TouchUp
<1>10. CASE HoldTimeout
  BY <1>1, <1>10, HoldTimeoutGood DEF HoldTimeout
<1>11. CASE \E touch \in Touches : Unplug(touch)
  BY <1>1, <1>11, UnplugGood DEF Unplug
<1>12. CASE UNCHANGED gestureVars
  BY <1>1, <1>2, <1>12 DEF gestureVars, padVars, touchVars
<1> QED
  BY <1>3, <1>4, <1>5, <1>6, <1>7, <1>8, <1>9, <1>10, <1>11, <1>12, Zenon DEF GestureNext

LEMMA GestureStart == GestureInit => PadGood /\ TouchGood
<1>1. NoGesture \in GestureRecord /\ NoGesture.type = "none"
  BY DEF NoGesture, GestureRecord, GestureTypes
<1> QED
  BY <1>1, FS_EmptySet DEF GestureInit, PadGood, TouchGood, HandledIsCancelled, HoldIsOfFingersDown

\* A triggered swipe is remembered until it is stopped, for any number of
\* fingers, touchscreens and bindings (UpdateSwipe, EndSwipe, TouchMotion,
\* TouchUp).
THEOREM SwipeRemembered == GestureSpec => []SwipeIsRemembered
<1>1. PadGood /\ TouchGood => SwipeIsRemembered
  BY DEF PadGood, TouchGood, SwipeIsRemembered
<1> QED
  BY <1>1, GestureStart, GestureStep, PTL DEF GestureSpec

\* A touchpad gesture that ran an action ends cancelled for the clients
\* (OnSwipeEnd, OnPinchEnd, OnHoldEnd).
THEOREM HandledCancelled == GestureSpec => []HandledIsCancelled
<1>1. PadGood => HandledIsCancelled
  BY DEF PadGood
<1> QED
  BY <1>1, GestureStart, GestureStep, PTL DEF GestureSpec

\* The hold timer runs for the fingers that are down (TouchDown, TouchMotion,
\* ResetTouchGesture).
THEOREM HoldOfFingersDown == GestureSpec => []HoldIsOfFingersDown
<1>1. TouchGood => HoldIsOfFingersDown
  BY DEF TouchGood
<1> QED
  BY <1>1, GestureStart, GestureStep, PTL DEF GestureSpec

(***************************************************************************)
(* Together.                                                               *)
(***************************************************************************)
\* The services share no state: a behaviour of the seat is one of each service,
\* so what is proved of a service holds of the seat.
THEOREM ServicesAreIndependent ==
  SeatSpec => BlocksSpec /\ GestureSpec /\ IdleSpec /\ SelectionSpec /\ RelaySpec
<1>1. SeatInit => BlocksInit /\ GestureInit /\ IdleInit /\ SelectionInit /\ RelayInit
  BY DEF SeatInit
<1>2. [SeatNext]_seatVars => [BlocksNext]_blocksVars
  BY DEF SeatNext, seatVars
<1>3. [SeatNext]_seatVars => [GestureNext]_gestureVars
  BY DEF SeatNext, seatVars
<1>4. [SeatNext]_seatVars => [IdleNext]_idleVars
  BY DEF SeatNext, seatVars
<1>5. [SeatNext]_seatVars => [SelectionNext]_selectionVars
  BY DEF SeatNext, seatVars
<1>6. [SeatNext]_seatVars => [RelayNext]_relay
  BY DEF SeatNext, seatVars
<1> QED
  BY <1>1, <1>2, <1>3, <1>4, <1>5, <1>6, PTL
     DEF SeatSpec, BlocksSpec, GestureSpec, IdleSpec, SelectionSpec, RelaySpec

=============================================================================
