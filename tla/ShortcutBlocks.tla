--------------------------- MODULE ShortcutBlocks ---------------------------
(***************************************************************************)
(* Which shortcuts are blocked: KeyBindingManager counts the reasons, and  *)
(* WlcomDbusManager adds one for every UKUI settings service that asks for *)
(* it and takes it back when the service leaves the bus.  A service is     *)
(* asked twice, for a blacklist (blockShortcuts) and for a whitelist       *)
(* (unblockShortcuts), and the answers arrive whenever they do.            *)
(***************************************************************************)
EXTENDS Naturals, FiniteSets

CONSTANTS
  Services,     \* names on the bus
  Types,        \* the shortcut types: KeyBindingType
  Blacklists    \* what blockShortcuts may answer; "all" is WLCOM_ALL

ASSUME BlacklistsAssumption ==
  /\ \A list \in Blacklists : list \subseteq Types \cup {"all"}
  /\ "all" \notin Types
  /\ IsFiniteSet(Services)

VARIABLES
  block_count_,
  type_block_counts_,
  shortcuts_blocked_,           \* KGlobalAccel's blockGlobalShortcuts
  ukui_shortcut_services_,
  ukui_shortcut_block_all_,
  ukui_shortcut_blacklists_,    \* empty for a service without one
  ukui_shortcut_whitelists_,
  pending                       \* the calls not answered: service and kind

blocksVars ==
  <<block_count_, type_block_counts_, shortcuts_blocked_, ukui_shortcut_services_,
    ukui_shortcut_block_all_, ukui_shortcut_blacklists_, ukui_shortcut_whitelists_, pending>>

BlocksTypeOK ==
  /\ block_count_ \in 0 .. Cardinality(Services) + 1
  /\ type_block_counts_ \in [Types -> 0 .. 2 * Cardinality(Services)]
  /\ shortcuts_blocked_ \in BOOLEAN
  /\ ukui_shortcut_services_ \subseteq Services
  /\ ukui_shortcut_block_all_ \subseteq Services
  /\ ukui_shortcut_blacklists_ \in [Services -> SUBSET (Types \cup {"all"})]
  /\ ukui_shortcut_whitelists_ \in [Services -> SUBSET Types]
  /\ pending \subseteq Services \X {"blacklist", "whitelist"}

BlocksInit ==
  /\ block_count_ = 0 /\ type_block_counts_ = [t \in Types |-> 0]
  /\ shortcuts_blocked_ = FALSE
  /\ ukui_shortcut_services_ = {} /\ ukui_shortcut_block_all_ = {}
  /\ ukui_shortcut_blacklists_ = [s \in Services |-> {}]
  /\ ukui_shortcut_whitelists_ = [s \in Services |-> {}]
  /\ pending = {}

\* KeyBindingManager::BlockType for every type of a set.
BlockType(counts, types) == [t \in Types |-> IF t \in types THEN counts[t] + 1 ELSE counts[t]]

UnblockType(counts, types) ==
  [t \in Types |-> IF t \in types /\ counts[t] > 0 THEN counts[t] - 1 ELSE counts[t]]

\* KeyBindingManager::BlockAll
BlockAll(blocked) ==
  block_count_' = IF blocked THEN block_count_ + 1
                  ELSE IF block_count_ > 0 THEN block_count_ - 1 ELSE block_count_

\* What a whitelist blocks; an empty one is none.
NotWhitelisted(types) == IF types = {} THEN {} ELSE Types \ types

\* The service appears on the bus and is asked for its lists.
AddUkuiShortcutService(s) ==
  /\ s \notin ukui_shortcut_services_
  /\ ukui_shortcut_services_' = ukui_shortcut_services_ \cup {s}
  /\ pending' = pending \cup ({s} \X {"blacklist", "whitelist"})
  /\ UNCHANGED <<block_count_, type_block_counts_, shortcuts_blocked_,
                 ukui_shortcut_block_all_, ukui_shortcut_blacklists_,
                 ukui_shortcut_whitelists_>>

\* The reply to blockShortcuts.  A list with WLCOM_ALL blocks all shortcuts at
\* once and none of the types it names besides.
ApplyBlacklist(s, types) ==
  /\ <<s, "blacklist">> \in pending
  /\ pending' = pending \ {<<s, "blacklist">>}
  /\ ukui_shortcut_blacklists_' = [ukui_shortcut_blacklists_ EXCEPT ![s] = types]
  /\ IF "all" \in types
     THEN /\ BlockAll(TRUE)
          /\ ukui_shortcut_block_all_' = ukui_shortcut_block_all_ \cup {s}
          /\ UNCHANGED type_block_counts_
     ELSE /\ type_block_counts_' = BlockType(type_block_counts_, types)
          /\ UNCHANGED <<block_count_, ukui_shortcut_block_all_>>
  /\ UNCHANGED <<shortcuts_blocked_, ukui_shortcut_services_, ukui_shortcut_whitelists_>>

\* The reply to unblockShortcuts.
ApplyWhitelist(s, types) ==
  /\ <<s, "whitelist">> \in pending
  /\ pending' = pending \ {<<s, "whitelist">>}
  /\ ukui_shortcut_whitelists_' = [ukui_shortcut_whitelists_ EXCEPT ![s] = types]
  /\ type_block_counts_' = BlockType(type_block_counts_, NotWhitelisted(types))
  /\ UNCHANGED <<block_count_, shortcuts_blocked_, ukui_shortcut_services_,
                 ukui_shortcut_block_all_, ukui_shortcut_blacklists_>>

\* Mutant: the types of the blacklist are taken back with both lists.
Faulty_RemoveUkuiShortcutService(s) ==
  /\ s \in ukui_shortcut_services_
  /\ ukui_shortcut_services_' = ukui_shortcut_services_ \ {s}
  /\ IF s \in ukui_shortcut_block_all_ THEN BlockAll(FALSE) ELSE UNCHANGED block_count_
  /\ ukui_shortcut_block_all_' = ukui_shortcut_block_all_ \ {s}
  /\ type_block_counts_' =
       UnblockType(UnblockType(type_block_counts_, ukui_shortcut_blacklists_[s]),
                   ukui_shortcut_blacklists_[s]
                     \cup NotWhitelisted(ukui_shortcut_whitelists_[s]))
  /\ ukui_shortcut_blacklists_' = [ukui_shortcut_blacklists_ EXCEPT ![s] = {}]
  /\ ukui_shortcut_whitelists_' = [ukui_shortcut_whitelists_ EXCEPT ![s] = {}]
  /\ pending' = pending \ ({s} \X {"blacklist", "whitelist"})
  /\ UNCHANGED shortcuts_blocked_

\* The service leaves the bus, which also fails the calls it has not answered.
RemoveUkuiShortcutService(s) ==
  /\ s \in ukui_shortcut_services_
  /\ ukui_shortcut_services_' = ukui_shortcut_services_ \ {s}
  /\ IF s \in ukui_shortcut_block_all_ THEN BlockAll(FALSE) ELSE UNCHANGED block_count_
  /\ ukui_shortcut_block_all_' = ukui_shortcut_block_all_ \ {s}
  /\ type_block_counts_' =
       UnblockType(UnblockType(type_block_counts_, ukui_shortcut_blacklists_[s]),
                   NotWhitelisted(ukui_shortcut_whitelists_[s]))
  /\ ukui_shortcut_blacklists_' = [ukui_shortcut_blacklists_ EXCEPT ![s] = {}]
  /\ ukui_shortcut_whitelists_' = [ukui_shortcut_whitelists_ EXCEPT ![s] = {}]
  /\ pending' = pending \ ({s} \X {"blacklist", "whitelist"})
  /\ UNCHANGED shortcuts_blocked_

\* KGlobalAccel's blockGlobalShortcuts, which counts once.
BlockGlobalShortcuts(block) ==
  /\ IF block # shortcuts_blocked_ THEN BlockAll(block) ELSE UNCHANGED block_count_
  /\ shortcuts_blocked_' = block
  /\ UNCHANGED <<type_block_counts_, ukui_shortcut_services_, ukui_shortcut_block_all_,
                 ukui_shortcut_blacklists_, ukui_shortcut_whitelists_, pending>>

BlocksNext ==
  \/ \E s \in Services :
       \/ AddUkuiShortcutService(s) \/ RemoveUkuiShortcutService(s)
       \/ \E types \in Blacklists : ApplyBlacklist(s, types)
       \/ \E types \in SUBSET Types : ApplyWhitelist(s, types)
  \/ \E block \in BOOLEAN : BlockGlobalShortcuts(block)

BlocksSpec == BlocksInit /\ [][BlocksNext]_blocksVars

(***************************************************************************)
(* Properties.                                                             *)
(***************************************************************************)

\* The reasons counted against a shortcut are exactly those of the services on
\* the bus that gave one, and of KGlobalAccel: what a live service asked for
\* stays blocked whatever the others do, and nothing stays blocked for one that
\* left, also between its two answers (ApplyUkuiShortcutTypes,
\* RemoveUkuiShortcutService).
BlocksAreCounted ==
  /\ block_count_ = Cardinality({s \in ukui_shortcut_services_ :
                                   "all" \in ukui_shortcut_blacklists_[s]})
                      + (IF shortcuts_blocked_ THEN 1 ELSE 0)
  /\ \A t \in Types :
       type_block_counts_[t] =
         Cardinality({s \in ukui_shortcut_services_ :
                        t \in ukui_shortcut_blacklists_[s] /\ "all" \notin ukui_shortcut_blacklists_[s]})
           + Cardinality({s \in ukui_shortcut_services_ :
                            t \in NotWhitelisted(ukui_shortcut_whitelists_[s])})
=============================================================================
