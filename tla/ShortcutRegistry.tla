-------------------------- MODULE ShortcutRegistry --------------------------
(***************************************************************************)
(* Who owns a shortcut.  KeyBindingManager registers a key once; besides   *)
(* the compositor's own bindings there are two kinds of owner on D-Bus:    *)
(* KGlobalAccel's actions, which live as long as the compositor, and the   *)
(* InputAction shortcuts, which are saved and loaded at the next start.    *)
(* A binding's id is represented by its key, which no two bindings share.  *)
(***************************************************************************)
EXTENDS Naturals, Sequences, TLC
LOCAL INSTANCE SequencesExt

CONSTANTS
  Keys,         \* what ParseShortcut makes of shortcuts
  BadKeys,      \* keys KGlobalAccel may be given that it does not parse
  OwnKeys,      \* those of the compositor's own bindings
  Labels,       \* the actions of an application's component
  Called,       \* the actions KGlobalAccel's clients call about
  Names,        \* InputAction shortcuts, in the order of the saved object
  KeyOf,        \* the key each of them parses to
  System        \* the system's InputAction entries: "none", "on" or "off"

ASSUME RegistryAssumption ==
  /\ OwnKeys \subseteq Keys /\ Keys \cap BadKeys = {}
  /\ KeyOf \in [ToSet(Names) -> Keys]
  /\ System \in [ToSet(Names) -> {"none", "on", "off"}]

VARIABLES
  bindings_,            \* the owner of every registered key
  shortcuts,            \* KGlobalAccel's registered actions
  custom_binding_ids_,  \* the InputAction shortcuts that are bound
  user_actions          \* InputAction of the saved configuration

registryVars == <<bindings_, shortcuts, custom_binding_ids_, user_actions>>

NoKey == "no key"

\* The owners that are not KGlobalAccel's actions.
Own == <<"own", "">>
Input(n) == <<"input", n>>

\* The built-in component has one action for every binding it found at the
\* start, known by the binding's description.
Actions == ({"wlcom"} \X Keys) \cup ({"app"} \X Labels)

GlobalShortcut ==
  [key : Keys \cup BadKeys \cup {NoKey}, present : BOOLEAN, fresh : BOOLEAN,
   binding_id : Keys \cup {NoKey}]

RegistryTypeOK ==
  /\ DOMAIN bindings_ \subseteq Keys
  /\ \A k \in DOMAIN bindings_ : bindings_[k] \in {Own} \cup Actions \cup {Input(n) : n \in ToSet(Names)}
  /\ DOMAIN shortcuts \subseteq Actions
  /\ \A a \in DOMAIN shortcuts : shortcuts[a] \in GlobalShortcut
  /\ custom_binding_ids_ \subseteq ToSet(Names)
  /\ user_actions \in [ToSet(Names) -> {"none", "on", "off"}]

----------------------------------------------------------------------------
\* KeyBindingManager::Register refuses a key it cannot parse or already has.
CanRegister(bindings, key) == key \in Keys \ DOMAIN bindings

Register(bindings, key, owner) ==
  IF CanRegister(bindings, key) THEN bindings @@ (key :> owner) ELSE bindings

\* KeyBindingManager::Unregister
Unregister(bindings, keys) == [k \in DOMAIN bindings \ keys |-> bindings[k]]

\* What an InputAction shortcut is set to: the user's entry hides the system's.
Effective(user, n) == IF user[n] = "none" THEN System[n] ELSE user[n]

\* LoadInputActions, after the compositor registered its own bindings.
LoadInputActions(user) ==
  FoldLeft(LAMBDA bindings, n :
             IF Effective(user, n) = "on" THEN Register(bindings, KeyOf[n], Input(n)) ELSE bindings,
           [k \in OwnKeys |-> Own], Names)

CustomBindings(bindings) ==
  {n \in ToSet(Names) : \E k \in DOMAIN bindings : bindings[k] = Input(n)}

\* The built-in component lists the bindings of the start and holds no id of
\* theirs.
BuiltIn(bindings) ==
  [a \in {"wlcom"} \X DOMAIN bindings |->
     [key |-> a[2], present |-> TRUE, fresh |-> FALSE, binding_id |-> NoKey]]

NoUserActions == [n \in ToSet(Names) |-> "none"]

RegistryInit ==
  /\ user_actions = NoUserActions
  /\ bindings_ = LoadInputActions(user_actions)
  /\ custom_binding_ids_ = CustomBindings(bindings_)
  /\ shortcuts = BuiltIn(bindings_)

----------------------------------------------------------------------------
\* KGlobalAccel.  DeactivateGlobalShortcut takes the binding of an action
\* back, ActivateGlobalShortcut registers the one it should have now.

DeactivateGlobalShortcut(a) == Unregister(bindings_, {shortcuts[a].binding_id})

\* ActivateGlobalShortcut for the action changed to s, among these bindings.
ActivateGlobalShortcut(bindings, a, s) ==
  LET bound == s.binding_id = NoKey /\ s.present /\ CanRegister(bindings, s.key) IN
  /\ bindings_' = IF bound THEN Register(bindings, s.key, a) ELSE bindings
  /\ shortcuts' = [shortcuts EXCEPT ![a] =
                     IF bound THEN [s EXCEPT !.binding_id = s.key] ELSE s]

\* doRegister; an action that is known only takes new names.
DoRegister(a) ==
  /\ a \notin DOMAIN shortcuts
  /\ shortcuts' = shortcuts @@
       (a :> [key |-> NoKey, present |-> FALSE, fresh |-> TRUE, binding_id |-> NoKey])
  /\ UNCHANGED <<bindings_, custom_binding_ids_, user_actions>>

\* Mutant: the old binding stays, and with it the id that says there is one.
Faulty_SetForeignShortcutKeys(a, key) ==
  /\ a \in DOMAIN shortcuts
  /\ ActivateGlobalShortcut(bindings_, a, [shortcuts[a] EXCEPT !.key = key])
  /\ UNCHANGED <<custom_binding_ids_, user_actions>>

\* setForeignShortcutKeys
SetForeignShortcutKeys(a, key) ==
  /\ a \in DOMAIN shortcuts
  /\ ActivateGlobalShortcut(DeactivateGlobalShortcut(a), a,
                            [shortcuts[a] EXCEPT !.key = key, !.binding_id = NoKey])
  /\ UNCHANGED <<custom_binding_ids_, user_actions>>

\* setShortcutKeys without the flag IsDefault, which only sets default_key.  An
\* action that has been set before keeps its key unless NoAutoloading is given.
SetShortcutKeys(a, key, set_present, no_autoloading) ==
  /\ a \in DOMAIN shortcuts
  /\ IF ~no_autoloading /\ ~shortcuts[a].fresh
     THEN /\ ~shortcuts[a].present /\ set_present
          /\ ActivateGlobalShortcut(bindings_, a, [shortcuts[a] EXCEPT !.present = TRUE])
     ELSE ActivateGlobalShortcut(DeactivateGlobalShortcut(a), a,
            [key |-> key, present |-> set_present, fresh |-> FALSE, binding_id |-> NoKey])
  /\ UNCHANGED <<custom_binding_ids_, user_actions>>

\* setInactive
SetInactive(a) ==
  /\ a \in DOMAIN shortcuts
  /\ bindings_' = DeactivateGlobalShortcut(a)
  /\ shortcuts' = [shortcuts EXCEPT ![a].present = FALSE, ![a].binding_id = NoKey]
  /\ UNCHANGED <<custom_binding_ids_, user_actions>>

\* The actions leave their component, and their bindings with them.
Erase(actions) ==
  /\ bindings_' = Unregister(bindings_, {shortcuts[a].binding_id : a \in actions})
  /\ shortcuts' = [a \in DOMAIN shortcuts \ actions |-> shortcuts[a]]
  /\ UNCHANGED <<custom_binding_ids_, user_actions>>

\* KGlobalAccel's unregister
UnregisterAction(a) == a \in DOMAIN shortcuts /\ Erase({a})

\* The component's cleanUp
CleanUp(component) ==
  LET gone == {a \in DOMAIN shortcuts : a[1] = component /\ ~shortcuts[a].present} IN
  gone # {} /\ Erase(gone)

----------------------------------------------------------------------------
\* InputAction.

\* The bindings without the one the shortcut has.
WithoutCustom(n) ==
  IF n \in custom_binding_ids_ THEN Unregister(bindings_, {KeyOf[n]}) ELSE bindings_

\* The shortcut is registered anew if its key is free.
Bind(n) ==
  /\ bindings_' = Register(WithoutCustom(n), KeyOf[n], Input(n))
  /\ custom_binding_ids_' = IF CanRegister(WithoutCustom(n), KeyOf[n])
                            THEN custom_binding_ids_ \cup {n} ELSE custom_binding_ids_ \ {n}

\* AddAction of a keyboard shortcut; what cannot be registered is not saved.
AddAction(n) ==
  /\ Bind(n)
  /\ user_actions' = IF CanRegister(WithoutCustom(n), KeyOf[n])
                     THEN [user_actions EXCEPT ![n] = "on"] ELSE user_actions
  /\ UNCHANGED shortcuts

\* ControlAction: enable, which saves also what it could not register, disable
\* and delete, which switches a system entry off.
ControlAction(n, control) ==
  /\ Effective(user_actions, n) # "none"
  /\ user_actions' = [user_actions EXCEPT ![n] =
       IF control = "enable" THEN "on"
       ELSE IF control = "disable" \/ System[n] # "none" THEN "off" ELSE "none"]
  /\ IF control = "enable"
     THEN Bind(n)
     ELSE bindings_' = WithoutCustom(n) /\ custom_binding_ids_' = custom_binding_ids_ \ {n}
  /\ UNCHANGED shortcuts

\* The compositor is started again and the configuration is all that is left.
\* SaveConfig truncates the file before it writes it: after a crash in between
\* the file is not JSON and nothing is loaded from it.
Restart(truncated) ==
  /\ user_actions' = IF truncated THEN NoUserActions ELSE user_actions
  /\ bindings_' = LoadInputActions(user_actions')
  /\ custom_binding_ids_' = CustomBindings(bindings_')
  /\ shortcuts' = BuiltIn(bindings_')

RegistryNext ==
  \/ \E a \in Called :
       \/ DoRegister(a) \/ SetInactive(a) \/ UnregisterAction(a)
       \/ \E key \in Keys \cup BadKeys \cup {NoKey} :
            \/ SetForeignShortcutKeys(a, key)
            \/ \E set_present, no_autoloading \in BOOLEAN :
                 SetShortcutKeys(a, key, set_present, no_autoloading)
  \/ \E component \in {"wlcom", "app"} : CleanUp(component)
  \/ \E n \in ToSet(Names) :
       \/ AddAction(n)
       \/ \E control \in {"enable", "disable", "delete"} : ControlAction(n, control)
  \/ \E truncated \in BOOLEAN : Restart(truncated)

(***************************************************************************)
(* Properties.                                                             *)
(***************************************************************************)

\* Every key the compositor takes is its own or belongs to exactly the owner
\* that asks for it now: a present action set to this key, or a shortcut that
\* is switched on.  Every id an owner holds is registered in its name.  A key
\* given up, refused or reassigned runs nothing any more, in whatever order
\* the two interfaces, their refusals and a restart come
\* (ActivateGlobalShortcut, DeactivateGlobalShortcut, AddAction, ControlAction).
BindingsAreOwned ==
  /\ \A k \in DOMAIN bindings_ :
       \/ bindings_[k] = Own /\ k \in OwnKeys
       \/ /\ bindings_[k] \in DOMAIN shortcuts
          /\ LET s == shortcuts[bindings_[k]] IN s.present /\ s.key = k /\ s.binding_id = k
       \/ \E n \in custom_binding_ids_ :
            bindings_[k] = Input(n) /\ KeyOf[n] = k /\ Effective(user_actions, n) = "on"
  /\ OwnKeys \subseteq DOMAIN bindings_
  /\ \A a \in DOMAIN shortcuts : shortcuts[a].binding_id # NoKey =>
       /\ shortcuts[a].binding_id \in DOMAIN bindings_
       /\ bindings_[shortcuts[a].binding_id] = a
  /\ \A n \in custom_binding_ids_ :
       KeyOf[n] \in DOMAIN bindings_ /\ bindings_[KeyOf[n]] = Input(n)
=============================================================================
