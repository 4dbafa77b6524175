---------------------------- MODULE PluginScope ----------------------------
(***************************************************************************)
(* Whose setting is it?  The flat Odbg_* API cannot tell which plugin      *)
(* called it, so PluginManager parks the name of the plugin it is calling  *)
(* in a global (plugin_manager.cpp) and PluginSettingKey (host_exports.cpp)*)
(* reads it back to build the key.                                         *)
(*                                                                         *)
(* Plugins are called on the worker thread (LoadFromDirectory, FirePaused, *)
(* FireCommand; nested, when a plugin's inline command is an unknown verb) *)
(* and on the GUI thread (FireAction, RefreshMenus, CloseAll).             *)
(***************************************************************************)
EXTENDS Naturals, Sequences, SequencesExt

CONSTANTS Plugins,  \* names of the loaded plugins
          Threads,  \* threads that call plugins
          MaxDepth  \* bound on nested plugin calls of a thread

NoPlugin == "" \* no plugin is running; the name of none of them

VARIABLES current, \* g_currentPlugin
          scopes,  \* scopes[t]: PluginScopes alive on thread t, innermost last
          owner,   \* owner[p]: whose code last wrote the setting keyed p
          overlapped \* ghost: two threads have been in plugins at once

vars == <<current, scopes, owner, overlapped>>

\* A scope: the plugin being called, and the name it restores.
Scope(plugin, prev) == [plugin |-> plugin, prev |-> prev]

Running(t) == scopes[t][Len(scopes[t])].plugin

Init ==
    /\ current = NoPlugin
    /\ scopes = [t \in Threads |-> <<>>]
    /\ owner = [p \in Plugins \cup {NoPlugin} |-> p]
    /\ overlapped = FALSE

\* Thread t calls plugin p: the constructor of PluginScope.
Enter(t, p) ==
    /\ Len(scopes[t]) < MaxDepth
    /\ scopes' = [scopes EXCEPT ![t] = Append(@, Scope(p, current))]
    /\ current' = p
    /\ overlapped' = (overlapped \/ \E u \in Threads \ {t} : scopes[u] # <<>>)
    /\ UNCHANGED owner

\* The plugin returns: the destructor of PluginScope.
Exit(t) ==
    /\ scopes[t] # <<>>
    /\ scopes' = [scopes EXCEPT ![t] = Front(@)]
    /\ current' = scopes[t][Len(scopes[t])].prev
    /\ UNCHANGED <<owner, overlapped>>

\* Odbg_Setsetting from the code of the plugin thread t is in.
SetSetting(t) ==
    /\ scopes[t] # <<>>
    /\ owner' = [owner EXCEPT ![current] = Running(t)]
    /\ UNCHANGED <<current, scopes, overlapped>>

Next == \E t \in Threads : Exit(t) \/ SetSetting(t) \/ \E p \in Plugins : Enter(t, p)

Spec == Init /\ [][Next]_vars

-----------------------------------------------------------------------------
TypeOK ==
    /\ current \in Plugins \cup {NoPlugin}
    /\ scopes \in [Threads -> Seq([plugin : Plugins, prev : Plugins \cup {NoPlugin}])]
    /\ owner \in [Plugins \cup {NoPlugin} -> Plugins \cup {NoPlugin}]
    /\ overlapped \in BOOLEAN

\* host_exports.cpp: keys are namespaced "so two plugins can both store
\* "enabled" without stepping on each other".  No setting is written by the
\* code of another plugin, and none of a running plugin's lands under no name.
SettingsApart == \A p \in Plugins \cup {NoPlugin} : owner[p] = p

\* plugin_manager.h: the name of the plugin "running right now, or "" if we are
\* not inside one".  With no plugin running, none is named.
NobodyLeftNamed == (\A t \in Threads : scopes[t] = <<>>) => current = NoPlugin

\* Both fail in one way only: a thread calls a plugin while another is in one.
\* Nested calls, and threads that take turns, do neither any harm.
OnlyOverlapMisnames == ~overlapped => SettingsApart /\ NobodyLeftNamed
=============================================================================
