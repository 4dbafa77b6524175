---------------------------- MODULE MCDbgSession ----------------------------
(* The verbs each run of DbgSession lets users and plugins send. *)
EXTENDS DbgSession

\* Every verb and job; a plugin may send all but bp.
VerbsAll == AllVerbs
PluginAll == AllVerbs \ {"bp"}

\* Plugins that restart.
PluginRestart == {"restart"}

\* For liveness: no edits, and break-ins are not ignored.
VerbsLive == {"launch", "attach", "restart", "kill", "g", "si", "pause", "ht", "breakentry",
              "Odbg_Go", "Odbg_Pause"}
PluginLive == {"g", "si", "kill", "Odbg_Go"}

\* A user who edits breakpoints, follows children and ignores 0x80000003.
VerbsRefuted == {"launch", "g", "bp", "ht", "childdbg", "breakentry", "ignoreexc"}

NoVerbs == {}
=============================================================================
