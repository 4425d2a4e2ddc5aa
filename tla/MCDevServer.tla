---------------------------- MODULE MCDevServer ----------------------------
(* Two callers, a console and one browser tab: tabs do not interact, and   *)
(* two callers and Enter make four builds with the initial one.            *)
EXTENDS DevServer

CONSTANTS editor, script, tab
Callers == {editor, script}
Tabs == {tab}
============================================================================
