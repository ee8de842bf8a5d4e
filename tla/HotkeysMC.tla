------------------------------- MODULE HotkeysMC -------------------------------
EXTENDS Hotkeys

G == INSTANCE HotkeyGrammar

C == "CommandOrControl"
\* A chord, a spelling of it whose canonical text is too long to parse again,
\* and a second chord.
Long(m) == <<m, m, m, m, "S">>
MCTexts == {<<C, "S">>, Long("ctl"), Long(C), <<"F12">>}
MCParse(t) == G!ParseBinding(t)
MCId(t) == G!ShortcutId(t)
MCIds == {MCId(t) : t \in MCTexts}
=============================================================================
