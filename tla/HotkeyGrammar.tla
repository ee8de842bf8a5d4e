----------------------------- MODULE HotkeyGrammar -----------------------------
(***************************************************************************)
(* The accelerator grammar of contracts/hotkey.rs.  A text is the sequence *)
(* of its tokens: separators, blanks and letter case are gone.  One        *)
(* spelling stands for each kind of token.  A canonical binding is a text  *)
(* too: its modifiers in rank order, repetitions kept, then the key.       *)
(***************************************************************************)
EXTENDS Integers, SequencesExt

CONSTANT Unbound

Rank == <<"CommandOrControl", "Alt", "Shift", "Super">>

\* canonicalise_modifier over data/hotkey_modifiers.json, an alias of each kind.
Modifier == [CommandOrControl |-> "CommandOrControl", ctl |-> "CommandOrControl",
             Alt |-> "Alt", option |-> "Alt", Shift |-> "Shift", Super |-> "Super"]

PlainKeys == {"S", "7"}
SelfKeys  == {"F12", "HOME"}       \* F1..F24 and SUPPORTED_KEYS
NoKeys    == {"F25", "BOGUS"}

Tokens == DOMAIN Modifier \cup PlainKeys \cup SelfKeys \cup NoKeys

\* Characters of a token.
Width == [CommandOrControl |-> 16, ctl |-> 3, Alt |-> 3, option |-> 6, Shift |-> 5,
          Super |-> 5, S |-> 1, F12 |-> 3, HOME |-> 4, F25 |-> 3, BOGUS |-> 5]
         @@ ("7" :> 1)

MaxBindingLen == 64

\* The length of a text joined with "+".
TextLen(text) == FoldSeq(LAMBDA t, n : n + Width[t] + 1, -1, text)

IsModifier(t) == t \in DOMAIN Modifier
IsMainKey(t)  == t \in PlainKeys \cup SelfKeys

\* Modifiers first, one key last; a plain key needs a modifier.
WellFormed(text) ==
  /\ text # << >> /\ TextLen(text) <= MaxBindingLen
  /\ \A i \in DOMAIN text : IF i = Len(text) THEN IsMainKey(text[i])
                                             ELSE IsModifier(text[i])
  /\ Len(text) = 1 => text[1] \in SelfKeys

\* Seeded fault: the modifiers keep the order they were typed in.
CanonicalAsTyped(text) ==
  [i \in DOMAIN text |-> IF i = Len(text) THEN text[i] ELSE Modifier[text[i]]]

Canonical(text) ==
  LET named == [i \in 1..Len(text) - 1 |-> Modifier[text[i]]]
      Ranked(i) == SelectSeq(named, LAMBDA m : m = Rank[i])
  IN  Append(FlattenSeq([i \in DOMAIN Rank |-> Ranked(i)]), Last(text))

ParseBinding(text) ==
  IF text # Unbound /\ WellFormed(text) THEN Canonical(text) ELSE Unbound

\* The id the plugin gives a chord: its modifiers as bits, and its key.
ShortcutId(text) ==
  [mods |-> {Modifier[text[i]] : i \in 1..Len(text) - 1}, key |-> Last(text)]

\* display_binding: humanise_token per token.
Human == [CommandOrControl |-> "Ctrl", Alt |-> "Alt", Shift |-> "Shift", Super |-> "Win"]
DisplayBinding(text) ==
  [i \in DOMAIN text |-> IF text[i] \in DOMAIN Human THEN Human[text[i]] ELSE text[i]]
=============================================================================
