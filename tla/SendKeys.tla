------------------------------- MODULE SendKeys -------------------------------
(* Key strings turned into strokes (SendKeys.cpp). A string is a sequence of *)
(* items: a sign, a character, or what is between two braces; characters are *)
(* codes. The keyboard is the sequence of what is sent to it. As on any      *)
(* Windows since NT, with every brace closed and no longer than its buffer;  *)
(* the messages a sender that waits handles in between are left out.         *)
EXTENDS CrtText

CONSTANTS
    KeyNames,       \* the table of names: name, VKey and normalkey, sorted by name
    ExtendedVKeys,  \* the keys of the extended part of the keyboard
    KeyLayout,      \* VkKeyScan: the characters' keys, with their modifiers
    KeyRoom,        \* sizeof(KeyString)
    Desktop,        \* the top windows, front to back: their titles and classes
    NoCriterion     \* a title or a class that is NULL

VK_SHIFT == 16
VK_CONTROL == 17
VK_MENU == 18
VK_LWIN == 91
VK_RETURN == 13
VK_NUMLOCK == 144
INVALIDKEY == 65535

VkKeyScan(ch) == IF ch \in DOMAIN KeyLayout THEN KeyLayout[ch] ELSE INVALIDKEY

HIBYTE(MKey) == MKey \div 256
LOBYTE(MKey) == MKey % 256

\* The modifiers of bits 1, 2 and 4, in the order in which they are pressed.
ShiftKeys(bits) ==
    SelectSeq(<<VK_SHIFT, VK_CONTROL, VK_MENU>>,
              LAMBDA k : (bits \div (2 ^ (k - VK_SHIFT))) % 2 = 1)

-----------------------------------------------------------------------------
(* Single keys.                                                              *)

KeyboardEvent(s, VKey, up, extended) ==
    [s EXCEPT !.sent = Append(@, [key |-> VKey, up |-> up, extended |-> extended])]

CarryDelay(s) ==
    [s EXCEPT !.slept = @ + IF s.delayNow = 0 THEN s.delayAlways ELSE s.delayNow, !.delayNow = 0]

SendKeyUp(s, VKey) == KeyboardEvent(s, VKey, TRUE, VKey \in ExtendedVKeys)

\* Down, and up again: the up event is always of an extended key.
Press(s, VKey, GenUpMsg) ==
    LET down == KeyboardEvent(s, VKey, FALSE, VKey \in ExtendedVKeys \cup {VK_NUMLOCK})
    IN  IF GenUpMsg \/ VKey = VK_NUMLOCK THEN KeyboardEvent(down, VKey, TRUE, TRUE) ELSE down

SendKeyDown(s, VKey, NumTimes, GenUpMsg, bDelay) ==
    Loop(LAMBDA t, i : Press(IF bDelay THEN CarryDelay(t) ELSE t, VKey, GenUpMsg), s, NumTimes)

SendKey(s, MKey, NumTimes) ==
    LET keys == ShiftKeys(HIBYTE(MKey))
        down == FoldLeft(LAMBDA t, k : SendKeyDown(t, k, 1, FALSE, FALSE), s, keys)
    IN  FoldLeft(SendKeyUp, SendKeyDown(down, LOBYTE(MKey), NumTimes, TRUE, TRUE), keys)

SendChar(s, ch) == SendKey(s, VkKeyScan(ch), 1)

-----------------------------------------------------------------------------
(* Names.                                                                    *)

tcsnicmp(l, r, n) == wcsnicmp(l, r, n)

\* As many characters are compared as the string has: it may be the beginning of
\* the name that is found. The places count from 0; Null is INVALIDKEY's.
StringToVKey(KeyString) ==
    LET Step(s, k) ==
            LET Middle == (s.Bottom + s.Top) \div 2
                cmp == tcsnicmp(KeyNames[Middle + 1].name, KeyString, Len(KeyString))
            IN  IF s.Found # Null \/ s.Collided THEN s
                ELSE [Found |-> IF cmp = 0 THEN Middle ELSE Null,
                      Collided |-> Middle \in {s.Bottom, s.Top},
                      Bottom |-> IF cmp < 0 THEN Middle ELSE s.Bottom,
                      Top |-> IF cmp > 0 THEN Middle ELSE s.Top]
    IN  Loop(Step, [Found |-> Null, Collided |-> FALSE, Bottom |-> 0, Top |-> Len(KeyNames)],
             Len(KeyNames) + 1).Found

-----------------------------------------------------------------------------
(* Windows.                                                                  *)

Within(s, p) == \E at \in 0 .. Len(s) - Len(p) : Part(s, at, Len(p)) = p

\* Of the title or of the class: an empty one is no criterion here.
enumwindowsProc(w, WindowTitle, WindowClass) ==
    \/ WindowClass \notin {NoCriterion, <<>>} /\ Within(w.class, WindowClass)
    \/ WindowTitle \notin {NoCriterion, <<>>} /\ Within(w.title, WindowTitle)

FindWindow(WindowClass, WindowTitle) ==
    {i \in DOMAIN Desktop : /\ WindowClass # NoCriterion => wcsicmp(Desktop[i].class, WindowClass) = 0
                            /\ WindowTitle # NoCriterion => wcsicmp(Desktop[i].title, WindowTitle) = 0}

\* The window that comes to the front, or 0.
AppActivate(WindowTitle, WindowClass) ==
    LET exact == FindWindow(WindowClass, WindowTitle)
        near == {i \in DOMAIN Desktop : enumwindowsProc(Desktop[i], WindowTitle, WindowClass)}
    IN  IF exact # {} THEN Min(exact) ELSE IF near # {} THEN Min(near) ELSE 0

-----------------------------------------------------------------------------
(* Strings of keys.                                                          *)

\* In a group and in none; in none whether or not there is one.
PopUpInGroups(s) == [FoldLeft(SendKeyUp, s, s.down) EXCEPT !.down = <<>>]
PopUpShiftKeys(s) == IF s.parens THEN s ELSE PopUpInGroups(s)

ModifierOf == [x \in {"%", "+", "^", "@"} |->
    CASE x = "%" -> VK_MENU [] x = "+" -> VK_SHIFT [] x = "^" -> VK_CONTROL [] x = "@" -> VK_LWIN]

\* The order in which they are taken up again.
Released == <<VK_SHIFT, VK_CONTROL, VK_MENU, VK_LWIN>>

HoldDown(s, VKey) ==
    LET held == {s.down[i] : i \in DOMAIN s.down} \cup {VKey}
    IN  [SendKeyDown(s, VKey, 1, FALSE, FALSE) EXCEPT !.down = SelectSeq(Released, LAMBDA k : k \in held)]

VKEY == <<86, 75, 69, 89>>
BEEP == <<66, 69, 69, 80>>
APPACTIVATE == <<65, 80, 80, 65, 67, 84, 73, 86, 65, 84, 69>>
DELAY == <<68, 69, 76, 65, 89>>
Says(KeyString, word) == tcsnicmp(KeyString, word, Len(word)) = 0
Argument(KeyString, word) == SubSeq(KeyString, Len(word) + 1, Len(KeyString))

ttoi(text) == LET num == ReadNumber(text, Len(text), 10, FALSE).num IN IF num = Unset THEN 0 ELSE num

\* A key that is valid; NumTimes is what the last name set, or never set.
SendValid(s, MKey) ==
    IF MKey = INVALIDKEY THEN s ELSE PopUpShiftKeys(SendKey(s, MKey, s.NumTimes))

\* A count behind a name never gets here: with it, no name is found.
SendName(s, idx) ==
    IF idx = Null THEN s
    ELSE SendValid([s EXCEPT !.NumTimes = 1],
                   IF KeyNames[idx + 1].normalkey THEN VkKeyScan(KeyNames[idx + 1].VKey)
                   ELSE KeyNames[idx + 1].VKey)

SetDelay(s, p) ==
    IF Chr(p, 0) = 61 THEN [s EXCEPT !.delayAlways = ttoi(Tail(p))] ELSE [s EXCEPT !.delayNow = ttoi(p)]

SendBrace(s, KeyString) ==
    CASE Says(KeyString, VKEY) -> SendValid(s, ttoi(Argument(KeyString, VKEY)))
      [] Says(KeyString, BEEP) -> s
      [] Says(KeyString, APPACTIVATE) ->
            [s EXCEPT !.front = AppActivate(Argument(Tail(KeyString), APPACTIVATE), NoCriterion)]
      [] Says(KeyString, DELAY) -> SetDelay(s, Argument(KeyString, DELAY))
      [] OTHER -> SendName(s, StringToVKey(KeyString))

SendItem(s, item) ==
    CASE item.is = "(" -> [s EXCEPT !.parens = TRUE]
      [] item.is = ")" -> PopUpShiftKeys([s EXCEPT !.parens = FALSE])
      [] item.is \in DOMAIN ModifierOf -> HoldDown(s, ModifierOf[item.is])
      [] item.is = "~" -> PopUpShiftKeys(SendKeyDown(s, VK_RETURN, 1, TRUE, FALSE))
      [] item.is = "{" -> SendBrace(s, item.text)
      [] OTHER -> PopUpShiftKeys(SendKey(s, VkKeyScan(item.text[1]), 1))

\* A definition too big ends it all, whatever is down. NumTimes is not set.
SendKeys(keys, NumTimes) ==
    LET Big(item) == item.is = "{" /\ Len(item.text) + 1 > KeyRoom
        Step(s, i) ==
            IF s.failed \/ Big(keys[i + 1]) THEN [s EXCEPT !.failed = TRUE] ELSE SendItem(s, keys[i + 1])
        start == [sent |-> <<>>, down |-> <<>>, parens |-> FALSE, NumTimes |-> NumTimes, front |-> 0,
                  delayNow |-> 0, delayAlways |-> 0, slept |-> 0, failed |-> FALSE]
        end == Loop(Step, start, Len(keys))
    IN  IF end.failed THEN end ELSE PopUpShiftKeys([end EXCEPT !.parens = FALSE])
=============================================================================
