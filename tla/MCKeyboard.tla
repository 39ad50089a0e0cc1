----------------------------- MODULE MCKeyboard -----------------------------
(***************************************************************************)
(* An instance of Keyboard with three setups: a letter and every modifier, *)
(* then the prefixed keys, fake shifts and Pause, both with nobody who     *)
(* reads, for the decoder; and two processes that compete for the          *)
(* characters of two keys.                                                 *)
(***************************************************************************)
EXTENDS Keyboard

CONSTANTS r1, r2, letter, symbol, space, arrow

LetterKeys == {<<FALSE, letter>>, <<FALSE, LeftShift>>, <<FALSE, RightShift>>,
               <<FALSE, CapsLock>>, <<FALSE, Control>>, <<TRUE, Control>>}

\* A symbol with its twin on the keypad, an arrow, and modifiers of both kinds.
PrefixedKeys == {<<FALSE, symbol>>, <<TRUE, symbol>>, <<TRUE, arrow>>,
                 <<FALSE, LeftShift>>, <<FALSE, letter>>, <<TRUE, Control>>}

PlainKeys == {<<FALSE, space>>, <<FALSE, symbol>>}

EveryKey == LetterKeys \cup PrefixedKeys \cup PlainKeys

ThreeSetups == {[keys |-> LetterKeys, pause |-> FALSE, readers |-> {}],
                [keys |-> PrefixedKeys, pause |-> TRUE, readers |-> {}],
                [keys |-> PlainKeys, pause |-> FALSE, readers |-> {r1, r2}]}
=============================================================================
