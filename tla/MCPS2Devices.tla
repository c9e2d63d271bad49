---------------------------- MODULE MCPS2Devices ----------------------------
(* The devices of the runs: three keyboards and a mouse, alone and in pairs. *)
EXTENDS PS2Devices, TLC

MCValues == {ACK, RESEND, RESET_DONE, KEY, "00", "AB", "83", "C1", "AC", "A1"}

Keyboard == [id |-> <<"AB", "83">>, boot |-> <<>>]

TranslatedKeyboard == [id |-> <<"AB", "C1">>, boot |-> <<>>]

SunKeyboard == [id |-> <<"AC", "A1">>, boot |-> <<>>]

StandardMouse == [id |-> <<"00">>, boot |-> <<"00">>]

MCLayouts ==
    {FIRST :> Keyboard @@ SECOND :> StandardMouse,
     FIRST :> StandardMouse @@ SECOND :> SunKeyboard,
     FIRST :> TranslatedKeyboard, SECOND :> StandardMouse, FIRST :> SunKeyboard}

\* The first device refuses bytes up to every attempt; or devices are as slow as they
\* like, either of them refuses a byte, and there are two keys or movements.
MCCircumstances ==
    {[quick |-> TRUE, resenders |-> {FIRST}, maxResends |-> 5, maxKeys |-> 0],
     [quick |-> FALSE, resenders |-> {FIRST, SECOND}, maxResends |-> 1, maxKeys |-> 2]}

MCSlow == {[quick |-> FALSE, resenders |-> {}, maxResends |-> 0, maxKeys |-> 0]}

MCUsual == {FIRST :> Keyboard @@ SECOND :> StandardMouse}
=============================================================================
