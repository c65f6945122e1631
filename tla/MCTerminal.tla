------------------------------ MODULE MCTerminal ------------------------------
(* Terminal with four lines of five glyphs and a height that is no multiple  *)
(* of the line's.  An input of three characters fills its line, so that the  *)
(* echo wraps; every boot message scrolls the screen sooner or later.        *)
EXTENDS Terminal

CmdHello == <<"h", "e">>
CmdCls == <<"c", "l">>
CmdTime == <<"t">>
CmdStime == <<"s">>
Letters == {"h", "e", "c", "t", "s"}
BootMessages == {<<"B", NL>>, <<"B", "o", "o", "t", "e", "d", NL>>, <<"B", "o", "o", "t", NL>>}
BehindNul == {<< >>, <<SPACE>>, <<"j", "j", "j">>}
=============================================================================
