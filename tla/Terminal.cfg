SPECIFICATION Spec
CONSTANTS
    Keys <- Letters
    Cols = 5
    GlyphHeight = 3
    Height = 13
    MaxInput = 3
    Messages <- BootMessages
    Leftovers <- BehindNul
    Hello <- CmdHello
    Cls <- CmdCls
    Time <- CmdTime
    Stime <- CmdStime
INVARIANTS
    InputLineShown
    OutputShown
