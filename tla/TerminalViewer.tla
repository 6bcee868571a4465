---------------------------- MODULE TerminalViewer ----------------------------
(***************************************************************************)
(* vv (tools/vv/vv.cpp, Terminal.cpp): it asks the terminal what it can    *)
(* do while a thread loads the image, then draws the image in the best way *)
(* the terminal has.  Answers come late or never, each on its own; a query *)
(* gives up after a second, and takes what one read returns to be its      *)
(* answer.                                                                 *)
(***************************************************************************)
EXTENDS Integers, Sequences, SequencesExt

CONSTANTS
    PictureSizes,     \* <<width, height>>
    ScreenSizes     \* <<width, height>> of the terminal, in pixels

ASSUME SizesAssumption ==
    /\ PictureSizes \cup ScreenSizes \subseteq (Nat \ {0}) \X (Nat \ {0})
    /\ ScreenSizes # {}

VARIABLES
    options,        \* what vv was asked for: output, scale
    terminal,       \* "kitty" or "sixel", "text" (answers with sizes only), "plain" (without), "none"
    image,          \* what imageThread has loaded: kind and size
    gfxMode,
    step,           \* where main stands
    termOpen,       \* s_termFd is open, and the terminal in raw mode
    coming,         \* answers that the terminal has still to give
    input,          \* answers that can be read
    gaveUp,         \* a query has timed out (history)
    torn,           \* the answers of the query for graphics were read in two parts (history)
    animId,         \* whether the terminal's number of the animation is known
    drawn,          \* size of what was drawn
    status          \* exit status

viewerVars == <<options, terminal, image, gfxMode, step, termOpen, coming, input,
                gaveUp, torn, animId, drawn, status>>

Loading == [kind |-> "loading", size |-> <<0, 0>>]
Kinds == {"bitmap", "anim", "vector"}

ViewerInit ==
    /\ options \in [output : {"Kitty", "Sixel", "Block", "WriteFile"}, scale : {"None", "Fit", "Scale2x"}]
    /\ terminal \in {"kitty", "sixel", "text", "plain", "none"}
    /\ image = Loading
    /\ gfxMode = options.output
    /\ step = "start"
    /\ termOpen = FALSE
    /\ coming = <<>> /\ input = <<>>
    /\ gaveUp = FALSE /\ torn = FALSE
    /\ animId = FALSE
    /\ drawn = <<0, 0>>
    /\ status = "running"

request == <<options, terminal>>
-----------------------------------------------------------------------------
(* imageThread, and the terminal.                                          *)

ImageThread ==
    /\ image = Loading
    /\ image' \in [kind : Kinds, size : PictureSizes] \cup {[kind |-> "none", size |-> <<0, 0>>]}
    /\ UNCHANGED <<request, gfxMode, step, termOpen, coming, input, gaveUp, torn, animId, drawn, status>>

Answer ==
    /\ coming # <<>>
    /\ input' = Append(input, Head(coming))
    /\ coming' = Tail(coming)
    /\ UNCHANGED <<request, image, gfxMode, step, termOpen, gaveUp, torn, animId, drawn, status>>

(* The query for graphics ends with one every terminal answers.            *)
SizeAnswers == IF terminal = "plain" THEN <<>> ELSE <<"size">>
GraphicsAnswers ==
    IF terminal = "kitty" THEN <<"ok", "attributes">>
    ELSE IF terminal = "sixel" THEN <<"sixel">> ELSE <<"attributes">>

(* QueryTerminal returns what can be read, or nothing after a second.      *)
Reads(answers) == input # <<>> /\ answers = input /\ input' = <<>> /\ UNCHANGED gaveUp
TimesOut(answers) == input = <<>> /\ answers = <<>> /\ gaveUp' = TRUE /\ UNCHANGED input
Returns(answers) == Reads(answers) \/ TimesOut(answers)

Replies == {<<>>, input}
-----------------------------------------------------------------------------
(* main.                                                                   *)

OpenTerminal ==
    /\ step = "start"
    /\ IF gfxMode \in {"Block", "WriteFile"} \/ terminal = "none"
         THEN /\ gfxMode' = IF gfxMode = "WriteFile" THEN gfxMode ELSE "Block"
              /\ step' = "join"
              /\ UNCHANGED <<termOpen, coming>>
         ELSE /\ termOpen' = TRUE
              /\ coming' = SizeAnswers
              /\ step' = "size"
              /\ UNCHANGED gfxMode
    /\ UNCHANGED <<request, image, input, gaveUp, torn, animId, drawn, status>>

CharacterSize ==
    /\ step = "size"
    /\ \E answers \in Replies :
         /\ Returns(answers)
         /\ IF answers # <<>> /\ Head(answers) = "size"
              THEN /\ step' = "graphics"
                   /\ coming' = coming \o GraphicsAnswers
                   /\ UNCHANGED gfxMode
              ELSE /\ step' = "join"
                   /\ gfxMode' = "Block"
                   /\ UNCHANGED coming
    /\ UNCHANGED <<request, image, termOpen, torn, animId, drawn, status>>

GraphicsUnlessSilent ==
    /\ step = "graphics"
    /\ step' = "join"
    /\ \E answers \in Replies :
         /\ Returns(answers)
         /\ torn' = (answers = <<"ok">>)
         /\ gfxMode' = IF answers = <<>> THEN "Block"
                       ELSE IF Head(answers) = "sixel" THEN "Sixel" ELSE gfxMode
    /\ UNCHANGED <<request, image, termOpen, coming, animId, drawn, status>>

Graphics ==
    /\ step = "graphics"
    /\ step' = "join"
    /\ \E answers \in Replies :
         /\ Returns(answers)
         /\ torn' = (answers = <<"ok">>)
         /\ gfxMode' = IF answers = <<>> THEN "Block"
                       ELSE IF Head(answers) = "ok" THEN gfxMode
                       ELSE IF Head(answers) = "sixel" THEN "Sixel"
                       ELSE "Block"
    /\ UNCHANGED <<request, image, termOpen, coming, animId, drawn, status>>

(* CloseTerminal, run at exit, discards what was not read.                 *)
Exit(code) ==
    /\ step' = "exited"
    /\ status' = code
    /\ termOpen' = FALSE
    /\ input' = <<>>

Join ==
    /\ step = "join"
    /\ image # Loading
    /\ IF image.kind = "none"
         THEN Exit("failed")
         ELSE step' = "draw" /\ UNCHANGED <<status, termOpen, input>>
    /\ UNCHANGED <<request, image, gfxMode, coming, gaveUp, torn, animId, drawn>>

(* The largest size of the image's proportions on the screen; where the    *)
(* product is whole, the float may be truncated to the number below.       *)
Shrunk(size, screen) ==
    LET exact(a, b) == (size[a] * screen[b]) \div size[b]
        limit == IF screen[1] * size[2] <= screen[2] * size[1] THEN 1 ELSE 2
        whole == [a \in {1, 2} |-> IF a = limit THEN screen[a] ELSE exact(a, limit)]
    IN  {<<w, h>> : w \in {whole[1], IF limit = 1 THEN whole[1] - 1 ELSE whole[1]},
                    h \in {whole[2], IF limit = 2 THEN whole[2] - 1 ELSE whole[2]}}

Twice(size) == <<size[1] * 2, size[2] * 2>>
Within(size, screen) == size[1] <= screen[1] /\ size[2] <= screen[2]

(* AdjustBitmap.                                                           *)
Adjusted(size, screen) ==
    IF options.scale = "Fit" \/ ~Within(size, screen) THEN Shrunk(size, screen)
    ELSE IF options.scale = "Scale2x" /\ Within(Twice(size), screen) THEN {Twice(size)}
    ELSE {size}

(* An animation in blocks is played until vv is killed; one in Kitty's way *)
(* waits for the terminal to number it.                                    *)
DrawImage(screen) ==
    /\ step = "draw"
    /\ IF gfxMode = "Sixel" /\ image.kind = "anim"
         THEN drawn' = drawn
         ELSE drawn' \in IF gfxMode = "WriteFile" THEN {image.size} ELSE Adjusted(image.size, screen)
    /\ IF image.kind # "anim" \/ gfxMode = "WriteFile"
         THEN Exit("done") /\ UNCHANGED coming
         ELSE \/ /\ gfxMode = "Sixel"
                 /\ Exit("failed")
                 /\ UNCHANGED coming
              \/ /\ gfxMode = "Block"
                 /\ step' = "playing"
                 /\ UNCHANGED <<status, termOpen, coming, input>>
              \/ /\ gfxMode = "Kitty"
                 /\ coming' = Append(coming, "number")
                 /\ step' = "numbered"
                 /\ UNCHANGED <<status, termOpen, input>>
    /\ UNCHANGED <<request, image, gfxMode, gaveUp, torn, animId>>

(* The answer must end with the number's OK, and is scanned from its start.*)
Upload ==
    /\ step = "numbered"
    /\ \E answers \in Replies :
         /\ Returns(answers)
         /\ IF answers # <<>> /\ Last(answers) = "number"
              THEN /\ animId' = (Head(answers) = "number")
                   /\ step' = "frames"
                   /\ UNCHANGED <<status, termOpen>>
              ELSE /\ step' = "exited"
                   /\ status' = "failed"
                   /\ termOpen' = FALSE
                   /\ UNCHANGED animId
    /\ UNCHANGED <<request, image, gfxMode, coming, torn, drawn>>

Frames ==
    /\ step = "frames"
    /\ Exit("done")
    /\ UNCHANGED <<request, image, gfxMode, coming, gaveUp, torn, animId, drawn>>

ViewerNext ==
    \/ ImageThread
    \/ Answer
    \/ OpenTerminal
    \/ CharacterSize
    \/ Graphics
    \/ Join
    \/ \E screen \in ScreenSizes : DrawImage(screen)
    \/ Upload
    \/ Frames
-----------------------------------------------------------------------------
(* Properties.                                                             *)

(* However the answers are delayed, merged and torn apart, vv never draws  *)
(* in a way the terminal does not have, unless it was told to.             *)
ModeIsSupported ==
    step \in {"draw", "numbered", "frames"} =>
        /\ gfxMode = "Kitty" => terminal = "kitty"
        /\ gfxMode = "Sixel" => terminal = "sixel" \/ (terminal = "kitty" /\ options.output = "Sixel")

(* What is drawn fits the screen, whatever scaling was asked for, and the  *)
(* terminal is left as it was found.                                       *)
DrawnFits ==
    /\ step \in {"exited", "playing"} /\ gfxMode # "WriteFile" => \E s \in ScreenSizes : Within(drawn, s)
    /\ step = "exited" => ~termOpen

(* An animation is shown, under the number the terminal gave it, unless an *)
(* answer came after its query had been given up, or the two answers to    *)
(* the query for graphics were not read as one.                            *)
AnimationIsShown ==
    step \in {"frames", "exited"} /\ image.kind = "anim" /\ gfxMode = "Kitty" /\ ~gaveUp /\ ~torn => animId

(* Whatever the delays, the image is drawn in a way the terminal has and   *)
(* fits it, and an animation that it is asked to play is played.           *)
ShownAsTerminalCan == ModeIsSupported /\ DrawnFits /\ AnimationIsShown
=============================================================================
