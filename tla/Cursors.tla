------------------------------ MODULE Cursors ------------------------------
(***************************************************************************)
(* The mouse cursor (cursor/): a theme is loaded from X cursors, or else   *)
(* from Windows cursors, file after file, any of which may be missing or   *)
(* end too early; then CursorLogic shows one cursor of it after another    *)
(* and runs their animations, looking at the clock when it is asked to.    *)
(*                                                                         *)
(* A cursor type is its number; 0 is Default.  What a theme has of a type  *)
(* in a size is the number of its bitmaps and the sequence of its frames,  *)
(* each a delay and the index of a bitmap.                                 *)
(***************************************************************************)
EXTENDS Integers, SequencesExt, FiniteSetsExt

CONSTANTS
    NumTypes,       \* number of cursor types
    CursorSizes,    \* sizes of the bitmaps in files; 32 is one
    WantedSizes,    \* what mouse.ini asks for
    Themes,         \* names of themes; 1 is the one that mouse.ini names
    Delays,         \* of frames; those of 0 are excluded
    MaxImages,      \* bound on the images of one size in a file, and on the steps of an animation
    NumPaths,       \* directories in which Windows cursors are looked for
    MaxPause        \* bound on the time between two looks at the clock

ASSUME NumTypesAssumption == NumTypes \in Nat \ {0}
ASSUME CursorSizesAssumption == CursorSizes \subseteq Nat \ {0} /\ IsFiniteSet(CursorSizes) /\ 32 \in CursorSizes
ASSUME WantedSizesAssumption == WantedSizes \subseteq Nat
ASSUME ThemesAssumption == 1 \in Themes
ASSUME DelaysAssumption == Delays \subseteq Nat \ {0}
ASSUME CursorBoundsAssumption == MaxImages \in Nat /\ MaxPause \in Nat

CursorTypes == 0 .. NumTypes - 1

VARIABLES
    making,         \* what is being made: "themes", "x", "win", "logic", "shown", or an end
    todo, done,     \* themes to look at, themes looked at
    themeData,      \* directories with cursors
    file,           \* <<directory, type>> of the file that comes next
    left,           \* types that XCursor has still to find
    m_cursor,       \* what the theme has of each size and type
    m_size,         \* the size in use
    gaveUpAni,      \* a .ani was given up after some of its pictures (history)
    m_type, m_frame, m_frameTime, m_needUpdate,
    pause,          \* time since m_lastTime
    age,            \* time the animation has run at m_lastTime (history)
    onScreen        \* the bitmap that is drawn (history)

themeVars == <<todo, done, themeData, file, left>>
shownVars == <<m_type, m_frame, m_frameTime, m_needUpdate, pause, age, onScreen>>
cursorVars == <<making, themeVars, m_cursor, m_size, gaveUpAni, shownVars>>

NoCursorData == [bitmaps |-> 0, frames |-> <<>>]
NoCursors == [s \in CursorSizes |-> [t \in CursorTypes |-> NoCursorData]]

SizesIn(cursor) == {s \in CursorSizes : \E t \in CursorTypes : cursor[s][t].bitmaps > 0}

CursorsInit ==
    /\ making = "themes"
    /\ todo = <<1>> /\ done = {} /\ themeData = <<>>
    /\ file = <<1, 0>> /\ left = NumTypes
    /\ m_cursor = NoCursors /\ m_size = 0 /\ gaveUpAni = FALSE
    /\ m_type = 0 /\ m_frame = 0 /\ m_frameTime = 0 /\ m_needUpdate = FALSE
    /\ pause = 0 /\ age = 0 /\ onScreen = <<0, 0>>
-----------------------------------------------------------------------------
(* X cursors: a theme is looked for with all that it inherits.  It is in   *)
(* one directory.                                                          *)

GetThemeData ==
    /\ making = "themes" /\ todo # <<>>
    /\ IF Head(todo) \in done
         THEN todo' = Tail(todo) /\ UNCHANGED <<done, themeData>>
         ELSE \E parents \in BoundedSeq(Themes, 2), cursors \in BOOLEAN :
                /\ todo' = Tail(todo) \o parents
                /\ done' = done \cup {Head(todo)}
                /\ themeData' = IF cursors THEN Append(themeData, Head(todo)) ELSE themeData
    /\ UNCHANGED <<making, file, left, m_cursor, m_size, gaveUpAni, shownVars>>

(* The images of a file, of which those of each size are the delays in     *)
(* their order, as cursors of a type that has had none.                    *)
WithImages(cursor, t, delays) ==
    [s \in CursorSizes |->
        IF delays[s] = <<>> THEN cursor[s]
        ELSE [cursor[s] EXCEPT ![t] =
                [bitmaps |-> Len(delays[s]),
                 frames |-> [i \in DOMAIN delays[s] |-> [delay |-> delays[s][i], frame |-> i - 1]]]]]

XCursorImages == [CursorSizes -> BoundedSeq(Delays, MaxImages)]

NextFile == IF file[2] = NumTypes - 1 THEN <<file[1] + 1, 0>> ELSE <<file[1], file[2] + 1>>

(* A file that is missing or ends too early counts as missing, but the     *)
(* images before its end are kept; and no other file is read for a type    *)
(* of which there are any.                                                 *)
LoadXCursorFile ==
    /\ making = "themes" /\ todo = <<>>
    /\ left > 0 /\ file[1] <= Len(themeData)
    /\ file' = NextFile
    /\ IF \E s \in CursorSizes : m_cursor[s][file[2]].bitmaps > 0
         THEN UNCHANGED <<left, m_cursor>>
         ELSE \E images \in XCursorImages, complete \in BOOLEAN :
                /\ m_cursor' = WithImages(m_cursor, file[2], images)
                /\ left' = IF complete THEN left - 1 ELSE left
    /\ UNCHANGED <<making, todo, done, themeData, m_size, gaveUpAni, shownVars>>

EndXCursor ==
    /\ making = "themes" /\ todo = <<>>
    /\ left = 0 \/ file[1] > Len(themeData)
    /\ making' = IF SizesIn(m_cursor) = {} THEN "win" ELSE "logic"
    /\ todo' = <<>> /\ done' = {} /\ themeData' = <<>>
    /\ file' = <<1, 0>> /\ left' = 0
    /\ UNCHANGED <<m_cursor, m_size, gaveUpAni, shownVars>>
-----------------------------------------------------------------------------
(* Windows cursors.  A .cur has one image of each of its sizes, a .ani one *)
(* of each of its sizes for every picture, and perhaps the delay of every  *)
(* step and the order of the pictures.                                     *)

AniFiles ==
    [sizes : (SUBSET CursorSizes) \ {{}}, pictures : 1 .. MaxImages, displayRate : Delays,
     rate : BoundedSeq(Delays, MaxImages), seq : BoundedSeq(0 .. MaxImages - 1, MaxImages)]

SoundAniFiles ==
    {ani \in AniFiles :
        /\ \A i \in DOMAIN ani.seq : ani.seq[i] < ani.pictures
        /\ ani.rate # <<>> => ani.displayRate = Min(Delays)     \* not looked at then
        /\ ani.rate # <<>> /\ ani.seq # <<>> => Len(ani.rate) = Len(ani.seq)}

WithPictures(cursor, t, ani) ==
    [s \in CursorSizes |->
        IF s \in ani.sizes THEN [cursor[s] EXCEPT ![t] = [bitmaps |-> ani.pictures, frames |-> <<>>]]
        ELSE cursor[s]]

(* What the file says of its frames; without an order, each size has as    *)
(* many as it has bitmaps.                                                 *)
FramesOf(ani, bitmaps) ==
    LET n == IF ani.seq # <<>> THEN Len(ani.seq) ELSE bitmaps
    IN  [i \in 1 .. n |->
            [delay |-> IF ani.rate # <<>> THEN ani.rate[i] ELSE ani.displayRate,
             frame |-> IF ani.seq # <<>> THEN ani.seq[i] ELSE i - 1]]

RateFits(ani, bitmaps) ==
    ani.rate = <<>> \/ Len(ani.rate) = IF ani.seq # <<>> THEN Len(ani.seq) ELSE bitmaps

WithFrames(cursor, t, ani, sizes) ==
    [s \in CursorSizes |->
        IF s \in sizes THEN [cursor[s] EXCEPT ![t].frames = FramesOf(ani, cursor[s][t].bitmaps)]
        ELSE cursor[s]]

LoadCur(t, result) ==
    \E sizes \in SUBSET CursorSizes, complete \in BOOLEAN :
        /\ m_cursor' = WithImages(m_cursor, t, [s \in CursorSizes |-> IF s \in sizes THEN <<0>> ELSE <<>>])
        /\ result = complete
        /\ UNCHANGED gaveUpAni

(* The sizes are gone through in any order, and those the file does not    *)
(* have, but others do, with them.                                         *)
LoadAni(t, result) ==
    \E ani \in SoundAniFiles :
        LET all == WithPictures(m_cursor, t, ani)
            fits == {s \in SizesIn(all) : RateFits(ani, all[s][t].bitmaps)}
        IN  \/ /\ m_cursor' = all           \* it ends too early
               /\ result = FALSE /\ gaveUpAni' = TRUE
            \/ /\ fits = SizesIn(all)
               /\ m_cursor' = WithFrames(all, t, ani, fits)
               /\ result = TRUE /\ UNCHANGED gaveUpAni
            \/ /\ fits # SizesIn(all)
               /\ \E before \in SUBSET fits : m_cursor' = WithFrames(all, t, ani, before)
               /\ result = FALSE /\ gaveUpAni' = TRUE

LoadCursor(t, result) == LoadCur(t, result) \/ LoadAni(t, result)

(* The default cursor decides which of the directories is used, and makes  *)
(* the theme, even if its file is given up.                                *)
LoadWinDefault ==
    /\ making = "win" /\ file[2] = 0 /\ file[1] <= NumPaths
    /\ \/ /\ file' = <<file[1] + 1, 0>>     \* no theme.ini
          /\ UNCHANGED <<making, m_cursor, gaveUpAni>>
       \/ \E ok \in BOOLEAN :
          /\ LoadCursor(0, ok)
          /\ making' = IF ok /\ 32 \notin SizesIn(m_cursor') THEN "panicked"
                       ELSE IF ~ok /\ SizesIn(m_cursor') # {} THEN "logic"
                       ELSE "win"
          /\ file' = IF ok THEN <<file[1], 1>> ELSE <<file[1] + 1, 0>>
    /\ UNCHANGED <<todo, done, themeData, left, m_size, shownVars>>

LoadWinCursor ==
    /\ making = "win" /\ file[2] \in 1 .. NumTypes - 1
    /\ \/ UNCHANGED <<m_cursor, gaveUpAni>>
       \/ \E ok \in BOOLEAN : LoadCursor(file[2], ok)
    /\ file' = <<file[1], file[2] + 1>>
    /\ UNCHANGED <<making, todo, done, themeData, left, m_size, shownVars>>

EndWinCursor ==
    /\ making = "win"
    /\ \/ file[1] > NumPaths /\ making' = "failed"
       \/ file[2] = NumTypes /\ making' = "logic"
    /\ file' = <<1, 0>>
    /\ UNCHANGED <<todo, done, themeData, left, m_cursor, m_size, gaveUpAni, shownVars>>
-----------------------------------------------------------------------------
(* The size, and the cursors shown in it.                                  *)

FitSize(size) ==
    LET sizes == SizesIn(m_cursor)
        next == Min({s \in sizes : s >= size})
        prev == Max({s \in sizes : s < size})
    IN  CASE size < Min(sizes) -> Min(sizes)
          [] size > Max(sizes) -> Max(sizes)
          [] size \in sizes -> size
          [] OTHER -> IF next - size > size - prev THEN prev ELSE next

(* The types that have no bitmaps in this size look like the default.  So  *)
(* Get always finds a cursor, and SetCursor never the lack of one.         *)
Looks(cursor, size, t) == IF cursor[size][t].bitmaps = 0 THEN 0 ELSE t
Get(cursor, size, t) == cursor[size][Looks(cursor, size, t)]

Current == Get(m_cursor, m_size, m_type)
Animates(data) == data.bitmaps # 1
Bitmap(data, frame) == IF Animates(data) THEN data.frames[frame + 1].frame ELSE 0

(* The constructors of CursorTheme and CursorLogic.  No other size is      *)
(* looked at from now on, and what it has is forgotten.                    *)
MakeLogic ==
    /\ making = "logic"
    /\ \E wanted \in WantedSizes :
          LET size == FitSize(wanted)
              data == Get(m_cursor, size, 0)
          IN  /\ m_size' = size
              /\ m_cursor' = [NoCursors EXCEPT ![size] = m_cursor[size]]
              /\ IF data.frames = <<>>
                   THEN making' = "broken" /\ UNCHANGED <<m_frameTime, onScreen>>
                   ELSE /\ making' = "shown"
                        /\ m_frameTime' = data.frames[1].delay
                        /\ onScreen' = <<0, Bitmap(data, 0)>>
    /\ UNCHANGED <<themeVars, gaveUpAni, m_type, m_frame, m_needUpdate, pause, age>>

Unknown == -1   \* the age of an animation that was set some time after m_lastTime

SetCursorKeepsFrame(t) ==
    LET data == Get(m_cursor, m_size, t)
    IN  /\ t # m_type
        /\ m_type' = t
        /\ m_needUpdate' = TRUE
        /\ age' = IF pause = 0 THEN 0 ELSE Unknown
        /\ IF data.frames = <<>>
             THEN making' = "broken" /\ UNCHANGED <<m_frame, m_frameTime>>
             ELSE m_frameTime' = data.frames[1].delay /\ UNCHANGED <<making, m_frame>>

SetCursor(t) ==
    LET data == Get(m_cursor, m_size, t)
    IN  /\ t # m_type
        /\ m_type' = t
        /\ m_needUpdate' = TRUE
        /\ age' = IF pause = 0 THEN 0 ELSE Unknown
        /\ IF data.frames = <<>>
             THEN making' = "broken" /\ UNCHANGED <<m_frame, m_frameTime>>
             ELSE m_frameTime' = data.frames[1].delay /\ m_frame' = 0 /\ UNCHANGED making

SetAnyCursor ==
    /\ making = "shown"
    /\ \E t \in CursorTypes : SetCursor(t)
    /\ UNCHANGED <<themeVars, m_cursor, m_size, gaveUpAni, pause, onScreen>>

Delay(data, frame) == data.frames[(frame % Len(data.frames)) + 1].delay

(* When the frames after the given one end, which itself lasts for rest.   *)
Ends(data, frame, rest, most) ==
    LET end[n \in 0 .. most] == IF n = 0 THEN rest ELSE end[n - 1] + Delay(data, frame + n)
    IN  end

Lasts(data, n) == Ends(data, 0, Delay(data, 0), n)[n]     \* frames 0 to n together
Period(data) == Lasts(data, Len(data.frames) - 1)

(* NeedUpdate, and what its caller draws if it returns true.  Only an      *)
(* animation looks at the clock.                                           *)
NeedUpdate ==
    /\ making = "shown"
    /\ IF Animates(Current)
         THEN LET end == Ends(Current, m_frame, m_frameTime, MaxPause)
                  n == Min({i \in DOMAIN end : pause <= end[i]})
                  run == age + pause
              IN  /\ m_frame' = (m_frame + n) % Len(Current.frames)
                  /\ m_frameTime' = end[n] - pause
                  /\ pause' = 0
                  /\ age' = IF age = Unknown \/ run = 0 THEN age ELSE ((run - 1) % Period(Current)) + 1
         ELSE UNCHANGED <<m_frame, m_frameTime, pause, age>>
    /\ m_needUpdate' = FALSE
    /\ onScreen' = IF Animates(Current) \/ m_needUpdate
                     THEN <<Looks(m_cursor, m_size, m_type), Bitmap(Current, m_frame')>>
                     ELSE onScreen
    /\ UNCHANGED <<making, themeVars, m_cursor, m_size, gaveUpAni, m_type>>

TimePasses ==
    /\ making = "shown" /\ pause < MaxPause
    /\ pause' = pause + 1
    /\ UNCHANGED <<making, themeVars, m_cursor, m_size, gaveUpAni, m_type, m_frame, m_frameTime, m_needUpdate, age, onScreen>>
-----------------------------------------------------------------------------
CursorsNext ==
    \/ GetThemeData \/ LoadXCursorFile \/ EndXCursor
    \/ LoadWinDefault \/ LoadWinCursor \/ EndWinCursor
    \/ MakeLogic
    \/ SetAnyCursor \/ NeedUpdate \/ TimePasses
-----------------------------------------------------------------------------
(* Properties.                                                             *)

(* The size in use is the nearest to the one asked for that the theme has. *)
SizeFits ==
    making = "logic" =>
        \A wanted \in WantedSizes :
            /\ FitSize(wanted) \in SizesIn(m_cursor)
            /\ \A s \in SizesIn(m_cursor) :
                  (FitSize(wanted) - wanted) * (FitSize(wanted) - wanted) <= (s - wanted) * (s - wanted)

(* Whatever is missing in a theme or ends too early, the cursor that is    *)
(* set has the frame it stands at and the bitmap of that frame.  Excepted  *)
(* are themes with nothing for the default type in the size in use, and a  *)
(* .ani that was given up when some of its pictures were there already.    *)
CursorIsThere ==
    /\ making = "broken" => gaveUpAni \/ Get(m_cursor, m_size, 0).bitmaps = 0
    /\ making = "shown" /\ Current.bitmaps # 0 =>
          /\ m_frame < Len(Current.frames)
          /\ Bitmap(Current, m_frame) < Current.bitmaps

(* However often and after however long pauses it is asked, an animation   *)
(* is where the time it has run puts it.  Excepted is one that was set     *)
(* some time after the clock was looked at.                                *)
AnimationKeepsTime ==
    making = "shown" /\ Animates(Current) /\ Current.frames # <<>> /\ age # Unknown =>
        /\ Lasts(Current, m_frame) - m_frameTime = age
        /\ m_frameTime < Delay(Current, m_frame) \/ age = 0

(* Until NeedUpdate has something new, what is drawn is the current frame. *)
DrawnIsCurrent ==
    making = "shown" /\ ~m_needUpdate =>
        onScreen = <<Looks(m_cursor, m_size, m_type), Bitmap(Current, m_frame)>>

(* The cursor is one the theme has, and on the screen is what it should    *)
(* look like by now.                                                       *)
CursorIsShown == SizeFits /\ CursorIsThere /\ AnimationKeepsTime /\ DrawnIsCurrent
=============================================================================
