------------------------------- MODULE Loaders -------------------------------
(***************************************************************************)
(* The image loaders and the three programs that call them.  GetImageLoader *)
(* hands out a loader by the first bytes of a file; the program asks it     *)
(* what it has, in an order of its own, and then for a picture.  Some of    *)
(* the loaders open their file in the constructor, some at the first call   *)
(* of any of their methods: what a failed Open leaves behind is seen by     *)
(* the call after it.  What a decoder makes of damaged data is a choice     *)
(* over what the code around it can end in.                                 *)
(***************************************************************************)
EXTENDS Naturals

VARIABLES
    caller,     \* the program, and how it was set up
    source,     \* the file, as its loader finds it
    m_loader,   \* what Open has left: "closed", "half" or "open", or "lost" when it never returned
    stage,      \* the call the program makes next
    loaded      \* the picture, or how the attempt ended

loaderVars == <<caller, source, m_loader, stage, loaded>>

Formats == {"png", "jpg", "jxl", "webp", "heif", "pvr", "dds", "pcx", "stb", "exr", "raw", "tiff", "xcursor"}

(* iv on a screen with and without HDR, from a path or from a descriptor;   *)
(* vv with and without -A; exrconv.                                         *)
Callers ==
    {c \in [program: {"iv", "vv", "exrconv"}, hdr: BOOLEAN, fd: BOOLEAN, animate: BOOLEAN] :
        /\ c.program = "iv" => ~c.animate
        /\ c.program = "vv" => ~c.hdr /\ ~c.fd
        /\ c.program = "exrconv" => c.hdr /\ ~c.fd /\ ~c.animate}

(* A file: where it is damaged, what its pixels are, whether they are only  *)
(* grey, whether there is a gain map, and where the colours are described:  *)
(* by an ICC profile or by code points, whose primaries are named.  Of a    *)
(* damaged file, that is what can still be read of it.                      *)
Sensible(f) ==
    /\ f.pixels = "anim" => f.format = "webp"
    /\ f.pixels = "hdr" => f.format \in {"jxl", "heif", "stb", "exr", "raw"}
    /\ f.format \in {"exr", "raw"} => f.pixels = "hdr"
    /\ f.pixels = "hdr" /\ f.format = "heif" => f.profile \in {"bt709", "bt2020"}
    /\ f.grey => f.format = "jpg"
    /\ f.map => f.format \in {"jpg", "heif"}
    /\ f.profile # "none" => f.format \in {"jpg", "heif"}
    /\ f.format = "jpg" => f.profile \in {"none", "icc"}
    /\ f.damage = "map" => f.map

Inputs == {f \in [format: Formats, damage: {"none", "header", "data", "map"},
                  pixels: {"sdr", "hdr", "anim"}, grey: BOOLEAN, map: BOOLEAN,
                  profile: {"none", "icc", "bt709", "bt2020"}] : Sensible(f)}

Picture(form, space) == [form |-> form, space |-> space]
Sdr == Picture("sdr", "bt709")
Hdr(space) == Picture("hdr", space)
NullBitmap == Picture("nothing", "none")    \* a null pointer
NoFrames == Picture("anim", "none")
Failed == Picture("failed", "none")         \* reported

(* The program ends or hangs: an assertion, an exception that nobody        *)
(* catches, a read past the file, a search that does not end.               *)
Crash == Picture("crash", "none")

(* What a failed Open, LoadHdr or LoadAnim did not give is used as if it had.*)
Misused == Picture("misused", "none")

LoadersInit ==
    /\ caller \in Callers /\ source \in Inputs
    /\ m_loader = "closed" /\ stage = "GetImageLoader" /\ loaded = NullBitmap

-----------------------------------------------------------------------------
(* The loaders.                                                             *)

(* Some constructors read the file, the others only its first bytes: either *)
(* may find the damage or not.                                              *)
IsValid ==
    IF caller.fd /\ source.format \notin {"png", "exr"} THEN {FALSE}
    ELSE IF source.damage = "header" THEN BOOLEAN ELSE {TRUE}

(* A call opens the file unless the member Open sets first is there: m_cinfo, *)
(* m_buf, m_dec of JPEG XL, which a failed Open leaves behind.  Open may not  *)
(* return: JPEG reads its multi-picture index at the offsets the file gives,  *)
(* and looks for the index in the file without an end; HEIF asserts that the  *)
(* profile it is told of can be read.                                         *)
Opens ==
    IF m_loader # "closed" THEN {m_loader}
    ELSE IF source.damage # "header" THEN {"open"}
    ELSE {"open", "half"} \cup IF source.format \in {"jpg", "heif"} THEN {"lost"} ELSE {}

OpenedBy(formats) == IF source.format \in formats THEN Opens ELSE {m_loader}

IsAnimated(opened) == source.format = "webp" /\ opened = "open" /\ source.pixels = "anim"

IsHdrJpg(opened) == opened = "open" /\ ~source.grey /\ (source.profile = "icc" \/ source.map)
IsHdrHeif(opened) == opened = "open" /\ (source.map \/ source.pixels = "hdr")
IsHdrJxl(opened) == opened = "open" /\ source.pixels = "hdr"

IsHdr(opened) ==
    CASE source.format = "jpg" -> IsHdrJpg(opened)
      [] source.format = "heif" -> IsHdrHeif(opened)
      [] source.format = "jxl" -> IsHdrJxl(opened)
      [] OTHER -> source.pixels = "hdr"

PreferHdr == source.format \in {"jxl", "stb"}

(* What a loader makes of damage to the picture.  PNG has checksums; others  *)
(* check what they read, and show a picture as far as it goes; most take the *)
(* sizes from the file as they are, and may run out of memory or past the    *)
(* end of something; some expect every file to be good, and give no null.    *)
Damaged == source.damage \in {"header", "data"}
Summed(picture) == IF Damaged THEN {NullBitmap} ELSE {picture}
Checked(picture) == IF Damaged THEN {NullBitmap, picture} ELSE {picture}
Careless(picture) == IF Damaged THEN {NullBitmap, picture, Crash} ELSE {picture}
Trusting(picture) == IF Damaged THEN {picture, Crash} ELSE {picture}

LoadPng == Summed(Sdr)
LoadPcx == Careless(Sdr)
LoadTiff == Careless(Sdr)
LoadXCursor == Careless(Sdr)
LoadStb == Checked(Sdr)
LoadPvr == Trusting(Sdr)
LoadDds == Trusting(Sdr)
LoadExr == Trusting(Sdr)
LoadRaw == Trusting(Sdr)

LoadJpgUnchecked == IF m_loader = "half" THEN {Misused} ELSE Careless(Sdr)

(* libjpeg refuses to decode a half-open file, by way of the error handler  *)
(* that every call sets anew.                                               *)
LoadJpg == IF m_loader = "half" THEN {NullBitmap} ELSE Careless(Sdr)

(* Called again on what a failed Open has left, JPEG XL allocates a picture *)
(* of a size it never read and HEIF decodes an image it does not have.      *)
LoadAgain == IF m_loader = "half" THEN {Misused} ELSE Careless(Sdr)
LoadJxl == LoadAgain
LoadHeif == LoadAgain

(* WebP tests the member Open sets last, and Open asserts that it has not   *)
(* been called.                                                             *)
LoadWebp == IF m_loader = "half" THEN {Crash} ELSE Checked(Sdr)

Load ==
    CASE source.format = "png" -> LoadPng
      [] source.format = "jpg" -> LoadJpg
      [] source.format = "jxl" -> LoadJxl
      [] source.format = "webp" -> LoadWebp
      [] source.format = "heif" -> LoadHeif
      [] source.format = "pvr" -> LoadPvr
      [] source.format = "dds" -> LoadDds
      [] source.format = "pcx" -> LoadPcx
      [] source.format = "stb" -> LoadStb
      [] source.format = "exr" -> LoadExr
      [] source.format = "raw" -> LoadRaw
      [] source.format = "tiff" -> LoadTiff
      [] source.format = "xcursor" -> LoadXCursor

(* LoadHdr is only called on what IsHdr said yes to.  A gain map is read    *)
(* with the picture, and the picture may be lost with it; for some gain     *)
(* maps, and when a profile cannot be converted, there is an assertion.     *)
WithMap(picture) == IF source.damage = "none" THEN {picture} ELSE {NullBitmap, picture, Crash}

LoadHdrJpg(asked) == WithMap(Hdr(asked))

SetupDecodeUnasked(asked) ==
    IF source.profile = "none" THEN Crash ELSE Hdr("bt709")

(* HEIF converts to the colour space asked for unless the code points say   *)
(* BT.709, and takes it for granted that an HDR file describes its colours. *)
SetupDecode(asked) ==
    CASE source.profile = "none" -> Crash
      [] source.profile = "bt709" -> Hdr("bt709")
      [] OTHER -> Hdr(asked)

LoadHdrHeif(asked) == WithMap(SetupDecode(asked))
LoadHdrJxl(asked) == Careless(Hdr(asked))
LoadHdrStb(asked) == Checked(Hdr(asked))
LoadHdrExr(asked) == Trusting(Hdr(asked))
LoadHdrRaw(asked) == Trusting(Hdr(asked))

LoadHdr(asked) ==
    CASE source.format = "jpg" -> LoadHdrJpg(asked)
      [] source.format = "heif" -> LoadHdrHeif(asked)
      [] source.format = "jxl" -> LoadHdrJxl(asked)
      [] source.format = "stb" -> LoadHdrStb(asked)
      [] source.format = "exr" -> LoadHdrExr(asked)
      [] source.format = "raw" -> LoadHdrRaw(asked)

(* The frames up to the first that cannot be decoded, which may be none.    *)
LoadAnim ==
    {Picture("anim", "bt709")} \cup IF Damaged THEN {NoFrames} ELSE {}

-----------------------------------------------------------------------------
(* The programs.                                                            *)

End(result) == stage' = "ended" /\ loaded' = result

GetImageLoader ==
    /\ stage = "GetImageLoader"
    /\ \E valid \in IsValid :
           IF valid
           THEN stage' = (IF caller.animate THEN "IsAnimated" ELSE "IsHdr") /\ UNCHANGED loaded
           ELSE End(Failed)      \* vv tries the vector formats, in vain
    /\ UNCHANGED <<caller, source, m_loader>>

AskAnimated ==
    /\ stage = "IsAnimated"
    /\ \E opened \in OpenedBy({"webp"}) :
           /\ m_loader' = opened
           /\ stage' = IF IsAnimated(opened) THEN "LoadAnim" ELSE "IsHdr"
    /\ UNCHANGED <<caller, source, loaded>>

AskHdr ==
    /\ stage = "IsHdr"
    /\ \E opened \in OpenedBy({"jpg", "jxl", "heif"}) :
           /\ m_loader' = opened
           /\ IF opened = "lost" THEN End(Crash)
              ELSE IF caller.program = "exrconv" /\ ~IsHdr(opened) THEN End(Failed)
              ELSE stage' = (IF IsHdr(opened) /\ (caller.hdr \/ PreferHdr) THEN "LoadHdr" ELSE "Load") /\ UNCHANGED loaded
    /\ UNCHANGED <<caller, source>>

CallLoad ==
    /\ stage = "Load"
    /\ \E result \in Load : End(IF result = NullBitmap THEN Failed ELSE result)
    /\ UNCHANGED <<caller, source, m_loader>>

(* exrconv asserts that there is a picture.  A program that shows it on a   *)
(* screen without HDR maps it to SDR without a look at whether there is one.*)
NoPicture ==
    IF caller.program = "exrconv" THEN Crash ELSE IF caller.hdr THEN Failed ELSE Misused

CallLoadHdr ==
    /\ stage = "LoadHdr"
    /\ \E result \in LoadHdr(IF caller.program = "iv" /\ caller.hdr THEN "bt2020" ELSE "bt709") :
           End(CASE result = Crash -> Crash
                 [] result = NullBitmap -> NoPicture
                 [] OTHER -> IF caller.hdr THEN result ELSE Sdr)
    /\ UNCHANGED <<caller, source, m_loader>>

CallLoadAnim ==
    /\ stage = "LoadAnim"
    /\ \E result \in LoadAnim : End(IF result = NoFrames THEN Misused ELSE result)
    /\ UNCHANGED <<caller, source, m_loader>>

LoadersNext ==
    \/ GetImageLoader \/ AskAnimated \/ AskHdr
    \/ CallLoad \/ CallLoadHdr \/ CallLoadAnim

-----------------------------------------------------------------------------
(* What the program should show of a file without damage.  A JPEG whose     *)
(* colours have a profile counts as HDR: they may exceed BT.709.            *)
HoldsHdr ==
    \/ source.pixels = "hdr"
    \/ source.map /\ ~source.grey
    \/ source.format = "jpg" /\ source.profile = "icc" /\ ~source.grey

PictureWanted ==
    IF caller.fd /\ source.format \notin {"png", "exr"} THEN Failed
    ELSE IF caller.animate /\ source.pixels = "anim" THEN Picture("anim", "bt709")
    ELSE IF HoldsHdr /\ caller.program = "iv" /\ caller.hdr THEN Hdr("bt2020")
    ELSE IF caller.program = "exrconv" THEN IF HoldsHdr THEN Hdr("bt709") ELSE Failed
    ELSE Sdr

(* An HDR picture in HEIF whose colours the loader gets wrong: with BT.709  *)
(* primaries it is not converted to BT.2020 (HeifLoader.cpp:618), and with  *)
(* a gain map but no profile it ends the program (:635).                    *)
HeifUnsupported ==
    HoldsHdr /\ caller.hdr /\ source.format = "heif" /\ source.profile \in {"none", "bt709"}

(* Every program gets from an intact file of any format, through whichever  *)
(* calls it makes in whichever order, the picture it needs: animated or     *)
(* not, HDR or mapped to SDR, in the colour space it asked for.             *)
IntactIsShown ==
    stage = "ended" /\ source.damage = "none" /\ ~HeifUnsupported => loaded = PictureWanted

(* Where the code does go on with what a failed call has left: Load on a    *)
(* half-open JPEG XL or HEIF file, mapping to SDR the HDR picture of JPEG XL *)
(* or stb that could not be loaded (vv.cpp:480, ImageProvider.cpp:144), and  *)
(* showing in vv an animation without a frame (vv.cpp:64).                   *)
Unnoticed ==
    \/ source.format \in {"jxl", "heif"} /\ m_loader = "half"
    \/ source.format \in {"jxl", "stb"} /\ ~caller.hdr
    \/ source.format = "webp" /\ caller.animate

(* However a file is damaged, and in whichever order the programs make      *)
(* their calls, none uses what a failed call did not give: the picture of    *)
(* any loader but those named, or a JPEG or WebP file that is half open,     *)
(* which is met with an error or an assertion.  The decoders themselves may  *)
(* still end the program.                                                    *)
FailureIsNoticed == loaded = Misused => Unnoticed
=============================================================================
