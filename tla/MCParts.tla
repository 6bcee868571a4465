------------------------------- MODULE MCParts -------------------------------
(***************************************************************************)
(* Small instances of the components that do not need one another: one of  *)
(* them runs, the others stay in one initial state of theirs.              *)
(***************************************************************************)
EXTENDS FileList, Selecting, Clipboard, ViewWindow, TerminalViewer, OutputColor, Bitmaps,
    Loaders, Pixels, Cursors

VARIABLE part       \* the component that runs

partsVars == <<part, fileListVars, selectingVars, clipboardVars, viewWindowVars, viewerVars, outputVars, bitmapVars, loaderVars, pixelsVars, cursorVars>>

Parts == {"files", "selecting", "clipboard", "window", "terminal", "output", "bitmaps", "loaders", "pixels", "cursors"}

OffersOfPrograms == {{"uri-list", "png"}, {"suggestedfilename", "exr", "png"}, {"png"}, {}}
SmallWindows == {<<4, 4>>, <<8, 4>>}
SmallPictures == {<<2, 2, FALSE>>, <<16, 4, TRUE>>}
LargestWindow == <<16, 16>>
Steps == {-320, 320}
DrawnPictures == {<<2, 3>>, <<9, 2>>, <<3, 9>>}
Screens == {<<6, 4>>}
SmallBitmaps == {<<2, 3>>, <<3, 3>>, <<3, 1>>}

PlanePictures == {<<3, 3>>, <<5, 2>>}
PicturesInBlocks == {<<8, 8>>, <<4, 8>>, <<8, 4>>}

IntactPng == [format |-> "png", damage |-> "none", pixels |-> "sdr", grey |-> FALSE, map |-> FALSE, profile |-> "none"]
CallerVv == [program |-> "vv", hdr |-> FALSE, fd |-> FALSE, animate |-> FALSE]
SmallestLayout == [kind |-> "planes", size |-> <<3, 3>>, gap |-> 0, chunk |-> 2]

(* A component that does not run has one initial state.                    *)
Still ==
    /\ part = "files" \/ (part # "files" /\ disk = Files /\ cpus = 1)
    /\ part = "window" \/ (part # "window" /\ m_windowExtent = <<4, 4>>)
    /\ part = "terminal" \/ (part # "terminal" /\ terminal = "none" /\ options = [output |-> "Block", scale |-> "None"])
    /\ part = "bitmaps" \/ (part # "bitmaps" /\ m_orientation = 1 /\ m_width = 2)
    /\ part = "loaders" \/ (part # "loaders" /\ source = IntactPng /\ caller = CallerVv)
    /\ part = "pixels" \/ (part # "pixels" /\ layout = SmallestLayout)

PartsInit ==
    /\ part \in Parts
    /\ Still
    /\ FileListInit /\ SelectingInit /\ ClipboardInit /\ ViewWindowInit /\ ViewerInit
    /\ OutputInit /\ BitmapInit /\ LoadersInit /\ PixelsInit /\ CursorsInit

FilesRun ==
    /\ part = "files" /\ FileListNext
    /\ UNCHANGED <<part, selectingVars, clipboardVars, viewWindowVars, viewerVars, outputVars, bitmapVars, loaderVars, pixelsVars, cursorVars>>

SelectingRuns ==
    /\ part = "selecting" /\ SelectingNext
    /\ UNCHANGED <<part, fileListVars, clipboardVars, viewWindowVars, viewerVars, outputVars, bitmapVars, loaderVars, pixelsVars, cursorVars>>

ClipboardRuns ==
    /\ part = "clipboard" /\ ClipboardNext
    /\ UNCHANGED <<part, fileListVars, selectingVars, viewWindowVars, viewerVars, outputVars, bitmapVars, loaderVars, pixelsVars, cursorVars>>

WindowRuns ==
    /\ part = "window" /\ ViewWindowNext
    /\ UNCHANGED <<part, fileListVars, selectingVars, clipboardVars, viewerVars, outputVars, bitmapVars, loaderVars, pixelsVars, cursorVars>>

TerminalRuns ==
    /\ part = "terminal" /\ ViewerNext
    /\ UNCHANGED <<part, fileListVars, selectingVars, clipboardVars, viewWindowVars, outputVars, bitmapVars, loaderVars, pixelsVars, cursorVars>>

OutputRuns ==
    /\ part = "output" /\ OutputNext
    /\ UNCHANGED <<part, fileListVars, selectingVars, clipboardVars, viewWindowVars, viewerVars, bitmapVars, loaderVars, pixelsVars, cursorVars>>

BitmapsRuns ==
    /\ part = "bitmaps" /\ BitmapNext
    /\ UNCHANGED <<part, fileListVars, selectingVars, clipboardVars, viewWindowVars, viewerVars, outputVars, loaderVars, pixelsVars, cursorVars>>

LoadersRun ==
    /\ part = "loaders" /\ LoadersNext
    /\ UNCHANGED <<part, fileListVars, selectingVars, clipboardVars, viewWindowVars, viewerVars, outputVars, bitmapVars, pixelsVars, cursorVars>>

PixelsRun ==
    /\ part = "pixels" /\ PixelsNext
    /\ UNCHANGED <<part, fileListVars, selectingVars, clipboardVars, viewWindowVars, viewerVars, outputVars, bitmapVars, loaderVars, cursorVars>>

CursorsRun ==
    /\ part = "cursors" /\ CursorsNext
    /\ UNCHANGED <<part, fileListVars, selectingVars, clipboardVars, viewWindowVars, viewerVars, outputVars, bitmapVars, loaderVars, pixelsVars>>

PartsNext ==
    \/ FilesRun
    \/ SelectingRuns \/ ClipboardRuns \/ WindowRuns
    \/ TerminalRuns \/ OutputRuns \/ BitmapsRuns
    \/ LoadersRun \/ PixelsRun \/ CursorsRun

PartsSpec == PartsInit /\ [][PartsNext]_partsVars
=============================================================================
