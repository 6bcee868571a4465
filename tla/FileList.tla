------------------------------ MODULE FileList ------------------------------
(***************************************************************************)
(* The list of images iv switches between (tools/iv/Viewport.cpp): opening *)
(* files from the command line, by drag and drop or from the clipboard,    *)
(* scanning the directory of a single image, and the arrow keys.  Files    *)
(* may appear and disappear on the disk between any two steps.             *)
(*                                                                         *)
(* A file is a number: names sort as the numbers do.  All files are in one *)
(* directory, except those of InRoot, which are in "/".                    *)
(***************************************************************************)
EXTENDS Integers, SequencesExt

CONSTANTS
    Files,      \* names of files
    Images,     \* the files whose content some loader accepts
    InRoot,     \* the files whose path has its only slash in front
    MaxCpus,    \* bound on hardware_concurrency()
    MaxUris     \* bound on the number of files opened at once

ASSUME FilesAssumption == Files \subseteq Nat /\ IsFiniteSet(Files) /\ Images \subseteq Files /\ InRoot \subseteq Files

ASSUME BoundsAssumption == MaxCpus \in Nat \ {0} /\ MaxUris \in Nat

NoFile == -1

VARIABLES
    disk,           \* files that exist
    cpus,           \* hardware_concurrency()
    opening,        \* what the main thread is doing
    candidates,     \* files that are being opened
    requested,      \* the image asked for last, NoFile if it came without a name
    m_fileList,
    m_fileIndex,
    kept            \* the scan for the image asked for last found nothing, the list was kept

fileListVars == <<disk, cpus, opening, candidates, requested, m_fileList, m_fileIndex, kept>>

\* The type invariant of the file list.
FileListTypeOK ==
    /\ disk \subseteq Files
    /\ cpus \in 1 .. MaxCpus
    /\ opening \in {"start", "idle", "filter", "scan", "panic"}
    /\ candidates \in Seq(Files)
    /\ requested \in Files \cup {NoFile}
    /\ m_fileList \in Seq(Images)
    /\ m_fileIndex \in Nat
    /\ kept \in BOOLEAN

FileListInit ==
    /\ disk \in SUBSET Files
    /\ cpus \in 1 .. MaxCpus
    /\ opening = "start"
    /\ candidates = <<>>
    /\ requested = NoFile
    /\ m_fileList = <<>>
    /\ m_fileIndex = 0
    /\ kept = FALSE

-----------------------------------------------------------------------------
(* Finding files.                                                          *)

Loadable(f) == f \in disk \cap Images

BatchSize(list) == (Len(list) + cpus - 1) \div cpus

BatchOneShort(list, n) ==
    SubSeq(list, n * BatchSize(list) + 1, Min({(n + 1) * BatchSize(list) - 1, Len(list)}))

\* The part of the list that task n looks at.
Batch(list, n) ==
    SubSeq(list, n * BatchSize(list) + 1, Min({(n + 1) * BatchSize(list), Len(list)}))

\* The files of a list that can be loaded, in their order.
LoadableIn(list) ==
    LET found[i \in 0 .. Len(list)] ==
            IF i = 0 THEN <<>>
            ELSE IF Loadable(list[i]) THEN Append(found[i - 1], list[i]) ELSE found[i - 1]
    IN  found[Len(list)]

\* One task per batch, the results put together in order after Sync.
FindLoadableImages(list) ==
    LET found[n \in 0 .. cpus] ==
            IF n = 0 THEN <<>> ELSE found[n - 1] \o LoadableIn(Batch(list, n - 1))
    IN  found[cpus]

SameDirectory(f) == {g \in Files : g \in InRoot <=> f \in InRoot}

Sorted(S) ==
    CHOOSE s \in [1 .. Cardinality(S) -> S] : \A i, j \in DOMAIN s : i < j => s[i] < s[j]

\* The path up to its last slash is "" for a file in "/", and opendir fails.
ListDirectory(f) ==
    IF f \in InRoot THEN <<>> ELSE Sorted(disk \cap SameDirectory(f))

IndexOf(list, f) == Min({i \in DOMAIN list : list[i] = f}) - 1

-----------------------------------------------------------------------------
(* Opening files.                                                          *)

NoArgument ==
    /\ opening = "start"
    /\ opening' = "idle"
    /\ UNCHANGED <<disk, cpus, candidates, requested, m_fileList, m_fileIndex, kept>>

\* A single path on the command line is loaded whatever it is.
Argument(f) ==
    /\ opening = "start"
    /\ requested' = f
    /\ opening' = "scan"
    /\ UNCHANGED <<disk, cpus, candidates, m_fileList, m_fileIndex, kept>>

\* Several paths on the command line, or a list of URIs dropped or pasted.
OpenFiles(s) ==
    /\ (opening = "start" /\ Len(s) > 1) \/ opening = "idle"
    /\ candidates' = s
    /\ opening' = "filter"
    /\ UNCHANGED <<disk, cpus, requested, m_fileList, m_fileIndex, kept>>

OpenNone ==
    /\ opening = "filter"
    /\ FindLoadableImages(candidates) = <<>>
    /\ opening' = "idle"
    /\ candidates' = <<>>
    /\ UNCHANGED <<disk, cpus, requested, m_fileList, m_fileIndex, kept>>

OpenSingle ==
    /\ opening = "filter"
    /\ LET files == FindLoadableImages(candidates) IN
          /\ Len(files) = 1
          /\ requested' = Head(files)
    /\ opening' = "scan"
    /\ candidates' = <<>>
    /\ UNCHANGED <<disk, cpus, m_fileList, m_fileIndex, kept>>

OpenSeveral ==
    /\ opening = "filter"
    /\ LET files == FindLoadableImages(candidates) IN
          /\ Len(files) > 1
          /\ m_fileList' = files
          /\ m_fileIndex' = IndexOf(files, Head(files))
          /\ requested' = Head(files)
    /\ kept' = FALSE
    /\ opening' = "idle"
    /\ candidates' = <<>>
    /\ UNCHANGED <<disk, cpus>>

\* The end of LoadImage( path, true ), with SetFileList and its assertion.
ScanNothing ==
    /\ opening = "scan"
    /\ FindLoadableImages(ListDirectory(requested)) = <<>>
    /\ kept' = TRUE
    /\ opening' = "idle"
    /\ UNCHANGED <<disk, cpus, candidates, requested, m_fileList, m_fileIndex>>

ScanDirectory ==
    /\ opening = "scan"
    /\ LET files == FindLoadableImages(ListDirectory(requested)) IN
          /\ files # <<>>
          /\ m_fileList' = files
          /\ \/ /\ requested \in Range(files)
                /\ m_fileIndex' = IndexOf(files, requested)
                /\ opening' = "idle"
             \/ /\ requested \notin Range(files)
                /\ opening' = "panic"
                /\ UNCHANGED m_fileIndex
    /\ kept' = FALSE
    /\ UNCHANGED <<disk, cpus, candidates, requested>>

RawImageKeepsList ==
    /\ opening = "idle"
    /\ requested' = NoFile
    /\ kept' = FALSE
    /\ UNCHANGED <<disk, cpus, opening, candidates, m_fileList, m_fileIndex>>

\* An image without a file is dropped or pasted.
RawImage ==
    /\ opening = "idle"
    /\ m_fileList' = <<>>
    /\ requested' = NoFile
    /\ kept' = FALSE
    /\ UNCHANGED <<disk, cpus, opening, candidates, m_fileIndex>>

-----------------------------------------------------------------------------
(* The arrow keys, and H, which loads the current image again.             *)

GotoFile(i) ==
    /\ m_fileIndex' = i
    /\ requested' = m_fileList[i + 1]
    /\ kept' = FALSE
    /\ UNCHANGED <<disk, cpus, opening, candidates, m_fileList>>

KeyRight ==
    /\ opening = "idle" /\ Len(m_fileList) > 1
    /\ GotoFile((m_fileIndex + 1) % Len(m_fileList))

KeyLeft ==
    /\ opening = "idle" /\ Len(m_fileList) > 1
    /\ GotoFile((m_fileIndex + Len(m_fileList) - 1) % Len(m_fileList))

ToggleHdr ==
    /\ opening = "idle" /\ m_fileList # <<>>
    /\ GotoFile(m_fileIndex)

-----------------------------------------------------------------------------

\* Somebody else creates and deletes files.
DiskChanges ==
    /\ opening # "panic"
    /\ \E f \in Files : disk' = (disk \ {f}) \cup ({f} \ disk)
    /\ UNCHANGED <<cpus, opening, candidates, requested, m_fileList, m_fileIndex, kept>>

FileListNext ==
    \/ NoArgument
    \/ \E f \in Files : Argument(f)
    \/ \E s \in SeqOf(Files, MaxUris) : OpenFiles(s)
    \/ OpenNone \/ OpenSingle \/ OpenSeveral
    \/ ScanNothing \/ ScanDirectory
    \/ RawImage
    \/ KeyRight \/ KeyLeft \/ ToggleHdr
    \/ DiskChanges

FileListSpec == FileListInit /\ [][FileListNext]_fileListVars

-----------------------------------------------------------------------------
(* Properties.                                                             *)

\* The index that the arrow keys and H use is inside the list, although RawImage
\* clears the list and leaves the index; and the entry it names is the image
\* asked for last, unless the scan for that image found nothing: what the title
\* counts is what is shown.
ListNamesRequest ==
    opening = "idle" /\ m_fileList # <<>> =>
        m_fileIndex < Len(m_fileList) /\ (~kept => m_fileList[m_fileIndex + 1] = requested)

\* When a single image has been opened, all other images in its directory at
\* that time are in the list.  The root directory is excepted: it is not scanned.
DirectoryIsScanned ==
    [][opening = "scan" /\ opening' = "idle" /\ requested \notin InRoot =>
          (disk \cap Images \cap SameDirectory(requested)) \ {requested} \subseteq Range(m_fileList')]_fileListVars

\* The assertion of SetFileList: the image is found in its own directory.
OriginFound == opening # "panic"
=============================================================================
