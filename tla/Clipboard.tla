------------------------------ MODULE Clipboard ------------------------------
(***************************************************************************)
(* Copying from and pasting into iv: the selection offer and the data      *)
(* source of WaylandSeat, the viewport's picture of both, and the events   *)
(* of the compositor.                                                      *)
(*                                                                         *)
(* PasteClipboard asks the offer for one type after another; each time     *)
(* GetClipboard makes a round trip to the compositor, in which any event   *)
(* may be handled: the focus may leave, another offer may come, another    *)
(* key may paste.  A paste that waits is a frame of the stack.             *)
(*                                                                         *)
(* An offer is the set of its types.  Events for a data source that was    *)
(* replaced, still under way, are dropped by libwayland.                   *)
(***************************************************************************)
EXTENDS Naturals, Sequences, SequencesExt

CONSTANTS
    Offers,         \* offers that other programs make
    MaxNesting      \* bound on pastes within pastes

Mimes == {"uri-list", "suggestedfilename", "exr", "png"}

ASSUME OffersAssumption == Offers \subseteq SUBSET Mimes
ASSUME MaxNestingAssumption == MaxNesting \in Nat \ {0}

NoOffer == {"none"}

VARIABLES
    m_activeWindow,     \* whether the window has the keyboard's focus
    m_selectionOffer,   \* offer of the seat, or NoOffer
    m_clipboardOffer,   \* types the viewport was told of
    m_dataSource,       \* types of the seat's data source, or NoOffer
    m_clipboard,        \* format of the texture that was copied
    m_clipboardOrigin,  \* whether there is a name for it
    stack,              \* pastes that wait for a round trip
    keyPanicked         \* whether the seat looked for a window that has no focus

clipboardVars == <<m_activeWindow, m_selectionOffer, m_clipboardOffer, m_dataSource,
                   m_clipboard, m_clipboardOrigin, stack, keyPanicked>>

ClipboardInit ==
    /\ m_activeWindow = FALSE
    /\ m_selectionOffer = NoOffer
    /\ m_clipboardOffer = {}
    /\ m_dataSource = NoOffer
    /\ m_clipboard = "none"
    /\ m_clipboardOrigin = FALSE
    /\ stack = <<>>
    /\ keyPanicked = FALSE

ClipboardTypeOK ==
    /\ m_activeWindow \in BOOLEAN /\ m_clipboardOrigin \in BOOLEAN /\ keyPanicked \in BOOLEAN
    /\ {m_selectionOffer, m_dataSource} \subseteq (SUBSET Mimes) \cup {NoOffer}
    /\ m_clipboardOffer \subseteq Mimes
    /\ m_clipboard \in {"none", "sdr", "hdr"}
    /\ Len(stack) <= MaxNesting

offerVars == <<m_selectionOffer, m_clipboardOffer>>
sourceVars == <<m_dataSource, m_clipboard, m_clipboardOrigin>>
-----------------------------------------------------------------------------
(* Events of the compositor that can be handled at any time.               *)

KeyboardEnter ==
    /\ ~m_activeWindow
    /\ m_activeWindow' = TRUE
    /\ UNCHANGED <<offerVars, sourceVars, stack, keyPanicked>>

KeyboardLeaveQuietly ==
    /\ m_activeWindow
    /\ m_activeWindow' = FALSE
    /\ m_selectionOffer' = NoOffer
    /\ UNCHANGED <<m_clipboardOffer, sourceVars, stack, keyPanicked>>

KeyboardLeave ==
    /\ m_activeWindow
    /\ m_activeWindow' = FALSE
    /\ IF m_selectionOffer # NoOffer
         THEN m_selectionOffer' = NoOffer /\ m_clipboardOffer' = {}
         ELSE UNCHANGED offerVars
    /\ UNCHANGED <<sourceVars, stack, keyPanicked>>

(* An offer comes only to a window that has the focus.                     *)
DataSelection ==
    /\ m_activeWindow
    /\ \E offer \in Offers \cup {NoOffer} :
         /\ m_selectionOffer' = offer
         /\ m_clipboardOffer' = offer \ NoOffer
    /\ UNCHANGED <<m_activeWindow, sourceVars, stack, keyPanicked>>

(* The compositor takes the selection away from the data source.           *)
SourceCancelled ==
    /\ m_dataSource # NoOffer
    /\ m_dataSource' = NoOffer
    /\ m_clipboard' = "none"            \* CancelClipboard
    /\ m_clipboardOrigin' = FALSE
    /\ UNCHANGED <<m_activeWindow, offerVars, stack, keyPanicked>>

CopiedMimes(format, named) ==
    (IF named THEN {"suggestedfilename"} ELSE {}) \cup {"png"}
      \cup (IF format = "hdr" THEN {"exr"} ELSE {})

(* CopyToClipboard.  A name from an earlier copy stays when there is none. *)
CopyToClipboard ==
    /\ m_activeWindow
    /\ \E format \in {"sdr", "hdr"}, named \in BOOLEAN :
         /\ m_clipboard' = format
         /\ m_clipboardOrigin' = (named \/ m_clipboardOrigin)
         /\ m_dataSource' = CopiedMimes(format, named)
    /\ UNCHANGED <<m_activeWindow, offerVars, stack, keyPanicked>>
-----------------------------------------------------------------------------
(* PasteClipboard.                                                         *)

(* What the paste asks for next, if anything, once the types before are    *)
(* behind it: the names first, then the picture.                           *)
FirstRequest(offer) ==
    IF "uri-list" \in offer THEN "uri-list"
    ELSE IF "suggestedfilename" \in offer THEN "suggestedfilename"
    ELSE "none"

ImageRequest(offer) ==
    IF "exr" \in offer THEN "exr" ELSE IF "png" \in offer THEN "png" ELSE "none"

(* The request, and the offer it is made to.                               *)
Frame(mime) == [mime |-> mime, offer |-> m_selectionOffer, told |-> m_clipboardOffer]

(* GetClipboard, or the end of the paste, after which Key looks up the     *)
(* window with the focus to hand it the character.                         *)
Ask(mime, below) ==
    IF mime = "none"
      THEN stack' = below /\ keyPanicked' = ~m_activeWindow
      ELSE stack' = Append(below, Frame(mime)) /\ UNCHANGED keyPanicked

PasteClipboard ==
    /\ m_activeWindow
    /\ Len(stack) < MaxNesting
    /\ Ask(IF FirstRequest(m_clipboardOffer) # "none"
             THEN FirstRequest(m_clipboardOffer)
             ELSE ImageRequest(m_clipboardOffer), stack)
    /\ UNCHANGED <<m_activeWindow, offerVars, sourceVars>>

(* The round trip is over, and the data has been read.  A list that names  *)
(* an image ends the paste.                                                *)
Roundtrip ==
    /\ stack # <<>>
    /\ \/ /\ Last(stack).mime \in {"uri-list", "suggestedfilename"}
          /\ Ask(ImageRequest(m_clipboardOffer), Front(stack))
       \/ /\ Last(stack).mime # "suggestedfilename"
          /\ Ask("none", Front(stack))
    /\ UNCHANGED <<m_activeWindow, offerVars, sourceVars>>

ClipboardNext ==
    /\ ~keyPanicked
    /\ \/ KeyboardEnter
       \/ KeyboardLeave
       \/ DataSelection
       \/ SourceCancelled
       \/ CopyToClipboard
       \/ PasteClipboard
       \/ Roundtrip

ClipboardSpec == ClipboardInit /\ [][ClipboardNext]_clipboardVars
-----------------------------------------------------------------------------
(* Properties.                                                             *)

(* Whatever happens during the round trips of a paste, GetClipboard is     *)
(* only called while there is an offer, as it asserts                      *)
(* (wayland/WaylandSeat.cpp:108), and for a type the offer has: what the   *)
(* viewport was told of the offer never outlives it.                       *)
AsksCurrentOffer ==
    /\ \A i \in DOMAIN stack : stack[i].mime \in stack[i].offer
    /\ m_clipboardOffer \subseteq m_selectionOffer

(* SendClipboard's conditions for a type.                                  *)
CanSend(mime) ==
    /\ m_clipboard # "none"
    /\ mime = "exr" => m_clipboard = "hdr"
    /\ mime = "suggestedfilename" => m_clipboardOrigin

(* Whatever type a data source offers, a request for it is served: the     *)
(* texture is kept for exactly as long as the source is there, in a format *)
(* that can be sent, and with the name that was promised.                  *)
SourceIsBacked ==
    /\ m_dataSource # NoOffer => \A mime \in m_dataSource : CanSend(mime)
    /\ m_dataSource = NoOffer => m_clipboard = "none"

(* Neither side of the clipboard outlives what it stands for.              *)
ClipboardIsCurrent == AsksCurrentOffer /\ SourceIsBacked

(* When the handler of a key has returned, its window still has the focus: *)
(* the seat looks it up, and GetWindow asserts that it is found            *)
(* (wayland/WaylandSeat.cpp:386).  A paste during which the focus leaves   *)
(* breaks it.                                                              *)
KeyHasWindow == ~keyPanicked
=============================================================================
