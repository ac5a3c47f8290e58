-------------------------------- MODULE Parts --------------------------------
(***************************************************************************)
(* The parts that meet in no variable: the configuration's lists, the      *)
(* macro client's menu, and the parts whose state is a picture, a packet,  *)
(* a text or a stream. `part` says which of them a behaviour is about, s1  *)
(* to s14 are its state in the order in which its module declares it.      *)
(***************************************************************************)
EXTENDS Integers

CONSTANTS ConfSections, ConfKeys, ConfValues,   \* names and values of a configuration
          Comments, Bracketed,    \* keys that are comments, values with a bracket
          Cut,                    \* what a load takes of a value
          Given, UserFiles,       \* values that programs write, files that users wrote
          MaxItems,               \* bound: items allocated
          MenuConfigs,            \* the last configuration's number
          MenuKeys,               \* bound: keys
          FontChars, FontFaces,   \* character codes, and faces that have glyphs for some
          FontTexts, TextColumns, \* texts to print, and the columns of their panel
          FirstAlloc,             \* the first block of memory for glyphs
          DialHours,              \* hours of the day that pass
          MaxHeld,                \* bound: bits of a packet held at a time
          PanelColumns, PanelRows, PanelOffset,  \* the panel, smaller
          Heights, MaxClicks,     \* heights of a spectrum's bar; bound: changes and keys
          CatColumns, CatLines,   \* the display of g15cat
          MaxText                 \* bound: characters that come

VARIABLES part,   \* whose behaviour it is
          s1, s2, s3, s4, s5, s6, s7, s8, s9, s10, s11, s12, s13, s14

\* The variables that a part does not need.
from9 == <<s9, s10, s11, s12, s13, s14>>
from7 == <<s7, s8, from9>>
from6 == <<s6, from7>>
from5 == <<s5, from6>>
from3 == <<s3, s4, from5>>
from1 == <<s1, s2, from3>>

None == "none"
None14 == s14 = None
None9 == s9 = None /\ s10 = None /\ s11 = None /\ s12 = None /\ s13 = None /\ None14
None7 == s7 = None /\ s8 = None /\ None9
None6 == s6 = None /\ None7
None5 == s5 = None /\ None6
None3 == s3 = None /\ s4 = None /\ None5
None1 == s1 = None /\ s2 = None /\ None3

---------------------------------------------------------------------------
Rect(xs, ys) == xs \X ys

Conf == INSTANCE Config WITH
  config <- s1, file <- s2, saved <- s3, io <- s4, broken <- s5,
  Sections <- ConfSections, Keys <- ConfKeys, Values <- ConfValues

ASSUME ConfAssumption == Conf!ConfigAssumption

Menu == INSTANCE MacroMenu WITH
  gui_selectConfig <- s1, gui_oldConfig <- s2, currConfig <- s3, recording <- s4,
  was_recording <- s5, display_timeout <- s6, canvas <- s7, screen <- s8, pc <- s9,
  full <- s10, switching <- s11, seen <- s12, missed <- s13, keys <- s14,
  numConfigs <- MenuConfigs, MaxKeys <- MenuKeys

\* A picture whose rows end in the middle of a byte, and one whose rows are bytes.
Figures == INSTANCE Shapes WITH
  canvas <- s1, mode <- s2, figure <- s3, before <- s4, drawn <- s5, Width <- 9,
  Height <- 7, MaxCalls <- 2,
  Pictures <- { [width |-> 5, height |-> 3, black |-> {<<0, 0>>, <<4, 0>>, <<1, 1>>, <<4, 2>>}],
                [width |-> 8, height |-> 2, black |-> {<<0, 0>>, <<7, 0>>, <<3, 1>>}] }

\* Full rows and columns on both sides of the borders of bytes and bands.
PanelX == 0 .. PanelColumns - 1
PanelY == 0 .. PanelRows - 1
PanelFrames == {{}, Rect(PanelX, PanelY)}
               \union {Rect(PanelX, {y}) : y \in PanelY \intersect {0, 7, PanelRows - 1}}
               \union {Rect({x}, PanelY) : x \in PanelX \intersect {0, 7, 8, PanelColumns - 1}}

LCD == INSTANCE Panel WITH
  picture <- s1, buf <- s2, Columns <- PanelColumns, Rows <- PanelRows, Offset <- PanelOffset,
  Frames <- PanelFrames

Packets == INSTANCE KeyPackets WITH
  device <- s1, held <- s2, pressed <- s3, result <- s4,
  Devices <- {"G15", "G15v2", "G510", "Z10", "G13"}

Text == INSTANCE Fonts WITH
  file <- s1, face <- s2, load <- s3, font <- s4, text <- s5, prints <- s6,
  Chars <- FontChars, Space <- 32, Faces <- FontFaces, Texts <- FontTexts,
  Columns <- TextColumns, MaxPrints <- 2

ASSUME FontAssumption == Text!FontAssumption

Dial == INSTANCE ClockFace WITH
  hour <- s1, minute <- s2, mode <- s3, showdate <- s4, digital <- s5, face <- s6,
  Hours <- DialHours

ASSUME DialAssumption == DialHours \subseteq 0 .. 23

\* Also an analysis below the scale.
Bars == INSTANCE Spectrum WITH
  player <- s1, cfg <- s2, file <- s3, dialog <- s4, tmp <- s5, plugin <- s6,
  timers <- s7, playing <- s8, paused <- s9, volume <- s10, lastvolume <- s11,
  peak <- s12, clicks <- s13, early <- s14, Heights <- Heights \union {-1}

Stream == INSTANCE CatDisplay WITH
  shell <- s1, cut <- s2, counter <- s3, rows <- s4, pc <- s5, text <- s6,
  Columns <- CatColumns, Lines <- CatLines

---------------------------------------------------------------------------
PartInit ==
  \/ part = "config" /\ Conf!Init /\ None6
  \/ part = "menu" /\ Menu!Init
  \/ part = "shapes" /\ Figures!Init /\ None6
  \/ part = "panel" /\ LCD!Init /\ None3
  \/ part = "keys" /\ Packets!Init /\ None5
  \/ part = "fonts" /\ Text!Init /\ None7
  \/ part = "dial" /\ Dial!Init /\ None7
  \/ part = "bars" /\ Bars!Init
  \/ part = "cat" /\ Stream!Init /\ None7

PartNext ==
  /\ UNCHANGED part
  /\ \/ part = "config" /\ Conf!Next /\ UNCHANGED from6
     \/ part = "menu" /\ Menu!Next
     \/ part = "shapes" /\ Figures!Next /\ UNCHANGED from6
     \/ part = "panel" /\ LCD!Next /\ UNCHANGED from3
     \/ part = "keys" /\ Packets!Next /\ UNCHANGED from5
     \/ part = "fonts" /\ Text!Next /\ UNCHANGED from7
     \/ part = "dial" /\ Dial!Next /\ UNCHANGED from7
     \/ part = "bars" /\ Bars!Next
     \/ part = "cat" /\ Stream!Next /\ UNCHANGED from7

partvars == <<part, from1>>
PartSpec == PartInit /\ [][PartNext]_partvars

---------------------------------------------------------------------------
(* The linked items do what the configuration promises (Config, ConfigMap). *)
ImplementsMap == /\ part = "config" => Conf!Map!Init
                 /\ [][part = "config" => Conf!KeepsMap]_partvars

(* The panel shows the configuration in use and the one selected (MacroMenu). *)
MenuShown == part = "menu" => Menu!MenuShown

(* Figures come out whole, and xor takes away what it drew (Shapes). *)
FiguresShown == part = "shapes" => Figures!FiguresDrawn

(* What is to be read on the panel is there: the device is sent a program's      *)
(* picture, pixel for pixel (Panel); glyphs survive the font file, and texts lie  *)
(* where they fit (Fonts); no two times of the clock's dial look the same         *)
(* (ClockFace).                                                                  *)
PanelShown == /\ part = "panel" => LCD!PanelShowsPicture
              /\ part = "fonts" => Text!TextShown
              /\ part = "dial" => Dial!HandsTellTime

(* A packet reports every held key, and no other (KeyPackets). *)
PacketsTellAll == [][part = "keys" => Packets!TellsAll]_partvars

(* The settings in effect survive the plugin's end and its next start, and bars   *)
(* and their peaks stay out of the titles, whatever was set (Spectrum). *)
SpectrumKeeps == /\ [](part = "bars" => Bars!BarsKeepOff)
                 /\ [][part = "bars" => Bars!SettingsSurvive]_partvars

(* The lines on the display are the stream's, in its order (CatDisplay). *)
CatShows == part = "cat" => Stream!CatShows
=============================================================================
