------------------------------ MODULE DiskImage ------------------------------
(***************************************************************************)
(* One disk image in a drive (diskimage.cpp, diskimageatr.cpp and          *)
(* diskgeometry.cpp; ATR and XFD).  The image works on a temporary copy    *)
(* of the host file.  The Atari formats, writes and negotiates a geometry  *)
(* (the PERCOM block); the GUI saves, saves under another name, reverts    *)
(* and write-protects.  Commands and saves exclude each other by the lock  *)
(* of the image, so each is one action.                                    *)
(*                                                                         *)
(* The unit of size is the block of 128 bytes.  A geometry has sectors of  *)
(* 1 or 2 blocks; the standard disks are scaled down from 720 and 1040     *)
(* sectors to SD and ED below, and what the code says of a size in bytes   *)
(* is said of the scaled size.  A block is one value, and a write fills    *)
(* its sector with one value.                                              *)
(***************************************************************************)
EXTENDS Integers, Sequences, FiniteSets

CONSTANTS Value,        \* what a block holds; 0 is the empty block
          Across,       \* a block that lies across two of the host file
          Percoms,      \* the geometries the Atari asks for
          NewDisks,     \* the geometries the user creates images of
          HostFiles,    \* the files the user opens
          Unknown,      \* the Atari was told nothing, or no certain thing
          Fresh,        \* the Atari was told that the sector is formatted
          Mixed,        \* a sector whose blocks differ
          Unreadable,   \* a sector beyond the end of the temporary file
          Nothing,      \* the host file is not known to hold anything
          NoHeader,     \* the host file has no ATR header
          NoFile,       \* the image was created and never saved
          Refused,      \* a host file that cannot be opened
          MaxChanges    \* bound: formats and writes in a behaviour

SD == [bps |-> 1, n |-> 4]
ED == [bps |-> 1, n |-> 6]
DD == [bps |-> 2, n |-> 4]
Geometry == [bps : {1, 2}, n : Nat]

\* An ATR file has a header, which may lie about the size.  An XFD file is of
\* more or less than one block (see TotalGuess).
ATRHeader == [size : Nat, bps : {1, 2}]

ASSUME DiskAssumption == /\ {0, Across} \subseteq Value /\ Fresh \notin Value
                         /\ Percoms \cup NewDisks \subseteq Geometry
                         /\ Unknown \notin Value \cup {Fresh} \cup Geometry
                         /\ MaxChanges \in Nat

ASSUME FilesAssumption ==
  \A h \in HostFiles : /\ h.head \in ATRHeader \cup {NoHeader}
                       /\ h.blocks \in Seq(Value)
                       /\ h.head = NoHeader => Len(h.blocks) # 1

\* The marks are no headers and no image.
ASSUME MarksAssumption ==
  /\ NoHeader \notin ATRHeader /\ NoFile \notin ATRHeader \cup {NoHeader}
  /\ Refused \notin [file : Seq(Value), geo : Geometry,
                     pad : {"None", "After", "Same"}, modified : BOOLEAN]

VARIABLES
  file,      \* file: the temporary copy, a sequence of blocks
  geo,       \* m_geometry
  newGeo,    \* m_newGeometry: the PERCOM block
  pad,       \* m_hasPadding of a double density image
  type,      \* m_originalImageType
  modified,  \* m_isModified
  protect,   \* m_isReadOnly
  drive,     \* m_isReady; "Spoiled": the copy is no longer whole blocks
  host,      \* the file the image is saved to
  told,      \* what the Atari was told of each sector
  layout,    \* the type under which the sectors were laid out
  saved,     \* how the image read when it was saved or opened
  changes    \* formats and writes so far

gui == <<type, host, saved>>
vars == <<file, geo, newGeo, pad, type, modified, protect, drive, host, told,
          layout, saved, changes>>
-----------------------------------------------------------------------------
(* Geometries.                                                             *)

\* mTotalSize, in blocks: the first three sectors have one block each.
SizeOf(g) == IF g.bps = 2 /\ g.n > 3 THEN 2 * g.n - 3 ELSE g.n

\* DiskGeometry::initialize(size, bytesPerSector).
SizedGuess(b, bps) ==
  CASE bps = 1                 -> [bps |-> 1, n |-> b]
    [] bps = 2 /\ b \in {5, 8} -> DD
    [] bps = 2 /\ b <= 3       -> [bps |-> 2, n |-> b]
    [] OTHER                   -> [bps |-> 2, n |-> (b + 4) \div 2]

\* DiskGeometry::initialize(size): of a file without a header.  The boot
\* sectors are subtracted from the size but not counted.  (Of one block the
\* unsigned size makes 65535 sectors; see Reopen.)
TotalGuess(b) ==
  CASE b \in {SD.n, ED.n}            -> [bps |-> 1, n |-> b]
    [] b \in {5, 8}                  -> DD
    [] b \notin {5, 8} /\ b % 2 = 1  ->
         [bps |-> 2, n |-> (b - 3) \div 2]
    [] OTHER                         -> [bps |-> 1, n |-> b]

-----------------------------------------------------------------------------
(* Sectors in the temporary file.                                          *)

\* bytesPerSector(sector): the boot sectors are single.
Width(g, s) == IF g.bps = 2 /\ s > 3 THEN 2 ELSE 1

\* Defect: a block too many is subtracted for the boot sectors.
SeekShort(g, p, t, s) ==
  IF g.bps = 2 /\ t # "Xfd"
    THEN IF s <= 3 /\ p # "Same" THEN s - 1
         ELSE IF p = "None" THEN 2 * (s - 1) - 4 ELSE 2 * (s - 1)
    ELSE (s - 1) * g.bps

\* seekToSector: the blocks before sector s of an image of geometry g, padding
\* p and type t.
Seek(g, p, t, s) ==
  IF g.bps = 2 /\ t # "Xfd"
    THEN IF s <= 3 /\ p # "Same" THEN s - 1
         ELSE IF p = "None" THEN 2 * (s - 1) - 3 ELSE 2 * (s - 1)
    ELSE (s - 1) * g.bps

\* readAtrSector.
ReadFrom(f, g, p, t, s) ==
  LET at == Seek(g, p, t, s)
      w  == Width(g, s)
  IN  IF at + w > Len(f) THEN Unreadable
      ELSE IF w = 2 /\ f[at + 1] # f[at + 2] THEN Mixed
      ELSE f[at + 1]

Sector(s) == ReadFrom(file, geo, pad, type, s)

\* The file f with the w blocks after the first at set to v.  A file is
\* extended with empty blocks when it ends before them.
Put(f, at, w, v) ==
  [i \in 1..(IF Len(f) > at + w THEN Len(f) ELSE at + w) |->
     IF i \in (at + 1)..(at + w) THEN v ELSE IF i <= Len(f) THEN f[i] ELSE 0]

Empty(b) == [i \in 1..b |-> 0]

\* Whether a change of the type left the sectors where they were.
SameLayout == geo.bps = 1 \/ pad = "Same" \/ layout = type

-----------------------------------------------------------------------------
(* Opening: what openAtr and openXfd make of a host file.                  *)

\* The host file is copied to the front of a temporary file that a reopened
\* image has kept (QTemporaryFile stays open, with its contents, until it is
\* destroyed).
Overlay(blocks, temp) == blocks \o SubSeq(temp, Len(blocks) + 1, Len(temp))

\* The paddings that may be found in a double density image of b blocks;
\* "Bad" is refused.  An even size has padding: empty blocks are looked for
\* after the boot sectors, then after each of them.  The host file is read
\* for it, into a buffer that keeps what it had where the file ends early.
Paddings(blocks, b, old) ==
  LET Blank(at) == \A i \in at : blocks[i] = 0
  IN  IF b <= 3 THEN {old}
      ELSE IF b % 2 = 1 THEN {"None"}
      ELSE IF Len(blocks) < 6 THEN {"After", "Same", "Bad"}
      ELSE IF Blank({4, 5, 6}) THEN {"After"}
      ELSE IF Blank({2, 4, 6}) THEN {"Same"} ELSE {"Bad"}

Image(f, g, p, m) == [file |-> f, geo |-> g, pad |-> p, modified |-> m]

\* What openAtr may make of a host file.  A size other than the one in the
\* header is repaired.
OpenAtr(h, temp, old) ==
  LET f == Overlay(h.blocks, temp)
      b == Len(f)
      g == SizedGuess(b, h.head.bps)
  IN  IF h.head.bps = 1
        THEN {IF b \in {SD.n, ED.n} THEN Image(f, g, old, b # h.head.size)
              ELSE Refused}
        ELSE {IF p = "Bad" THEN Refused ELSE Image(f, g, p, b # h.head.size) :
                p \in Paddings(h.blocks, b, old)}

\* What the temporary file may hold when a host file is taken for an XFD
\* image.  An ATR header is copied with the blocks, which then lie across those
\* of the temporary file.
Copied(h, temp) ==
  IF h.head = NoHeader THEN Overlay(h.blocks, temp)
  ELSE Overlay([i \in 1..Len(h.blocks) + 1 |-> Across], temp)

OpenXfd(h, temp, old) ==
  LET f == Copied(h, temp)
  IN  {Image(f, TotalGuess(Len(f)), old, FALSE)}

\* SimpleDiskImage::open.  A file with an ATR header is not whole blocks; as
\* an XFD image it opens only over a longer temporary file.
Open(t, h, temp, old) ==
  CASE t = "Atr" /\ h.head \notin {NoHeader, NoFile} -> OpenAtr(h, temp, old)
    [] t = "Xfd" /\ (h.head = NoHeader \/ (h.head # NoFile /\ Len(temp) > Len(h.blocks)))
                                                     -> OpenXfd(h, temp, old)
    [] OTHER                                         -> {Refused}

\* How an image reads.
View(img, t) ==
  [geo |-> img.geo, type |-> t, pad |-> img.pad, warned |-> FALSE,
   at |-> [s \in 1..img.geo.n |-> ReadFrom(img.file, img.geo, img.pad, t, s)]]

Untold(g) == [s \in 1..g.n |-> Unknown]

-----------------------------------------------------------------------------
(* The Atari.                                                              *)

\* 0x4F.
SetPercom(g) ==
  /\ newGeo' = g
  /\ UNCHANGED <<file, geo, pad, type, modified, protect, drive, host, told,
                 layout, saved, changes>>

\* Defect: the drive keeps its geometry.
KeepGeometry(g) == geo

\* formatAtr's m_geometry.
Formatted(g) == g

\* 0x21 and 0x22 of a drive that accepts them: format, formatAtr.  The padding
\* and the type stay; that the host had no room for the new file is logged,
\* and the format succeeds.
FormatAs(g) ==
  /\ drive = "Ready" /\ ~protect /\ changes < MaxChanges
  /\ \E f \in {Empty(SizeOf(g)), <<>>} : file' = f
  /\ geo' = Formatted(g)
  /\ newGeo' = g
  /\ modified' = TRUE
  /\ told' = [s \in 1..g.n |-> Fresh]
  /\ layout' = type
  /\ changes' = changes + 1
  /\ UNCHANGED <<pad, type, protect, drive, host, saved>>

Format == FormatAs(newGeo)

FormatED == FormatAs(ED)

\* Defect: only a write that extends the file marks the image.
MarkExtended(f) == modified \/ Len(f) > Len(file)

\* writeAtrSector's m_isModified.
Mark(f) == TRUE

\* 0x50, 0x57: a sector of the drive, with its data.  full: the host has no
\* room for it, and nothing is written.
Write(s, v, full) ==
  /\ drive = "Ready" /\ ~protect /\ changes < MaxChanges
  /\ s \in 1..geo.n
  /\ LET f == Put(file, Seek(geo, pad, type, s), Width(geo, s), v)
     IN  /\ file' = IF full THEN file ELSE f
         /\ modified' = Mark(f)
  /\ told' = IF ~SameLayout THEN Untold(geo)
             ELSE [told EXCEPT ![s] = IF full THEN Unknown ELSE v]
  /\ changes' = changes + 1
  /\ UNCHANGED <<geo, newGeo, pad, type, protect, drive, host, layout,
                 saved>>

-----------------------------------------------------------------------------
(* The GUI.                                                                *)

\* Defect: the header describes the PERCOM block.
HeaderOfPercom(t) ==
  IF t = "Atr" THEN [size |-> SizeOf(newGeo), bps |-> newGeo.bps] ELSE NoHeader

\* The header that saveAtr writes.
Header(t) ==
  IF t = "Atr" THEN [size |-> SizeOf(geo), bps |-> geo.bps] ELSE NoHeader

\* The file that saveAtr and saveXfd write: the temporary file to its end.
Written(t, blocks) == [head |-> Header(t), blocks |-> blocks]

\* saveXfd refuses a geometry it would reopen with other sectors.
Savable(t) == t = "Atr" \/ TotalGuess(SizeOf(geo)).bps = geo.bps

\* saveAtr, saveXfd of a drive that is ready, as type t: the warning is the one
\* that the geometry will be lost when the file is reopened.
SaveTo(t) ==
  LET guess == IF t = "Atr" THEN SizedGuess(SizeOf(geo), geo.bps)
               ELSE TotalGuess(SizeOf(geo))
      img   == Image(file, geo, pad, FALSE)
  IN  /\ drive = "Ready" /\ Savable(t)
      /\ host' = Written(t, file)
      /\ type' = t
      /\ modified' = FALSE
      /\ saved' = [View(img, t) EXCEPT !.warned = guess # geo]

GuiOnly == UNCHANGED <<file, geo, newGeo, pad, protect, told, layout,
                       changes>>

\* saveDisk, autoSaveDisk: save under the image's own name.
Save == host.head # NoFile /\ SaveTo(type) /\ UNCHANGED drive /\ GuiOnly

\* A save that fails after the host file was truncated: before its header or
\* before its last block (of all places the first and the last), or, of an
\* image that is not ready, when its closed copy is to be read.  The user is
\* told.
SaveFails ==
  /\ host.head # NoFile /\ Savable(type)
  /\ host' \in IF drive = "Ready"
                 THEN {[head |-> NoHeader, blocks |-> <<>>],
                       Written(type, SubSeq(file, 1, Len(file) - 1))}
                 ELSE {Written(type, <<>>)}
  /\ saved' = Nothing
  /\ UNCHANGED <<type, modified, drive>> /\ GuiOnly

\* saveDiskAs: another file, of another type if the user says so.
SaveAs(t) == SaveTo(t) /\ UNCHANGED drive /\ GuiOnly

\* A save under another name that fails leaves the name but not the type.
SaveAsFails(t) ==
  /\ type' = t
  /\ UNCHANGED <<host, saved, modified, drive>> /\ GuiOnly

\* revertDisk: reopen is a close and an open whose result nobody looks at.
\* The dialog may have been opened before the last write.  Bound: no XFD image
\* of one block is opened.
Reopen ==
  /\ type = "Xfd" => Len(Overlay(host.blocks, file)) # 1
  /\ \E img \in IF drive = "Spoiled" THEN {Refused}
                ELSE Open(type, host, file, pad) :
       IF img = Refused
         THEN /\ drive' = IF type = "Xfd" /\ host.head \notin {NoFile, NoHeader}
                            THEN "Spoiled"
                          ELSE IF drive = "Ready" THEN "Closed" ELSE drive
              /\ file' = IF host.head \in {NoFile, NoHeader} THEN file
                         ELSE Overlay(host.blocks, file)
              /\ UNCHANGED <<geo, newGeo, pad, modified, protect, told,
                             layout, saved>>
         ELSE /\ drive' = "Ready"
              /\ file' = img.file /\ pad' = img.pad
              /\ geo' = img.geo /\ newGeo' = img.geo
              /\ modified' = img.modified /\ protect' = FALSE
              /\ told' = Untold(img.geo) /\ layout' = type
              /\ saved' = IF Len(file) > Len(host.blocks) THEN Nothing
                          ELSE View(img, type)
  /\ UNCHANGED <<type, host, changes>>

\* toggleWriteProtection.
Protect ==
  /\ protect' = ~protect
  /\ UNCHANGED <<file, geo, newGeo, pad, type, modified, drive, host, told,
                 layout, saved, changes>>

-----------------------------------------------------------------------------
\* createAtr and the format that newImageTriggered makes of it.
Created(g) ==
  /\ file = Empty(SizeOf(g)) /\ geo = g /\ newGeo = g /\ pad = "None"
  /\ type = "Atr" /\ modified = TRUE
  /\ host = [head |-> NoFile, blocks |-> <<>>]
  /\ saved = Nothing

Opened(h) ==
  /\ type = IF h.head = NoHeader THEN "Xfd" ELSE "Atr"
  /\ host = h
  /\ \E img \in Open(type, h, <<>>, "None") \ {Refused} :
       /\ file = img.file /\ geo = img.geo /\ newGeo = img.geo
       /\ pad = img.pad /\ modified = img.modified
       /\ saved = View(img, type)

Init ==
  /\ (\E g \in NewDisks : Created(g)) \/ (\E h \in HostFiles : Opened(h))
  /\ protect = FALSE /\ drive = "Ready"
  /\ told = Untold(geo) /\ layout = type /\ changes = 0

Atari ==
  \/ \E g \in Percoms : SetPercom(g)
  \/ Format
  \/ FormatED
  \/ \E s \in 1..geo.n, v \in Value, full \in BOOLEAN : Write(s, v, full)

Gui ==
  \/ Save
  \/ SaveFails
  \/ \E t \in {"Atr", "Xfd"} : SaveAs(t) \/ SaveAsFails(t)
  \/ Reopen
  \/ Protect

Next == Atari \/ Gui

Spec == Init /\ [][Next]_vars

-----------------------------------------------------------------------------
(* What must hold.                                                         *)

TypeOK ==
  /\ file \in Seq(Value)
  /\ geo \in Geometry /\ newGeo \in Geometry
  /\ pad \in {"None", "After", "Same"}
  /\ type \in {"Atr", "Xfd"} /\ layout \in {"Atr", "Xfd"}
  /\ modified \in BOOLEAN /\ protect \in BOOLEAN
  /\ drive \in {"Ready", "Closed", "Spoiled"}
  /\ told \in [1..geo.n -> Value \cup {Fresh, Unknown}]
  /\ changes \in 0..MaxChanges

\* A sector reads what the Atari was told it holds: a formatted one is empty,
\* or unreadable where the format left the file too short, and a written one
\* is what was written, whatever else was written, saved or negotiated since.
\* Not said of an image whose type a save under another name has changed while
\* its sectors lie as before.
SectorsKept ==
  drive = "Ready" /\ SameLayout =>
    \A s \in 1..geo.n :
      /\ told[s] \in Value => Sector(s) = told[s]
      /\ told[s] = Fresh => Sector(s) \in {0, Unreadable}

\* An image that is not marked as modified reads as the host file it was saved
\* to or opened from.  (When a save fails the mark stays as it was, with the
\* host file truncated; the user is told.)
UnmodifiedAsSaved ==
  drive = "Ready" /\ ~modified /\ saved # Nothing /\ saved.type = type =>
    /\ [saved EXCEPT !.warned = FALSE] = View(Image(file, geo, pad, FALSE), type)
    /\ host.blocks = file

\* The host file is one that the format can tell: all of a standard disk, whose
\* blocks show its padding.  And the temporary file is not longer.
Understood ==
  /\ drive # "Spoiled" /\ saved # Nothing /\ saved.type = type
  /\ saved.geo \in {SD, ED, DD}
  /\ Len(host.blocks) \in {SizeOf(saved.geo), saved.geo.bps * saved.geo.n}
  /\ type = "Atr" /\ saved.geo.bps = 2 =>
       Paddings(host.blocks, Len(host.blocks), pad) = {saved.pad}
  /\ Len(file) <= Len(host.blocks)

\* Reverting such an image brings back the sectors and the geometry that were
\* saved, whatever was written, formatted or negotiated since.
RevertRestores ==
  [][Understood /\ Reopen =>
       /\ drive' = "Ready" /\ geo' = saved.geo
       /\ \A s \in 1..saved.geo.n : Sector(s)' = saved.at[s]]_vars
=============================================================================
