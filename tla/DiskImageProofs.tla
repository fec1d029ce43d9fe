--------------------------- MODULE DiskImageProofs ---------------------------
(***************************************************************************)
(* Proofs about DiskImage, for any geometries, files and contents.         *)
(*                                                                         *)
(* SectorsKept is about what is read with the type the image has now.  The *)
(* invariant that steps keep is about where the sectors were laid: the     *)
(* blocks of a sector hold what the Atari was told, under the type that    *)
(* the image had when it was formatted or opened.  It rests on the lemma   *)
(* that two sectors never share a block, for every geometry, padding and   *)
(* type.                                                                   *)
(***************************************************************************)
EXTENDS DiskImage, SequenceTheorems, TLAPS

Paddings3 == {"None", "After", "Same"}
ImageTypes == {"Atr", "Xfd"}

HostOK ==
  /\ host.head \in ATRHeader \cup {NoHeader, NoFile}
  /\ host.blocks \in Seq(Value)

-----------------------------------------------------------------------------
(* Sectors and blocks.                                                     *)

LEMMA SeekType ==
  ASSUME NEW g \in Geometry, NEW p \in Paddings3, NEW t \in ImageTypes,
         NEW s \in 1..g.n
  PROVE  Seek(g, p, t, s) \in Nat /\ Width(g, s) \in {1, 2}
BY DEF Seek, Width, Geometry, Paddings3, ImageTypes

\* Two sectors share no block.
LEMMA SectorsApart ==
  ASSUME NEW g \in Geometry, NEW p \in Paddings3, NEW t \in ImageTypes,
         NEW r \in 1..g.n, NEW s \in 1..g.n, r < s
  PROVE  Seek(g, p, t, r) + Width(g, r) <= Seek(g, p, t, s)
BY DEF Seek, Width, Geometry, Paddings3, ImageTypes

\* A type under which the sectors lie as under another.
LEMMA SameSeek ==
  ASSUME NEW g \in Geometry, NEW p \in Paddings3, NEW t \in ImageTypes,
         NEW u \in ImageTypes, NEW s \in 1..g.n,
         g.bps = 1 \/ p = "Same" \/ u = t
  PROVE  Seek(g, p, t, s) = Seek(g, p, u, s)
BY DEF Seek, Geometry, Paddings3, ImageTypes

LEMMA SequenceOf ==
  ASSUME NEW S, NEW n \in Nat, NEW f \in [1..n -> S]
  PROVE  f \in Seq(S) /\ Len(f) = n
BY SeqDef

\* What a write makes of a file.
LEMMA PutType ==
  ASSUME NEW f \in Seq(Value), NEW at \in Nat, NEW w \in {1, 2}, NEW v \in Value
  PROVE  /\ Put(f, at, w, v) \in Seq(Value)
         /\ Len(Put(f, at, w, v)) = IF Len(f) > at + w THEN Len(f) ELSE at + w
<1> DEFINE n == IF Len(f) > at + w THEN Len(f) ELSE at + w
           P == Put(f, at, w, v)
<1>1. Len(f) \in Nat /\ \A i \in 1..Len(f) : f[i] \in Value
  BY LenProperties, ElementOfSeq
<1>2. n \in Nat
  BY <1>1
<1>3. P = [i \in 1..n |-> IF i \in (at + 1)..(at + w) THEN v
                          ELSE IF i <= Len(f) THEN f[i] ELSE 0]
  BY DEF Put
<1>4. P \in [1..n -> Value]
  <2> SUFFICES ASSUME NEW i \in 1..n
               PROVE  (IF i \in (at + 1)..(at + w) THEN v
                       ELSE IF i <= Len(f) THEN f[i] ELSE 0) \in Value
    BY <1>3
  <2> QED BY <1>1, <1>2, DiskAssumption
<1> QED BY <1>2, <1>4, SequenceOf

LEMMA EmptyProperties ==
  ASSUME NEW b \in Nat
  PROVE  /\ Empty(b) \in Seq(Value) /\ Len(Empty(b)) = b
         /\ \A i \in 1..b : Empty(b)[i] = 0
<1>1. Empty(b) \in [1..b -> Value]
  BY DiskAssumption DEF Empty
<1> QED BY <1>1, SequenceOf DEF Empty

LEMMA OverlayType ==
  ASSUME NEW f \in Seq(Value), NEW temp \in Seq(Value)
  PROVE  Overlay(f, temp) \in Seq(Value)
<1>1. Len(f) \in Nat /\ Len(temp) \in Nat
  BY LenProperties
<1>2. \A i \in (Len(f) + 1)..Len(temp) : temp[i] \in Value
  BY <1>1, ElementOfSeq
<1>3. SubSeq(temp, Len(f) + 1, Len(temp)) \in Seq(Value)
  BY <1>1, <1>2, SubSeqProperties
<1> QED BY <1>3, ConcatProperties DEF Overlay

\* A temporary file that is longer than the host file keeps its length.
LEMMA OverlayLong ==
  ASSUME NEW f \in Seq(Value), NEW temp \in Seq(Value), Len(temp) >= Len(f)
  PROVE  Len(Overlay(f, temp)) = Len(temp)
<1>1. Len(f) \in Nat /\ Len(temp) \in Nat
  BY LenProperties
<1>2. \A i \in (Len(f) + 1)..Len(temp) : temp[i] \in Value
  BY <1>1, ElementOfSeq
<1> DEFINE rest == SubSeq(temp, Len(f) + 1, Len(temp))
<1>3. rest \in Seq(Value) /\ Len(rest) = Len(temp) - Len(f)
  <2>1. rest \in Seq(Value)
    BY <1>1, <1>2, SubSeqProperties
  <2>2. Len(rest) = IF Len(f) + 1 <= Len(temp) THEN Len(temp) - (Len(f) + 1) + 1 ELSE 0
    BY <1>1, <1>2, SubSeqProperties
  <2> HIDE DEF rest
  <2> QED BY <1>1, <2>1, <2>2
<1> HIDE DEF rest
<1>4. Len(f \o rest) = Len(f) + Len(rest)
  BY <1>3, ConcatProperties
<1> QED BY <1>1, <1>3, <1>4 DEF Overlay, rest

\* A copy of a host file that is taken for an XFD image is as long as the
\* blocks without their header would make it.
LEMMA CopiedType ==
  ASSUME NEW h, h.blocks \in Seq(Value), NEW temp \in Seq(Value),
         h.head = NoHeader \/ Len(temp) > Len(h.blocks), NEW f, f = Copied(h, temp)
  PROVE  f \in Seq(Value) /\ Len(f) = Len(Overlay(h.blocks, temp))
<1>1. CASE h.head = NoHeader
  BY <1>1, OverlayType DEF Copied
<1>2. CASE h.head # NoHeader
  <2>0. Len(h.blocks) \in Nat /\ Len(temp) \in Nat /\ Len(temp) >= Len(h.blocks) + 1
    BY <1>2, LenProperties
  <2>2. PICK c : c = [i \in 1..Len(h.blocks) + 1 |-> Across]
    OBVIOUS
  <2>3. c \in Seq(Value) /\ Len(c) = Len(h.blocks) + 1
    BY <2>0, <2>2, SequenceOf, DiskAssumption
  <2>4. f = Overlay(c, temp)
    BY <1>2, <2>2 DEF Copied
  <2>5. Len(Overlay(c, temp)) = Len(temp) /\ Len(Overlay(h.blocks, temp)) = Len(temp)
    BY <2>0, <2>3, OverlayLong
  <2> QED BY <2>3, <2>4, <2>5, OverlayType
<1> QED BY <1>1, <1>2

-----------------------------------------------------------------------------
(* Types.                                                                  *)

LEMMA GuessType ==
  ASSUME NEW b \in Nat
  PROVE  /\ \A w \in {1, 2} : SizedGuess(b, w) \in Geometry
         /\ b # 1 => TotalGuess(b) \in Geometry
BY DEF SizedGuess, TotalGuess, SD, ED, DD, Geometry

LEMMA SizeType == ASSUME NEW g \in Geometry PROVE SizeOf(g) \in Nat
BY DEF SizeOf, Geometry

LEMMA PaddingsType ==
  ASSUME NEW blocks, NEW b, NEW old \in Paddings3
  PROVE  Paddings(blocks, b, old) \subseteq Paddings3 \cup {"Bad"}
BY DEF Paddings, Paddings3

\* What an image is that opens.
Opens(img) == /\ img.file \in Seq(Value) /\ img.geo \in Geometry
              /\ img.pad \in Paddings3 /\ img.modified \in BOOLEAN

LEMMA OpensImage ==
  ASSUME NEW f \in Seq(Value), NEW g \in Geometry, NEW p \in Paddings3, NEW m \in BOOLEAN
  PROVE  Opens(Image(f, g, p, m))
BY DEF Opens, Image

LEMMA OpenType ==
  ASSUME NEW t \in ImageTypes, NEW h, h.head \in ATRHeader \cup {NoHeader, NoFile},
         h.blocks \in Seq(Value), NEW temp \in Seq(Value), NEW old \in Paddings3,
         t = "Xfd" => Len(Overlay(h.blocks, temp)) # 1,
         NEW img \in Open(t, h, temp, old), img # Refused
  PROVE  Opens(img)
<1> DEFINE f == Overlay(h.blocks, temp)
           b == Len(f)
<1>1. f \in Seq(Value) /\ b \in Nat
  BY OverlayType, LenProperties
<1> HIDE DEF f
<1>2. CASE t = "Atr" /\ h.head \notin {NoHeader, NoFile}
  <2>1. img \in OpenAtr(h, temp, old)
    BY <1>2 DEF Open
  <2>2. h.head.bps \in {1, 2}
    BY <1>2 DEF ATRHeader
  <2> DEFINE g == SizedGuess(b, h.head.bps)
             m == b # h.head.size
  <2>3. g \in Geometry
    BY <1>1, <2>2, GuessType
  <2>4. m \in BOOLEAN
    BY Zenon
  <2> HIDE DEF g, m
  <2>5. PICK p \in Paddings3 : img = Image(f, g, p, m)
    <3>1. CASE h.head.bps = 1
      BY <2>1, <3>1 DEF OpenAtr, f, g, m
    <3>2. CASE h.head.bps # 1
      <4>1. PICK p \in Paddings(h.blocks, b, old) :
              img = IF p = "Bad" THEN Refused ELSE Image(f, g, p, m)
        BY <2>1, <3>2 DEF OpenAtr, f, g, m
      <4> QED BY <4>1, PaddingsType
    <3> QED BY <3>1, <3>2
  <2> QED BY <1>1, <2>3, <2>4, <2>5, OpensImage
<1> DEFINE whole == h.head = NoHeader \/ (h.head # NoFile /\ Len(temp) > Len(h.blocks))
<1>3. CASE t = "Xfd" /\ whole
  <2>1. PICK c : c = Copied(h, temp) /\ img = Image(c, TotalGuess(Len(c)), old, FALSE)
    BY <1>3 DEF Open, OpenXfd
  <2>2. c \in Seq(Value) /\ Len(c) = b
    BY <1>3, <2>1, CopiedType DEF f
  <2>3. TotalGuess(Len(c)) \in Geometry
    BY <1>1, <1>3, <2>2, GuessType DEF f
  <2> QED BY <2>1, <2>2, <2>3, OpensImage
<1>4. CASE ~(t = "Atr" /\ h.head \notin {NoHeader, NoFile}) /\ ~(t = "Xfd" /\ whole)
  BY <1>4 DEF Open, ImageTypes
<1> QED BY <1>2, <1>3, <1>4

TInv == TypeOK /\ HostOK

LEMMA UntoldType ==
  ASSUME NEW g \in Geometry
  PROVE  Untold(g) \in [1..g.n -> Value \cup {Fresh, Unknown}]
BY DEF Untold

LEMMA InitTInv == Init => TInv
<1> SUFFICES ASSUME Init PROVE TInv
  OBVIOUS
<1> USE DEF TInv, TypeOK, HostOK
<1>1. ASSUME NEW g \in NewDisks, Created(g) PROVE TInv
  <2>1. g \in Geometry
    BY DiskAssumption
  <2>2. file \in Seq(Value)
    BY <1>1, <2>1, SizeType, EmptyProperties DEF Created
  <2>3. told \in [1..geo.n -> Value \cup {Fresh, Unknown}]
    BY <1>1, <2>1, UntoldType DEF Created, Init
  <2>4. host.head = NoFile /\ host.blocks = <<>>
    BY <1>1 DEF Created
  <2>5. modified \in BOOLEAN /\ protect \in BOOLEAN
    BY <1>1, Zenon DEF Created, Init
  <2>6. type = "Atr" /\ layout = "Atr" /\ pad = "None" /\ drive = "Ready"
    BY <1>1 DEF Created, Init
  <2>7. changes \in 0..MaxChanges
    BY DiskAssumption DEF Init
  <2>8. geo \in Geometry /\ newGeo \in Geometry
    BY <1>1, <2>1 DEF Created
  <2> QED BY <2>2, <2>3, <2>4, <2>5, <2>6, <2>7, <2>8, EmptySeq
<1>2. ASSUME NEW h \in HostFiles, Opened(h) PROVE TInv
  <2>1. host = h /\ type \in ImageTypes /\ (type = "Xfd" => h.head = NoHeader)
    BY <1>2 DEF Opened, ImageTypes
  <2>2. HostOK
    BY <2>1, FilesAssumption
  <2>3. PICK img \in Open(type, h, <<>>, "None") \ {Refused} :
          /\ file = img.file /\ geo = img.geo /\ newGeo = img.geo
          /\ pad = img.pad /\ modified = img.modified
    BY <1>2 DEF Opened
  <2>4. type = "Xfd" => Len(Overlay(h.blocks, <<>>)) # 1
    <3>1. h.blocks \in Seq(Value) /\ <<>> \in Seq(Value) /\ Len(<<>>) = 0
      BY FilesAssumption, EmptySeq
    <3>2. Len(h.blocks) \in Nat
      BY <3>1, LenProperties
    <3>3. SubSeq(<<>>, Len(h.blocks) + 1, Len(<<>>)) = <<>>
      BY <3>1, <3>2, SubSeqEmpty
    <3>4. Overlay(h.blocks, <<>>) = h.blocks
      BY <3>1, <3>3, ConcatEmptySeq DEF Overlay
    <3> QED BY <2>1, <3>4, FilesAssumption
  <2>5. Opens(img)
    BY <2>1, <2>2, <2>3, <2>4, EmptySeq, OpenType DEF Paddings3
  <2>6. told \in [1..geo.n -> Value \cup {Fresh, Unknown}]
    BY <2>3, <2>5, UntoldType DEF Opens, Init
  <2>7. modified \in BOOLEAN /\ protect \in BOOLEAN
    <3>1. protect \in BOOLEAN
      BY Zenon DEF Init
    <3> QED BY <3>1, <2>3, <2>5 DEF Opens
  <2>8. type \in {"Atr", "Xfd"} /\ layout = type /\ drive = "Ready"
    BY <2>1 DEF Init, ImageTypes
  <2>9. changes \in 0..MaxChanges
    BY DiskAssumption DEF Init
  <2> QED BY <2>2, <2>3, <2>5, <2>6, <2>7, <2>8, <2>9 DEF Opens, Paddings3
<1> QED BY <1>1, <1>2 DEF Init

LEMMA FormatKeepsTInv == ASSUME TInv, NEW g \in Geometry, FormatAs(g) PROVE TInv'
<1> USE DEF TInv, TypeOK, HostOK
<1>1. file' \in Seq(Value)
  BY SizeType, EmptyProperties, EmptySeq DEF FormatAs
<1>2. geo' = g /\ newGeo' = g
  BY DEF FormatAs, Formatted
<1>3. told' \in [1..geo'.n -> Value \cup {Fresh, Unknown}]
  BY <1>2 DEF FormatAs
<1>4. changes' \in 0..MaxChanges
  BY DiskAssumption DEF FormatAs
<1> QED BY <1>1, <1>2, <1>3, <1>4 DEF FormatAs

LEMMA WriteKeepsTInv ==
  ASSUME TInv, NEW s \in 1..geo.n, NEW v \in Value, NEW full \in BOOLEAN, Write(s, v, full)
  PROVE  TInv'
<1> USE DEF TInv, TypeOK, HostOK
<1>1. file' \in Seq(Value)
  <2>1. Put(file, Seek(geo, pad, type, s), Width(geo, s), v) \in Seq(Value)
    BY SeekType, PutType DEF Paddings3, ImageTypes
  <2> QED BY <2>1 DEF Write
<1>2. told' \in [1..geo.n -> Value \cup {Fresh, Unknown}]
  BY UntoldType DEF Write
<1>3. changes' \in 0..MaxChanges
  BY DiskAssumption DEF Write
<1>4. modified' = TRUE
  BY DEF Write, Mark
<1> QED BY <1>1, <1>2, <1>3, <1>4 DEF Write

LEMMA WrittenType ==
  ASSUME TInv, NEW t \in ImageTypes, NEW blocks \in Seq(Value)
  PROVE  /\ Written(t, blocks).head \in ATRHeader \cup {NoHeader, NoFile}
         /\ Written(t, blocks).blocks \in Seq(Value)
BY SizeType DEF Written, Header, ATRHeader, TInv, TypeOK, Geometry

LEMMA SaveKeepsTInv ==
  ASSUME TInv, NEW t \in ImageTypes, SaveTo(t), UNCHANGED drive, GuiOnly
  PROVE  TInv'
<1> USE DEF TInv, TypeOK, HostOK
<1>1. HostOK' /\ type' \in ImageTypes /\ modified' = FALSE
  BY WrittenType DEF SaveTo
<1> QED BY <1>1 DEF GuiOnly, ImageTypes

LEMMA SaveFailsKeepsTInv == ASSUME TInv, SaveFails PROVE TInv'
<1> USE DEF TInv, TypeOK, HostOK
<1>1. Len(file) \in Nat /\ \A i \in 1..(Len(file) - 1) : file[i] \in Value
  BY LenProperties, ElementOfSeq
<1>2. SubSeq(file, 1, Len(file) - 1) \in Seq(Value)
  BY <1>1, SubSeqProperties
<1>3. HostOK'
  <2>1. CASE host' = [head |-> NoHeader, blocks |-> <<>>]
    BY <2>1, EmptySeq
  <2>2. CASE host' = Written(type, SubSeq(file, 1, Len(file) - 1))
    BY <2>2, <1>2, WrittenType DEF ImageTypes
  <2>3. CASE host' = Written(type, <<>>)
    BY <2>3, EmptySeq, WrittenType DEF ImageTypes
  <2> QED BY <2>1, <2>2, <2>3 DEF SaveFails
<1> QED BY <1>3 DEF SaveFails, GuiOnly

LEMMA ReopenKeepsTInv == ASSUME TInv, Reopen PROVE TInv'
<1> USE DEF TInv, TypeOK, HostOK
<1>1. PICK img \in IF drive = "Spoiled" THEN {Refused} ELSE Open(type, host, file, pad) :
        IF img = Refused
          THEN /\ drive' \in {"Spoiled", "Closed", drive}
               /\ file' \in {file, Overlay(host.blocks, file)}
               /\ UNCHANGED <<geo, newGeo, pad, modified, protect, told, layout, saved>>
          ELSE /\ drive' = "Ready"
               /\ file' = img.file /\ pad' = img.pad
               /\ geo' = img.geo /\ newGeo' = img.geo
               /\ modified' = img.modified /\ protect' = FALSE
               /\ told' = Untold(img.geo) /\ layout' = type
  BY DEF Reopen
<1>2. UNCHANGED <<type, host, changes>>
  BY DEF Reopen
<1>3. CASE img = Refused
  BY <1>1, <1>2, <1>3, OverlayType
<1>4. CASE img # Refused
  <2>1. Opens(img)
    BY <1>1, <1>4, OpenType DEF Reopen, Paddings3, ImageTypes
  <2>2. told' \in [1..geo'.n -> Value \cup {Fresh, Unknown}]
    BY <1>1, <1>4, <2>1, UntoldType DEF Opens
  <2> QED BY <1>1, <1>2, <1>4, <2>1, <2>2 DEF Opens, Paddings3
<1> QED BY <1>3, <1>4

LEMMA NextTInv == TInv /\ [Next]_vars => TInv'
<1> SUFFICES ASSUME TInv, [Next]_vars PROVE TInv'
  OBVIOUS
<1> USE DEF TInv, TypeOK, HostOK
<1>1. ASSUME NEW g \in Percoms, SetPercom(g) PROVE TInv'
  BY <1>1, DiskAssumption DEF SetPercom
<1>2. CASE Format
  BY <1>2, FormatKeepsTInv DEF Format
<1>3. CASE FormatED
  BY <1>3, FormatKeepsTInv DEF FormatED, ED, Geometry
<1>4. ASSUME NEW s \in 1..geo.n, NEW v \in Value, NEW full \in BOOLEAN, Write(s, v, full)
      PROVE TInv'
  BY <1>4, WriteKeepsTInv
<1>5. CASE Save
  BY <1>5, SaveKeepsTInv DEF Save, ImageTypes
<1>6. CASE SaveFails
  BY <1>6, SaveFailsKeepsTInv
<1>7. ASSUME NEW t \in {"Atr", "Xfd"}, SaveAs(t) PROVE TInv'
  BY <1>7, SaveKeepsTInv DEF SaveAs, ImageTypes
<1>8. ASSUME NEW t \in {"Atr", "Xfd"}, SaveAsFails(t) PROVE TInv'
  BY <1>8 DEF SaveAsFails, GuiOnly
<1>9. CASE Reopen
  BY <1>9, ReopenKeepsTInv
<1>10. CASE Protect
  <2>1. protect' \in BOOLEAN
    BY <1>10, Zenon DEF Protect
  <2> QED BY <1>10, <2>1 DEF Protect
<1>11. CASE UNCHANGED vars
  BY <1>11 DEF vars
<1> QED BY <1>1, <1>2, <1>3, <1>4, <1>5, <1>6, <1>7, <1>8, <1>9, <1>10, <1>11
        DEF Next, Atari, Gui

\* Every variable of the image keeps its type.
THEOREM TypeCorrect == Spec => []TypeOK
<1>1. TInv => TypeOK
  BY DEF TInv
<1> QED BY <1>1, InitTInv, NextTInv, PTL DEF Spec

-----------------------------------------------------------------------------
(* What the sectors hold.                                                  *)

At(s) == Seek(geo, pad, layout, s)

\* The blocks of sector s in the file.
Blocks(s) == (At(s) + 1)..(At(s) + Width(geo, s))

\* The blocks hold what the Atari was told of the sector, where it was laid.
Laid ==
  drive = "Ready" =>
    \A s \in 1..geo.n :
      /\ told[s] \in Value => /\ At(s) + Width(geo, s) <= Len(file)
                              /\ \A i \in Blocks(s) : file[i] = told[s]
      /\ told[s] = Fresh => \A i \in Blocks(s) : i <= Len(file) => file[i] = 0

\* Of a sector that lies where it was laid, it is what is read.
LEMMA LaidIsRead == ASSUME TInv, Laid PROVE SectorsKept
<1> SUFFICES ASSUME drive = "Ready", SameLayout, NEW s \in 1..geo.n
             PROVE  /\ told[s] \in Value => Sector(s) = told[s]
                    /\ told[s] = Fresh => Sector(s) \in {0, Unreadable}
  BY DEF SectorsKept
<1> DEFINE at == Seek(geo, pad, type, s)
           w == Width(geo, s)
<1>1. at = At(s)
  BY SameSeek DEF At, SameLayout, TInv, TypeOK, Paddings3, ImageTypes
<1>2. at \in Nat /\ w \in {1, 2} /\ Len(file) \in Nat
  BY SeekType, LenProperties DEF TInv, TypeOK, Paddings3, ImageTypes
<1>3. Sector(s) = IF at + w > Len(file) THEN Unreadable
                  ELSE IF w = 2 /\ file[at + 1] # file[at + 2] THEN Mixed
                  ELSE file[at + 1]
  BY DEF Sector, ReadFrom
<1>4. /\ told[s] \in Value => /\ at + w <= Len(file)
                              /\ \A i \in (at + 1)..(at + w) : file[i] = told[s]
      /\ told[s] = Fresh => \A i \in (at + 1)..(at + w) : i <= Len(file) => file[i] = 0
  BY <1>1 DEF Laid, Blocks
<1> HIDE DEF at, w
<1> QED BY <1>2, <1>3, <1>4

\* Nothing is known of the sectors.
LEMMA UntoldIsLaid ==
  ASSUME NEW g \in Geometry, geo' = g, told' = Untold(g)
  PROVE  Laid'
BY DiskAssumption DEF Laid, Untold

LEMMA InitLaid == ASSUME Init, TInv PROVE Laid
<1>1. \A s \in 1..geo.n : told[s] = Unknown
  BY DEF Init, Untold
<1> QED BY <1>1, DiskAssumption DEF Laid

LEMMA FormatKeepsLaid == ASSUME TInv, NEW g \in Geometry, FormatAs(g) PROVE Laid'
<1>1. \A i \in 1..Len(file') : file'[i] = 0
  BY SizeType, EmptyProperties, EmptySeq DEF FormatAs
<1>2. \A s \in 1..geo'.n : told'[s] = Fresh
  BY DEF FormatAs, Formatted
<1>3. geo' \in Geometry /\ pad' \in Paddings3 /\ layout' \in ImageTypes
  BY DEF FormatAs, Formatted, TInv, TypeOK, Paddings3, ImageTypes
<1>4. file' \in Seq(Value)
  BY SizeType, EmptyProperties, EmptySeq DEF FormatAs
<1> SUFFICES ASSUME NEW s \in 1..geo'.n, NEW i \in Blocks(s)', i <= Len(file')
             PROVE  file'[i] = 0
  BY <1>2, DiskAssumption DEF Laid
<1>5. At(s)' \in Nat /\ Width(geo', s) \in {1, 2}
  BY <1>3, SeekType DEF At
<1> QED BY <1>1, <1>4, <1>5, LenProperties DEF Blocks

LEMMA WriteKeepsLaid ==
  ASSUME TInv, Laid, NEW s \in 1..geo.n, NEW v \in Value, NEW full \in BOOLEAN,
         Write(s, v, full)
  PROVE  Laid'
<1> USE DEF TInv, TypeOK
<1>0. UNCHANGED <<geo, pad, layout, type, drive>> /\ drive = "Ready"
  BY DEF Write
<1>1. CASE ~SameLayout
  BY <1>0, <1>1, UntoldIsLaid DEF Write
<1>2. CASE SameLayout /\ full
  <2>1. file' = file /\ told' = [told EXCEPT ![s] = Unknown]
    BY <1>2 DEF Write
  <2>2. \A r \in 1..geo.n : told'[r] = told[r] \/ told'[r] = Unknown
    BY <2>1
  <2> QED BY <1>0, <2>1, <2>2, DiskAssumption DEF Laid, Blocks, At
<1>3. CASE SameLayout /\ ~full
  <2> DEFINE at == At(s)
             w == Width(geo, s)
  <2>1. Seek(geo, pad, type, s) = at
    BY <1>3, SameSeek DEF At, SameLayout, Paddings3, ImageTypes
  <2>2. told' = [told EXCEPT ![s] = v] /\ file' = Put(file, at, w, v)
    BY <1>3, <2>1 DEF Write
  <2>3. at \in Nat /\ w \in {1, 2} /\ Len(file) \in Nat
    BY SeekType, LenProperties DEF At, Paddings3, ImageTypes
  <2>4. At(s)' = at /\ Width(geo', s) = w
    BY <1>0 DEF At
  <2> HIDE DEF at, w
  <2>5. /\ Len(file) <= Len(file') /\ at + w <= Len(file') /\ Len(file') \in Nat
        /\ \A i \in (at + 1)..(at + w) : file'[i] = v
        /\ \A i \in 1..Len(file) : i \notin (at + 1)..(at + w) => file'[i] = file[i]
        /\ \A i \in (Len(file) + 1)..Len(file') :
             i \notin (at + 1)..(at + w) => file'[i] = 0
    <3>1. PICK f \in Seq(Value), a \in Nat, k \in {1, 2} : f = file /\ a = at /\ k = w
      BY <2>3
    <3> DEFINE P == Put(f, a, k, v)
    <3>2. /\ Len(f) <= Len(P) /\ a + k <= Len(P)
          /\ \A i \in (a + 1)..(a + k) : P[i] = v
          /\ \A i \in 1..Len(f) : i \notin (a + 1)..(a + k) => P[i] = f[i]
          /\ \A i \in (Len(f) + 1)..Len(P) : i \notin (a + 1)..(a + k) => P[i] = 0
      <4>1. Len(f) \in Nat
        BY LenProperties
      <4>2. Len(P) = IF Len(f) > a + k THEN Len(f) ELSE a + k
        BY PutType
      <4> QED BY <4>1, <4>2 DEF Put
    <3>3. P \in Seq(Value)
      BY PutType
    <3> HIDE DEF P
    <3>4. Len(P) \in Nat
      BY <3>3, LenProperties
    <3>5. file' = P
      BY <2>2, <3>1 DEF P
    <3> QED BY <3>1, <3>2, <3>4, <3>5
  <2>6. ASSUME NEW r \in 1..geo'.n
        PROVE  /\ told'[r] \in Value => /\ At(r)' + Width(geo', r) <= Len(file')
                                        /\ \A i \in Blocks(r)' : file'[i] = told'[r]
               /\ told'[r] = Fresh => \A i \in Blocks(r)' : i <= Len(file') => file'[i] = 0
    <3>1. CASE r = s
      <4>1. told'[s] = v
        BY <1>0, <2>2
      <4>2. Blocks(s)' = (at + 1)..(at + w)
        BY <2>4 DEF Blocks
      <4> QED BY <3>1, <4>1, <4>2, <2>3, <2>5, <2>4, DiskAssumption
    <3>2. CASE r # s
      <4>1. r \in 1..geo.n /\ told'[r] = told[r]
        BY <1>0, <2>2, <3>2
      <4>2. At(r)' = At(r) /\ Width(geo', r) = Width(geo, r) /\ Blocks(r)' = Blocks(r)
        BY <1>0 DEF At, Blocks
      <4>3. At(r) \in Nat /\ Width(geo, r) \in {1, 2}
        BY <4>1, SeekType DEF At, Paddings3, ImageTypes
      <4>4. At(r) + Width(geo, r) <= at \/ at + w <= At(r)
        <5>1. r < s \/ s < r
          BY <3>2, <4>1 DEF Geometry
        <5> QED BY <4>1, <5>1, SectorsApart DEF At, at, w, Paddings3, ImageTypes
      <4>5. \A i \in Blocks(r) : i \in Nat \ {0} /\ i \notin (at + 1)..(at + w)
        BY <2>3, <4>3, <4>4 DEF Blocks
      <4>6. CASE told[r] \in Value
        <5>1. At(r) + Width(geo, r) <= Len(file) /\ \A i \in Blocks(r) : file[i] = told[r]
          BY <1>0, <4>1, <4>6 DEF Laid
        <5>2. At(r) + Width(geo, r) <= Len(file')
          BY <2>3, <2>5, <4>3, <5>1
        <5>3. \A i \in Blocks(r) : i \in 1..Len(file') /\ i <= Len(file)
          BY <2>3, <2>5, <4>3, <5>1 DEF Blocks
        <5> QED BY <2>5, <4>1, <4>2, <4>5, <4>6, <5>1, <5>2, <5>3, DiskAssumption
      <4>7. CASE told[r] = Fresh
        <5>1. \A i \in Blocks(r) : i <= Len(file) => file[i] = 0
          BY <1>0, <4>1, <4>7 DEF Laid
        <5>2. ASSUME NEW i \in Blocks(r), i <= Len(file') PROVE file'[i] = 0
          <6>1. i \in 1..Len(file')
            BY <2>3, <2>5, <4>5, <5>2
          <6> QED BY <2>5, <4>5, <5>1, <6>1
        <5> QED BY <4>1, <4>2, <4>7, <5>2, DiskAssumption
      <4> QED BY <4>1, <4>6, <4>7
    <3> QED BY <3>1, <3>2
  <2> QED BY <2>6 DEF Laid
<1> QED BY <1>1, <1>2, <1>3

LEMMA NextLaid == TInv /\ Laid /\ [Next]_vars => Laid'
<1> SUFFICES ASSUME TInv, Laid, [Next]_vars PROVE Laid'
  OBVIOUS
<1>1. CASE UNCHANGED <<file, geo, pad, told, layout, drive>>
  BY <1>1 DEF Laid, Blocks, At
<1>2. ASSUME NEW g \in Percoms, SetPercom(g) PROVE Laid'
  BY <1>2, <1>1 DEF SetPercom
<1>3. CASE Format \/ FormatED
  BY <1>3, FormatKeepsLaid DEF Format, FormatED, ED, Geometry, TInv, TypeOK
<1>4. ASSUME NEW s \in 1..geo.n, NEW v \in Value, NEW full \in BOOLEAN, Write(s, v, full)
      PROVE Laid'
  BY <1>4, WriteKeepsLaid
<1>5. CASE Save \/ SaveFails \/ \E t \in {"Atr", "Xfd"} : SaveAs(t) \/ SaveAsFails(t)
  BY <1>5, <1>1 DEF Save, SaveFails, SaveAs, SaveAsFails, GuiOnly
<1>6. CASE Reopen
  <2>1. CASE drive' # "Ready"
    BY <2>1 DEF Laid
  <2>2. CASE drive' = "Ready"
    <3>1. PICK img \in Open(type, host, file, pad) :
            img # Refused /\ geo' = img.geo /\ told' = Untold(img.geo)
      BY <1>6, <2>2 DEF Reopen
    <3>2. Opens(img)
      BY <1>6, <3>1, OpenType DEF Reopen, TInv, TypeOK, HostOK, Paddings3, ImageTypes
    <3> QED BY <3>1, <3>2, UntoldIsLaid DEF Opens
  <2> QED BY <2>1, <2>2
<1>7. CASE Protect
  BY <1>7, <1>1 DEF Protect
<1>8. CASE UNCHANGED vars
  BY <1>8, <1>1 DEF vars
<1> QED BY <1>2, <1>3, <1>4, <1>5, <1>6, <1>7, <1>8 DEF Next, Atari, Gui

\* A sector reads what the Atari was told it holds, for every geometry.
THEOREM SectorsCorrect == Spec => []SectorsKept
<1>1. Init => TInv /\ Laid
  BY InitTInv, InitLaid
<1>2. (TInv /\ Laid) /\ [Next]_vars => (TInv /\ Laid)'
  BY NextTInv, NextLaid
<1>3. TInv /\ Laid => SectorsKept
  BY LaidIsRead
<1> QED BY <1>1, <1>2, <1>3, PTL DEF Spec

-----------------------------------------------------------------------------
(* What the host file holds.                                               *)

\* The host file will be opened with the sectors of this size.
Tells(h, g, t) ==
  IF t = "Atr" THEN h.head \in ATRHeader /\ h.head.bps = g.bps
               ELSE h.head = NoHeader

\* v is what the host file h reads as.
Holds(h, v) ==
  /\ v.geo \in Geometry /\ v.pad \in Paddings3 /\ v.type \in ImageTypes
  /\ [v EXCEPT !.warned = FALSE] = View(Image(h.blocks, v.geo, v.pad, FALSE), v.type)
  /\ Tells(h, v.geo, v.type)

\* The host file holds what was saved, whatever the image is by now, and the
\* image that is not modified is of it.  The second conjunct does not speak of
\* the type: a save under another name that fails changes it, and the next may
\* change it back.
Kept ==
  saved # Nothing =>
    /\ Holds(host, saved)
    /\ drive = "Ready" /\ ~modified =>
         saved.geo = geo /\ saved.pad = pad /\ host.blocks = file

\* Of an image, how it reads depends on the file, the geometry and the padding.
LEMMA SameView ==
  ASSUME NEW img, NEW t
  PROVE  View(img, t) = View(Image(img.file, img.geo, img.pad, FALSE), t)
BY DEF View, Image

LEMMA ViewParts ==
  ASSUME NEW img, NEW t
  PROVE  /\ View(img, t).geo = img.geo /\ View(img, t).pad = img.pad
         /\ View(img, t).type = t
BY DEF View

LEMMA UnwarnedView ==
  ASSUME NEW img, NEW t
  PROVE  [View(img, t) EXCEPT !.warned = FALSE] = View(img, t)
<1>1. PICK n : n = FALSE
  OBVIOUS
<1>2. PICK a : a = [s \in 1..img.geo.n |-> ReadFrom(img.file, img.geo, img.pad, t, s)]
  OBVIOUS
<1>3. View(img, t) = [geo |-> img.geo, type |-> t, pad |-> img.pad, warned |-> n, at |-> a]
  BY <1>1, <1>2, Zenon DEF View
<1>4. [View(img, t) EXCEPT !.warned = n] = View(img, t)
  BY <1>3
<1> QED BY <1>1, <1>4, Zenon

LEMMA GuessedWidth ==
  ASSUME NEW b \in Nat, NEW w \in {1, 2}
  PROVE  SizedGuess(b, w).bps = w
BY DEF SizedGuess, DD

\* A temporary file that is not longer than the host file keeps nothing.
LEMMA OverlayShort ==
  ASSUME NEW f \in Seq(Value), NEW temp \in Seq(Value), Len(temp) <= Len(f)
  PROVE  Overlay(f, temp) = f
<1>1. Len(f) \in Nat /\ Len(temp) \in Nat
  BY LenProperties
<1>2. SubSeq(temp, Len(f) + 1, Len(temp)) = <<>>
  BY <1>1, SubSeqEmpty
<1> QED BY <1>2, ConcatEmptySeq DEF Overlay

LEMMA FileType ==
  ASSUME NEW t \in ImageTypes, NEW h, NEW temp, NEW old,
         NEW img \in Open(t, h, temp, old), img # Refused, ~ Len(temp) > Len(h.blocks)
  PROVE  img.file = Overlay(h.blocks, temp)
<1>1. CASE t = "Atr"
  BY <1>1 DEF Open, OpenAtr, Image
<1>2. CASE t = "Xfd"
  <2>1. h.head = NoHeader /\ img \in OpenXfd(h, temp, old)
    BY <1>2 DEF Open
  <2> QED BY <2>1 DEF OpenXfd, Copied, Image
<1> QED BY <1>1, <1>2 DEF ImageTypes

\* What opens of a host file tells what the file holds.
LEMMA OpensHeld ==
  ASSUME NEW t \in ImageTypes, NEW h, h.head \in ATRHeader \cup {NoHeader, NoFile},
         h.blocks \in Seq(Value), NEW temp \in Seq(Value), NEW old \in Paddings3,
         t = "Xfd" => Len(Overlay(h.blocks, temp)) # 1,
         NEW img \in Open(t, h, temp, old), img # Refused,
         Len(temp) <= Len(h.blocks)
  PROVE  /\ Holds(h, View(img, t)) /\ img.file = h.blocks
         /\ View(img, t).geo = img.geo /\ View(img, t).pad = img.pad
<1>1. Opens(img)
  BY OpenType
<1>0. ~ Len(temp) > Len(h.blocks)
  BY LenProperties
<1>2. img.file = h.blocks
  BY <1>0, FileType, OverlayShort
<1>3. View(img, t) = View(Image(h.blocks, img.geo, img.pad, FALSE), t)
  BY <1>2, SameView
<1>4. Tells(h, img.geo, t)
  <2>1. Len(Overlay(h.blocks, temp)) \in Nat
    BY OverlayType, LenProperties
  <2>2. CASE t = "Atr"
    <3>1. h.head \in ATRHeader /\ img \in OpenAtr(h, temp, old)
      BY <2>2 DEF Open
    <3>2. h.head.bps \in {1, 2}
      BY <3>1 DEF ATRHeader
    <3>3. img.geo = SizedGuess(Len(Overlay(h.blocks, temp)), h.head.bps)
      BY <3>1 DEF OpenAtr, Image
    <3> QED BY <2>1, <2>2, <3>1, <3>2, <3>3, GuessedWidth DEF Tells
  <2>3. CASE t = "Xfd"
    BY <1>0, <2>3 DEF Open, Tells
  <2> QED BY <2>2, <2>3 DEF ImageTypes
<1>5. Holds(h, View(img, t))
  <2>1. PICK v : v = View(img, t)
    OBVIOUS
  <2>2. v.geo = img.geo /\ v.pad = img.pad /\ v.type = t
    BY <2>1, ViewParts
  <2>3. [v EXCEPT !.warned = FALSE] = v
    BY <2>1, UnwarnedView, Zenon
  <2>4. [v EXCEPT !.warned = FALSE] = View(Image(h.blocks, v.geo, v.pad, FALSE), v.type)
    BY <1>3, <2>1, <2>2, <2>3, Zenon
  <2> QED BY <1>1, <1>4, <2>1, <2>2, <2>4 DEF Opens, Holds
<1> QED BY <1>2, <1>5, ViewParts

LEMMA InitKept == ASSUME Init, TInv PROVE Kept
<1> USE DEF TInv, TypeOK, HostOK
<1>1. CASE \E g \in NewDisks : Created(g)
  BY <1>1 DEF Created, Kept
<1>2. ASSUME NEW h \in HostFiles, Opened(h) PROVE Kept
  <2>1. PICK img \in Open(type, h, <<>>, "None") \ {Refused} :
          /\ file = img.file /\ geo = img.geo /\ pad = img.pad
          /\ saved = View(img, type)
    BY <1>2 DEF Opened
  <2>2. host = h /\ type \in ImageTypes /\ (type = "Xfd" => h.head = NoHeader)
    BY <1>2 DEF Opened, ImageTypes
  <2>3. Len(<<>>) <= Len(h.blocks) /\ <<>> \in Seq(Value) /\ h.blocks \in Seq(Value)
    BY <2>2, EmptySeq, LenProperties
  <2>4. type = "Xfd" => Len(Overlay(h.blocks, <<>>)) # 1
    BY <2>2, <2>3, OverlayShort, FilesAssumption
  <2>5. /\ Holds(h, View(img, type)) /\ img.file = h.blocks
        /\ View(img, type).geo = img.geo /\ View(img, type).pad = img.pad
    <3>1. h.head \in ATRHeader \cup {NoHeader, NoFile} /\ "None" \in Paddings3
      BY <2>2 DEF Paddings3
    <3> DEFINE none == <<>>
    <3>2. none \in Seq(Value) /\ Len(none) <= Len(h.blocks)
      BY <2>3
    <3>3. type = "Xfd" => Len(Overlay(h.blocks, none)) # 1
      BY <2>4
    <3>4. img \in Open(type, h, none, "None") /\ img # Refused
      BY <2>1
    <3> HIDE DEF none
    <3> QED BY <2>2, <2>3, <3>1, <3>2, <3>3, <3>4, OpensHeld
  <2> QED BY <2>1, <2>2, <2>5 DEF Kept
<1> QED BY <1>1, <1>2 DEF Init

LEMMA SaveKeepsKept ==
  ASSUME TInv, NEW t \in ImageTypes, SaveTo(t), UNCHANGED drive, GuiOnly
  PROVE  Kept'
<1> DEFINE guess == IF t = "Atr" THEN SizedGuess(SizeOf(geo), geo.bps)
                    ELSE TotalGuess(SizeOf(geo))
<1>1. PICK w \in BOOLEAN : w = (guess # geo)
  BY Zenon
<1>2. saved' = [View(Image(file, geo, pad, FALSE), t) EXCEPT !.warned = w]
  BY <1>1 DEF SaveTo
<1> HIDE DEF guess
<1>3. /\ saved'.geo = geo /\ saved'.pad = pad /\ saved'.type = t
      /\ [saved' EXCEPT !.warned = FALSE] = View(Image(file, geo, pad, FALSE), t)
  <2>1. PICK img : img = Image(file, geo, pad, FALSE)
    OBVIOUS
  <2>2. saved' = [View(img, t) EXCEPT !.warned = w]
    BY <1>2, <2>1
  <2>3. img.geo = geo /\ img.pad = pad
    BY <2>1 DEF Image
  <2>4. PICK v : v = saved'
    OBVIOUS
  <2>5. PICK a : a = [s \in 1..img.geo.n |-> ReadFrom(img.file, img.geo, img.pad, t, s)]
    OBVIOUS
  <2>6. PICK n : n = FALSE
    OBVIOUS
  <2>7. View(img, t) = [geo |-> geo, type |-> t, pad |-> pad, warned |-> n, at |-> a]
    BY <2>3, <2>5, <2>6, Zenon DEF View
  <2>8. v = [geo |-> geo, type |-> t, pad |-> pad, warned |-> w, at |-> a]
    BY <2>2, <2>4, <2>7
  <2>9. [v EXCEPT !.warned = n] = [geo |-> geo, type |-> t, pad |-> pad, warned |-> n, at |-> a]
    BY <2>8
  <2>10. v.geo = geo /\ v.pad = pad /\ v.type = t
    BY <2>8
  <2> QED BY <2>1, <2>4, <2>6, <2>7, <2>9, <2>10, Zenon
<1>4. host' = Written(t, file) /\ host'.blocks = file
  BY DEF SaveTo, Written
<1>5. UNCHANGED <<file, geo, pad>>
  BY DEF GuiOnly
<1>6. Tells(host', geo, t)
  BY <1>4, SizeType DEF Tells, Written, Header, ATRHeader, Geometry, TInv, TypeOK,
     ImageTypes
<1>7. Holds(host', saved')
  BY <1>3, <1>4, <1>6 DEF Holds, TInv, TypeOK, Paddings3
<1> QED BY <1>3, <1>4, <1>5, <1>7 DEF Kept

LEMMA NextKept == TInv /\ Kept /\ [Next]_vars => Kept'
<1> SUFFICES ASSUME TInv, Kept, [Next]_vars PROVE Kept'
  OBVIOUS
<1>1. CASE UNCHANGED <<file, geo, pad, modified, drive, host, saved>>
  BY <1>1 DEF Kept
<1>2. ASSUME NEW g \in Percoms, SetPercom(g) PROVE Kept'
  BY <1>2, <1>1 DEF SetPercom
<1>3. ASSUME modified' = TRUE, UNCHANGED <<host, saved>> PROVE Kept'
  BY <1>3 DEF Kept
<1>4. CASE Format \/ FormatED
  BY <1>4, <1>3 DEF Format, FormatED, FormatAs
<1>5. ASSUME NEW s \in 1..geo.n, NEW v \in Value, NEW full \in BOOLEAN, Write(s, v, full)
      PROVE Kept'
  BY <1>5, <1>3 DEF Write, Mark
<1>6. CASE Save \/ \E t \in {"Atr", "Xfd"} : SaveAs(t)
  BY <1>6, SaveKeepsKept DEF Save, SaveAs, TInv, TypeOK, ImageTypes
<1>7. CASE SaveFails
  BY <1>7 DEF SaveFails, Kept
<1>8. CASE \E t \in {"Atr", "Xfd"} : SaveAsFails(t)
  BY <1>8, <1>1 DEF SaveAsFails, GuiOnly
<1>9. CASE Reopen
  <2>1. PICK img \in IF drive = "Spoiled" THEN {Refused} ELSE Open(type, host, file, pad) :
          IF img = Refused
            THEN drive' # "Ready" /\ saved' = saved
            ELSE /\ drive # "Spoiled"
                 /\ file' = img.file /\ pad' = img.pad /\ geo' = img.geo
                 /\ saved' = IF Len(file) > Len(host.blocks) THEN Nothing
                             ELSE View(img, type)
    BY <1>9 DEF Reopen
  <2>2. host' = host
    BY <1>9 DEF Reopen
  <2>3. CASE img = Refused
    BY <2>1, <2>2, <2>3 DEF Kept
  <2>4. CASE img # Refused /\ Len(file) > Len(host.blocks)
    BY <2>1, <2>4 DEF Kept
  <2>5. CASE img # Refused /\ ~(Len(file) > Len(host.blocks))
    <3>1. Len(file) <= Len(host.blocks)
      BY <2>5, LenProperties DEF TInv, TypeOK, HostOK
    <3>2. /\ Holds(host, View(img, type)) /\ img.file = host.blocks
          /\ View(img, type).geo = img.geo /\ View(img, type).pad = img.pad
      BY <1>9, <2>1, <2>5, <3>1, OpensHeld
         DEF Reopen, TInv, TypeOK, HostOK, Paddings3, ImageTypes
    <3> QED BY <2>1, <2>2, <2>5, <3>2 DEF Kept
  <2> QED BY <2>3, <2>4, <2>5
<1>10. CASE Protect
  BY <1>10, <1>1 DEF Protect
<1>11. CASE UNCHANGED vars
  BY <1>11, <1>1 DEF vars
<1> QED BY <1>2, <1>4, <1>5, <1>6, <1>7, <1>8, <1>9, <1>10, <1>11 DEF Next, Atari, Gui

LEMMA KeptIsAsSaved == Kept => UnmodifiedAsSaved
BY DEF Kept, Holds, UnmodifiedAsSaved

\* The host file holds what was saved, whatever has happened to the image.
THEOREM HostKept == Spec => []Kept
<1>1. Init => TInv /\ Kept
  BY InitTInv, InitKept
<1>2. (TInv /\ Kept) /\ [Next]_vars => (TInv /\ Kept)'
  BY NextTInv, NextKept
<1> QED BY <1>1, <1>2, PTL DEF Spec

\* An image without the mark reads as its host file, for all geometries, files
\* and contents.
THEOREM MarkCorrect == Spec => []UnmodifiedAsSaved
BY HostKept, KeptIsAsSaved, PTL

-----------------------------------------------------------------------------
(* Reverting.                                                              *)

\* The padding matters only in an ATR image of double density.
LEMMA SamePadding ==
  ASSUME NEW f, NEW g, NEW p, NEW q, NEW t, NEW s,
         g.bps = 1 \/ t = "Xfd" \/ p = q
  PROVE  ReadFrom(f, g, p, t, s) = ReadFrom(f, g, q, t, s)
<1>1. Seek(g, p, t, s) = Seek(g, q, t, s)
  BY DEF Seek
<1> QED BY <1>1 DEF ReadFrom

\* The sizes of the standard disks, with and without padding, tell which it is.
LEMMA StandardSizes ==
  ASSUME NEW g \in {SD, ED, DD}, NEW b \in {SizeOf(g), g.bps * g.n}
  PROVE  /\ SizedGuess(b, g.bps) = g /\ TotalGuess(b) = g
         /\ b \in Nat /\ b > 1 /\ (g.bps = 1 => b \in {SD.n, ED.n})
         /\ g \in Geometry /\ (g.bps = 2 => b \in {5, 8})
BY DEF SizeOf, SizedGuess, TotalGuess, SD, ED, DD, Geometry

\* A host file that the format can tell opens, as what was saved.
LEMMA UnderstoodOpens ==
  ASSUME TInv, Kept, Understood,
         NEW img \in IF drive = "Spoiled" THEN {Refused} ELSE Open(type, host, file, pad)
  PROVE  /\ img # Refused /\ img.file = host.blocks /\ img.geo = saved.geo
         /\ img.geo.bps = 1 \/ type = "Xfd" \/ img.pad = saved.pad
<1> USE DEF TInv, TypeOK, HostOK
<1> DEFINE b == Len(host.blocks)
           g == saved.geo
<1>1. Tells(host, g, type) /\ saved.pad \in Paddings3
  BY DEF Kept, Holds, Understood
<1>3. g \in {SD, ED, DD} /\ b \in {SizeOf(g), g.bps * g.n}
  BY DEF Understood
<1>4. /\ SizedGuess(b, g.bps) = g /\ TotalGuess(b) = g
      /\ (g.bps = 1 => b \in {SD.n, ED.n}) /\ g \in Geometry
  BY <1>3, StandardSizes
<1>5. Overlay(host.blocks, file) = host.blocks
  BY OverlayShort DEF Understood
<1>6. img \in Open(type, host, file, pad)
  BY DEF Understood
<1>7. ASSUME NEW q \in Paddings3, NEW m \in BOOLEAN PROVE Image(host.blocks, g, q, m) # Refused
  BY <1>4, MarksAssumption DEF Image, Paddings3
<1> HIDE DEF b, g
<1>8. CASE type = "Atr"
  <2>1. host.head \in ATRHeader /\ host.head.bps = g.bps
    BY <1>1, <1>8 DEF Tells
  <2>2. img \in OpenAtr(host, file, pad)
    BY <1>6, <1>8, <2>1, MarksAssumption DEF Open
  <2>3. PICK m \in BOOLEAN : m = (b # host.head.size)
    BY Zenon
  <2>4. CASE g.bps = 1
    <3>1. img = Image(host.blocks, g, pad, m)
      BY <1>4, <1>5, <2>1, <2>2, <2>3, <2>4 DEF OpenAtr, b
    <3>2. pad \in Paddings3
      BY DEF Paddings3
    <3> QED BY <1>7, <2>4, <3>1, <3>2 DEF Image, g
  <2>5. CASE g.bps # 1
    <3>1. g.bps = 2
      BY <1>4, <2>5 DEF Geometry
    <3>2. Paddings(host.blocks, b, pad) = {saved.pad}
      BY <1>8, <3>1 DEF Understood, b, g
    <3>3. saved.pad # "Bad"
      BY <1>1 DEF Paddings3
    <3>4. img = Image(host.blocks, g, saved.pad, m)
      BY <1>4, <1>5, <2>1, <2>2, <2>3, <2>5, <3>2, <3>3 DEF OpenAtr, b
    <3> QED BY <1>1, <1>7, <3>4 DEF Image, g
  <2> QED BY <2>4, <2>5
<1>9. CASE type = "Xfd"
  <2>1. host.head = NoHeader
    BY <1>1, <1>9 DEF Tells
  <2>2. img = Image(host.blocks, g, pad, FALSE)
    BY <1>4, <1>5, <1>6, <1>9, <2>1 DEF Open, OpenXfd, Copied, b
  <2>3. pad \in Paddings3
    BY DEF Paddings3
  <2> QED BY <1>7, <1>9, <2>2, <2>3 DEF Image, g
<1> QED BY <1>8, <1>9

LEMMA RevertStep == ASSUME TInv, Kept, Understood, Reopen
                    PROVE  /\ drive' = "Ready" /\ geo' = saved.geo
                           /\ \A s \in 1..saved.geo.n : Sector(s)' = saved.at[s]
<1>1. PICK img \in IF drive = "Spoiled" THEN {Refused} ELSE Open(type, host, file, pad) :
        img # Refused => /\ drive' = "Ready" /\ file' = img.file
                         /\ pad' = img.pad /\ geo' = img.geo
  BY DEF Reopen
<1>2. /\ img # Refused /\ img.file = host.blocks /\ img.geo = saved.geo
      /\ img.geo.bps = 1 \/ type = "Xfd" \/ img.pad = saved.pad
  BY UnderstoodOpens
<1>3. type' = type
  BY DEF Reopen
<1>4. saved.at = [s \in 1..saved.geo.n |->
                   ReadFrom(host.blocks, saved.geo, saved.pad, type, s)]
  <2>1. saved # Nothing /\ saved.type = type
    BY DEF Understood
  <2>2. PICK g : g = saved.geo
    OBVIOUS
  <2>3. PICK q : q = saved.pad
    OBVIOUS
  <2>4. PICK n : n = FALSE
    OBVIOUS
  <2>5. [saved EXCEPT !.warned = n] = View(Image(host.blocks, g, q, n), type)
    BY <2>1, <2>2, <2>3, <2>4, Zenon DEF Kept, Holds
  <2>6. PICK at : at = [s \in 1..g.n |-> ReadFrom(host.blocks, g, q, type, s)]
    OBVIOUS
  <2>7. View(Image(host.blocks, g, q, n), type) =
          [geo |-> g, type |-> type, pad |-> q, warned |-> n, at |-> at]
    BY <2>4, <2>6, Zenon DEF View, Image
  <2>8. saved.at = at
    BY <2>5, <2>7
  <2> QED BY <2>2, <2>3, <2>6, <2>8
<1>5. ASSUME NEW s \in 1..saved.geo.n PROVE Sector(s)' = saved.at[s]
  <2>1. Sector(s)' = ReadFrom(host.blocks, saved.geo, img.pad, type, s)
    BY <1>1, <1>2, <1>3 DEF Sector
  <2>2. saved.at[s] = ReadFrom(host.blocks, saved.geo, saved.pad, type, s)
    BY <1>4
  <2> QED BY <1>2, <2>1, <2>2, SamePadding
<1> QED BY <1>1, <1>2, <1>5

\* Reverting brings back what was saved, for all contents of a disk of a
\* standard size.
THEOREM RevertCorrect == Spec => RevertRestores
<1>1. TInv /\ Kept /\ [Next]_vars =>
        [Understood /\ Reopen =>
           /\ drive' = "Ready" /\ geo' = saved.geo
           /\ \A s \in 1..saved.geo.n : Sector(s)' = saved.at[s]]_vars
  BY RevertStep
<1>2. Init => TInv /\ Kept
  BY InitTInv, InitKept
<1>3. (TInv /\ Kept) /\ [Next]_vars => (TInv /\ Kept)'
  BY NextTInv, NextKept
<1> QED BY <1>1, <1>2, <1>3, PTL DEF Spec, RevertRestores
=============================================================================
