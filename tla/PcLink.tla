------------------------------- MODULE PcLink -------------------------------
(***************************************************************************)
(* PCLINK, the device that serves host folders to SpartaDOS X              *)
(* (src/src/sio/pclink.cpp).  A subcommand takes two SIO commands: P       *)
(* carries its parameter buffer, R moves its data.  The server keeps, per  *)
(* unit, the parameter buffer and the status block; for all units, the     *)
(* descriptors (16 in the code) and old_ccom, the last command it served.  *)
(* It tells a retry from a new request by these two only.                  *)
(*                                                                         *)
(* The line between the Atari and the program may lose a command, damage a *)
(* data frame, or lose an answer; the Atari then sends the same command    *)
(* again, or gives up.  The folders of the units are linked, unlinked and  *)
(* swapped by the GUI while no PCLINK command runs (SioDevices,            *)
(* LinksChangeOffline).                                                    *)
(*                                                                         *)
(* The host file system is not modelled: what open, read, write and seek   *)
(* return is chosen freely.  Positions count blocks in a file and matching *)
(* entries in a directory.                                                 *)
(***************************************************************************)
EXTENDS Integers, FiniteSets, FiniteSetsExt

CONSTANTS NUnits,    \* linked units are 1..NUnits (15 in the code)
          MaxHandle, \* descriptors are 0..MaxHandle (15 in the code); 255 is none
          Sizes,     \* block sizes of FREAD and FWRITE
          Modes,     \* fmode of FOPEN
          MaxLen,    \* bound of the length of a file when it is opened
          MaxPos     \* bound of the positions the client moves to

ASSUME Bounds == /\ NUnits \in Nat \ {0} /\ MaxHandle \in 0..254
                 /\ MaxLen \in Nat \ {0} /\ MaxPos \in Nat
                 /\ Sizes \subseteq Nat /\ Modes \subseteq {4, 8, 9, 12}

Unit    == 0..NUnits
Handle  == 0..MaxHandle
NoHandle == 255

VARIABLES
  on,          \* device[u].on: the linked units
  parbuf,      \* device[u].parbuf
  err,         \* device[u].status.err
  iodesc,      \* iodesc[h]
  oldCcom,     \* old_ccom
  cpc,         \* the client: idle, or sending the P or the R of its call
  call,        \* the call it makes: unit and parameter buffer
  known,       \* the handles it holds: their unit, kind and position
  told,        \* a call failed and the client cannot know how far it got
  begun,       \* history: the server took a P of this call
  done,        \* history: how often it executed this call (a name operation)
  relinked,    \* history: the GUI changed the links during this call
  fault        \* the program has used a null FILE

server == <<on, parbuf, err, iodesc, oldCcom>>
history == <<begun, done, relinked>>
vars == <<server, cpc, call, known, told, history, fault>>

\* fread(00), fwrite(01), fseek(02), ftell(03: FTELL, FLEN), fnext(06),
\* fclose(07), init(08), fopen(09), ffirst(0A), name (0B-10, 14: RENAME,
\* REMOVE, CHMOD, MKDIR, RMDIR, CHDIR, CHVOL).  GETCWD(11) and DFREE(13) are FTELLs that need no handle.
Fno == {"fread", "fwrite", "fseek", "ftell", "fnext", "fclose", "init",
        "fopen", "ffirst", "name"}

\* Those with an R.
TwoPhase == {"fread", "fwrite", "ftell", "fnext", "fopen", "ffirst"}

\* arg is the size, the position, fmode, or the names.
Parbuf == [fno : Fno, handle : Handle \cup {NoHandle}, arg : Nat]

ZeroParbuf == [fno |-> "fread", handle |-> 0, arg |-> 0]

Closed == [open |-> FALSE, unit |-> 0, mode |-> 0, pos |-> 0, len |-> 0,
           fpread |-> 0, eof |-> FALSE]

Unknown == [unit |-> 0, dir |-> FALSE, pos |-> 0]

NoCall == [unit |-> 0, par |-> ZeroParbuf]

\* ok is 1, and 3 for the last block or entry; eof is 136; crc is 143; fail
\* is any other.
Err == {"ok", "eof", "crc", "fail"}

TypeOK ==
  /\ on \subseteq Unit \ {0}
  /\ parbuf \in [Unit -> Parbuf]
  /\ err \in [Unit -> Err]
  /\ iodesc \in [Handle -> [open : BOOLEAN, unit : Unit, mode : Nat, pos : Nat,
                            len : 0..(MaxLen + 1), fpread : Nat, eof : BOOLEAN]]
  /\ oldCcom \in {"none", "P", "R"}
  /\ cpc \in {"idle", "P", "R"}
  /\ call \in [unit : Unit, par : Parbuf]
  /\ known \in [Handle -> [unit : Unit, dir : BOOLEAN, pos : Nat]]
  /\ told \in BOOLEAN /\ begun \in BOOLEAN /\ relinked \in BOOLEAN /\ fault \in BOOLEAN
  /\ done \in 0..2

Init ==
  /\ on = {}
  /\ parbuf = [u \in Unit |-> ZeroParbuf]
  /\ err = [u \in Unit |-> "fail"]
  /\ iodesc = [h \in Handle |-> Closed]
  /\ oldCcom = "none"
  /\ cpc = "idle" /\ call = NoCall
  /\ known = [h \in Handle |-> Unknown]
  /\ told = FALSE
  /\ begun = FALSE /\ done = 0 /\ relinked = FALSE
  /\ fault = FALSE

-----------------------------------------------------------------------------
(***************************************************************************)
(* The server: the P phase of each subcommand, on the buffer p that has    *)
(* just been stored.                                                       *)
(***************************************************************************)
IsDir(fmode) == fmode >= 16
Writes(fmode) == fmode % 16 >= 8

\* handle > 15 || iodesc[handle].fps.file == nullptr
BadHandle(h) == h = NoHandle \/ ~iodesc[h].open

\* fps_close of the descriptors that satisfy the test.
CloseAll(S) == [h \in Handle |-> IF h \in S THEN Closed ELSE iodesc[h]]

OfUnit(u) == {h \in Handle : iodesc[h].open /\ iodesc[h].unit = u}

Store(u, p) == parbuf' = [parbuf EXCEPT ![u] = p]

Status(u, e) == err' = [err EXCEPT ![u] = e]

\* Defect: sizes are signed.
AvailableSigned(d, n) == IF d.len - d.pos < n THEN d.len - d.pos ELSE n

\* A size is unsigned: beyond the length there seems to be no end.
Available(d, n) == IF d.pos <= d.len /\ d.len - d.pos < n THEN d.len - d.pos ELSE n

\* FREAD and FWRITE refuse a block of size 0; FREAD shortens its block.
ReadP(u, p) ==
  /\ p.fno = "fread" /\ ~BadHandle(p.handle) /\ p.arg > 0
  /\ LET n == Available(iodesc[p.handle], p.arg)
     IN  /\ Store(u, [p EXCEPT !.arg = n])
         /\ Status(u, IF n = 0 THEN "eof" ELSE "ok")
         /\ iodesc' = [iodesc EXCEPT ![p.handle].eof = (n < p.arg)]

BlockP(u, p) ==
  /\ p.fno \in {"fread", "fwrite"} /\ ~BadHandle(p.handle)
  /\ p.fno = "fwrite" \/ p.arg = 0
  /\ Status(u, IF p.arg = 0 THEN "fail" ELSE "ok")
  /\ Store(u, p) /\ UNCHANGED iodesc

SeekP(u, p) ==
  /\ p.fno = "fseek" /\ ~BadHandle(p.handle)
  /\ LET may == Writes(iodesc[p.handle].mode) \/ p.arg <= iodesc[p.handle].len
     IN  /\ Status(u, IF may THEN "ok" ELSE "fail")
         /\ iodesc' = IF may THEN [iodesc EXCEPT ![p.handle].pos = p.arg] ELSE iodesc
  /\ Store(u, p)

CloseP(u, p) ==
  /\ p.fno = "fclose" /\ ~BadHandle(p.handle)
  /\ iodesc' = CloseAll({p.handle})
  /\ Status(u, "ok") /\ Store(u, p)

HandleP(u, p) ==
  /\ p.fno \in {"fread", "fwrite", "fseek", "ftell", "fclose"}
  /\ \/ BadHandle(p.handle) /\ Status(u, "fail")
     \/ ~BadHandle(p.handle) /\ p.fno = "ftell" /\ Status(u, "ok")
  /\ Store(u, p) /\ UNCHANGED iodesc

\* do_pclink_init(0)
InitP(u, p) ==
  /\ p.fno = "init"
  /\ iodesc' = CloseAll(Handle)
  /\ parbuf' = [v \in Unit |-> IF v = u THEN [ZeroParbuf EXCEPT !.handle = NoHandle]
                               ELSE ZeroParbuf]
  /\ Status(u, "ok")

\* FFIRST opens a directory; FNEXT checks its handle in its R.
OtherP(u, p) ==
  /\ p.fno \in {"fopen", "ffirst", "fnext"}
  /\ Store(u, IF p.fno = "ffirst" THEN [p EXCEPT !.arg = @ + 16] ELSE p)
  /\ Status(u, "ok") /\ UNCHANGED iodesc

\* The operations on names run in the P phase, with any outcome.
NameP(u, p) ==
  /\ p.fno = "name"
  /\ \E e \in {"ok", "fail"} : Status(u, e)
  /\ Store(u, p) /\ UNCHANGED iodesc

\* Fnos whose P is handled again when it comes again.
Repeatable == {"fread", "fwrite", "ftell", "fnext"}

\* Defect: no retry is recognised.
NeverRetry(u, p) == parbuf[u] = p /\ p.fno \notin Fno

\* processParameterBuffer: the buffer is the one of the last P.
IsRetry(u, p) == parbuf[u] = p /\ p.fno \notin Repeatable

\* processParameterBuffer and the P branch of do_pclink.
ServeP(u, p, damaged) ==
  \/ /\ damaged
     /\ Status(u, "crc")
     /\ UNCHANGED <<parbuf, iodesc>>
  \/ /\ ~damaged /\ IsRetry(u, p)
     /\ UNCHANGED <<parbuf, err, iodesc>>
  \/ /\ ~damaged /\ ~IsRetry(u, p)
     /\ \/ ReadP(u, p) \/ BlockP(u, p) \/ SeekP(u, p) \/ CloseP(u, p)
        \/ HandleP(u, p) \/ InitP(u, p) \/ OtherP(u, p) \/ NameP(u, p)

-----------------------------------------------------------------------------
(***************************************************************************)
(* The R phase.                                                            *)
(***************************************************************************)
\* Defect: an R is served again.
NeverNak(p) == p.fno \notin Fno

\* A second R is refused: "serial communication error, abort".
Naks(p) == oldCcom = "R" /\ p.fno \in {"fread", "fwrite", "fnext", "fopen", "ffirst"}

\* What a read of n blocks may return, and its status.
ReadOutcomes(d, n) ==
  IF IsDir(d.mode)
    THEN LET m == Available(d, n) IN {<<m, IF m < n THEN "eof" ELSE "ok">>}
    ELSE {<<n, "ok">>, <<n, "fail">>}
           \cup (IF n > 0 THEN {<<0, "fail">>} ELSE {})
           \cup {<<m, "eof">> : m \in 0..(n - 1)}

WriteOutcomes(d, n) ==
  {<<n, "ok">>} \cup
    (IF IsDir(d.mode) THEN {}
     ELSE {<<d.fpread, "fail">>} \cup {<<m, "fail">> : m \in 0..(n - 1)})

\* Defect: the position does not follow a short transfer.
MoveAll(d, o, n) == [d EXCEPT !.fpread = o[1], !.pos = @ + n]

\* The position moves by what was transferred.
Move(d, o, n) == [d EXCEPT !.fpread = o[1], !.pos = @ + o[1]]

\* FREAD, after the transfer: the end of the file is part of the status.
EndOf(d, e) == IF e # "ok" THEN e
               ELSE IF d.eof THEN "eof" ELSE "ok"

\* The R of FREAD and FWRITE does not check its handle again, nor that
\* its P succeeded; without it, what the last transfer moved is added again.
Transfer(u, p) ==
  LET h == p.handle
      d == iodesc[h]
      S == IF err[u] # "ok" THEN {<<d.fpread, err[u]>>}
           ELSE IF p.fno = "fread" THEN ReadOutcomes(d, p.arg) ELSE WriteOutcomes(d, p.arg)
  IN  /\ h \in Handle
      /\ d.open \/ (err[u] # "ok" /\ p.fno = "fread")
      /\ \E o \in S :
           /\ iodesc' = [iodesc EXCEPT ![h] = Move(d, o, p.arg)]
           /\ Status(u, IF p.fno = "fread" THEN EndOf(iodesc'[h], o[2]) ELSE o[2])
      /\ UNCHANGED fault

\* The data of an FWRITE are damaged.
WriteDamaged(u, p) ==
  /\ p.fno = "fwrite" /\ ~BadHandle(p.handle)
  /\ Status(u, "crc") /\ UNCHANGED <<iodesc, fault>>

\* fseek of a null FILE.
NullFile(u, p) ==
  /\ IF p.handle \in Handle THEN ~iodesc[p.handle].open ELSE TRUE
  /\ p.fno = "fwrite" \/ (p.fno = "fread" /\ err[u] = "ok")
  /\ fault' = TRUE
  /\ UNCHANGED <<err, iodesc>>

NextR(u, p) ==
  LET d == iodesc[p.handle]
      bad == BadHandle(p.handle)
  IN  /\ \/ bad /\ Status(u, "fail") /\ UNCHANGED iodesc
         \/ ~bad /\ d.pos >= d.len /\ Status(u, "eof") /\ UNCHANGED iodesc
         \/ /\ ~bad /\ d.pos < d.len
            /\ iodesc' = [iodesc EXCEPT ![p.handle].pos = @ + 1]
            /\ UNCHANGED err
      /\ UNCHANGED fault

\* findFreeDescriptor
Free == {h \in Handle : ~iodesc[h].open}

\* FOPEN and FFIRST: refused, for one of many reasons; no free descriptor;
\* or opened.  A directory has its header entry, which is returned at once;
\* a file opened to write is empty, and one opened to append is at its end.
OpenR(u, p) ==
  /\ \/ /\ Status(u, "fail")
        /\ UNCHANGED <<parbuf, iodesc>>
     \/ \E n \in 0..MaxLen :
          /\ Free # {}
          /\ p.arg = 8 => n = 0
          /\ iodesc' = [iodesc EXCEPT ![Min(Free)] =
                          [open |-> TRUE, unit |-> u, mode |-> p.arg,
                           pos |-> IF IsDir(p.arg) THEN 1 ELSE IF p.arg = 9 THEN n ELSE 0,
                           len |-> IF IsDir(p.arg) THEN n + 1 ELSE n,
                           fpread |-> 0, eof |-> FALSE]]
          /\ UNCHANGED err
          /\ Store(u, [p EXCEPT !.handle = Min(Free)])
  /\ UNCHANGED fault

\* The R branch of do_pclink, for the buffer p of the unit.
ServeR(u, p, damaged) ==
  \/ /\ p.fno \in {"fread", "fwrite"} /\ (damaged => p.fno = "fread")
     /\ Transfer(u, p) /\ UNCHANGED parbuf
  \/ damaged /\ WriteDamaged(u, p) /\ UNCHANGED parbuf
  \/ NullFile(u, p) /\ UNCHANGED parbuf
  \/ p.fno = "fnext" /\ NextR(u, p) /\ UNCHANGED parbuf
  \/ p.fno \in {"fopen", "ffirst"} /\ OpenR(u, p)
  \/ p.fno = "ftell" /\ UNCHANGED <<parbuf, err, iodesc, fault>>

-----------------------------------------------------------------------------
(***************************************************************************)
(* The client: SpartaDOS X.  It makes one call at a time, on a handle it   *)
(* holds or on one it does not, but never on a handle of another unit; it  *)
(* sends the P until an answer comes, reads the status, sends the R until  *)
(* an answer comes, and reads the status again.  A NAK ends the call.      *)
(***************************************************************************)
Par(f, h, n) == [fno |-> f, handle |-> h, arg |-> n]

HandleCalls(h) ==
  {Par(f, h, n) : f \in {"fread", "fwrite"}, n \in {m \in Sizes : iodesc[h].pos + m <= MaxPos}}
  \cup {Par("fseek", h, n) : n \in 0..MaxLen}
  \cup {Par("ftell", h, 0), Par("fclose", h, 0)}
  \cup {Par("fnext", h, 0) : n \in {m \in {0} : iodesc[h].open => IsDir(iodesc[h].mode)}}

Calls(u) ==
  {Par("fopen", 0, m) : m \in Modes} \cup {Par("ffirst", 0, 4)}
  \cup {Par("name", 0, 0)}
  \cup UNION {HandleCalls(h) : h \in {g \in Handle : known[g].unit \in {0, u}}}

\* A warm reset sends INIT and forgets all handles.
Begin(u, p) ==
  /\ ~fault /\ cpc = "idle"
  /\ cpc' = "P" /\ call' = [unit |-> u, par |-> p]
  /\ known' = IF u = 0 THEN [h \in Handle |-> Unknown] ELSE known
  /\ UNCHANGED <<server, told, history, fault>>

\* device[cunit].on; otherwise there is no answer at all.
Answers(u) == u = 0 \/ u \in on

\* A call that fails: the client relies on none of its handles any more.
Fails == /\ cpc' = "idle" /\ call' = NoCall
         /\ told' = TRUE /\ known' = [h \in Handle |-> Unknown]

Again == UNCHANGED <<cpc, call, known, told>>

\* A P concluded the call: what the client knows after FSEEK, FCLOSE, INIT.
Known(p) ==
  IF p.fno = "fclose" THEN [known EXCEPT ![p.handle] = Unknown]
  ELSE IF p.fno = "fseek" /\ known[p.handle].unit # 0
    THEN [known EXCEPT ![p.handle].pos = p.arg] ELSE known

AfterP(u, p) ==
  \/ err'[u] = "crc" /\ Again
  \/ err'[u] \notin {"ok", "crc"} /\ cpc' = "idle" /\ call' = NoCall /\ UNCHANGED <<known, told>>
  \/ /\ err'[u] = "ok"
     /\ IF p.fno \in TwoPhase THEN cpc' = "R" /\ UNCHANGED <<call, known, told>>
        ELSE /\ cpc' = "idle" /\ call' = NoCall
             /\ known' = Known(p)
             /\ told' = (told /\ p.fno # "init")

\* The data of an R that was answered, with its status.
AfterR(u, p) ==
  LET h    == parbuf'[u].handle
      good == err'[u] = "ok"
      mine == p.fno \in {"fread", "fwrite", "fnext"} /\ known[h].unit # 0
      got  == IF p.fno # "fnext" THEN iodesc'[h].fpread ELSE IF good THEN 1 ELSE 0
  IN  IF p.fno \in {"fread", "fwrite"} /\ ~good /\ err'[u] # "eof" THEN Fails
      ELSE /\ cpc' = "idle" /\ call' = NoCall /\ UNCHANGED told
           /\ known' = IF p.fno \in {"fopen", "ffirst"} /\ good
                         THEN [known EXCEPT ![h] = [unit |-> u, dir |-> p.fno = "ffirst",
                                                    pos |-> iodesc'[h].pos]]
                       ELSE IF mine THEN [known EXCEPT ![h].pos = @ + got] ELSE known

\* The history of a call ends with it, except when it ends in a crash.
Record(b, d) ==
  /\ begun' = (b /\ cpc' # "idle")
  /\ done' = IF cpc' = "idle" THEN 0 ELSE d
  /\ relinked' = (relinked /\ (cpc' # "idle" \/ fault'))

SendP(damaged, heard) ==
  LET u == call.unit
      p == call.par
      fresh == ~damaged /\ ~IsRetry(u, p)
  IN  /\ ~fault /\ cpc = "P" /\ Answers(u)
      /\ ServeP(u, p, damaged) /\ oldCcom' = "P"
      /\ IF heard THEN AfterP(u, p) ELSE Again
      /\ UNCHANGED <<on, fault>>
      /\ Record(begun \/ ~damaged,
                IF fresh /\ p.fno = "name" THEN Min({done + 1, 2}) ELSE done)

SendR(damaged, heard) ==
  LET u == call.unit
  IN  /\ ~fault /\ cpc = "R" /\ Answers(u)
      /\ oldCcom' = "R"
      /\ \/ /\ Naks(parbuf[u])
            /\ IF heard THEN Fails ELSE Again
            /\ UNCHANGED <<parbuf, err, iodesc, fault>>
         \/ /\ ~Naks(parbuf[u])
            /\ ServeR(u, parbuf[u], damaged)
            /\ IF ~heard THEN Again
               ELSE IF parbuf[u] = ZeroParbuf THEN Fails ELSE AfterR(u, call.par)
      /\ Record(begun, done)
      /\ UNCHANGED on

GiveUp ==
  /\ ~fault /\ cpc # "idle"
  /\ Fails
  /\ UNCHANGED <<server, fault>>
  /\ Record(FALSE, 0)

-----------------------------------------------------------------------------
(***************************************************************************)
(* The GUI: setLink, resetLink, swapLinks.                                 *)
(***************************************************************************)
\* Defect: the descriptors of the unit stay open.
KeepOpen(U) ==
  /\ parbuf' = [u \in Unit |-> IF u \in U THEN ZeroParbuf ELSE parbuf[u]]
  /\ UNCHANGED iodesc

Cut(U) ==
  /\ parbuf' = [u \in Unit |-> IF u \in U THEN ZeroParbuf ELSE parbuf[u]]
  /\ iodesc' = CloseAll(UNION {OfUnit(u) : u \in U})

Relink(U, linked) ==
  /\ ~fault
  /\ Cut(U)
  /\ on' = linked
  /\ known' = [h \in Handle |-> IF known[h].unit \in U THEN Unknown ELSE known[h]]
  /\ relinked' = (cpc # "idle")
  /\ UNCHANGED <<err, oldCcom, cpc, call, told, begun, done, fault>>

SetLink(u) == Relink({u}, on \cup {u})

ResetLink(u) == Relink({u}, on \ {u})

SwapLinks(a, b) ==
  /\ {a, b} \cap on # {}
  /\ Relink({a, b}, {u \in Unit : IF u = a THEN b \in on ELSE IF u = b THEN a \in on
                                  ELSE u \in on})

-----------------------------------------------------------------------------
Client ==
  \/ \E u \in 1..NUnits : \E p \in Calls(u) : Begin(u, p)
  \/ Begin(0, Par("init", 0, 0))
  \/ \E damaged, heard \in BOOLEAN : SendP(damaged, heard) \/ SendR(damaged, heard)
  \/ GiveUp

Gui ==
  \/ \E u \in 1..NUnits : SetLink(u) \/ ResetLink(u)
  \/ \E a, b \in 1..NUnits : a # b /\ SwapLinks(a, b)

Next == Client \/ Gui \/ (fault /\ UNCHANGED vars)

Spec == Init /\ [][Next]_vars

-----------------------------------------------------------------------------
(***************************************************************************)
(* Properties.                                                             *)
(***************************************************************************)
\* Between calls, unless a call failed and left it in doubt, the client's
\* idea of each of its handles is the server's: open, of its unit, and at
\* the position that the data it got and gave add up to, whatever the line
\* lost or repeated.
HandlesAgree ==
  cpc = "idle" /\ ~told =>
    \A h \in Handle : known[h].unit # 0 =>
       /\ iodesc[h].open /\ iodesc[h].unit = known[h].unit
       /\ iodesc[h].pos = known[h].pos

\* Descriptors are not lost: an open one is held by the client, unless a
\* call failed; INIT recovers.
NoSilentLeak ==
  cpc = "idle" /\ ~told => \A h \in Handle : iodesc[h].open => known[h].unit # 0

\* An open descriptor belongs to a unit that is linked.
DescriptorsLinked == \A h \in Handle : iodesc[h].open => iodesc[h].unit \in on

\* A null FILE is used only when the GUI changed the links during the call:
\* the handle was checked in the P phase, and is not checked in the R phase.
NoNullFile == fault => relinked

\* An operation on names runs at most once for each call, however often the
\* line makes the client repeat it.
NamesAtMostOnce == done > 1 => relinked

\* The comment of processParameterBuffer: a buffer equal to the last one is
\* a retry, not a new call.
RetryIsRetry == cpc = "P" /\ ~begun /\ Answers(call.unit) => ~IsRetry(call.unit, call.par)
=============================================================================
