---------------------------- MODULE PcLinkProofs ----------------------------
(***************************************************************************)
(* Proofs about PcLink, for any number of units and descriptors, any block *)
(* sizes and any files.                                                    *)
(*                                                                         *)
(* The server tells a retry from a new request by the last parameter       *)
(* buffer of the unit and by old_ccom.  The invariant says how far the     *)
(* server can be ahead of the client while an answer is lost, and that a   *)
(* request that equals the last one finds its work already done.           *)
(***************************************************************************)
EXTENDS PcLink, WellFoundedInduction, TLAPS

U == call.unit
P == call.par

OnHandle == {"fread", "fwrite", "fseek", "ftell", "fnext", "fclose"}

\* Those whose second R is refused.
OnceOnly == {"fread", "fwrite", "fnext", "fopen", "ffirst"}

Descriptor == [open : BOOLEAN, unit : Unit, mode : Nat, pos : Nat,
               len : 0..(MaxLen + 1), fpread : Nat, eof : BOOLEAN]

ServerOK ==
  parbuf \in [Unit -> Parbuf] /\ err \in [Unit -> Err] /\ iodesc \in [Handle -> Descriptor]

\* The call the client makes: it holds the handle or nobody of another unit
\* does; only INIT is for no unit, and is made with no handle held.
CallOK ==
  /\ cpc # "idle" =>
       /\ P.fno \in OnHandle => P.handle \in Handle /\ known[P.handle].unit \in {0, U}
       /\ U = 0 <=> P.fno = "init"
       /\ U = 0 => known = [h \in Handle |-> Unknown]
  /\ cpc = "R" => P.fno \in TwoPhase /\ (oldCcom # "R" => err[U] = "ok")

\* The buffers that stay after an FSEEK or FCLOSE have its handle; the one
\* of INIT never stays.
BuffersOK ==
  \A u \in Unit : /\ parbuf[u].fno # "init"
                  /\ parbuf[u].fno \in {"fseek", "fclose"} => parbuf[u].handle \in Handle

Basic == TypeOK /\ CallOK /\ BuffersOK

(***************************************************************************)
(* Data.                                                                   *)
(***************************************************************************)
\* A non-empty set of natural numbers has a least element.
LEMMA MinOf ==
  ASSUME NEW S \in SUBSET Nat, S # {}
  PROVE  Min(S) \in S /\ \A y \in S : Min(S) <= y
<1>1. \E less : /\ \A x, y \in Nat : y < x => <<y, x>> \in less
                /\ \E x \in S : \A y \in S : <<y, x>> \notin less
  <2> DEFINE less == OpToRel(<, Nat)
  <2>1. ASSUME NEW x \in Nat, NEW y \in Nat, y < x PROVE <<y, x>> \in less
    <3>1. <<y, x>> \in Nat \X Nat /\ <<y, x>>[1] < <<y, x>>[2]
      BY <2>1
    <3> QED BY <3>1, Zenon DEF OpToRel
  <2>2. \E x \in S : \A y \in S : ~ (<<y, x>> \in less)
    BY NatLessThanWellFounded, WFMin
  <2> WITNESS less
  <2> QED BY <2>1, <2>2, Zenon
<1>2. PICK less : /\ \A x, y \in Nat : y < x => <<y, x>> \in less
                  /\ \E x \in S : \A y \in S : <<y, x>> \notin less
  BY <1>1
<1>3. PICK x \in S : \A y \in S : <<y, x>> \notin less
  BY <1>2
<1>4. ASSUME NEW y \in S PROVE x <= y
  <2>1. x \in Nat /\ y \in Nat
    OBVIOUS
  <2>2. ~ (y < x)
    BY <1>2, <1>3, <2>1
  <2> QED BY <2>1, <2>2
<1> QED BY <1>4 DEF Min

LEMMA FreeHandle ==
  ASSUME Free # {}
  PROVE  Min(Free) \in Handle /\ ~iodesc[Min(Free)].open
<1>1. Free \in SUBSET Nat
  BY Bounds DEF Free, Handle
<1> QED BY <1>1, MinOf DEF Free

\* The descriptors and buffers have their types.
LEMMA Shape ==
  ASSUME TypeOK
  PROVE  /\ ServerOK
         /\ \A h \in Handle : iodesc[h] \in Descriptor
         /\ \A u \in Unit : parbuf[u] \in Parbuf /\ err[u] \in Err
         /\ U \in Unit /\ P \in Parbuf
         /\ ZeroParbuf \in Parbuf /\ Closed \in Descriptor
         /\ NoHandle \in Nat /\ 0 \in Unit
<1>1. ServerOK
  BY DEF TypeOK, ServerOK, Descriptor
<1>2. U \in Unit /\ P \in Parbuf
  BY DEF TypeOK, U, P
<1>3. ZeroParbuf \in Parbuf /\ Closed \in Descriptor /\ 0 \in Unit
  BY Bounds DEF ZeroParbuf, Parbuf, Fno, Handle, Closed, Descriptor, Unit
<1> QED BY <1>1, <1>2, <1>3 DEF ServerOK, NoHandle

\* What is left of a block at the end of the file.
LEMMA AvailableBlock ==
  ASSUME NEW d \in Descriptor, NEW n \in Nat
  PROVE  Available(d, n) \in Nat /\ Available(d, n) <= n
BY Bounds DEF Available, Descriptor

\* The fields of a descriptor that the handlers set.
LEMMA Updated ==
  ASSUME NEW d \in Descriptor, NEW n \in Nat
  PROVE  /\ \A b \in BOOLEAN : [d EXCEPT !.eof = b] \in Descriptor
         /\ [d EXCEPT !.pos = n] \in Descriptor
         /\ \A m \in Nat : [d EXCEPT !.fpread = m, !.pos = n] \in Descriptor
BY DEF Descriptor

LEMMA CloseAllType ==
  ASSUME TypeOK, NEW S
  PROVE  /\ CloseAll(S) \in [Handle -> Descriptor]
         /\ \A h \in Handle : CloseAll(S)[h] = IF h \in S THEN Closed ELSE iodesc[h]
BY Shape DEF CloseAll

(***************************************************************************)
(* The server, on a buffer of the right type.                              *)
(***************************************************************************)
LEMMA ReadPType ==
  ASSUME TypeOK, NEW u \in Unit, NEW p \in Parbuf, ReadP(u, p)
  PROVE  ServerOK' /\ \E n \in Nat : parbuf' = [parbuf EXCEPT ![u] = [p EXCEPT !.arg = n]]
<1>1. p.handle \in Handle /\ p.arg \in Nat
  BY DEF ReadP, BadHandle, Parbuf
<1> DEFINE n == Available(iodesc[p.handle], p.arg)
<1>2. n \in Nat
  BY <1>1, Shape, AvailableBlock
<1>3. /\ parbuf' = [parbuf EXCEPT ![u] = [p EXCEPT !.arg = n]]
      /\ err' = [err EXCEPT ![u] = IF n = 0 THEN "eof" ELSE "ok"]
      /\ iodesc' = [iodesc EXCEPT ![p.handle].eof = (n < p.arg)]
  BY DEF ReadP, Store, Status
<1> HIDE DEF n
<1>4. [p EXCEPT !.arg = n] \in Parbuf
  BY <1>2 DEF Parbuf
<1>5. parbuf' \in [Unit -> Parbuf]
  BY <1>3, <1>4, Shape DEF ServerOK
<1>6. err' \in [Unit -> Err]
  BY <1>3, Shape DEF ServerOK, Err
<1>7. iodesc' \in [Handle -> Descriptor]
  <2>1. [iodesc[p.handle] EXCEPT !.eof = (n < p.arg)] \in Descriptor
    <3> DEFINE b == n < p.arg
    <3>1. b \in BOOLEAN
      OBVIOUS
    <3> HIDE DEF b
    <3>2. [iodesc[p.handle] EXCEPT !.eof = b] \in Descriptor
      BY <1>1, <3>1, Shape, Updated
    <3> QED BY <3>2, Zenon DEF b
  <2> QED BY <1>3, <2>1, Shape DEF ServerOK
<1> QED BY <1>2, <1>3, <1>5, <1>6, <1>7 DEF ServerOK

LEMMA ServePType ==
  ASSUME TypeOK, NEW u \in Unit, NEW p \in Parbuf, NEW damaged \in BOOLEAN,
         ServeP(u, p, damaged)
  PROVE  ServerOK'
<1> USE Shape
<1>0. /\ \A e \in Err : [err EXCEPT ![u] = e] \in [Unit -> Err]
      /\ \A q \in Parbuf : [parbuf EXCEPT ![u] = q] \in [Unit -> Parbuf]
      /\ {"ok", "fail", "crc", "eof"} = Err
  BY DEF ServerOK, Err
<1>1. CASE ReadP(u, p)
  BY <1>1, ReadPType
<1>2. CASE BlockP(u, p)
  BY <1>0, <1>2 DEF BlockP, Store, Status, ServerOK
<1>3. CASE SeekP(u, p)
  <2>1. p.handle \in Handle /\ p.arg \in Nat
    BY <1>3 DEF SeekP, BadHandle, Parbuf
  <2>2. [iodesc EXCEPT ![p.handle].pos = p.arg] \in [Handle -> Descriptor]
    <3>1. [iodesc[p.handle] EXCEPT !.pos = p.arg] \in Descriptor
      BY <2>1, Updated
    <3> QED BY <3>1 DEF ServerOK
  <2> QED BY <1>0, <1>3, <2>2 DEF SeekP, Store, Status, ServerOK
<1>4. CASE CloseP(u, p)
  BY <1>0, <1>4, CloseAllType DEF CloseP, Store, Status, ServerOK
<1>5. CASE HandleP(u, p)
  BY <1>0, <1>5 DEF HandleP, Store, Status, ServerOK
<1>6. CASE InitP(u, p)
  <2>1. [ZeroParbuf EXCEPT !.handle = NoHandle] \in Parbuf
    BY DEF Parbuf
  <2>2. parbuf' \in [Unit -> Parbuf]
    BY <1>6, <2>1 DEF InitP
  <2> QED BY <1>0, <1>6, <2>2, CloseAllType DEF InitP, Status, ServerOK
<1>7. CASE OtherP(u, p)
  <2>1. [p EXCEPT !.arg = @ + 16] \in Parbuf
    BY DEF Parbuf
  <2> QED BY <1>0, <1>7, <2>1 DEF OtherP, Store, Status, ServerOK
<1>8. CASE NameP(u, p)
  BY <1>0, <1>8 DEF NameP, Store, Status, ServerOK
<1>9. CASE damaged \/ IsRetry(u, p)
  BY <1>0, <1>9, <1>1, <1>2, <1>3, <1>4, <1>5, <1>6, <1>7, <1>8 DEF ServeP, Status, ServerOK
<1> QED BY <1>1, <1>2, <1>3, <1>4, <1>5, <1>6, <1>7, <1>8, <1>9 DEF ServeP

LEMMA TransferType ==
  ASSUME TypeOK, NEW u \in Unit, NEW p \in Parbuf, Transfer(u, p)
  PROVE  /\ iodesc' \in [Handle -> Descriptor] /\ err' \in [Unit -> Err]
         /\ p.handle \in Handle
         /\ \A h \in Handle : /\ iodesc'[h].open = iodesc[h].open
                              /\ iodesc'[h].unit = iodesc[h].unit
<1> DEFINE d == iodesc[p.handle]
<1>1. p.handle \in Handle /\ d \in Descriptor /\ err[u] \in Err /\ p.arg \in Nat
  BY Shape DEF Transfer, Parbuf
<1>2. PICK o : /\ \/ o = <<d.fpread, err[u]>>
                  \/ o \in ReadOutcomes(d, p.arg) \/ o \in WriteOutcomes(d, p.arg)
               /\ iodesc' = [iodesc EXCEPT ![p.handle] = Move(d, o, p.arg)]
               /\ Status(u, IF p.fno = "fread" THEN EndOf(iodesc'[p.handle], o[2]) ELSE o[2])
  BY DEF Transfer
<1>3. d.fpread \in Nat /\ d.pos \in Nat
  BY <1>1 DEF Descriptor
<1>4. o[1] \in Nat /\ o[2] \in Err
  <2>1. CASE o = <<d.fpread, err[u]>>
    BY <1>1, <1>3, <2>1
  <2>2. CASE o \in ReadOutcomes(d, p.arg)
    BY <1>1, <2>2, AvailableBlock DEF ReadOutcomes, Err
  <2>3. CASE o \in WriteOutcomes(d, p.arg)
    BY <1>1, <1>3, <2>3 DEF WriteOutcomes, Err
  <2> QED BY <1>2, <2>1, <2>2, <2>3
<1>5. Move(d, o, p.arg) = [d EXCEPT !.fpread = o[1], !.pos = d.pos + o[1]]
  BY <1>1 DEF Move, Descriptor
<1>6. /\ Move(d, o, p.arg) \in Descriptor
      /\ Move(d, o, p.arg).open = d.open /\ Move(d, o, p.arg).unit = d.unit
  <2> DEFINE n == d.pos + o[1]
  <2>1. n \in Nat /\ o[1] \in Nat
    BY <1>3, <1>4
  <2>2. Move(d, o, p.arg) = [d EXCEPT !.fpread = o[1], !.pos = n]
    BY <1>5
  <2>3. d \in Descriptor
    BY <1>1
  <2> HIDE DEF n, d
  <2>4. PICK m : m = o[1] /\ m \in Nat
    BY <2>1
  <2>5. [d EXCEPT !.fpread = m, !.pos = n] \in Descriptor
    BY <2>1, <2>3, <2>4, Updated
  <2>6. Move(d, o, p.arg) = [d EXCEPT !.fpread = m, !.pos = n]
    BY <2>2, <2>4
  <2> QED BY <2>3, <2>5, <2>6 DEF Descriptor
<1>7. /\ iodesc' \in [Handle -> Descriptor]
      /\ \A h \in Handle : /\ iodesc'[h].open = iodesc[h].open
                           /\ iodesc'[h].unit = iodesc[h].unit
  BY <1>1, <1>2, <1>6, Shape DEF ServerOK
<1>8. EndOf(iodesc'[p.handle], o[2]) \in Err
  BY <1>4 DEF EndOf, Err
<1>9. err' \in [Unit -> Err]
  BY <1>2, <1>4, <1>8, Shape DEF Status, ServerOK
<1> QED BY <1>1, <1>7, <1>9

LEMMA OpenRType ==
  ASSUME TypeOK, NEW u \in Unit, NEW p \in Parbuf, OpenR(u, p)
  PROVE  ServerOK'
<1>1. CASE Status(u, "fail") /\ UNCHANGED <<parbuf, iodesc>>
  BY <1>1, Shape DEF Status, ServerOK, Err
<1>2. ASSUME NEW n \in 0..MaxLen, Free # {},
             iodesc' = [iodesc EXCEPT ![Min(Free)] =
                          [open |-> TRUE, unit |-> u, mode |-> p.arg,
                           pos |-> IF IsDir(p.arg) THEN 1 ELSE IF p.arg = 9 THEN n ELSE 0,
                           len |-> IF IsDir(p.arg) THEN n + 1 ELSE n,
                           fpread |-> 0, eof |-> FALSE]],
             UNCHANGED err, Store(u, [p EXCEPT !.handle = Min(Free)])
      PROVE  ServerOK'
  <2>1. p.arg \in Nat /\ Min(Free) \in Handle /\ n \in Nat /\ n + 1 \in 0..(MaxLen + 1)
        /\ n \in 0..(MaxLen + 1)
    BY <1>2, Bounds, FreeHandle DEF Parbuf
  <2>2. [p EXCEPT !.handle = Min(Free)] \in Parbuf
    BY <2>1 DEF Parbuf
  <2>3. [open |-> TRUE, unit |-> u, mode |-> p.arg,
         pos |-> IF IsDir(p.arg) THEN 1 ELSE IF p.arg = 9 THEN n ELSE 0,
         len |-> IF IsDir(p.arg) THEN n + 1 ELSE n,
         fpread |-> 0, eof |-> FALSE] \in Descriptor
    BY <2>1 DEF Descriptor
  <2> QED BY <1>2, <2>1, <2>2, <2>3, Shape DEF ServerOK, Store
<1> QED BY <1>1, <1>2 DEF OpenR

LEMMA NextRType ==
  ASSUME TypeOK, NEW u \in Unit, NEW p \in Parbuf, NextR(u, p)
  PROVE  /\ iodesc' \in [Handle -> Descriptor] /\ err' \in [Unit -> Err]
         /\ \A h \in Handle : /\ iodesc'[h].open = iodesc[h].open
                              /\ iodesc'[h].unit = iodesc[h].unit
<1> USE Shape
<1>1. CASE UNCHANGED iodesc
  BY <1>1 DEF NextR, Status, ServerOK, Err
<1>2. CASE /\ ~BadHandle(p.handle) /\ UNCHANGED err
           /\ iodesc' = [iodesc EXCEPT ![p.handle].pos = @ + 1]
  <2> DEFINE d == iodesc[p.handle]
             e == [d EXCEPT !.pos = d.pos + 1]
  <2>1. p.handle \in Handle
    BY <1>2 DEF BadHandle, Parbuf
  <2>2. d \in Descriptor /\ d.pos + 1 \in Nat
    BY <2>1 DEF Descriptor
  <2>3. e \in Descriptor /\ e.open = d.open /\ e.unit = d.unit
    BY <2>2, Updated DEF Descriptor
  <2>4. iodesc' = [iodesc EXCEPT ![p.handle] = e]
    BY <1>2, <2>1, <2>2 DEF ServerOK
  <2> QED BY <1>2, <2>1, <2>3, <2>4 DEF ServerOK
<1> QED BY <1>1, <1>2 DEF NextR

LEMMA ServeRType ==
  ASSUME TypeOK, NEW u \in Unit, NEW p \in Parbuf, NEW damaged \in BOOLEAN,
         ServeR(u, p, damaged)
  PROVE  ServerOK'
<1>1. CASE Transfer(u, p) /\ UNCHANGED parbuf
  BY <1>1, TransferType, Shape DEF ServerOK
<1>2. CASE WriteDamaged(u, p) /\ UNCHANGED parbuf
  BY <1>2, Shape DEF WriteDamaged, Status, ServerOK, Err
<1>3. CASE NullFile(u, p) /\ UNCHANGED parbuf
  BY <1>3, Shape DEF NullFile, ServerOK
<1>4. CASE NextR(u, p) /\ UNCHANGED parbuf
  BY <1>4, NextRType, Shape DEF ServerOK
<1>5. CASE UNCHANGED <<parbuf, err, iodesc, fault>>
  BY <1>5, Shape DEF ServerOK
<1> QED BY <1>1, <1>2, <1>3, <1>4, <1>5, OpenRType DEF ServeR

(***************************************************************************)
(* The client.                                                             *)
(***************************************************************************)
Knowledge == [unit : Unit, dir : BOOLEAN, pos : Nat]

ClientOK ==
  /\ cpc \in {"idle", "P", "R"} /\ call \in [unit : Unit, par : Parbuf]
  /\ known \in [Handle -> Knowledge] /\ told \in BOOLEAN

LEMMA ClientShape ==
  ASSUME TypeOK
  PROVE  /\ ClientOK
         /\ \A h \in Handle : known[h] \in Knowledge
         /\ Unknown \in Knowledge /\ [h \in Handle |-> Unknown] \in [Handle -> Knowledge]
         /\ NoCall \in [unit : Unit, par : Parbuf]
<1>1. ClientOK
  BY DEF TypeOK, ClientOK, Knowledge
<1>2. Unknown \in Knowledge
  BY Shape DEF Unknown, Knowledge
<1>3. NoCall \in [unit : Unit, par : Parbuf]
  BY Shape DEF NoCall
<1> QED BY <1>1, <1>2, <1>3 DEF ClientOK

\* A call begins as CallOK says.
LEMMA CallsType ==
  ASSUME TypeOK, NEW u \in 1..NUnits, NEW p \in Calls(u)
  PROVE  /\ p \in Parbuf /\ p.fno # "init"
         /\ p.fno \in OnHandle => p.handle \in Handle /\ known[p.handle].unit \in {0, u}
<1>0. 0 \in Handle /\ Sizes \subseteq Nat /\ Modes \subseteq Nat /\ MaxLen \in Nat
  BY Bounds DEF Handle
<1>1. CASE p \in {Par("fopen", 0, m) : m \in Modes} \cup {Par("ffirst", 0, 4)} \cup {Par("name", 0, 0)}
  BY <1>0, <1>1 DEF Par, Parbuf, Fno, OnHandle
<1>2. ASSUME NEW h \in Handle, known[h].unit \in {0, u}, p \in HandleCalls(h)
      PROVE  p \in Parbuf /\ p.fno \in OnHandle /\ p.handle = h
  <2>1. PICK f \in OnHandle, n \in Nat : p = Par(f, h, n)
    BY <1>0, <1>2 DEF HandleCalls, OnHandle
  <2> QED BY <2>1 DEF Par, Parbuf, Fno, OnHandle
<1>3. CASE p \in UNION {HandleCalls(h) : h \in {e \in Handle : known[e].unit \in {0, u}}}
  <2>1. PICK h \in Handle : known[h].unit \in {0, u} /\ p \in HandleCalls(h)
    BY <1>3
  <2> QED BY <1>2, <2>1 DEF OnHandle
<1> QED BY <1>1, <1>3 DEF Calls

LEMMA AfterPType ==
  ASSUME TypeOK, AfterP(U, P) \/ Again
  PROVE  /\ ClientOK'
         /\ \/ cpc' = "idle"
            \/ UNCHANGED <<cpc, call, known>>
            \/ cpc' = "R" /\ err'[U] = "ok" /\ P.fno \in TwoPhase /\ UNCHANGED <<call, known>>
<1> USE ClientShape DEF ClientOK
<1>1. CASE Again
  BY <1>1 DEF Again
<1>2. CASE AfterP(U, P) /\ cpc' = "idle" /\ call' = NoCall /\ known' = Known(P) /\ told' = (told /\ P.fno # "init")
  <2>1. Known(P) \in [Handle -> Knowledge]
    <3>1. P.arg \in Nat
      BY Shape DEF Parbuf
    <3>2. \A k \in Knowledge : [k EXCEPT !.pos = P.arg] \in Knowledge
      BY <3>1 DEF Knowledge
    <3>3. CASE P.handle \in Handle
      BY <3>2, <3>3 DEF Known
    <3>4. CASE P.handle \notin Handle
      BY <3>4 DEF Known
    <3> QED BY <3>3, <3>4
  <2>2. told' \in BOOLEAN
    <3>1. told' = TRUE \/ told' = FALSE
      BY <1>2, Zenon
    <3> QED BY <3>1
  <2> QED BY <1>2, <2>1, <2>2
<1> QED BY <1>1, <1>2 DEF AfterP, Again

LEMMA AfterRType ==
  ASSUME TypeOK, ServerOK', AfterR(U, P) \/ Again \/ Fails
  PROVE  ClientOK' /\ (cpc' = "idle" \/ UNCHANGED <<cpc, call, known>>)
<1> USE ClientShape DEF ClientOK
<1>1. CASE Again \/ Fails
  BY <1>1 DEF Again, Fails
<1>2. CASE AfterR(U, P) /\ ~Fails
  <2> DEFINE h == parbuf'[U].handle
             got == IF P.fno # "fnext" THEN iodesc'[h].fpread ELSE IF err'[U] = "ok" THEN 1 ELSE 0
             k == [unit |-> U, dir |-> P.fno = "ffirst", pos |-> iodesc'[h].pos]
  <2>1. /\ cpc' = "idle" /\ call' = NoCall /\ UNCHANGED told
        /\ known' \in {[known EXCEPT ![h] = k], [known EXCEPT ![h].pos = @ + got], known}
    BY <1>2 DEF AfterR
  <2>2. CASE h \notin Handle
    <3> HIDE DEF h, got, k
    <3> QED BY <2>1, <2>2
  <2>3. CASE h \in Handle
    <3>1. iodesc'[h] \in Descriptor
      BY <2>3 DEF ServerOK
    <3>2. got \in Nat /\ iodesc'[h].pos \in Nat
      BY <3>1 DEF Descriptor
    <3>3. k \in Knowledge
      <4>1. U \in Unit /\ (P.fno = "ffirst") \in BOOLEAN
        BY Shape
      <4> QED BY <3>2, <4>1, Zenon DEF Knowledge
    <3> HIDE DEF h, got, k
    <3>4. known[h].pos + got \in Nat
      BY <2>3, <3>2 DEF Knowledge
    <3>5. [known[h] EXCEPT !.pos = known[h].pos + got] \in Knowledge
      BY <2>3, <3>4 DEF Knowledge
    <3>6. [known EXCEPT ![h].pos = @ + got] \in [Handle -> Knowledge]
      BY <2>3, <3>5
    <3> QED BY <2>1, <2>3, <3>3, <3>6
  <2> QED BY <2>2, <2>3, <2>1
<1> QED BY <1>1, <1>2

(***************************************************************************)
(* Types and calls, action by action.                                      *)
(***************************************************************************)
\* What TypeOK is made of.
LEMMA Typed ==
  ASSUME ServerOK', ClientOK', on' \subseteq Unit \ {0}, oldCcom' \in {"none", "P", "R"},
         begun' \in BOOLEAN, relinked' \in BOOLEAN, fault' \in BOOLEAN, done' \in 0..2
  PROVE  TypeOK'
BY DEF TypeOK, ServerOK, ClientOK, Descriptor, Knowledge

\* The history of a call.
LEMMA RecordType ==
  ASSUME TypeOK, NEW b \in BOOLEAN, NEW d \in 0..2, Record(b, d)
  PROVE  /\ begun' \in BOOLEAN /\ relinked' \in BOOLEAN
         /\ done' = (IF cpc' = "idle" THEN 0 ELSE d) /\ done' \in 0..2
<1>1. begun' \in BOOLEAN
  <2>1. begun' = TRUE \/ begun' = FALSE
    BY Zenon DEF Record
  <2> QED BY <2>1
<1>2. relinked' \in BOOLEAN
  <2>1. relinked' = TRUE \/ relinked' = FALSE
    BY Zenon DEF Record
  <2> QED BY <2>1
<1>3. done' = (IF cpc' = "idle" THEN 0 ELSE d)
  BY DEF Record
<1> QED BY <1>1, <1>2, <1>3

LEMMA AtMostTwo == \A d \in 0..2 : Min({d + 1, 2}) \in 1..2 /\ (d = 0 => Min({d + 1, 2}) = 1)
<1> TAKE d \in 0..2
<1>1. {d + 1, 2} \in SUBSET Nat /\ {d + 1, 2} # {} /\ d + 1 \in 1..3
  OBVIOUS
<1>2. Min({d + 1, 2}) \in {d + 1, 2} /\ \A y \in {d + 1, 2} : Min({d + 1, 2}) <= y
  BY <1>1, MinOf
<1> HIDE DEF Min
<1> QED BY <1>1, <1>2

LEMMA BeginBasic ==
  ASSUME Basic, \/ \E u \in 1..NUnits : \E p \in Calls(u) : Begin(u, p)
                \/ Begin(0, Par("init", 0, 0))
  PROVE  Basic'
<1>1. TypeOK /\ BuffersOK
  BY DEF Basic
<1>2. PICK u \in Unit, p \in Parbuf :
           /\ Begin(u, p)
           /\ p.fno \in OnHandle => p.handle \in Handle /\ known[p.handle].unit \in {0, u}
           /\ u = 0 <=> p.fno = "init"
  <2>1. ASSUME NEW u \in 1..NUnits, NEW p \in Calls(u), Begin(u, p)
        PROVE  /\ u \in Unit /\ p \in Parbuf /\ u # 0 /\ p.fno # "init"
               /\ p.fno \in OnHandle => p.handle \in Handle /\ known[p.handle].unit \in {0, u}
    BY <1>1, <2>1, CallsType, Bounds DEF Unit
  <2>2. /\ Par("init", 0, 0) \in Parbuf /\ 0 \in Unit
        /\ Par("init", 0, 0).fno = "init" /\ "init" \notin OnHandle
    BY Bounds DEF Par, Parbuf, Fno, OnHandle, Handle, Unit
  <2> QED BY <2>1, <2>2
<1>3. /\ cpc' = "P" /\ call' = [unit |-> u, par |-> p] /\ call' \in [unit : Unit, par : Parbuf]
      /\ known' = IF u = 0 THEN [h \in Handle |-> Unknown] ELSE known
      /\ UNCHANGED <<on, parbuf, err, iodesc, oldCcom, told, begun, done, relinked, fault>>
  BY <1>2 DEF Begin, server, history
<1>4. known' \in [Handle -> Knowledge]
  BY <1>1, <1>3, ClientShape DEF ClientOK
<1>5. TypeOK'
  <2>1. ServerOK'
    BY <1>1, <1>3, Shape DEF ServerOK
  <2>2. ClientOK'
    BY <1>1, <1>3, <1>4 DEF ClientOK, TypeOK
  <2> QED BY <1>1, <1>3, <2>1, <2>2, Typed DEF TypeOK
<1>6. CallOK'
  <2>1. U' = u /\ P' = p
    BY <1>3 DEF U, P
  <2>2. p.fno = "init" => p.fno \notin OnHandle
    BY DEF OnHandle
  <2> QED BY <1>2, <1>3, <2>1, <2>2 DEF CallOK
<1> QED BY <1>1, <1>3, <1>5, <1>6 DEF Basic, BuffersOK

\* The buffers after a P.
LEMMA ServePBuffers ==
  ASSUME TypeOK, BuffersOK, NEW u \in Unit, NEW p \in Parbuf, NEW damaged \in BOOLEAN,
         p.fno \in OnHandle => p.handle \in Handle,
         ServeP(u, p, damaged)
  PROVE  BuffersOK'
<1> USE Shape DEF BuffersOK, ServerOK
<1>1. CASE UNCHANGED parbuf
  BY <1>1
<1>2. ASSUME NEW q \in Parbuf, parbuf' = [parbuf EXCEPT ![u] = q], q.fno = p.fno,
             q.handle = p.handle, p.fno # "init"
      PROVE  BuffersOK'
  BY <1>2 DEF OnHandle
<1>3. CASE InitP(u, p)
  BY <1>3 DEF InitP, ZeroParbuf
<1>4. CASE ReadP(u, p)
  <2>1. PICK n \in Nat : parbuf' = [parbuf EXCEPT ![u] = [p EXCEPT !.arg = n]]
    BY <1>4, ReadPType
  <2>2. p.fno # "init"
    BY <1>4 DEF ReadP
  <2> QED BY <1>2, <2>1, <2>2 DEF Parbuf
<1>5. CASE OtherP(u, p)
  <2>1. PICK q \in Parbuf : Store(u, q) /\ q.fno = p.fno /\ q.handle = p.handle
    BY <1>5 DEF OtherP, Parbuf
  <2> QED BY <1>2, <1>5, <2>1 DEF OtherP, Store
<1>6. CASE BlockP(u, p) \/ SeekP(u, p) \/ CloseP(u, p) \/ HandleP(u, p) \/ NameP(u, p)
  BY <1>2, <1>6 DEF BlockP, SeekP, CloseP, HandleP, NameP, Store
<1> QED BY <1>1, <1>3, <1>4, <1>5, <1>6 DEF ServeP

LEMMA SendPBasic ==
  ASSUME Basic, NEW damaged \in BOOLEAN, NEW heard \in BOOLEAN, SendP(damaged, heard)
  PROVE  Basic'
<1>1. TypeOK /\ CallOK /\ BuffersOK /\ cpc = "P"
  BY DEF Basic, SendP
<1>2. U \in Unit /\ P \in Parbuf /\ ServeP(U, P, damaged)
      /\ oldCcom' = "P" /\ (AfterP(U, P) \/ Again) /\ UNCHANGED <<on, fault>>
  BY <1>1, Shape DEF SendP, U, P
<1>3. ServerOK'
  BY <1>1, <1>2, ServePType
<1>4. /\ ClientOK'
      /\ \/ cpc' = "idle"
         \/ UNCHANGED <<cpc, call, known>>
         \/ cpc' = "R" /\ err'[U] = "ok" /\ P.fno \in TwoPhase /\ UNCHANGED <<call, known>>
  BY <1>1, <1>2, AfterPType
<1>5. done' \in 0..2 /\ begun' \in BOOLEAN /\ relinked' \in BOOLEAN
  <2>1. PICK b \in BOOLEAN, d \in 0..2 : Record(b, d)
    <3>1. done \in 0..2 /\ Min({done + 1, 2}) \in 0..2
      <4>1. done \in 0..2
        BY <1>1 DEF TypeOK
      <4>2. Min({done + 1, 2}) \in 1..2
        BY <4>1, AtMostTwo
      <4> HIDE DEF Min
      <4> QED BY <4>1, <4>2
    <3>2. (begun \/ ~damaged) \in BOOLEAN
      OBVIOUS
    <3>3. \E d \in {Min({done + 1, 2}), done} : Record(begun \/ ~damaged, d)
      BY Zenon DEF SendP
    <3> HIDE DEF Min, Record
    <3> QED BY <3>1, <3>2, <3>3, Zenon
  <2> QED BY <1>1, <2>1, RecordType
<1>6. TypeOK'
  BY <1>1, <1>2, <1>3, <1>4, <1>5, Typed DEF TypeOK
<1>7. CallOK'
  BY <1>1, <1>2, <1>4 DEF CallOK, U, P
<1>8. BuffersOK'
  BY <1>1, <1>2, ServePBuffers DEF CallOK
<1> QED BY <1>6, <1>7, <1>8 DEF Basic

LEMMA SendRBasic ==
  ASSUME Basic, NEW damaged \in BOOLEAN, NEW heard \in BOOLEAN, SendR(damaged, heard)
  PROVE  Basic'
<1>1. TypeOK /\ CallOK /\ BuffersOK
  BY DEF Basic
<1>2. /\ U \in Unit /\ parbuf[U] \in Parbuf
      /\ UNCHANGED <<parbuf, err, iodesc, fault>> \/ ServeR(U, parbuf[U], damaged)
      /\ oldCcom' = "R" /\ (AfterR(U, P) \/ Again \/ Fails) /\ UNCHANGED on /\ Record(begun, done)
  BY <1>1, Shape DEF SendR, U, P
<1>3. ServerOK'
  <2>1. CASE UNCHANGED <<parbuf, err, iodesc, fault>>
    BY <1>1, <2>1, Shape DEF ServerOK
  <2>2. CASE ServeR(U, parbuf[U], damaged)
    BY <1>1, <1>2, <2>2, ServeRType
  <2> QED BY <1>2, <2>1, <2>2
<1>4. ClientOK' /\ (cpc' = "idle" \/ UNCHANGED <<cpc, call, known>>)
  BY <1>1, <1>2, <1>3, AfterRType
<1>5. done' \in 0..2 /\ begun' \in BOOLEAN /\ relinked' \in BOOLEAN
  <2>1. begun \in BOOLEAN /\ done \in 0..2
    BY <1>1 DEF TypeOK
  <2> QED BY <1>1, <1>2, <2>1, RecordType
<1>6. fault' \in BOOLEAN
  BY <1>1, <1>2 DEF TypeOK, ServeR, Transfer, WriteDamaged, NullFile, NextR, OpenR
<1>7. TypeOK'
  BY <1>1, <1>2, <1>3, <1>4, <1>5, <1>6, Typed DEF TypeOK
<1>8. CallOK'
  BY <1>1, <1>2, <1>4 DEF CallOK, U, P
<1>9. BuffersOK'
  <2>1. CASE UNCHANGED parbuf
    BY <1>1, <2>1 DEF BuffersOK
  <2>2. CASE parbuf[U].fno \in {"fopen", "ffirst"} /\ OpenR(U, parbuf[U]) /\ ~UNCHANGED parbuf
    <3>1. PICK h \in Handle : parbuf' = [parbuf EXCEPT ![U] = [parbuf[U] EXCEPT !.handle = h]]
      BY <2>2, FreeHandle DEF OpenR, Store
    <3> QED BY <1>1, <1>2, <3>1, Shape DEF BuffersOK, ServerOK, Parbuf
  <2> QED BY <1>2, <2>1, <2>2 DEF ServeR
<1> QED BY <1>7, <1>8, <1>9 DEF Basic

LEMMA GiveUpBasic == Basic /\ GiveUp => Basic'
<1> SUFFICES ASSUME Basic, GiveUp PROVE Basic'
  OBVIOUS
<1>1. TypeOK /\ BuffersOK
  BY DEF Basic
<1>2. /\ cpc' = "idle" /\ call' = NoCall /\ told' = TRUE
      /\ known' = [h \in Handle |-> Unknown]
      /\ UNCHANGED <<on, parbuf, err, iodesc, oldCcom, fault>> /\ Record(FALSE, 0)
  BY DEF GiveUp, Fails, server
<1>3. ServerOK' /\ ClientOK'
  BY <1>1, <1>2, Shape, ClientShape DEF ServerOK, ClientOK
<1>4. done' \in 0..2 /\ begun' \in BOOLEAN /\ relinked' \in BOOLEAN
  <2>1. PICK b \in BOOLEAN, d \in 0..2 : Record(b, d)
    <3>1. FALSE \in BOOLEAN /\ 0 \in 0..2
      OBVIOUS
    <3> HIDE DEF Record
    <3> QED BY <1>2, <3>1, Zenon
  <2> QED BY <1>1, <2>1, RecordType
<1>5. TypeOK'
  BY <1>1, <1>2, <1>3, <1>4, Typed DEF TypeOK
<1> QED BY <1>1, <1>2, <1>5 DEF Basic, CallOK, BuffersOK

\* The three operations of the GUI are one: the units S are cut, the others
\* stay linked.
LEMMA GuiRelinks ==
  ASSUME TypeOK, Gui
  PROVE  \E S \in SUBSET (1..NUnits), linked \in SUBSET (1..NUnits) :
           Relink(S, linked) /\ on \ S \subseteq linked
<1>1. on \subseteq 1..NUnits
  BY Bounds DEF TypeOK, Unit
<1>2. ASSUME NEW u \in 1..NUnits, SetLink(u) PROVE Relink({u}, on \cup {u})
  BY <1>2 DEF SetLink
<1>3. ASSUME NEW u \in 1..NUnits, ResetLink(u) PROVE Relink({u}, on \ {u})
  BY <1>3 DEF ResetLink
<1>4. ASSUME NEW a \in 1..NUnits, NEW b \in 1..NUnits, SwapLinks(a, b)
      PROVE  \E linked \in SUBSET (1..NUnits) : Relink({a, b}, linked) /\ on \ {a, b} \subseteq linked
  <2> DEFINE linked == {u \in Unit : IF u = a THEN b \in on ELSE IF u = b THEN a \in on ELSE u \in on}
  <2>1. linked \in SUBSET (1..NUnits) /\ on \ {a, b} \subseteq linked
    BY <1>1, Bounds DEF Unit
  <2>2. Relink({a, b}, linked)
    BY <1>4 DEF SwapLinks
  <2> HIDE DEF linked
  <2> QED BY <2>1, <2>2
<1>5. CASE \E u \in 1..NUnits : SetLink(u) \/ ResetLink(u)
  <2>1. PICK u \in 1..NUnits : SetLink(u) \/ ResetLink(u)
    BY <1>5
  <2>2. PICK linked \in {on \cup {u}, on \ {u}} : Relink({u}, linked)
    BY <1>2, <1>3, <2>1
  <2>3. {u} \in SUBSET (1..NUnits) /\ linked \in SUBSET (1..NUnits) /\ on \ {u} \subseteq linked
    BY <1>1
  <2> QED BY <2>2, <2>3, Zenon
<1>6. CASE \E a, b \in 1..NUnits : a # b /\ SwapLinks(a, b)
  <2>1. PICK a \in 1..NUnits, b \in 1..NUnits : SwapLinks(a, b)
    BY <1>6
  <2>2. \E linked \in SUBSET (1..NUnits) : Relink({a, b}, linked) /\ on \ {a, b} \subseteq linked
    BY <1>4, <2>1
  <2>3. {a, b} \in SUBSET (1..NUnits)
    OBVIOUS
  <2> QED BY <2>2, <2>3, Zenon
<1> QED BY <1>5, <1>6 DEF Gui

\* What Relink does.
LEMMA Relinked ==
  ASSUME TypeOK, NEW S \in SUBSET (1..NUnits), NEW linked \in SUBSET (1..NUnits),
         Relink(S, linked)
  PROVE  /\ parbuf' = [u \in Unit |-> IF u \in S THEN ZeroParbuf ELSE parbuf[u]]
         /\ iodesc' \in [Handle -> Descriptor]
         /\ \A h \in Handle :
              iodesc'[h] = IF iodesc[h].open /\ iodesc[h].unit \in S THEN Closed ELSE iodesc[h]
         /\ known' = [h \in Handle |-> IF known[h].unit \in S THEN Unknown ELSE known[h]]
         /\ on' = linked /\ relinked' = (cpc # "idle")
         /\ UNCHANGED <<err, oldCcom, cpc, call, told, begun, done, fault>>
<1>1. Cut(S)
  BY DEF Relink
<1>2. \A h \in Handle : h \in UNION {OfUnit(u) : u \in S} <=> iodesc[h].open /\ iodesc[h].unit \in S
  BY DEF OfUnit
<1> QED BY <1>1, <1>2, CloseAllType DEF Relink, Cut

LEMMA GuiBasic == Basic /\ Gui => Basic'
<1> SUFFICES ASSUME Basic, Gui PROVE Basic'
  OBVIOUS
<1>1. TypeOK /\ CallOK /\ BuffersOK
  BY DEF Basic
<1>2. PICK S \in SUBSET (1..NUnits), linked \in SUBSET (1..NUnits) : Relink(S, linked)
  BY <1>1, GuiRelinks
<1>3. /\ parbuf' = [u \in Unit |-> IF u \in S THEN ZeroParbuf ELSE parbuf[u]]
      /\ iodesc' \in [Handle -> Descriptor]
      /\ known' = [h \in Handle |-> IF known[h].unit \in S THEN Unknown ELSE known[h]]
      /\ on' = linked /\ relinked' = (cpc # "idle")
      /\ UNCHANGED <<err, oldCcom, cpc, call, told, begun, done, fault>>
  BY <1>1, <1>2, Relinked
<1>4. ServerOK'
  BY <1>1, <1>3, Shape DEF ServerOK
<1>5. ClientOK'
  BY <1>1, <1>3, ClientShape DEF ClientOK
<1>6. on' \subseteq Unit \ {0}
  BY <1>3, Bounds DEF Unit
<1>7. relinked' \in BOOLEAN
  BY <1>3
<1>8. TypeOK'
  BY <1>1, <1>3, <1>4, <1>5, <1>6, <1>7, Typed DEF TypeOK
<1>9. CallOK'
  BY <1>1, <1>3 DEF CallOK, U, P, Unknown
<1> QED BY <1>1, <1>3, <1>8, <1>9, Shape DEF Basic, BuffersOK, ZeroParbuf

LEMMA BasicKept ==
  /\ Init => Basic
  /\ Basic /\ [Next]_vars => Basic'
<1>1. ASSUME Init PROVE Basic
  <2>1. /\ ZeroParbuf \in Parbuf /\ Closed \in Descriptor /\ 0 \in Unit /\ Unknown \in Knowledge
        /\ NoCall \in [unit : Unit, par : Parbuf]
    BY Bounds DEF ZeroParbuf, Parbuf, Fno, Handle, Closed, Descriptor, Unit, Unknown, Knowledge, NoCall
  <2>2. TypeOK
    <3>1. ServerOK
      BY <1>1, <2>1 DEF Init, ServerOK, Err
    <3>2. ClientOK
      BY <1>1, <2>1 DEF Init, ClientOK
    <3>3. /\ on \subseteq Unit \ {0} /\ oldCcom \in {"none", "P", "R"} /\ done \in 0..2
      BY <1>1 DEF Init
    <3>4. begun = FALSE /\ relinked = FALSE /\ fault = FALSE
      BY <1>1, Zenon DEF Init
    <3> QED BY <3>1, <3>2, <3>3, <3>4 DEF TypeOK, ServerOK, ClientOK, Descriptor, Knowledge
  <2> QED BY <1>1, <2>2 DEF Init, Basic, CallOK, BuffersOK, ZeroParbuf
<1>2. ASSUME Basic, [Next]_vars PROVE Basic'
  <2>1. CASE UNCHANGED vars
    BY <1>2, <2>1 DEF vars, server, history, Basic, TypeOK, CallOK, BuffersOK, U, P
  <2> QED BY <1>2, <2>1, BeginBasic, SendPBasic, SendRBasic, GiveUpBasic, GuiBasic DEF Next, Client
<1> QED BY <1>1, <1>2

\* Every variable keeps its type: no position, length or buffer gets out of
\* its range, whatever the client asks for and the line damages.
THEOREM TypeCorrect == Spec => []TypeOK
<1>1. Basic => TypeOK
  BY DEF Basic
<1> QED BY <1>1, BasicKept, PTL DEF Spec

(***************************************************************************)
(* Retries: what the R of a call and the repeated P of a name operation    *)
(* find.                                                                   *)
(***************************************************************************)
\* The R meets the buffer of its P, or an empty one that the GUI left.
Stored ==
  cpc = "R" => \/ /\ parbuf[U].fno = P.fno
                  /\ P.fno \in OnHandle => parbuf[U].handle = P.handle
               \/ relinked /\ parbuf[U] = ZeroParbuf

\* A transfer finds its descriptor open.
Held ==
  cpc = "R" /\ ~relinked /\ P.fno \in {"fread", "fwrite"} => iodesc[P.handle].open

\* A name operation that was executed has left its buffer.
Once ==
  /\ cpc = "idle" => done = 0
  /\ done > 0 => P.fno = "name"
  /\ done > 0 /\ ~relinked => parbuf[U] = P

RInv == Basic /\ Stored /\ Held /\ Once /\ NoNullFile /\ NamesAtMostOnce

\* A P that leads to an R was taken: its buffer is stored, its handle checked.
LEMMA Taken ==
  ASSUME Basic, NEW damaged \in BOOLEAN, NEW heard \in BOOLEAN, SendP(damaged, heard), cpc' = "R"
  PROVE  /\ parbuf'[U].fno = P.fno
         /\ P.fno \in OnHandle => parbuf'[U].handle = P.handle
         /\ P.fno \in {"fread", "fwrite"} => iodesc'[P.handle].open
<1>1. /\ TypeOK /\ U \in Unit /\ P \in Parbuf /\ ServerOK
      /\ cpc = "P" /\ ServeP(U, P, damaged) /\ (AfterP(U, P) \/ Again)
  BY Shape DEF Basic, SendP, U, P
<1>2. err'[U] = "ok" /\ P.fno \in TwoPhase
  BY <1>1 DEF AfterP, Again
<1> USE <1>1, <1>2 DEF ServerOK, TwoPhase, OnHandle
<1>3. ~damaged
  BY DEF ServeP, IsRetry, Status
<1>4. CASE IsRetry(U, P)
  BY <1>3, <1>4 DEF ServeP, IsRetry, Repeatable
<1>5. CASE ReadP(U, P)
  <2>1. parbuf'[U].fno = P.fno /\ parbuf'[U].handle = P.handle
    <3>1. PICK n \in Nat : parbuf' = [parbuf EXCEPT ![U] = [P EXCEPT !.arg = n]]
      BY <1>5, ReadPType
    <3> QED BY <3>1 DEF Parbuf
  <2>2. P.handle \in Handle /\ iodesc[P.handle].open
    BY <1>5 DEF ReadP, BadHandle, Parbuf
  <2>3. PICK b : iodesc' = [iodesc EXCEPT ![P.handle].eof = b]
    BY <1>5 DEF ReadP
  <2>4. iodesc'[P.handle].open = iodesc[P.handle].open
    <3>1. iodesc[P.handle] \in Descriptor /\ iodesc \in [Handle -> Descriptor]
      BY <2>2, Shape
    <3>2. iodesc'[P.handle] = [iodesc[P.handle] EXCEPT !.eof = b]
      BY <2>2, <2>3, <3>1
    <3> QED BY <3>1, <3>2 DEF Descriptor
  <2> QED BY <2>1, <2>2, <2>4
<1>6. CASE BlockP(U, P)
  BY <1>6 DEF BlockP, BadHandle, Store
<1>7. CASE HandleP(U, P)
  BY <1>7 DEF HandleP, Store, Status
<1>8. CASE OtherP(U, P)
  BY <1>8 DEF OtherP, Store, Parbuf
<1> QED BY <1>3, <1>4, <1>5, <1>6, <1>7, <1>8 DEF ServeP, SeekP, CloseP, InitP, NameP

\* A P is a retry, or stores its buffer; a name operation as it is.
LEMMA NameStored ==
  ASSUME TypeOK, NEW u \in Unit, NEW p \in Parbuf, NEW damaged \in BOOLEAN,
         ServeP(u, p, damaged), p.fno = "name"
  PROVE  /\ damaged \/ IsRetry(u, p) => UNCHANGED parbuf
         /\ ~damaged /\ ~IsRetry(u, p) => parbuf'[u] = p
BY Shape DEF ServerOK, ServeP, ReadP, BlockP, SeekP, CloseP, HandleP, InitP, OtherP, NameP, Store

LEMMA SendPRetries ==
  ASSUME RInv, NEW damaged \in BOOLEAN, NEW heard \in BOOLEAN, SendP(damaged, heard)
  PROVE  RInv'
<1> DEFINE d == IF ~damaged /\ ~IsRetry(U, P) /\ P.fno = "name" THEN Min({done + 1, 2}) ELSE done
<1>1. /\ TypeOK /\ U \in Unit /\ P \in Parbuf /\ done \in 0..2 /\ ~fault /\ ~fault' /\ cpc = "P"
      /\ ServeP(U, P, damaged) /\ (AfterP(U, P) \/ Again)
  BY Shape DEF RInv, Basic, SendP, U, P, TypeOK
<1>2. Basic'
  BY SendPBasic DEF RInv
<1>3. cpc' # "idle" => U' = U /\ P' = P
  BY <1>1, AfterPType DEF U, P
<1>4. cpc' # "idle" => (relinked' <=> relinked)
  BY Zenon DEF SendP, Record
<1>5. Stored' /\ Held'
  BY <1>3, Taken DEF RInv, Stored, Held
<1>6. done' = IF cpc' = "idle" THEN 0 ELSE d
  BY DEF SendP, Record, U, P
<1>7. d # done => /\ ~damaged /\ ~IsRetry(U, P) /\ P.fno = "name" /\ d \in 1..2
                  /\ done = 0 => d = 1
  BY <1>1, AtMostTwo
<1> HIDE DEF d
<1>8. P.fno = "name" /\ parbuf[U] = P => IsRetry(U, P)
  BY DEF IsRetry, Repeatable
<1>9. Once'
  <2>1. CASE d = done
    <3>1. done > 0 /\ ~relinked => parbuf' = parbuf
      BY <1>1, <1>8, NameStored DEF RInv, Once
    <3> QED BY <1>1, <1>3, <1>4, <1>6, <2>1, <3>1 DEF RInv, Once
  <2>2. CASE d # done
    <3>1. parbuf'[U] = P
      BY <1>1, <1>7, <2>2, NameStored
    <3> QED BY <1>3, <1>4, <1>6, <1>7, <2>2, <3>1 DEF Once
  <2> QED BY <2>1, <2>2
<1>10. NamesAtMostOnce'
  <2>1. CASE d = done
    BY <1>1, <1>4, <1>6, <2>1 DEF RInv, NamesAtMostOnce
  <2>2. CASE d # done
    <3>1. d > 1 => done > 0
      BY <1>1, <1>7, <2>2
    <3>2. d > 1 => relinked
      BY <1>7, <1>8, <2>2, <3>1 DEF RInv, Once
    <3> QED BY <1>4, <1>6, <3>2 DEF NamesAtMostOnce
  <2> QED BY <2>1, <2>2
<1> QED BY <1>1, <1>2, <1>5, <1>9, <1>10 DEF RInv, NoNullFile

LEMMA SendRRetries ==
  ASSUME RInv, NEW damaged \in BOOLEAN, NEW heard \in BOOLEAN, SendR(damaged, heard)
  PROVE  RInv'
<1>1. /\ TypeOK /\ CallOK /\ U \in Unit /\ P \in Parbuf /\ parbuf[U] \in Parbuf /\ done = 0 /\ ~fault /\ cpc = "R"
      /\ P.fno \in TwoPhase
  <2>1. TypeOK /\ CallOK /\ ~fault /\ cpc = "R" /\ P.fno \in TwoPhase
    BY DEF RInv, Basic, SendR, CallOK
  <2>2. done \in 0..2 /\ ~(done > 0)
    BY <2>1 DEF RInv, Once, TypeOK, TwoPhase
  <2> QED BY <2>1, <2>2, Shape
<1>2. Basic'
  BY SendRBasic DEF RInv
<1>3. /\ UNCHANGED <<parbuf, err, iodesc, fault>> \/ ServeR(U, parbuf[U], damaged)
      /\ AfterR(U, P) \/ Again \/ Fails
      /\ Record(begun, done)
  BY DEF SendR, U, P
<1>4. cpc' = "idle" \/ UNCHANGED <<cpc, call, known>>
  BY <1>1, <1>2, <1>3, AfterRType, Shape DEF Basic, AfterR, Again, Fails
<1>5. cpc' # "idle" => U' = U /\ P' = P
  BY <1>4 DEF U, P
<1>6. cpc' # "idle" \/ fault' => (relinked' <=> relinked)
  BY <1>3, Zenon DEF Record
<1>7. done' = 0
  BY <1>1, <1>3 DEF Record
<1>8. CASE UNCHANGED <<parbuf, err, iodesc, fault>>
  BY <1>1, <1>2, <1>5, <1>6, <1>7, <1>8 DEF RInv, Stored, Held, Once, NoNullFile, NamesAtMostOnce
<1>9. CASE ServeR(U, parbuf[U], damaged)
  <2>1. Stored'
    <3>1. CASE UNCHANGED parbuf
      BY <1>1, <1>4, <1>5, <1>6, <3>1 DEF RInv, Stored
    <3>2. CASE parbuf[U].fno \in {"fopen", "ffirst"} /\ OpenR(U, parbuf[U]) /\ ~UNCHANGED parbuf
      <4>1. parbuf' = [parbuf EXCEPT ![U] = [parbuf[U] EXCEPT !.handle = Min(Free)]]
        BY <3>2 DEF OpenR, Store
      <4>2. parbuf'[U].fno = parbuf[U].fno
        BY <1>1, <4>1, Shape DEF ServerOK, Parbuf
      <4>3. P.fno = parbuf[U].fno
        BY <1>1, <3>2 DEF RInv, Stored, ZeroParbuf
      <4> QED BY <1>5, <3>2, <4>2, <4>3 DEF Stored, OnHandle
    <3> QED BY <1>9, <3>1, <3>2 DEF ServeR
  <2>2. ASSUME ~relinked, P.fno \in {"fread", "fwrite"}
        PROVE  /\ P.handle \in Handle /\ iodesc'[P.handle].open /\ ~fault'
    <3>1. parbuf[U].fno = P.fno /\ parbuf[U].handle = P.handle /\ P.handle \in Handle
          /\ iodesc[P.handle].open
      BY <1>1, <2>2 DEF RInv, Stored, Held, CallOK, OnHandle
    <3>2. ~NullFile(U, parbuf[U])
      BY <3>1 DEF NullFile
    <3>3. CASE Transfer(U, parbuf[U])
      BY <1>1, <3>1, <3>3, TransferType DEF Transfer
    <3>4. CASE WriteDamaged(U, parbuf[U])
      BY <1>1, <3>1, <3>4 DEF WriteDamaged
    <3> QED BY <1>9, <2>2, <3>1, <3>2, <3>3, <3>4 DEF ServeR
  <2>3. Held'
    BY <1>4, <1>5, <1>6, <2>2 DEF Held
  <2>4. NoNullFile'
    <3>1. CASE fault'
      <4>1. NullFile(U, parbuf[U])
        BY <1>1, <1>9, <3>1 DEF ServeR, Transfer, WriteDamaged, NextR, OpenR
      <4>2. parbuf[U].fno \in {"fread", "fwrite"}
        BY <4>1 DEF NullFile
      <4>3. relinked
        BY <1>1, <2>2, <3>1, <4>2 DEF RInv, Stored
      <4> QED BY <1>6, <3>1, <4>3 DEF NoNullFile
    <3> QED BY <3>1 DEF NoNullFile
  <2> QED BY <1>2, <1>7, <2>1, <2>3, <2>4 DEF RInv, Once, NamesAtMostOnce
<1> QED BY <1>3, <1>8, <1>9

LEMMA RetriesKept ==
  /\ Init => RInv
  /\ RInv /\ [Next]_vars => RInv'
<1>1. ASSUME Init PROVE RInv
  BY <1>1, BasicKept DEF Init, RInv, Stored, Held, Once, NoNullFile, NamesAtMostOnce
<1>2. ASSUME RInv, [Next]_vars PROVE RInv'
  <2>1. Basic' /\ TypeOK
    BY <1>2, BasicKept DEF RInv, Basic
  <2>2. ASSUME NEW u, NEW p, Begin(u, p) PROVE RInv'
    <3>1. cpc = "idle" /\ done = 0 /\ cpc' = "P"
          /\ UNCHANGED <<parbuf, iodesc, done, relinked, fault>>
      BY <1>2, <2>2 DEF Begin, RInv, Once, server, history
    <3> QED BY <1>2, <2>1, <3>1 DEF RInv, Stored, Held, Once, NoNullFile, NamesAtMostOnce
  <2>3. CASE GiveUp
    <3>1. ~fault /\ cpc' = "idle" /\ done' = 0 /\ ~fault'
      BY <2>3 DEF GiveUp, Fails, Record
    <3> QED BY <2>1, <3>1 DEF RInv, Stored, Held, Once, NoNullFile, NamesAtMostOnce
  <2>4. CASE Gui
    <3>1. PICK S \in SUBSET (1..NUnits), linked \in SUBSET (1..NUnits) : Relink(S, linked)
      BY <2>1, <2>4, GuiRelinks
    <3>2. /\ parbuf' = [u \in Unit |-> IF u \in S THEN ZeroParbuf ELSE parbuf[u]]
          /\ relinked' = (cpc # "idle")
          /\ UNCHANGED <<cpc, call, done, fault>> /\ U \in Unit /\ U' = U /\ P' = P
      BY <2>1, <3>1, Relinked, Shape DEF U, P
    <3>3. ~fault
      BY <3>1 DEF Relink
    <3>4. parbuf'[U] = parbuf[U] \/ parbuf'[U] = ZeroParbuf
      BY <3>2
    <3>5. Stored' /\ Held'
      BY <1>2, <3>2, <3>4 DEF RInv, Stored, Held
    <3>6. done \in 0..2 /\ (cpc = "idle" => done = 0)
      BY <1>2, <2>1 DEF RInv, Once, TypeOK
    <3>7. done' = done /\ cpc' = cpc /\ (done > 0 => relinked')
      <4>1. cpc # "idle" => relinked'
        BY <3>2, Zenon
      <4>2. done > 0 => cpc # "idle"
        BY <3>6
      <4> QED BY <3>2, <4>1, <4>2
    <3>8. Once'
      BY <1>2, <3>2, <3>7 DEF RInv, Once
    <3>9. NamesAtMostOnce'
      <4>1. done > 1 => done > 0
        BY <3>6
      <4> QED BY <3>7, <4>1 DEF NamesAtMostOnce
    <3> QED BY <2>1, <3>2, <3>3, <3>5, <3>8, <3>9 DEF RInv, NoNullFile
  <2>5. CASE UNCHANGED vars
    BY <1>2, <2>1, <2>5 DEF vars, server, history, U, P, RInv, Stored, Held, Once, NoNullFile,
                           NamesAtMostOnce
  <2> QED BY <1>2, <2>2, <2>3, <2>4, <2>5, SendPRetries, SendRRetries DEF Next, Client
<1> QED BY <1>1, <1>2

\* A null FILE is used only if the GUI changed the links during the call: a
\* handle that the P checked stays open until the R, however often the line
\* makes the client repeat either.
THEOREM NullFileCorrect == Spec => []NoNullFile
<1>1. RInv => NoNullFile
  BY DEF RInv
<1> QED BY <1>1, RetriesKept, PTL DEF Spec

\* However often the line makes the client repeat a name operation, the
\* server executes it once for each call, unless the GUI changed the links.
THEOREM NamesCorrect == Spec => []NamesAtMostOnce
<1>1. RInv => NamesAtMostOnce
  BY DEF RInv
<1> QED BY <1>1, RetriesKept, PTL DEF Spec

(***************************************************************************)
(* The server and the client, between them the line.                       *)
(***************************************************************************)
LEMMA ServePKeepsUnits ==
  ASSUME TypeOK, NEW u \in Unit, NEW p \in Parbuf, NEW damaged \in BOOLEAN,
         ServeP(u, p, damaged), NEW h \in Handle, iodesc'[h].open
  PROVE  iodesc[h].open /\ iodesc'[h].unit = iodesc[h].unit
<1> USE Shape DEF ServerOK
<1>1. CASE ReadP(u, p)
  <2>1. \E b : iodesc' = [iodesc EXCEPT ![p.handle].eof = b]
    BY <1>1 DEF ReadP
  <2> QED BY <2>1 DEF Descriptor
<1>2. CASE SeekP(u, p)
  <2>1. \/ iodesc' = iodesc
        \/ iodesc' = [iodesc EXCEPT ![p.handle].pos = p.arg]
    BY <1>2 DEF SeekP
  <2> QED BY <2>1 DEF Descriptor
<1>3. CASE CloseP(u, p) \/ InitP(u, p)
  BY <1>3, CloseAllType DEF CloseP, InitP, Closed
<1>4. CASE UNCHANGED iodesc
  BY <1>4
<1> QED BY <1>1, <1>2, <1>3, <1>4 DEF ServeP, BlockP, HandleP, OtherP, NameP

\* What FOPEN and FFIRST open.
LEMMA Opened ==
  ASSUME TypeOK, NEW u \in Unit, NEW p \in Parbuf, OpenR(u, p)
  PROVE  \/ Status(u, "fail") /\ UNCHANGED <<parbuf, iodesc>>
         \/ \E d \in Descriptor :
              /\ d.open /\ d.unit = u
              /\ Min(Free) \in Handle /\ ~iodesc[Min(Free)].open
              /\ iodesc' = [iodesc EXCEPT ![Min(Free)] = d]
              /\ parbuf' = [parbuf EXCEPT ![u] = [p EXCEPT !.handle = Min(Free)]]
              /\ UNCHANGED err
<1> SUFFICES ASSUME ~(Status(u, "fail") /\ UNCHANGED <<parbuf, iodesc>>)
             PROVE  \E d \in Descriptor :
                      /\ d.open /\ d.unit = u
                      /\ Min(Free) \in Handle /\ ~iodesc[Min(Free)].open
                      /\ iodesc' = [iodesc EXCEPT ![Min(Free)] = d]
                      /\ parbuf' = [parbuf EXCEPT ![u] = [p EXCEPT !.handle = Min(Free)]]
                      /\ UNCHANGED err
  OBVIOUS
<1>1. PICK n \in 0..MaxLen :
           /\ Free # {}
           /\ iodesc' = [iodesc EXCEPT ![Min(Free)] =
                          [open |-> TRUE, unit |-> u, mode |-> p.arg,
                           pos |-> IF IsDir(p.arg) THEN 1 ELSE IF p.arg = 9 THEN n ELSE 0,
                           len |-> IF IsDir(p.arg) THEN n + 1 ELSE n,
                           fpread |-> 0, eof |-> FALSE]]
           /\ UNCHANGED err /\ Store(u, [p EXCEPT !.handle = Min(Free)])
  BY DEF OpenR
<1> DEFINE d == [open |-> TRUE, unit |-> u, mode |-> p.arg,
                 pos |-> IF IsDir(p.arg) THEN 1 ELSE IF p.arg = 9 THEN n ELSE 0,
                 len |-> IF IsDir(p.arg) THEN n + 1 ELSE n, fpread |-> 0, eof |-> FALSE]
<1>2. p.arg \in Nat /\ n \in Nat /\ n + 1 \in 0..(MaxLen + 1) /\ n \in 0..(MaxLen + 1)
  BY Bounds DEF Parbuf
<1>3. d \in Descriptor /\ d.open /\ d.unit = u
  BY <1>2 DEF Descriptor
<1>4. iodesc' = [iodesc EXCEPT ![Min(Free)] = d]
  BY <1>1
<1> HIDE DEF d
<1> QED BY <1>1, <1>3, <1>4, FreeHandle DEF Store

\* What a transfer moves, it reports.
LEMMA Moved ==
  ASSUME TypeOK, NEW u \in Unit, NEW p \in Parbuf, Transfer(u, p)
  PROVE  /\ p.handle \in Handle
         /\ \A h \in Handle \ {p.handle} : iodesc'[h] = iodesc[h]
         /\ iodesc'[p.handle].open = iodesc[p.handle].open
         /\ iodesc'[p.handle].unit = iodesc[p.handle].unit
         /\ iodesc'[p.handle].pos = iodesc[p.handle].pos + iodesc'[p.handle].fpread
         /\ \A v \in Unit \ {u} : err'[v] = err[v]
<1> DEFINE d == iodesc[p.handle]
<1>1. p.handle \in Handle /\ d \in Descriptor
  BY Shape DEF Transfer, Parbuf
<1>2. PICK o, e : iodesc' = [iodesc EXCEPT ![p.handle] = Move(d, o, p.arg)] /\ Status(u, e)
  BY DEF Transfer
<1>3. Move(d, o, p.arg) = [d EXCEPT !.fpread = o[1], !.pos = d.pos + o[1]]
  BY <1>1 DEF Move, Descriptor
<1>4. iodesc'[p.handle] = [d EXCEPT !.fpread = o[1], !.pos = d.pos + o[1]]
  BY <1>1, <1>2, <1>3, Shape DEF ServerOK
<1>5. \A h \in Handle \ {p.handle} : iodesc'[h] = iodesc[h]
  BY <1>1, <1>2, Shape DEF ServerOK
<1>6. \A v \in Unit \ {u} : err'[v] = err[v]
  BY <1>2, Shape DEF Status, ServerOK
<1> QED BY <1>1, <1>4, <1>5, <1>6, TransferType DEF Descriptor

LInv == RInv /\ DescriptorsLinked

LEMMA LinksKept ==
  /\ Init => LInv
  /\ LInv /\ [Next]_vars => LInv'
<1>1. ASSUME Init PROVE LInv
  BY <1>1, RetriesKept DEF Init, LInv, DescriptorsLinked, Closed
<1>2. ASSUME LInv, [Next]_vars PROVE LInv'
  <2>1. RInv' /\ TypeOK /\ CallOK /\ U \in Unit /\ P \in Parbuf
    BY <1>2, RetriesKept, Shape DEF LInv, RInv, Basic
  <2>2. CASE UNCHANGED <<on, iodesc>>
    BY <1>2, <2>1, <2>2 DEF LInv, DescriptorsLinked
  <2>3. ASSUME NEW damaged \in BOOLEAN, NEW heard \in BOOLEAN, SendP(damaged, heard)
        PROVE  LInv'
    <3>1. ServeP(U, P, damaged) /\ UNCHANGED on
      BY <2>3 DEF SendP, U, P
    <3> QED BY <1>2, <2>1, <3>1, ServePKeepsUnits DEF LInv, DescriptorsLinked
  <2>4. ASSUME NEW damaged \in BOOLEAN, NEW heard \in BOOLEAN, SendR(damaged, heard)
        PROVE  LInv'
    <3>1. /\ UNCHANGED on /\ parbuf[U] \in Parbuf
          /\ UNCHANGED iodesc \/ ServeR(U, parbuf[U], damaged)
      BY <2>1, <2>4, Shape DEF SendR, U
    <3>2. U \in on
      BY <2>1, <2>4 DEF SendR, CallOK, Answers, U, TwoPhase
    <3>3. CASE Transfer(U, parbuf[U])
      BY <1>2, <2>1, <3>1, <3>3, TransferType DEF LInv, DescriptorsLinked
    <3>4. CASE NextR(U, parbuf[U])
      BY <1>2, <2>1, <3>1, <3>4, NextRType DEF LInv, DescriptorsLinked
    <3>5. CASE OpenR(U, parbuf[U]) /\ ~UNCHANGED iodesc
      <4>1. PICK d \in Descriptor : d.unit = U /\ iodesc' = [iodesc EXCEPT ![Min(Free)] = d]
        BY <2>1, <3>1, <3>5, Opened
      <4> QED BY <1>2, <2>1, <3>1, <3>2, <4>1, Shape DEF ServerOK, LInv, DescriptorsLinked
    <3> QED BY <2>2, <3>1, <3>3, <3>4, <3>5 DEF ServeR, WriteDamaged, NullFile
  <2>5. CASE Gui
    <3>1. PICK S \in SUBSET (1..NUnits), linked \in SUBSET (1..NUnits) :
               Relink(S, linked) /\ on \ S \subseteq linked
      BY <2>1, <2>5, GuiRelinks
    <3>2. /\ on' = linked
          /\ \A h \in Handle :
               iodesc'[h] = IF iodesc[h].open /\ iodesc[h].unit \in S THEN Closed ELSE iodesc[h]
      BY <2>1, <3>1, Relinked
    <3> QED BY <1>2, <2>1, <3>1, <3>2 DEF LInv, DescriptorsLinked, Closed
  <2>6. CASE GiveUp \/ \E u, p : Begin(u, p)
    BY <2>2, <2>6 DEF GiveUp, Begin, server
  <2> QED BY <1>2, <2>2, <2>3, <2>4, <2>5, <2>6 DEF Next, Client, vars, server
<1> QED BY <1>1, <1>2

\* An open descriptor belongs to a linked unit: whatever the GUI links, cuts
\* or swaps in the middle of a call, no host file stays open for a unit that
\* is gone.
THEOREM LinkedCorrect == Spec => []DescriptorsLinked
<1>1. LInv => DescriptorsLinked
  BY DEF LInv
<1> QED BY <1>1, LinksKept, PTL DEF Spec

(***************************************************************************)
(* What the client knows.                                                  *)
(***************************************************************************)
\* The outcome of the call is open: the client has forgotten its handles for
\* an INIT, the GUI has taken the buffer away, or the R was executed and its
\* answer lost.  Such a call cannot succeed any more, except INIT.
Doubt ==
  \/ cpc = "P" /\ P.fno = "init"
  \/ cpc = "R" /\ (parbuf[U] = ZeroParbuf \/ (oldCcom = "R" /\ P.fno \in OnceOnly))

\* The client knows k of the descriptor d.
Same(d, k) ==
  /\ k.unit = (IF d.open THEN d.unit ELSE 0)
  /\ d.open => k.pos = d.pos

\* It does not know yet that the P of its call was executed on h, which is
\* now d; the buffer b of the unit, with status e, makes its next P a retry.
Ahead(d, k, h, b, e) ==
  /\ h = P.handle /\ b = P /\ e \in {"ok", "crc"} /\ k.unit = U
  /\ \/ P.fno = "fseek" /\ d.open /\ d.unit = U /\ d.pos = P.arg
     \/ P.fno = "fclose" /\ ~d.open

\* A new call that equals the last one of unit u, and is taken for a retry,
\* finds its work done: the descriptors ds are as the buffer b asks.
Recent(u, b, e, ds) ==
  LET d == ds[b.handle]
  IN  b.fno \in {"fseek", "fclose"} /\ d.open /\ d.unit = u =>
        b.fno = "fseek" /\ (e = "ok" => d.pos = b.arg)

Agree ==
  ~told /\ ~Doubt =>
    /\ \A h \in Handle : \/ Same(iodesc[h], known[h])
                         \/ cpc = "P" /\ Ahead(iodesc[h], known[h], h, parbuf[U], err[U])
    /\ \A u \in Unit : Recent(u, parbuf[u], err[u], iodesc)
    /\ cpc = "R" /\ P.fno \in {"fread", "fwrite"} => iodesc[P.handle].open

AInv == LInv /\ Agree

\* What there is to know of a state of the invariant.
LEMMA AShape ==
  ASSUME AInv
  PROVE  /\ TypeOK /\ CallOK /\ BuffersOK /\ Stored /\ ServerOK /\ ClientOK
         /\ U \in Unit /\ P \in Parbuf /\ on \subseteq Unit \ {0}
         /\ \A h \in Handle : /\ iodesc[h] \in Descriptor /\ known[h] \in Knowledge
                              /\ iodesc[h].open => iodesc[h].unit \in on
         /\ \A u \in Unit : parbuf[u] \in Parbuf
BY Shape, ClientShape DEF AInv, LInv, RInv, Basic, DescriptorsLinked, TypeOK

\* The facts about a P that does not begin with the server: it is executed, or
\* found to have been.
LEMMA ServePAgrees ==
  ASSUME AInv, ~told, cpc = "P", P.fno # "init", NEW damaged \in BOOLEAN, ServeP(U, P, damaged)
  PROVE  /\ \A h \in Handle : \/ Same(iodesc'[h], known[h])
                              \/ Ahead(iodesc'[h], known[h], h, parbuf'[U], err'[U])
         /\ \A u \in Unit : Recent(u, parbuf'[u], err'[u], iodesc')
<1>1. /\ TypeOK /\ U \in Unit /\ P \in Parbuf /\ ServerOK /\ BuffersOK
      /\ P.fno \in OnHandle => P.handle \in Handle /\ known[P.handle].unit \in {0, U}
      /\ 0 \notin on
  BY AShape DEF CallOK
<1>2. /\ \A h \in Handle : /\ iodesc[h] \in Descriptor /\ known[h] \in Knowledge
                           /\ iodesc[h].open => iodesc[h].unit # 0
                           /\ \/ Same(iodesc[h], known[h])
                              \/ Ahead(iodesc[h], known[h], h, parbuf[U], err[U])
      /\ \A u \in Unit : Recent(u, parbuf[u], err[u], iodesc)
  BY AShape DEF AInv, Agree, Doubt
<1>3. CASE damaged
  <2>1. UNCHANGED <<parbuf, iodesc>> /\ err' = [err EXCEPT ![U] = "crc"]
    BY <1>3 DEF ServeP, Status
  <2>2. \A u \in Unit : err'[u] = IF u = U THEN "crc" ELSE err[u]
    BY <1>1, <2>1 DEF ServerOK
  <2> QED BY <1>1, <1>2, <2>1, <2>2 DEF Ahead, Recent
<1>4. CASE ~damaged /\ IsRetry(U, P)
  BY <1>2, <1>4 DEF ServeP
<1>5. CASE ~damaged /\ ~IsRetry(U, P)
  <2>1. \A h \in Handle : Same(iodesc[h], known[h])
    BY <1>2, <1>5 DEF Ahead, IsRetry, Repeatable
  <2>2. ASSUME NEW h \in Handle, h = P.handle, iodesc[h].open, P.fno \in OnHandle
        PROVE  known[h].unit = U /\ iodesc[h].unit = U
    BY <1>1, <1>2, <2>1, <2>2 DEF Same
  <2>3. ASSUME NEW q \in Parbuf, NEW e, parbuf' = [parbuf EXCEPT ![U] = q],
               err' = [err EXCEPT ![U] = e], NEW u \in Unit \ {U}
        PROVE  parbuf'[u] = parbuf[u] /\ err'[u] = err[u]
    BY <1>1, <2>3 DEF ServerOK
  <2>4. CASE ReadP(U, P)
    <3>1. PICK n \in Nat : parbuf' = [parbuf EXCEPT ![U] = [P EXCEPT !.arg = n]]
      BY <1>1, <2>4, ReadPType
    <3>2. PICK e, b : /\ err' = [err EXCEPT ![U] = e] /\ P.handle \in Handle /\ P.fno = "fread"
                      /\ iodesc' = [iodesc EXCEPT ![P.handle].eof = b]
      BY <1>1, <2>4 DEF ReadP, Status, BadHandle, Parbuf
    <3>3. [P EXCEPT !.arg = n] \in Parbuf /\ [P EXCEPT !.arg = n].fno = "fread"
      BY <1>1, <3>1, <3>2 DEF Parbuf
    <3>4. \A h \in Handle : /\ iodesc'[h].open = iodesc[h].open /\ iodesc'[h].unit = iodesc[h].unit
                            /\ iodesc'[h].pos = iodesc[h].pos
      BY <1>1, <1>2, <3>2 DEF ServerOK, Descriptor
    <3>5. parbuf'[U].fno = "fread"
      BY <1>1, <3>1, <3>3 DEF ServerOK
    <3>6. \A u \in Unit \ {U} : parbuf'[u] = parbuf[u] /\ err'[u] = err[u]
      BY <1>1, <3>1, <3>2 DEF ServerOK
    <3>7. \A h \in Handle : Same(iodesc'[h], known[h])
      BY <2>1, <3>4 DEF Same
    <3>8. \A u \in Unit : Recent(u, parbuf'[u], err'[u], iodesc')
      BY <1>1, <1>2, <3>4, <3>5, <3>6 DEF Recent, BuffersOK
    <3> QED BY <3>7, <3>8
  <2>5. CASE SeekP(U, P)
    <3>1. P.fno = "fseek" /\ P.handle \in Handle /\ iodesc[P.handle].open /\ P.arg \in Nat
      BY <1>1, <2>5 DEF SeekP, BadHandle, Parbuf
    <3>2. known[P.handle].unit = U /\ iodesc[P.handle].unit = U
      BY <2>2, <3>1 DEF OnHandle
    <3>3. parbuf' = [parbuf EXCEPT ![U] = P] /\ parbuf'[U] = P
      BY <1>1, <2>5 DEF SeekP, Store, ServerOK
    <3>4. CASE err' = [err EXCEPT ![U] = "fail"] /\ iodesc' = iodesc
      <4>1. \A u \in Unit : err'[u] = IF u = U THEN "fail" ELSE err[u]
        BY <1>1, <3>4 DEF ServerOK
      <4>2. \A u \in Unit \ {U} : parbuf'[u] = parbuf[u]
        BY <1>1, <3>3 DEF ServerOK
      <4> QED BY <1>2, <2>1, <3>1, <3>3, <3>4, <4>1, <4>2 DEF Recent
    <3>5. CASE /\ err' = [err EXCEPT ![U] = "ok"]
               /\ iodesc' = [iodesc EXCEPT ![P.handle].pos = P.arg]
      <4>1. \A u \in Unit : err'[u] = IF u = U THEN "ok" ELSE err[u]
        BY <1>1, <3>5 DEF ServerOK
      <4>2. \A u \in Unit \ {U} : parbuf'[u] = parbuf[u]
        BY <1>1, <3>3 DEF ServerOK
      <4>3. \A h \in Handle \ {P.handle} : iodesc'[h] = iodesc[h]
        BY <1>1, <3>5 DEF ServerOK
      <4>4. /\ iodesc'[P.handle].open /\ iodesc'[P.handle].unit = U
            /\ iodesc'[P.handle].pos = P.arg
        BY <1>1, <1>2, <3>1, <3>2, <3>5 DEF ServerOK, Descriptor
      <4>5. Ahead(iodesc'[P.handle], known[P.handle], P.handle, parbuf'[U], err'[U])
        BY <1>1, <3>1, <3>2, <3>3, <4>1, <4>4 DEF Ahead
      <4>6. \A u \in Unit : Recent(u, parbuf'[u], err'[u], iodesc')
        <5>1. Recent(U, parbuf'[U], err'[U], iodesc')
          BY <3>1, <3>3, <4>4 DEF Recent
        <5>2. ASSUME NEW u \in Unit \ {U} PROVE Recent(u, parbuf'[u], err'[u], iodesc')
          <6>1. Recent(u, parbuf[u], err[u], iodesc)
            BY <1>2
          <6> QED BY <1>1, <4>1, <4>2, <4>3, <4>4, <6>1 DEF Recent, BuffersOK
        <5> QED BY <5>1, <5>2
      <4> QED BY <2>1, <4>3, <4>5, <4>6
    <3> QED BY <2>5, <3>4, <3>5 DEF SeekP, Status
  <2>6. CASE CloseP(U, P)
    <3>1. P.fno = "fclose" /\ P.handle \in Handle /\ iodesc[P.handle].open
      BY <1>1, <2>6 DEF CloseP, BadHandle, Parbuf
    <3>2. known[P.handle].unit = U
      BY <2>2, <3>1 DEF OnHandle
    <3>3. /\ parbuf' = [parbuf EXCEPT ![U] = P] /\ parbuf'[U] = P
          /\ err' = [err EXCEPT ![U] = "ok"] /\ err'[U] = "ok"
      BY <1>1, <2>6 DEF CloseP, Store, Status, ServerOK
    <3>4. \A h \in Handle : iodesc'[h] = IF h = P.handle THEN Closed ELSE iodesc[h]
      BY <1>1, <2>6, CloseAllType DEF CloseP
    <3>5. ~Closed.open
      BY DEF Closed
    <3>6. Ahead(iodesc'[P.handle], known[P.handle], P.handle, parbuf'[U], err'[U])
      BY <3>1, <3>2, <3>3, <3>4, <3>5 DEF Ahead
    <3>7. \A u \in Unit : Recent(u, parbuf'[u], err'[u], iodesc')
      <4>1. Recent(U, parbuf'[U], err'[U], iodesc')
        BY <3>1, <3>3, <3>4, <3>5 DEF Recent
      <4>2. ASSUME NEW u \in Unit \ {U} PROVE Recent(u, parbuf'[u], err'[u], iodesc')
        <5>1. Recent(u, parbuf[u], err[u], iodesc)
          BY <1>2
        <5>2. parbuf'[u] = parbuf[u] /\ err'[u] = err[u]
          BY <1>1, <3>3 DEF ServerOK
        <5> QED BY <1>1, <3>4, <3>5, <5>1, <5>2 DEF Recent, BuffersOK
      <4> QED BY <4>1, <4>2
    <3> QED BY <2>1, <3>4, <3>6, <3>7
  <2>7. CASE UNCHANGED iodesc /\ ~ReadP(U, P) /\ ~SeekP(U, P) /\ ~CloseP(U, P)
    <3>1. PICK q \in Parbuf, e \in Err :
            /\ parbuf' = [parbuf EXCEPT ![U] = q] /\ err' = [err EXCEPT ![U] = e]
            /\ q.fno \in {"fseek", "fclose"} => q.handle = P.handle /\ P.handle \in Handle /\ ~iodesc[P.handle].open
      <4>1. CASE OtherP(U, P)
        <5>1. PICK q \in Parbuf : Store(U, q) /\ q.fno = P.fno
          BY <1>1, <4>1 DEF OtherP, Parbuf
        <5> QED BY <4>1, <5>1 DEF OtherP, Store, Status, Err
      <4>2. CASE BlockP(U, P) \/ NameP(U, P)
        BY <1>1, <4>2 DEF BlockP, NameP, Store, Status, Err
      <4>3. CASE HandleP(U, P)
        <5>1. P.handle \in Handle
          BY <1>1, <4>3 DEF HandleP, OnHandle
        <5>2. P.handle # NoHandle
          BY <5>1, Bounds DEF Handle, NoHandle
        <5> QED BY <1>1, <4>3, <5>1, <5>2 DEF HandleP, Store, Status, BadHandle, Err
      <4> QED BY <1>5, <2>7, <4>1, <4>2, <4>3 DEF ServeP, InitP
    <3>2. parbuf'[U] = q /\ \A u \in Unit \ {U} : parbuf'[u] = parbuf[u] /\ err'[u] = err[u]
      BY <1>1, <3>1 DEF ServerOK
    <3>3. \A u \in Unit : Recent(u, parbuf'[u], err'[u], iodesc)
      BY <1>2, <3>1, <3>2 DEF Recent
    <3> QED BY <2>1, <2>7, <3>3
  <2> QED BY <1>5, <2>4, <2>5, <2>6, <2>7 DEF ServeP, BlockP, HandleP, InitP, OtherP, NameP
<1> QED BY <1>3, <1>4, <1>5

\* FSEEK and FCLOSE, answered: known is brought up to date.
LEMMA KnownAgrees ==
  ASSUME AInv, ~told, cpc = "P", P.fno \notin TwoPhase \cup {"init"}, err'[U] = "ok",
         NEW damaged \in BOOLEAN, ServeP(U, P, damaged)
  PROVE  \A h \in Handle : Same(iodesc'[h], Known(P)[h])
<1>1. /\ TypeOK /\ U \in Unit /\ P \in Parbuf /\ ServerOK /\ P.fno # "init" /\ 0 \notin on
      /\ P.fno \in OnHandle => P.handle \in Handle /\ known[P.handle].unit \in {0, U}
      /\ known \in [Handle -> Knowledge] /\ \A h \in Handle : known[h] \in Knowledge
  BY AShape DEF CallOK, ClientOK
<1>2. /\ \A h \in Handle : \/ Same(iodesc'[h], known[h])
                           \/ Ahead(iodesc'[h], known[h], h, parbuf'[U], err'[U])
      /\ Recent(U, parbuf'[U], err'[U], iodesc')
  BY <1>1, ServePAgrees
<1>3. \A h \in Handle : iodesc'[h].open => iodesc'[h].unit # 0
  BY <1>1, AShape, ServePKeepsUnits
<1>4. P.fno \in {"fseek", "fclose", "name"}
  BY <1>1 DEF Parbuf, Fno, TwoPhase
<1>5. CASE P.fno = "name"
  BY <1>2, <1>5 DEF Ahead, Known
<1>6. CASE P.fno \in {"fseek", "fclose"}
  <2> DEFINE d == iodesc'[P.handle]
             k == known[P.handle]
  <2>1. P.handle \in Handle /\ k.unit \in {0, U} /\ k \in Knowledge
    BY <1>1, <1>6 DEF OnHandle
  <2>2. parbuf'[U] = P
    <3>1. ~damaged
      BY <1>1 DEF ServeP, Status, ServerOK
    <3> QED BY <1>1, <1>6, <3>1 DEF ServeP, IsRetry, SeekP, CloseP, HandleP, ReadP, BlockP, InitP,
                                OtherP, NameP, Store, ServerOK
  <2>3. d.open => d.unit = U /\ k.unit = U
    BY <1>2, <1>3, <2>1 DEF Same, Ahead
  <2>4. d.open => P.fno = "fseek" /\ d.pos = P.arg
    BY <1>2, <1>6, <2>2, <2>3 DEF Recent
  <2>5. P.fno = "fseek" /\ k.unit # 0 => d.open
    BY <1>2, <2>1 DEF Same, Ahead
  <2>6. \A h \in Handle \ {P.handle} : Same(iodesc'[h], known[h]) /\ Known(P)[h] = known[h]
    BY <1>1, <1>2 DEF Ahead, Known
  <2>7. CASE P.fno = "fclose"
    <3>1. Known(P)[P.handle] = Unknown
      BY <1>1, <2>1, <2>7 DEF Known
    <3>2. Same(d, Unknown)
      BY <2>4, <2>7 DEF Same, Unknown
    <3> QED BY <2>6, <3>1, <3>2
  <2>8. CASE P.fno = "fseek" /\ k.unit # 0
    <3>1. Known(P)[P.handle] = [k EXCEPT !.pos = P.arg]
      BY <1>1, <2>1, <2>8 DEF Known
    <3>2. Same(d, [k EXCEPT !.pos = P.arg])
      BY <2>1, <2>3, <2>4, <2>5, <2>8 DEF Same, Knowledge
    <3> QED BY <2>6, <3>1, <3>2
  <2>9. CASE P.fno = "fseek" /\ k.unit = 0
    <3>1. Known(P) = known
      BY <2>9 DEF Known
    <3>2. ~d.open
      BY <1>1, <1>3, <2>1, <2>3, <2>9
    <3>3. Same(d, k)
      BY <2>9, <3>2 DEF Same
    <3> QED BY <2>6, <3>1, <3>3
  <2> QED BY <1>6, <2>7, <2>8, <2>9
<1> QED BY <1>4, <1>5, <1>6

LEMMA InitAgrees ==
  ASSUME AInv, P.fno = "init", NEW damaged \in BOOLEAN, NEW heard \in BOOLEAN, SendP(damaged, heard)
  PROVE  Agree'
<1>1. /\ TypeOK /\ U \in Unit /\ P \in Parbuf /\ ServerOK /\ BuffersOK /\ cpc = "P"
      /\ ServeP(U, P, damaged) /\ (AfterP(U, P) \/ Again)
      /\ U = 0 /\ known = [h \in Handle |-> Unknown]
  <2>1. CallOK /\ cpc = "P"
    BY AShape DEF SendP
  <2> QED BY <2>1, AShape DEF SendP, U, P, CallOK
<1>2. CASE Again
  BY <1>1, <1>2 DEF Again, Agree, Doubt, P
<1>3. CASE AfterP(U, P) /\ ~Again
  <2>1. ~damaged
    BY <1>1, <1>3 DEF ServeP, Status, AfterP, ServerOK
  <2>2. InitP(U, P)
    BY <1>1, <2>1 DEF BuffersOK, ServeP, IsRetry, ReadP, BlockP, SeekP, CloseP, HandleP, OtherP, NameP
  <2>3. err'[U] = "ok"
    BY <1>1, <2>2 DEF InitP, Status, ServerOK
  <2>4. cpc' = "idle" /\ known' = known
    BY <1>3, <2>3 DEF AfterP, TwoPhase, Known
  <2>5. \A h \in Handle : iodesc'[h] = Closed
    BY <1>1, <2>2, CloseAllType DEF InitP
  <2>6. \A u \in Unit : parbuf'[u].fno = "fread"
    BY <2>2 DEF InitP, ZeroParbuf
  <2>7. \A h \in Handle : Same(iodesc'[h], known'[h])
    BY <1>1, <2>4, <2>5 DEF Same, Closed, Unknown
  <2>8. \A u \in Unit : Recent(u, parbuf'[u], err'[u], iodesc')
    BY <2>6 DEF Recent
  <2> QED BY <2>4, <2>7, <2>8 DEF Agree
<1> QED BY <1>1, <1>2, <1>3

LEMMA SendPAgrees ==
  ASSUME AInv, NEW damaged \in BOOLEAN, NEW heard \in BOOLEAN, SendP(damaged, heard)
  PROVE  Agree'
<1>1. CASE P.fno = "init"
  BY <1>1, InitAgrees
<1>2. CASE P.fno # "init"
  <2>1. /\ TypeOK /\ U \in Unit /\ P \in Parbuf /\ cpc = "P"
        /\ ServeP(U, P, damaged) /\ (AfterP(U, P) \/ Again)
    BY AShape DEF SendP, U, P
  <2>2. told' <=> told
    <3>1. told' = told \/ told' = (told /\ P.fno # "init")
      BY <2>1 DEF AfterP, Again
    <3>2. CASE told' = told
      BY <3>2, Zenon
    <3>3. CASE told' = (told /\ P.fno # "init")
      BY <1>2, <3>3, Zenon
    <3> QED BY <3>1, <3>2, <3>3
  <2> SUFFICES ASSUME ~told PROVE Agree'
    BY <2>2 DEF Agree
  <2>3. /\ \A h \in Handle : \/ Same(iodesc'[h], known[h])
                             \/ Ahead(iodesc'[h], known[h], h, parbuf'[U], err'[U])
        /\ \A u \in Unit : Recent(u, parbuf'[u], err'[u], iodesc')
    BY <1>2, <2>1, ServePAgrees
  <2>4. CASE Again
    <3>1. cpc' = "P" /\ U' = U /\ P' = P /\ known' = known
      BY <2>1, <2>4 DEF Again, U, P
    <3> QED BY <2>3, <3>1 DEF Agree, Ahead
  <2>5. CASE AfterP(U, P) /\ cpc' = "idle" /\ err'[U] # "ok"
    <3>1. \A h \in Handle : Same(iodesc'[h], known[h])
      BY <2>1, <2>3, <2>5 DEF AfterP, Again, Ahead
    <3>2. known' = known
      BY <2>1, <2>5 DEF AfterP, Again
    <3> QED BY <2>3, <2>5, <3>1, <3>2 DEF Agree
  <2>6. CASE AfterP(U, P) /\ cpc' = "idle" /\ err'[U] = "ok"
    <3>1. P.fno \notin TwoPhase \cup {"init"} /\ known' = Known(P)
      BY <1>2, <2>1, <2>6 DEF AfterP, Again
    <3>2. \A h \in Handle : Same(iodesc'[h], known'[h])
      BY <2>1, <2>6, <3>1, KnownAgrees
    <3> QED BY <2>3, <2>6, <3>2 DEF Agree
  <2>7. CASE cpc' = "R"
    <3>1. P.fno \in TwoPhase /\ UNCHANGED <<call, known>>
      BY <2>1, <2>7 DEF AfterP, Again
    <3>2. \A h \in Handle : Same(iodesc'[h], known'[h])
      BY <2>3, <3>1 DEF Ahead, TwoPhase
    <3>3. P.fno \in {"fread", "fwrite"} => iodesc'[P.handle].open
      BY <2>7, Taken DEF AInv, LInv, RInv
    <3>4. P' = P
      BY <3>1 DEF P
    <3> QED BY <2>3, <3>2, <3>3, <3>4 DEF Agree
  <2>8. cpc' \in {"idle", "P", "R"}
    BY <2>1, AfterPType DEF ClientOK
  <2> QED BY <2>1, <2>4, <2>5, <2>6, <2>7, <2>8 DEF AfterP
<1> QED BY <1>1, <1>2

\* The R of a call whose outcome is not in doubt.
LEMMA SendRAgrees ==
  ASSUME AInv, NEW damaged \in BOOLEAN, NEW heard \in BOOLEAN, SendR(damaged, heard)
  PROVE  Agree'
<1>1. /\ TypeOK /\ U \in Unit /\ P \in Parbuf /\ ServerOK /\ ClientOK /\ cpc = "R" /\ Stored
      /\ parbuf[U] \in Parbuf /\ P.fno \in TwoPhase /\ oldCcom' = "R"
      /\ P.fno \in OnHandle => P.handle \in Handle /\ known[P.handle].unit \in {0, U}
      /\ oldCcom # "R" => err[U] = "ok"
  <2>1. CallOK /\ cpc = "R"
    BY AShape DEF SendR
  <2> QED BY <2>1, AShape DEF CallOK, SendR
<1> SUFFICES ASSUME ~told', ~Doubt' PROVE Agree'
  BY DEF Agree
<1>2. ~Fails
  BY DEF Fails
<1>3. CASE Again
  <2>1. cpc' = "R" /\ U' = U /\ P' = P /\ known' = known /\ told' = told
    BY <1>1, <1>3 DEF Again, U, P
  <2>2. P.fno \notin OnceOnly /\ parbuf'[U] # ZeroParbuf
    BY <1>1, <2>1 DEF Doubt
  <2>3. parbuf[U] # ZeroParbuf
    BY <1>3, <2>2 DEF SendR, U, ServeR, OpenR, ZeroParbuf
  <2>4. P.fno = "ftell" /\ parbuf[U].fno = "ftell"
    BY <1>1, <2>2, <2>3 DEF Stored, TwoPhase, OnceOnly
  <2>5. UNCHANGED <<parbuf, err, iodesc>>
    BY <1>1, <2>4 DEF SendR, U, ServeR, WriteDamaged, NullFile
  <2>6. ~Doubt
    BY <1>1, <2>2, <2>3 DEF Doubt
  <2> QED BY <1>1, <2>1, <2>4, <2>5, <2>6 DEF AInv, Agree
<1>4. CASE ~Again
  <2>1. /\ ~Naks(parbuf[U]) /\ parbuf[U] # ZeroParbuf
        /\ ServeR(U, parbuf[U], damaged) /\ AfterR(U, P)
    BY <1>2, <1>4 DEF SendR, U, P
  <2>2. parbuf[U].fno = P.fno /\ (P.fno \in OnHandle => parbuf[U].handle = P.handle)
    BY <1>1, <2>1 DEF Stored
  <2>3. P.fno \in OnceOnly => err[U] = "ok" /\ oldCcom # "R"
    BY <1>1, <2>1, <2>2 DEF Naks, OnceOnly
  <2>4. ~Doubt
    BY <1>1, <2>1, <2>3 DEF Doubt
  <2> DEFINE h == parbuf'[U].handle
             good == err'[U] = "ok"
             got == IF P.fno # "fnext" THEN iodesc'[h].fpread ELSE IF good THEN 1 ELSE 0
  <2>5. /\ cpc' = "idle" /\ told' = told
        /\ P.fno \in {"fread", "fwrite"} => err'[U] \in {"ok", "eof"}
        /\ known' = IF P.fno \in {"fopen", "ffirst"} /\ good
                      THEN [known EXCEPT ![h] = [unit |-> U, dir |-> P.fno = "ffirst",
                                                 pos |-> iodesc'[h].pos]]
                    ELSE IF P.fno \in {"fread", "fwrite", "fnext"} /\ known[h].unit # 0
                      THEN [known EXCEPT ![h].pos = @ + got] ELSE known
    BY <1>2, <2>1 DEF AfterR
  <2>6. /\ \A e \in Handle : Same(iodesc[e], known[e])
        /\ \A u \in Unit : Recent(u, parbuf[u], err[u], iodesc)
        /\ P.fno \in {"fread", "fwrite"} => iodesc[P.handle].open
    BY <1>1, <2>4, <2>5 DEF AInv, Agree
  <2>7. \A e \in Handle : /\ iodesc[e] \in Descriptor /\ known[e] \in Knowledge
                          /\ iodesc[e].open => iodesc[e].unit # 0
    BY AShape
  <2> SUFFICES /\ \A e \in Handle : Same(iodesc'[e], known'[e])
               /\ \A u \in Unit : Recent(u, parbuf'[u], err'[u], iodesc')
    BY <2>5 DEF Agree
  <2>8. CASE Transfer(U, parbuf[U]) /\ UNCHANGED parbuf /\ P.fno \in {"fread", "fwrite"}
    <3>1. h = P.handle /\ h \in Handle /\ iodesc[h].open /\ known[h].unit = iodesc[h].unit
          /\ known[h].pos = iodesc[h].pos /\ known[h].unit # 0
      BY <1>1, <2>2, <2>6, <2>7, <2>8 DEF OnHandle, Same
    <3>2. /\ \A e \in Handle \ {h} : iodesc'[e] = iodesc[e]
          /\ iodesc'[h].open = iodesc[h].open /\ iodesc'[h].unit = iodesc[h].unit
          /\ iodesc'[h].pos = iodesc[h].pos + iodesc'[h].fpread
          /\ \A v \in Unit \ {U} : err'[v] = err[v]
      BY <1>1, <2>8, Moved
    <3>3. known' = [known EXCEPT ![h].pos = @ + iodesc'[h].fpread]
      BY <2>5, <2>8, <3>1
    <3> HIDE DEF h, got, good
    <3>4. known'[h] = [known[h] EXCEPT !.pos = iodesc[h].pos + iodesc'[h].fpread]
      BY <1>1, <3>1, <3>3 DEF ClientOK
    <3>5. known'[h].unit = known[h].unit /\ known'[h].pos = iodesc'[h].pos
      BY <2>7, <3>1, <3>2, <3>4 DEF Knowledge
    <3>6. Same(iodesc'[h], known'[h])
      BY <3>1, <3>2, <3>5 DEF Same
    <3>7. \A e \in Handle \ {h} : known'[e] = known[e]
      BY <1>1, <3>3 DEF ClientOK
    <3>8. \A e \in Handle : Same(iodesc'[e], known'[e])
      BY <2>6, <3>2, <3>6, <3>7
    <3>9. known[h].unit = U
      BY <1>1, <2>8, <3>1, <2>2 DEF OnHandle, h
    <3>10. ASSUME NEW u \in Unit PROVE Recent(u, parbuf'[u], err'[u], iodesc')
      <4>1. CASE u = U
        BY <2>2, <2>8, <4>1 DEF Recent
      <4>2. CASE u # U
        <5>1. Recent(u, parbuf[u], err[u], iodesc) /\ err'[u] = err[u] /\ parbuf'[u] = parbuf[u]
          BY <2>6, <2>8, <3>2, <4>2
        <5>2. parbuf[u].fno \in {"fseek", "fclose"} => parbuf[u].handle \in Handle
          BY AShape DEF BuffersOK
        <5> QED BY <3>1, <3>2, <3>9, <4>2, <5>1, <5>2 DEF Recent
      <4> QED BY <4>1, <4>2
    <3> QED BY <3>8, <3>10
  <2>9. ~WriteDamaged(U, parbuf[U]) /\ ~NullFile(U, parbuf[U])
    <3>1. ~WriteDamaged(U, parbuf[U])
      BY <1>1, <2>2, <2>5 DEF WriteDamaged, Status, ServerOK
    <3>2. P.fno \in {"fread", "fwrite"} => parbuf[U].handle \in Handle /\ iodesc[parbuf[U].handle].open
      BY <1>1, <2>2, <2>6 DEF OnHandle
    <3> QED BY <2>2, <3>1, <3>2 DEF NullFile
  <2>10. CASE P.fno = "fnext" /\ NextR(U, parbuf[U]) /\ UNCHANGED parbuf
    <3>1. h = P.handle /\ h \in Handle /\ err[U] = "ok" /\ h = parbuf[U].handle /\ h # NoHandle
      BY <1>1, <2>2, <2>3, <2>10, Bounds DEF OnHandle, OnceOnly, Handle, NoHandle
    <3>2. known' = IF known[h].unit # 0 THEN [known EXCEPT ![h].pos = @ + IF good THEN 1 ELSE 0]
                   ELSE known
      BY <2>5, <2>10
    <3>3. \A u \in Unit \ {U} : err'[u] = err[u]
      BY <1>1, <2>10 DEF NextR, Status, ServerOK
    <3>4. parbuf'[U].fno = "fnext"
      BY <2>2, <2>10
    <3> HIDE DEF h, got
    <3>5. CASE UNCHANGED iodesc /\ ~good
      <4>1. known[h].unit # 0 => known' = [known EXCEPT ![h].pos = @ + 0]
        BY <3>2, <3>5
      <4>2. [known[h] EXCEPT !.pos = known[h].pos + 0] = known[h]
        BY <2>7, <3>1 DEF Knowledge
      <4>3. known' = known
        BY <1>1, <3>1, <3>2, <4>1, <4>2 DEF ClientOK
      <4> QED BY <2>6, <2>10, <3>3, <3>4, <3>5, <4>3 DEF Recent
    <3>6. CASE iodesc[h].open /\ iodesc' = [iodesc EXCEPT ![h].pos = @ + 1] /\ UNCHANGED err
      <4>1. good /\ known[h].unit # 0 /\ known[h].unit = iodesc[h].unit /\ known[h].pos = iodesc[h].pos
        BY <2>6, <2>7, <3>1, <3>6 DEF Same
      <4>2. known' = [known EXCEPT ![h].pos = @ + 1]
        BY <3>2, <4>1
      <4>3. known'[h] = [known[h] EXCEPT !.pos = iodesc[h].pos + 1]
        BY <1>1, <3>1, <4>1, <4>2 DEF ClientOK
      <4>4. iodesc'[h] = [iodesc[h] EXCEPT !.pos = iodesc[h].pos + 1]
        BY <1>1, <3>1, <3>6 DEF ServerOK
      <4>5. /\ known'[h].unit = iodesc[h].unit /\ known'[h].pos = iodesc[h].pos + 1
            /\ iodesc'[h].open /\ iodesc'[h].unit = iodesc[h].unit
            /\ iodesc'[h].pos = iodesc[h].pos + 1
        BY <2>7, <3>1, <3>6, <4>1, <4>3, <4>4 DEF Knowledge, Descriptor
      <4>6. \A e \in Handle \ {h} : known'[e] = known[e] /\ iodesc'[e] = iodesc[e]
        BY <1>1, <3>6, <4>2 DEF ClientOK, ServerOK
      <4>7. \A e \in Handle : Same(iodesc'[e], known'[e])
        BY <2>6, <4>5, <4>6 DEF Same
      <4>8. iodesc[h].unit = U
        BY <1>1, <2>10, <3>1, <4>1 DEF OnHandle
      <4>9. ASSUME NEW u \in Unit PROVE Recent(u, parbuf'[u], err'[u], iodesc')
        <5>1. Recent(u, parbuf[u], err[u], iodesc) /\ err'[u] = err[u] /\ parbuf'[u] = parbuf[u]
          BY <2>6, <2>10, <3>6
        <5>2. parbuf[u].fno \in {"fseek", "fclose"} => parbuf[u].handle \in Handle
          BY AShape DEF BuffersOK
        <5> QED BY <3>4, <4>5, <4>6, <4>8, <5>1, <5>2 DEF Recent
      <4> QED BY <4>7, <4>9
    <3>7. (UNCHANGED iodesc /\ ~good)
          \/ (iodesc[h].open /\ iodesc' = [iodesc EXCEPT ![h].pos = @ + 1] /\ UNCHANGED err)
      BY <1>1, <2>10, <3>1 DEF NextR, BadHandle, Status, ServerOK
    <3> QED BY <3>5, <3>6, <3>7
  <2>11. CASE P.fno \in {"fopen", "ffirst"} /\ OpenR(U, parbuf[U])
    <3>1. CASE Status(U, "fail") /\ UNCHANGED <<parbuf, iodesc>>
      <4>1. err'[U] = "fail" /\ \A u \in Unit \ {U} : err'[u] = err[u]
        BY <1>1, <3>1 DEF Status, ServerOK
      <4>2. known' = known
        BY <2>5, <2>11, <4>1
      <4> QED BY <2>2, <2>6, <2>11, <3>1, <4>1, <4>2 DEF Recent
    <3>2. ASSUME NEW d \in Descriptor, d.open, d.unit = U,
                 Min(Free) \in Handle, ~iodesc[Min(Free)].open,
                 iodesc' = [iodesc EXCEPT ![Min(Free)] = d],
                 parbuf' = [parbuf EXCEPT ![U] = [parbuf[U] EXCEPT !.handle = Min(Free)]],
                 UNCHANGED err
          PROVE  /\ \A e \in Handle : Same(iodesc'[e], known'[e])
                 /\ \A u \in Unit : Recent(u, parbuf'[u], err'[u], iodesc')
      <4>1. parbuf'[U].handle = Min(Free) /\ parbuf'[U].fno = P.fno
        BY <1>1, <2>2, <3>2 DEF ServerOK, Parbuf
      <4>2. h = Min(Free) /\ h \in Handle /\ iodesc' = [iodesc EXCEPT ![h] = d] /\ good
        BY <2>3, <2>11, <3>2, <4>1 DEF OnceOnly
      <4>3. \E b : known' = [known EXCEPT ![h] = [unit |-> U, dir |-> b, pos |-> iodesc'[h].pos]]
        BY <2>5, <2>11, <4>2
      <4> HIDE DEF h, good, got
      <4>4. iodesc'[h] = d /\ \A e \in Handle \ {h} : iodesc'[e] = iodesc[e] /\ known'[e] = known[e]
        BY <1>1, <4>2, <4>3 DEF ServerOK, ClientOK
      <4>5. known'[h].unit = U /\ known'[h].pos = d.pos
        BY <1>1, <4>2, <4>3, <4>4 DEF ClientOK
      <4>6. \A e \in Handle : Same(iodesc'[e], known'[e])
        BY <2>6, <3>2, <4>4, <4>5 DEF Same
      <4>7. ASSUME NEW u \in Unit PROVE Recent(u, parbuf'[u], err'[u], iodesc')
        <5>1. CASE u = U
          BY <2>11, <4>1, <5>1 DEF Recent
        <5>2. CASE u # U
          <6>1. Recent(u, parbuf[u], err[u], iodesc) /\ err'[u] = err[u] /\ parbuf'[u] = parbuf[u]
            BY <1>1, <2>6, <3>2, <5>2 DEF ServerOK
          <6>2. parbuf[u].fno \in {"fseek", "fclose"} => parbuf[u].handle \in Handle
            BY AShape DEF BuffersOK
          <6> QED BY <3>2, <4>4, <5>2, <6>1, <6>2 DEF Recent
        <5> QED BY <5>1, <5>2
      <4> QED BY <4>6, <4>7
    <3> QED BY <1>1, <2>11, <3>1, <3>2, Opened
  <2>12. CASE P.fno = "ftell" /\ UNCHANGED <<parbuf, err, iodesc>>
    BY <2>5, <2>6, <2>12
  <2> QED BY <2>1, <2>2, <2>8, <2>9, <2>10, <2>11, <2>12 DEF ServeR
<1> QED BY <1>3, <1>4

LEMMA GuiAgrees == AInv /\ Gui => Agree'
<1> SUFFICES ASSUME AInv, Gui, ~told', ~Doubt' PROVE Agree'
  BY DEF Agree
<1>1. /\ TypeOK /\ U \in Unit /\ P \in Parbuf /\ ServerOK /\ 0 \notin on
      /\ cpc # "idle" /\ P.fno \in OnHandle =>
           P.handle \in Handle /\ known[P.handle].unit \in {0, U}
  BY AShape DEF CallOK
<1>2. PICK S \in SUBSET (1..NUnits), linked \in SUBSET (1..NUnits) : Relink(S, linked)
  BY <1>1, GuiRelinks
<1>3. /\ parbuf' = [u \in Unit |-> IF u \in S THEN ZeroParbuf ELSE parbuf[u]]
      /\ \A h \in Handle :
           iodesc'[h] = IF iodesc[h].open /\ iodesc[h].unit \in S THEN Closed ELSE iodesc[h]
      /\ \A h \in Handle : known'[h] = IF known[h].unit \in S THEN Unknown ELSE known[h]
      /\ UNCHANGED <<err, oldCcom, cpc, call, told>>
  <2>1. known' = [h \in Handle |-> IF known[h].unit \in S THEN Unknown ELSE known[h]]
    BY <1>1, <1>2, Relinked
  <2>2. UNCHANGED <<err, oldCcom, cpc, call, told>>
    BY <1>1, <1>2, Relinked, Zenon
  <2>3. parbuf' = [u \in Unit |-> IF u \in S THEN ZeroParbuf ELSE parbuf[u]]
    BY <1>1, <1>2, Relinked
  <2>4. \A h \in Handle :
          iodesc'[h] = IF iodesc[h].open /\ iodesc[h].unit \in S THEN Closed ELSE iodesc[h]
    BY <1>1, <1>2, Relinked
  <2> QED BY <2>1, <2>2, <2>3, <2>4
<1>0. U' = U /\ P' = P
  BY <1>3 DEF U, P
<1>4. 0 \notin S /\ ~Closed.open /\ Unknown.unit = 0
  BY DEF Closed, Unknown
<1>5. parbuf'[U] = IF U \in S THEN ZeroParbuf ELSE parbuf[U]
  BY <1>1, <1>3
<1>6. ~told /\ ~Doubt /\ (cpc = "R" => U \notin S)
  BY <1>3, <1>0, <1>5 DEF Doubt
<1>7. /\ \A h \in Handle : \/ Same(iodesc[h], known[h])
                           \/ cpc = "P" /\ Ahead(iodesc[h], known[h], h, parbuf[U], err[U])
      /\ \A u \in Unit : Recent(u, parbuf[u], err[u], iodesc)
      /\ cpc = "R" /\ P.fno \in {"fread", "fwrite"} => iodesc[P.handle].open
  BY <1>6 DEF AInv, Agree
<1>8. ASSUME NEW h \in Handle
      PROVE  \/ Same(iodesc'[h], known'[h])
             \/ cpc' = "P" /\ Ahead(iodesc[h], known[h], h, parbuf[U], err[U])'
  <2>1. CASE Same(iodesc[h], known[h])
    BY <1>3, <1>4, <2>1 DEF Same
  <2>2. CASE cpc = "P" /\ Ahead(iodesc[h], known[h], h, parbuf[U], err[U])
    <3>1. CASE U \in S
      BY <1>3, <1>4, <2>2, <3>1 DEF Ahead, Same
    <3>2. CASE U \notin S
      BY <1>3, <1>0, <1>5, <2>2, <3>2 DEF Ahead
    <3> QED BY <3>1, <3>2
  <2> QED BY <1>7, <2>1, <2>2
<1>9. ASSUME NEW u \in Unit PROVE Recent(u, parbuf'[u], err'[u], iodesc')
  <2>1. Recent(u, parbuf[u], err[u], iodesc)
        /\ (parbuf[u].fno \in {"fseek", "fclose"} => parbuf[u].handle \in Handle)
    BY <1>7, AShape DEF BuffersOK
  <2>2. ZeroParbuf.fno = "fread"
    BY DEF ZeroParbuf
  <2> QED BY <1>3, <1>4, <2>1, <2>2 DEF Recent
<1>10. cpc = "R" /\ P.fno \in {"fread", "fwrite"} => iodesc'[P.handle].open
  <2> SUFFICES ASSUME cpc = "R", P.fno \in {"fread", "fwrite"} PROVE iodesc'[P.handle].open
    OBVIOUS
  <2>1. P.handle \in Handle /\ known[P.handle].unit \in {0, U} /\ iodesc[P.handle].open
        /\ U \notin S
    BY <1>1, <1>6, <1>7 DEF OnHandle
  <2>2. iodesc[P.handle].unit # 0 /\ Same(iodesc[P.handle], known[P.handle])
    BY <1>1, <1>7, <2>1, AShape
  <2>3. iodesc[P.handle].unit \notin S
    BY <2>1, <2>2 DEF Same
  <2> QED BY <1>3, <2>1, <2>3
<1> QED BY <1>3, <1>0, <1>8, <1>9, <1>10 DEF Agree

LEMMA AgreeKept ==
  /\ Init => AInv
  /\ AInv /\ [Next]_vars => AInv'
<1>1. ASSUME Init PROVE AInv
  <2>1. \A h \in Handle : Same(iodesc[h], known[h])
    BY <1>1 DEF Init, Same, Closed, Unknown
  <2>2. \A u \in Unit : Recent(u, parbuf[u], err[u], iodesc)
    BY <1>1 DEF Init, Recent, ZeroParbuf
  <2> QED BY <1>1, <2>1, <2>2, LinksKept DEF AInv, Agree, Init
<1>2. ASSUME AInv, [Next]_vars PROVE AInv'
  <2>1. LInv'
    BY <1>2, LinksKept DEF AInv
  <2>2. ASSUME NEW u, NEW p, Begin(u, p), u = 0 => p.fno = "init" PROVE Agree'
    <3>1. /\ cpc = "idle" /\ cpc' = "P" /\ U' = u /\ P' = p
          /\ known' = IF u = 0 THEN [h \in Handle |-> Unknown] ELSE known
          /\ UNCHANGED <<parbuf, err, iodesc, told>>
      BY <2>2 DEF Begin, server, U, P
    <3> QED BY <1>2, <2>2, <3>1 DEF AInv, Agree, Doubt
  <2>3. ASSUME NEW u \in 1..NUnits PROVE u # 0
    OBVIOUS
  <2>4. Par("init", 0, 0).fno = "init"
    BY DEF Par
  <2>5. CASE GiveUp
    <3> SUFFICES ASSUME ~told' PROVE FALSE
      BY <2>1 DEF AInv, Agree
    <3> QED BY <2>5 DEF GiveUp, Fails
  <2>6. CASE UNCHANGED vars
    <3>1. UNCHANGED <<parbuf, err, iodesc, oldCcom, cpc, call, known, told>>
      BY <2>6 DEF vars, server
    <3>2. U' = U /\ P' = P
      BY <3>1 DEF U, P
    <3>3. (told' <=> told) /\ (Doubt' <=> Doubt)
      BY <3>1, <3>2, Zenon DEF Doubt
    <3> SUFFICES ASSUME ~told', ~Doubt' PROVE Agree'
      BY <2>1 DEF AInv, Agree
    <3> QED BY <1>2, <3>1, <3>2, <3>3 DEF AInv, Agree, Ahead
  <2> QED BY <1>2, <2>1, <2>2, <2>3, <2>4, <2>5, <2>6, SendPAgrees, SendRAgrees, GuiAgrees
          DEF AInv, Next, Client
<1> QED BY <1>1, <1>2

\* The server is as far as the client thinks, except where the line has lost
\* an answer, and a retry brings them together again.
THEOREM LineKept == Spec => []AInv
BY AgreeKept, PTL DEF Spec

\* Between calls, unless one failed and left it in doubt, each handle of the
\* client is open, of its unit, and at the position that the data it got and
\* gave add up to, whatever the line lost, damaged or repeated.
THEOREM HandlesCorrect == Spec => []HandlesAgree
<1>1. AInv => HandlesAgree
  BY AShape DEF AInv, Agree, Doubt, Same, HandlesAgree
<1> QED BY <1>1, LineKept, PTL

\* Between calls, unless one failed, an open descriptor is held by the client.
THEOREM LeakCorrect == Spec => []NoSilentLeak
<1>1. AInv => NoSilentLeak
  BY AShape DEF AInv, Agree, Doubt, Same, NoSilentLeak
<1> QED BY <1>1, LineKept, PTL
=============================================================================
