------------------------- MODULE RemoteMountProofs -------------------------
(***************************************************************************)
(* Proofs about RemoteMount, for any number of drives, any files and any   *)
(* bound on the posted signals.                                            *)
(*                                                                         *)
(* What a handler relies on was true when its frame was pushed; in between *)
(* the worker and the handlers on top of it have changed the drives and    *)
(* the globals.  The invariant says of every frame what is still true of   *)
(* it then, and of the stack which handlers can be under which.            *)
(***************************************************************************)
EXTENDS RemoteMount, Integers, SequenceTheorems, WellFoundedInduction, TLAPS

Remote == {"rcl", "boot"}

Blank(t) == t = [d \in Drive |-> Empty]

\* The frame f when imageFileName is n and moved is m: what a handler has in
\* hand at each of its places.
Fit(f, n, m) ==
  /\ f.pc \in {"eject", "ask", "answer", "choose"} => f.no \in Drive
  /\ f.pc \in {"eject", "ask", "answer"} => f.file \in File
  /\ f.pc = "ask" <=> f.img # None
  /\ f.img = Gone => n # Empty \/ m
  /\ f.pc = "open" /\ f.no = None => n # Empty
  /\ f.pc = "got" => f.origin = "rcl"
  /\ f.pc \in {"drop", "dropLast", "choose"} => f.origin # "rcl"

\* A handler that the user started asks, or has nothing to ask about: a
\* session, which finds star as it is, has emptied the table t.
Asks(f, t, s) ==
  f.origin \notin Remote =>
    /\ f.pc = "open" => ~s \/ Blank(t)
    /\ f.pc = "eject" => f.ask \/ Blank(t)

\* The drive chosen for 0x96 is empty, or the last one of drives that were
\* all taken.
Spares(f, t, m) ==
  f.origin = "rcl" /\ f.pc \in {"got", "open", "eject"} =>
    m \/ f.no = None \/ (f.full /\ f.no = NDrives) \/ t[f.no] = Empty

\* A handler under another one: it sits in a dialog, or called
\* firstEmptyDiskSlot and has not used the answer.
Below(f, n) ==
  /\ f.pc \in {"drop", "dropLast", "choose", "eject", "ask"}
  /\ f.pc = "eject" => f.ask /\ f.origin # "rcl"
  /\ f.pc = "ask" => n # Empty

FramesOK ==
  \A i \in 1 .. Len(stack) :
    Fit(stack[i], name, moved) /\ Asks(stack[i], table, star) /\ Spares(stack[i], table, moved)

Nested ==
  Len(stack) = 2 => /\ stack[1].pc \in {"got", "open", "eject", "ask", "answer"}
                    /\ stack[1].origin \in Remote
                    /\ Below(stack[2], name)

\* Signals come from commands that name a file.
Named == queue # <<>> => name # Empty

Inv == TypeOK /\ FramesOK /\ Nested /\ Named /\ NoFaultWithoutRcl

(***************************************************************************)
(* Data.                                                                   *)
(***************************************************************************)
\* A non-empty set of natural numbers has a least element.
LEMMA MinOf ==
  ASSUME NEW S \in SUBSET Nat, S # {}
  PROVE  Min(S) \in S /\ \A y \in S : Min(S) <= y
<1>1. \E less : /\ \A x, y \in Nat : y < x => <<y, x>> \in less
                /\ \E x \in S : \A y \in S : <<y, x>> \notin less
  <2> DEFINE less == OpToRel(<, Nat)
  <2>1. ASSUME NEW x \in Nat, NEW y \in Nat, y < x PROVE <<y, x>> \in less
    <3>1. <<y, x>> \in Nat \X Nat /\ <<y, x>>[1] < <<y, x>>[2]
      BY <2>1
    <3> QED BY <3>1, Zenon DEF OpToRel
  <2>2. \E x \in S : \A y \in S : ~ (<<y, x>> \in less)
    BY NatLessThanWellFounded, WFMin
  <2> WITNESS less
  <2> QED BY <2>1, <2>2, Zenon
<1>2. PICK less : /\ \A x, y \in Nat : y < x => <<y, x>> \in less
                  /\ \E x \in S : \A y \in S : <<y, x>> \notin less
  BY <1>1
<1>3. PICK x \in S : \A y \in S : <<y, x>> \notin less
  BY <1>2
<1>4. ASSUME NEW y \in S PROVE x <= y
  <2>1. x \in Nat /\ y \in Nat
    OBVIOUS
  <2>2. ~ (y < x)
    BY <1>2, <1>3, <2>1
  <2> QED BY <2>1, <2>2
<1> QED BY <1>4 DEF Min

\* What firstEmptyDiskSlot returns; a search from the first drive, or one
\* that does not fall back on the last drive, returns an occupied drive only
\* when all are, and then the last.
LEMMA FirstSlot ==
  ASSUME TypeOK, NEW from \in Drive, NEW createOne \in BOOLEAN
  PROVE  /\ FirstEmptyDiskSlot(from, createOne) \in Drive \cup {None}
         /\ createOne => FirstEmptyDiskSlot(from, createOne) \in Drive
         /\ from = 1 \/ ~createOne =>
              LET no == FirstEmptyDiskSlot(from, createOne)
              IN  \/ (Empty \notin Range(table)) /\ no = NDrives
                  \/ no = None \/ table[no] = Empty
<1>0. NDrives \in Nat /\ NDrives > 0 /\ NDrives \in Drive
  BY DrivesAndNames DEF Drive
<1>1. CASE Free(from) # {}
  <2>1. Free(from) \in SUBSET Nat /\ Free(from) \subseteq {d \in Drive : table[d] = Empty}
    BY <1>0 DEF Free, Drive
  <2>2. Min(Free(from)) \in Free(from)
    BY <1>1, <2>1, MinOf
  <2> QED BY <1>1, <2>1, <2>2 DEF FirstEmptyDiskSlot
<1>2. CASE Free(from) = {}
  <2>1. FirstEmptyDiskSlot(from, createOne) = IF createOne THEN NDrives ELSE None
    BY <1>2 DEF FirstEmptyDiskSlot
  <2>2. from = 1 => Empty \notin Range(table)
    BY <1>0, <1>2 DEF Free, Drive, Range, TypeOK
  <2> QED BY <1>0, <2>1, <2>2
<1> QED BY <1>1, <1>2

LEMMA Pushed ==
  ASSUME NEW S, NEW s \in Seq(S), NEW f \in S
  PROVE  /\ <<f>> \o s \in Seq(S) /\ Len(<<f>> \o s) = Len(s) + 1
         /\ (<<f>> \o s)[1] = f
         /\ \A i \in 1 .. Len(s) : (<<f>> \o s)[i + 1] = s[i]
<1>1. <<f>> \in Seq(S) /\ Len(<<f>>) = 1 /\ <<f>>[1] = f /\ Len(s) \in Nat
  BY LenProperties
<1>2. /\ <<f>> \o s \in Seq(S) /\ Len(<<f>> \o s) = 1 + Len(s)
      /\ \A i \in 1 .. 1 + Len(s) : (<<f>> \o s)[i] = IF i <= 1 THEN <<f>>[i] ELSE s[i - 1]
  BY <1>1, ConcatProperties
<1> QED BY <1>1, <1>2

\* What a frame keeps when the program around it goes on: a name stays given,
\* star is not set behind a user's handler, and drives are filled only with
\* moved set.
LEMMA FrameStays ==
  ASSUME NEW f \in Frames, NEW t, NEW t2, NEW n, NEW n2, NEW m \in BOOLEAN, NEW m2 \in BOOLEAN,
         NEW s \in BOOLEAN, NEW s2 \in BOOLEAN,
         Fit(f, n, m), Asks(f, t, s), Spares(f, t, m),
         n # Empty => n2 # Empty, s2 => s, m => m2, Blank(t) => Blank(t2),
         m2 \/ \A d \in Drive : t[d] = Empty => t2[d] = Empty
  PROVE  Fit(f, n2, m2) /\ Asks(f, t2, s2) /\ Spares(f, t2, m2)
<1>1. Fit(f, n2, m2)
  BY DEF Fit
<1>2. Asks(f, t2, s2)
  BY DEF Asks
<1>3. Spares(f, t2, m2)
  BY DEF Spares, Frames
<1> QED BY <1>1, <1>2, <1>3

\* An image that a worker's command moved.
LEMMA FrameFollows ==
  ASSUME NEW f \in Frames, NEW at \in [Drive -> Drive \cup {Gone}], NEW g2,
         g2 = [f EXCEPT !.img = IF @ \in Drive THEN at[@] ELSE @],
         NEW t, NEW t2, NEW n, NEW s, NEW m, 
         Fit(f, n, m), Asks(f, t, s), Blank(t) => Blank(t2)
  PROVE  g2 \in Frames /\ Fit(g2, n, TRUE) /\ Asks(g2, t2, s) /\ Spares(g2, t2, TRUE)
<1>1. None \notin Drive /\ None # Gone /\ f.img \in Drive \cup {None, Gone}
  BY DrivesAndNames DEF Frames, Drive, None, Gone
<1>2. g2 \in Frames /\ (g2.img = None <=> f.img = None)
  BY <1>1 DEF Frames
<1>3. /\ g2.pc = f.pc /\ g2.no = f.no /\ g2.file = f.file /\ g2.ask = f.ask
      /\ g2.origin = f.origin
  BY DEF Frames
<1>4. Fit(g2, n, TRUE)
  BY <1>2, <1>3 DEF Fit
<1>5. Asks(g2, t2, s)
  BY <1>3 DEF Asks
<1> QED BY <1>2, <1>4, <1>5 DEF Spares

\* The stack and the frames in it.
LEMMA StackShape ==
  ASSUME Inv
  PROVE  /\ stack \in Seq(Frames) /\ Len(stack) \in 0 .. 2
         /\ \A i \in 1 .. Len(stack) : stack[i] \in Frames
         /\ stack # <<>> => /\ 1 \in 1 .. Len(stack) /\ g \in Frames
                            /\ Fit(g, name, moved) /\ Asks(g, table, star)
                            /\ Spares(g, table, moved)
<1>0. stack \in Seq(Frames) /\ Len(stack) <= 2
  BY DEF Inv, TypeOK
<1>1. stack \in Seq(Frames) /\ Len(stack) \in 0 .. 2
  <2>1. Len(stack) \in Nat
    BY <1>0, LenProperties
  <2>2. ASSUME NEW n \in Nat, n <= 2 PROVE n \in 0 .. 2
    BY <2>2
  <2> QED BY <1>0, <2>1, <2>2
<1>2. \A i \in 1 .. Len(stack) : stack[i] \in Frames
  BY <1>1, ElementOfSeq
<1>3. stack # <<>> => 1 \in 1 .. Len(stack)
  BY <1>1, EmptySeq
<1> QED BY <1>1, <1>2, <1>3 DEF Inv, FramesOK, g

(***************************************************************************)
(* Steps that leave the stack, or the frames in it, as they are.           *)
(***************************************************************************)
LEMMA StackStays ==
  ASSUME Inv, TypeOK', Named', stack' = stack, star' = star, fault' = fault,
         name # Empty => name' # Empty, moved => moved', Blank(table) => Blank(table'),
         moved' \/ \A d \in Drive : table[d] = Empty => table'[d] = Empty
  PROVE  Inv'
<1>1. FramesOK'
  <2> SUFFICES ASSUME NEW i \in 1 .. Len(stack)
               PROVE  /\ Fit(stack[i], name', moved') /\ Asks(stack[i], table', star')
                      /\ Spares(stack[i], table', moved')
    BY DEF FramesOK
  <2>1. stack[i] \in Frames
    BY StackShape
  <2> QED BY <2>1, FrameStays DEF Inv, FramesOK, TypeOK
<1>2. Nested'
  BY DEF Inv, Nested, Below
<1> QED BY <1>1, <1>2 DEF Inv, NoFaultWithoutRcl

LEMMA PostType ==
  ASSUME Inv, NEW kind, NEW f, Post(kind, f), [kind |-> kind, file |-> f] \in Signals
  PROVE  queue' \in Seq(Signals) /\ Len(queue') <= MaxQueue
<1>0. queue \in Seq(Signals)
  BY DEF Inv, TypeOK
<1>1. Len(queue) \in Nat /\ MaxQueue \in Nat /\ Len(queue) < MaxQueue
  BY <1>0, LenProperties, DrivesAndNames DEF Post
<1>2. Len(queue') = Len(queue) + 1 /\ queue' \in Seq(Signals)
  BY <1>0, AppendProperties DEF Post
<1> QED BY <1>1, <1>2

LEMMA CommandKeeps ==
  ASSUME Inv, \/ \E f \in Asked : RclMount(f) \/ RclMountBoot(f)
              \/ RclRefuse \/ GiveUp
              \/ \E a \in Drive : RclSave(a) \/ AtariWrite(a)
  PROVE  Inv'
<1>1. ASSUME NEW f \in Asked, RclMount(f) PROVE Inv'
  <2>1. [kind |-> "find", file |-> Empty] \in Signals /\ f # Empty
    BY DrivesAndNames DEF Signals, Asked
  <2>2. queue' \in Seq(Signals) /\ Len(queue') <= MaxQueue
    BY <1>1, <2>1, PostType DEF RclMount
  <2>3. TypeOK'
    BY <1>1, <2>2 DEF Inv, TypeOK, RclMount, Command
  <2> QED BY <1>1, <2>1, <2>3, StackStays DEF RclMount, Command, Named
<1>2. ASSUME NEW f \in Asked, RclMountBoot(f) PROVE Inv'
  <2>1. [kind |-> "mount", file |-> f] \in Signals /\ f # Empty
    BY DrivesAndNames DEF Signals, Asked
  <2>2. queue' \in Seq(Signals) /\ Len(queue') <= MaxQueue
    BY <1>2, <2>1, PostType DEF RclMountBoot
  <2>3. TypeOK'
    BY <1>2, <2>2 DEF Inv, TypeOK, RclMountBoot, Command
  <2> QED BY <1>2, <2>1, <2>3, StackStays DEF RclMountBoot, Command, Named
<1>3. CASE RclRefuse
  <2>1. Raw # Empty
    BY DrivesAndNames
  <2>2. TypeOK'
    BY <1>3 DEF Inv, TypeOK, RclRefuse, Command
  <2>3. name # Empty => name' # Empty
    BY <1>3, <2>1 DEF RclRefuse
  <2>4. UNCHANGED <<table, queue, stack, star, moved, fault>>
    BY <1>3 DEF RclRefuse, Command
  <2>5. Named'
    BY <2>3, <2>4 DEF Inv, Named
  <2> QED BY <2>2, <2>3, <2>4, <2>5, StackStays
<1>4. CASE GiveUp
  <2>1. TypeOK' /\ Named'
    BY <1>4 DEF Inv, TypeOK, Named, GiveUp
  <2> QED BY <1>4, <2>1, StackStays DEF GiveUp
<1>5. ASSUME NEW a \in Drive, RclSave(a) \/ AtariWrite(a) PROVE Inv'
  <2>1. TypeOK' /\ Named'
    BY <1>5 DEF Inv, TypeOK, Named, RclSave, AtariWrite, Command, remote
  <2> QED BY <1>5, <2>1, StackStays DEF RclSave, AtariWrite, Command, remote
<1> QED BY <1>1, <1>2, <1>3, <1>4, <1>5

\* A command of the worker moves images, and with them those that handlers
\* have fetched.
LEMMA FollowKeeps ==
  ASSUME Inv, NEW at \in [Drive -> Drive \cup {Gone}], stack' = Follow(stack, at), moved' = TRUE,
         remote' = remote, star' = star, fault' = fault, Blank(table) => Blank(table'),
         table' \in [Drive -> File \cup {Empty}], unsaved' \subseteq {d \in Drive : table'[d] # Empty}
  PROVE  Inv'
<1>1. /\ DOMAIN stack = 1 .. Len(stack) /\ Len(stack) \in 0 .. 2
      /\ \A i \in 1 .. Len(stack) : stack[i] \in Frames
  BY StackShape, LenProperties
<1>2. stack' = [i \in 1 .. Len(stack) |->
                  [stack[i] EXCEPT !.img = IF @ \in Drive THEN at[@] ELSE @]]
  BY <1>1 DEF Follow
<1>3. ASSUME NEW i \in 1 .. Len(stack)
      PROVE  /\ stack'[i] \in Frames /\ Fit(stack'[i], name, TRUE)
             /\ Asks(stack'[i], table', star) /\ Spares(stack'[i], table', TRUE)
             /\ stack'[i].pc = stack[i].pc /\ stack'[i].origin = stack[i].origin
             /\ stack'[i].ask = stack[i].ask
  <2>1. stack'[i] = [stack[i] EXCEPT !.img = IF @ \in Drive THEN at[@] ELSE @]
    BY <1>2
  <2>2. stack[i] \in Frames /\ Fit(stack[i], name, moved) /\ Asks(stack[i], table, star)
    BY <1>1 DEF Inv, FramesOK
  <2>3. /\ stack'[i].pc = stack[i].pc /\ stack'[i].origin = stack[i].origin
        /\ stack'[i].ask = stack[i].ask
    BY <2>1, <2>2 DEF Frames
  <2> QED BY <2>1, <2>2, <2>3, FrameFollows
<1>4. stack' \in Seq(Frames) /\ Len(stack') = Len(stack)
  <2>1. stack' \in [1 .. Len(stack) -> Frames]
    BY <1>2, <1>3
  <2> QED BY <1>1, <2>1, SeqDef, LenProperties
<1>5. TypeOK'
  BY <1>4, <1>1 DEF Inv, TypeOK, remote
<1>6. FramesOK'
  BY <1>3, <1>4 DEF FramesOK, remote
<1>7. Nested'
  BY <1>3, <1>4 DEF Inv, Nested, Below, remote
<1> QED BY <1>5, <1>6, <1>7 DEF Inv, Named, NoFaultWithoutRcl, remote

LEMMA MoveKeeps ==
  ASSUME Inv, \/ RclUnmountAll \/ \E a \in Drive : RclUnmount(a)
              \/ \E a, b \in Drive : RclSwap(a, b)
  PROVE  Inv'
<1>1. ASSUME NEW a \in Drive, RclUnmount(a) PROVE Inv'
  <2> DEFINE at == [d \in Drive |-> IF d = a THEN Gone ELSE d]
  <2>1. at \in [Drive -> Drive \cup {Gone}]
    OBVIOUS
  <2>2. /\ stack' = Follow(stack, at) /\ moved' = TRUE
        /\ remote' = remote /\ star' = star /\ fault' = fault
        /\ table' = [table EXCEPT ![a] = Empty] /\ unsaved' = unsaved /\ a \notin unsaved
    BY <1>1 DEF RclUnmount, Command
  <2>3. /\ table' \in [Drive -> File \cup {Empty}] /\ (Blank(table) => Blank(table'))
        /\ unsaved' \subseteq {d \in Drive : table'[d] # Empty}
    BY <2>2 DEF Inv, TypeOK, Blank
  <2> QED BY <2>1, <2>2, <2>3, FollowKeeps
<1>2. ASSUME NEW a \in Drive, NEW b \in Drive, RclSwap(a, b) PROVE Inv'
  <2> DEFINE at == [d \in Drive |-> IF d = a THEN b ELSE IF d = b THEN a ELSE d]
  <2>1. at \in [Drive -> Drive \cup {Gone}]
    OBVIOUS
  <2>2. /\ stack' = Follow(stack, at) /\ moved' = TRUE
        /\ remote' = remote /\ star' = star /\ fault' = fault
        /\ table' = [d \in Drive |-> table[at[d]]] /\ unsaved' = {at[d] : d \in unsaved}
    BY <1>2 DEF RclSwap, Command
  <2>3. /\ table' \in [Drive -> File \cup {Empty}] /\ (Blank(table) => Blank(table'))
        /\ unsaved' \subseteq {d \in Drive : table'[d] # Empty}
    BY <2>1, <2>2 DEF Inv, TypeOK, Blank
  <2> QED BY <2>1, <2>2, <2>3, FollowKeeps
<1>3. CASE RclUnmountAll
  <2> DEFINE at == [d \in Drive |-> Gone]
  <2>1. at \in [Drive -> Drive \cup {Gone}]
    OBVIOUS
  <2>2. /\ stack' = Follow(stack, at) /\ moved' = TRUE
        /\ remote' = remote /\ star' = star /\ fault' = fault
        /\ table' = [d \in Drive |-> Empty] /\ unsaved' = {}
    BY <1>3 DEF RclUnmountAll, Command
  <2>3. /\ table' \in [Drive -> File \cup {Empty}] /\ (Blank(table) => Blank(table'))
        /\ unsaved' \subseteq {d \in Drive : table'[d] # Empty}
    BY <2>2 DEF Blank
  <2> QED BY <2>1, <2>2, <2>3, FollowKeeps
<1> QED BY <1>1, <1>2, <1>3

(***************************************************************************)
(* Steps that change the stack.                                            *)
(***************************************************************************)
\* The invariant from what is true of the upper and the lower frame.
LEMMA Built ==
  ASSUME TypeOK', Named', NoFaultWithoutRcl',
         stack' # <<>> => /\ Fit(stack'[1], name', moved') /\ Asks(stack'[1], table', star')
                          /\ Spares(stack'[1], table', moved'),
         Len(stack') = 2 => /\ stack'[1].pc \in {"got", "open", "eject", "ask", "answer"}
                            /\ stack'[1].origin \in Remote
                            /\ Below(stack'[2], name') /\ Fit(stack'[2], name', moved')
  PROVE  Inv'
<1>1. stack' \in Seq(Frames) /\ Len(stack') <= 2
  BY DEF TypeOK
<1>2. Len(stack') \in Nat /\ (stack' = <<>> => Len(stack') = 0)
  BY <1>1, LenProperties, EmptySeq
<1>3. ASSUME NEW i \in 1 .. Len(stack')
      PROVE  /\ Fit(stack'[i], name', moved') /\ Asks(stack'[i], table', star')
             /\ Spares(stack'[i], table', moved')
  <2>1. (i = 1 /\ stack' # <<>>) \/ (i = 2 /\ Len(stack') = 2)
    <3>1. ASSUME NEW n \in Nat, n <= 2, i \in 1 .. n PROVE n # 0 /\ (i = 1 \/ (i = 2 /\ n = 2))
      BY <3>1
    <3> QED BY <1>1, <1>2, <3>1
  <2>2. CASE i = 1 /\ stack' # <<>>
    BY <2>2
  <2>3. CASE i = 2 /\ Len(stack') = 2
    BY <2>3 DEF Below, Asks, Spares, Remote
  <2> QED BY <2>1, <2>2, <2>3
<1>4. FramesOK'
  BY <1>3 DEF FramesOK
<1>5. Nested'
  BY DEF Nested
<1> QED BY <1>4, <1>5 DEF Inv

\* The handler on top goes on to f; star may change, table and unsaved are
\* left alone.
LEMMA TopKeeps ==
  ASSUME Inv, stack # <<>>, NEW f \in Frames, stack' = [stack EXCEPT ![1] = f],
         Fit(f, name, moved), Asks(f, table, star'), Spares(f, table, moved),
         Len(stack) = 2 => /\ f.pc \in {"got", "open", "eject", "ask", "answer"}
                           /\ f.origin = g.origin,
         star' \in BOOLEAN, UNCHANGED <<table, unsaved, name, queue, atari, heard, moved, fault>>
  PROVE  Inv'
<1>1. stack \in Seq(Frames) /\ 1 \in 1 .. Len(stack) /\ Len(stack) \in 0 .. 2
  BY StackShape
<1>2. /\ stack' \in Seq(Frames) /\ Len(stack') = Len(stack) /\ stack'[1] = f
      /\ Len(stack) = 2 => stack'[2] = stack[2]
  BY <1>1, ExceptSeq
<1>3. TypeOK'
  BY <1>1, <1>2 DEF Inv, TypeOK
<1>4. Len(stack) = 2 => Below(stack[2], name) /\ Fit(stack[2], name, moved)
  BY DEF Inv, Nested, FramesOK
<1>5. Len(stack) = 2 => g.origin \in Remote
  BY DEF Inv, Nested, g
<1>6. Named' /\ NoFaultWithoutRcl'
  BY DEF Inv, Named, NoFaultWithoutRcl
<1> QED BY <1>2, <1>3, <1>4, <1>5, <1>6, Built

\* The handler on top returns to the one under it, or to the event loop.
LEMMA ReturnKeeps ==
  ASSUME Inv, stack # <<>>, Return, star' \in BOOLEAN,
         atari' \in Asked \cup {Empty}, heard' \in {"nothing", "complete", "nak"},
         UNCHANGED <<table, unsaved, name, queue, moved, fault>>
  PROVE  Inv'
<1>1. stack \in Seq(Frames) /\ Len(stack) \in 0 .. 2
  BY StackShape
<1>2. /\ stack' \in Seq(Frames) /\ Len(stack') = Len(stack) - 1
      /\ \A i \in 1 .. Len(stack') : stack'[i] = stack[i + 1]
  BY <1>1, HeadTailProperties DEF Return
<1>3. TypeOK'
  BY <1>1, <1>2 DEF Inv, TypeOK
<1>4. stack' # <<>> => Len(stack) = 2 /\ stack'[1] = stack[2]
  <2>1. stack' # <<>> => Len(stack') # 0
    BY <1>2, EmptySeq
  <2> QED BY <1>1, <1>2, <2>1
<1>5. Len(stack) = 2 => Below(stack[2], name) /\ Fit(stack[2], name, moved)
  BY DEF Inv, Nested, FramesOK
<1>6. stack' # <<>> => /\ Fit(stack'[1], name', moved') /\ Asks(stack'[1], table', star')
                       /\ Spares(stack'[1], table', moved')
  BY <1>4, <1>5 DEF Below, Asks, Spares, Remote
<1>7. Named' /\ NoFaultWithoutRcl'
  BY DEF Inv, Named, NoFaultWithoutRcl
<1>8. Len(stack') # 2
  BY <1>1, <1>2
<1> QED BY <1>3, <1>6, <1>7, <1>8, Built

\* mountFile: the image at drive d is deleted and the new one installed.
LEMMA ReplaceKeeps ==
  ASSUME Inv, stack # <<>>, g.pc \in {"eject", "ask"}, NEW d \in Drive, Replace(d),
         UNCHANGED <<name, queue>>
  PROVE  Inv'
<1> DEFINE at == [e \in Drive |-> IF e \in {d, g.no} THEN Gone ELSE e]
           s == Follow(stack, at)
           f == [s[1] EXCEPT !.pc = "answer", !.img = None]
<1>1. /\ stack \in Seq(Frames) /\ 1 \in 1 .. Len(stack) /\ Len(stack) \in 0 .. 2
      /\ DOMAIN stack = 1 .. Len(stack)
      /\ \A i \in 1 .. Len(stack) : stack[i] \in Frames
      /\ g \in Frames /\ g.no \in Drive /\ g.file \in File
  BY StackShape, LenProperties DEF Fit
<1>2. /\ at \in [Drive -> Drive \cup {Gone}]
      /\ s = [i \in 1 .. Len(stack) |-> [stack[i] EXCEPT !.img = IF @ \in Drive THEN at[@] ELSE @]]
  BY <1>1 DEF Follow
<1>3. ASSUME NEW i \in 1 .. Len(stack)
      PROVE  /\ s[i] \in Frames /\ s[i].pc = stack[i].pc /\ s[i].no = stack[i].no
             /\ s[i].file = stack[i].file /\ s[i].ask = stack[i].ask /\ s[i].full = stack[i].full
             /\ s[i].origin = stack[i].origin /\ (s[i].img = None <=> stack[i].img = None)
  <2>1. s[i] = [stack[i] EXCEPT !.img = IF @ \in Drive THEN at[@] ELSE @]
    BY <1>2
  <2>2. stack[i] \in Frames /\ stack[i].img \in Drive \cup {None, Gone} /\ None \notin Drive
    BY <1>1 DEF Frames, Drive, None
  <2>3. None # Gone
    BY DrivesAndNames DEF None, Gone
  <2> HIDE DEF at, s
  <2> QED BY <1>2, <2>1, <2>2, <2>3 DEF Frames
<1>4. s \in Seq(Frames) /\ Len(s) = Len(stack)
  <2>1. s \in [1 .. Len(stack) -> Frames]
    BY <1>2, <1>3
  <2> HIDE DEF s
  <2> QED BY <1>1, <2>1, SeqDef, LenProperties
<1> HIDE DEF at
<1>5. f \in Frames /\ f.pc = "answer" /\ f.img = None /\ f.no = g.no /\ f.file = g.file
      /\ f.origin = g.origin
  <2>1. /\ s[1] \in Frames /\ s[1].no = g.no /\ s[1].file = g.file /\ s[1].origin = g.origin
    BY <1>1, <1>3 DEF g
  <2> HIDE DEF s
  <2> QED BY <2>1 DEF Frames
<1>6. stack' = [s EXCEPT ![1] = f]
  BY DEF Replace, at
<1> HIDE DEF s, f
<1>7. /\ stack' \in Seq(Frames) /\ Len(stack') = Len(stack) /\ stack'[1] = f
      /\ Len(stack) = 2 => stack'[2] = s[2]
  BY <1>1, <1>4, <1>5, <1>6, ExceptSeq
<1>8. TypeOK'
  <2>1. /\ table' = [table EXCEPT ![d] = Empty, ![g.no] = g.file]
        /\ unsaved' = unsaved \ {d, g.no} /\ UNCHANGED <<star, atari, heard, moved, fault>>
    BY DEF Replace
  <2>2. g.file # Empty
    BY <1>1, DrivesAndNames DEF File
  <2>3. table' \in [Drive -> File \cup {Empty}] /\ unsaved' \subseteq {e \in Drive : table'[e] # Empty}
    BY <1>1, <2>1, <2>2 DEF Inv, TypeOK
  <2> QED BY <1>1, <1>7, <2>1, <2>3 DEF Inv, TypeOK
<1>9. Fit(f, name', moved') /\ Asks(f, table', star') /\ Spares(f, table', moved')
  BY <1>1, <1>5, DrivesAndNames DEF Fit, Asks, Spares, None, Gone
<1>10. ASSUME Len(stack) = 2 PROVE Below(s[2], name) /\ Fit(s[2], name, moved)
  <2>1. Below(stack[2], name) /\ Fit(stack[2], name, moved) /\ 2 \in 1 .. Len(stack)
    BY <1>10 DEF Inv, Nested, FramesOK
  <2>2. s[2] \in Frames /\ s[2].pc = stack[2].pc /\ s[2].no = stack[2].no
        /\ s[2].file = stack[2].file /\ s[2].ask = stack[2].ask
        /\ s[2].origin = stack[2].origin /\ (s[2].img = None <=> stack[2].img = None)
    BY <1>3, <2>1
  <2>3. Below(s[2], name)
    BY <2>1, <2>2 DEF Below
  <2>4. s[2].img = Gone => name # Empty
    BY <2>1, <2>2, DrivesAndNames DEF Below, Fit, None, Gone
  <2> QED BY <2>1, <2>2, <2>3, <2>4 DEF Fit
<1>11. Len(stack) = 2 => g.origin \in Remote
  BY DEF Inv, Nested, g
<1>12. Named' /\ NoFaultWithoutRcl' /\ name' = name /\ moved' = moved
  BY DEF Inv, Named, NoFaultWithoutRcl, Replace
<1> QED BY <1>5, <1>7, <1>8, <1>9, <1>10, <1>11, <1>12, Built

\* The frame f once firstEmptyDiskSlot has chosen for it.
Chosen(f, from, createOne) ==
  [f EXCEPT !.no = FirstEmptyDiskSlot(from, createOne), !.full = (Empty \notin Range(table))]

Got == Frame("got", None, Empty, "rcl")

LEMMA ChosenFrame ==
  ASSUME TypeOK, NEW f \in Frames, NEW from \in Drive, NEW createOne \in BOOLEAN
  PROVE  LET c == Chosen(f, from, createOne)
         IN  /\ c \in Frames /\ c.no = FirstEmptyDiskSlot(from, createOne)
             /\ c.full = (Empty \notin Range(table))
             /\ c.pc = f.pc /\ c.file = f.file /\ c.img = f.img /\ c.ask = f.ask
             /\ c.origin = f.origin
<1> DEFINE no == FirstEmptyDiskSlot(from, createOne)
           full == (Empty \notin Range(table))
<1>1. no \in Drive \cup {None}
  BY FirstSlot
<1>2. full \in BOOLEAN
  OBVIOUS
<1> HIDE DEF no, full
<1>3. [f EXCEPT !.no = no, !.full = full] \in Frames
  BY <1>1, <1>2 DEF Frames
<1> QED BY <1>3 DEF Chosen, Frames, no, full

LEMMA FrameType ==
  ASSUME NEW l \in {"got", "open", "eject", "drop", "choose"}, NEW d \in Drive \cup {None},
         NEW f \in File \cup {Empty}, NEW who \in {"user", "new", "rcl", "boot"}
  PROVE  Frame(l, d, f, who) \in Frames
BY DEF Frame, Frames

LEMMA NewSlotStack ==
  ASSUME TypeOK, NEW from \in Drive, NEW createOne \in BOOLEAN,
         NEW caller \in Seq(Frames), NEW rest \in Seq(Frames),
         NewSlot(from, createOne, caller, rest)
  PROVE  /\ stack' \in Seq(Frames) /\ Len(stack') = 1 + Len(caller) + Len(rest)
         /\ stack'[1] = Chosen(Got, from, createOne)
         /\ \A i \in 1 .. Len(caller) : stack'[i + 1] = Chosen(caller[i], from, createOne)
         /\ \A i \in 1 .. Len(rest) : stack'[i + 1 + Len(caller)] = rest[i]
<1> DEFINE mid == [i \in DOMAIN caller |-> Chosen(caller[i], from, createOne)]
           top == Chosen(Got, from, createOne)
<1>1. stack' = <<top>> \o mid \o rest
  BY DEF NewSlot, Chosen, Got
<1>2. top \in Frames
  BY FrameType, ChosenFrame DEF Got
<1>3. /\ DOMAIN caller = 1 .. Len(caller) /\ Len(caller) \in Nat /\ Len(rest) \in Nat
      /\ \A i \in 1 .. Len(caller) : caller[i] \in Frames
  BY LenProperties, ElementOfSeq
<1>4. mid \in Seq(Frames) /\ Len(mid) = Len(caller)
  <2>1. mid \in [1 .. Len(caller) -> Frames]
    BY <1>3, ChosenFrame
  <2> HIDE DEF mid
  <2> QED BY <1>3, <2>1, SeqDef, LenProperties
<1>5. \A i \in 1 .. Len(caller) : mid[i] = Chosen(caller[i], from, createOne)
  BY <1>3
<1> HIDE DEF mid, top
<1>6. /\ <<top>> \o mid \in Seq(Frames) /\ Len(<<top>> \o mid) = Len(caller) + 1
      /\ (<<top>> \o mid)[1] = top
      /\ \A i \in 1 .. Len(caller) : (<<top>> \o mid)[i + 1] = mid[i]
  BY <1>2, <1>4, Pushed
<1> DEFINE upper == <<top>> \o mid
<1> HIDE DEF upper
<1>7. /\ stack' \in Seq(Frames) /\ Len(stack') = Len(upper) + Len(rest)
      /\ \A i \in 1 .. Len(upper) + Len(rest) :
           stack'[i] = IF i <= Len(upper) THEN upper[i] ELSE rest[i - Len(upper)]
  BY <1>1, <1>6, ConcatProperties DEF upper
<1>8. /\ Len(upper) = Len(caller) + 1 /\ upper[1] = top
      /\ \A i \in 1 .. Len(caller) : upper[i + 1] = mid[i]
  BY <1>6 DEF upper
<1>9. stack'[1] = top
  BY <1>3, <1>7, <1>8
<1>10. ASSUME NEW i \in 1 .. Len(caller) PROVE stack'[i + 1] = mid[i]
  BY <1>3, <1>7, <1>8
<1>11. ASSUME NEW i \in 1 .. Len(rest) PROVE stack'[i + 1 + Len(caller)] = rest[i]
  BY <1>3, <1>7, <1>8
<1>12. Len(stack') = 1 + Len(caller) + Len(rest)
  BY <1>3, <1>7, <1>8
<1> QED BY <1>5, <1>7, <1>9, <1>10, <1>11, <1>12 DEF top

LEMMA GotFits ==
  ASSUME TypeOK, NEW from \in Drive, NEW createOne \in BOOLEAN, from = 1 \/ ~createOne,
         NEW n, NEW m, NEW s
  PROVE  LET c == Chosen(Got, from, createOne)
         IN  /\ Fit(c, n, m) /\ Asks(c, table, s) /\ Spares(c, table, m)
             /\ c.pc = "got" /\ c.origin = "rcl"
<1> DEFINE c == Chosen(Got, from, createOne)
<1>1. Got \in Frames
  BY FrameType DEF Got
<1>2. /\ c.pc = "got" /\ c.origin = "rcl" /\ c.img = None
      /\ c.no = FirstEmptyDiskSlot(from, createOne) /\ c.full = (Empty \notin Range(table))
  BY <1>1, ChosenFrame DEF Got, Frame
<1>3. (c.full /\ c.no = NDrives) \/ c.no = None \/ table[c.no] = Empty
  BY <1>2, FirstSlot
<1> HIDE DEF c
<1>4. None # Gone
  BY DrivesAndNames DEF None, Gone
<1> QED BY <1>2, <1>3, <1>4 DEF Fit, Asks, Spares, Remote, c

\* firstEmptyDiskSlot called by a handler with nothing under it.
LEMMA CalledKeeps ==
  ASSUME Inv, NEW from \in Drive, NEW createOne \in BOOLEAN, from = 1 \/ ~createOne,
         NEW f \in Frames, NewSlot(from, createOne, <<f>>, <<>>),
         f.pc \in {"choose", "eject", "drop", "dropLast"}, f.origin # "rcl", f.img = None,
         f.pc = "eject" => f.ask /\ f.file \in File, f.pc \in {"choose", "eject"} => createOne,
         UNCHANGED <<table, unsaved, star, remote, fault>>, fault => name # Empty
  PROVE  Inv'
<1> DEFINE c == Chosen(f, from, createOne)
<1>0. <<f>> \in Seq(Frames) /\ <<>> \in Seq(Frames)
  BY EmptySeq
<1>1. Len(<<f>>) = 1 /\ <<f>>[1] = f /\ Len(<<>>) = 0
  OBVIOUS
<1>2. TypeOK
  BY DEF Inv
<1>3. stack' \in Seq(Frames) /\ Len(stack') = 2 /\ stack'[1] = Chosen(Got, from, createOne) /\ stack'[2] = c
  <2>1. PICK caller, rest : caller = <<f>> /\ rest = <<>>
    OBVIOUS
  <2>2. caller \in Seq(Frames) /\ rest \in Seq(Frames) /\ NewSlot(from, createOne, caller, rest)
    BY <1>0, <2>1
  <2>3. /\ stack' \in Seq(Frames) /\ Len(stack') = 1 + Len(caller) + Len(rest)
        /\ stack'[1] = Chosen(Got, from, createOne)
        /\ \A i \in 1 .. Len(caller) : stack'[i + 1] = Chosen(caller[i], from, createOne)
    BY <1>2, <2>2, NewSlotStack
  <2>4. Len(caller) = 1 /\ caller[1] = f /\ Len(rest) = 0
    BY <1>1, <2>1
  <2> QED BY <2>3, <2>4
<1>4. moved' = FALSE
  BY DEF NewSlot
<1>5. TypeOK'
  <2>1. Len(stack') <= 2
    BY <1>3
  <2>2. moved' \in BOOLEAN
    BY <1>4
  <2> QED BY <1>2, <1>3, <2>1, <2>2 DEF TypeOK, remote
<1>6. /\ Fit(stack'[1], name', moved') /\ Asks(stack'[1], table', star')
      /\ Spares(stack'[1], table', moved') /\ stack'[1].pc = "got" /\ stack'[1].origin = "rcl"
  <2> DEFINE top == Chosen(Got, from, createOne)
  <2>1. /\ Fit(top, name', moved') /\ Asks(top, table, star') /\ Spares(top, table, moved')
        /\ top.pc = "got" /\ top.origin = "rcl"
    BY <1>2, GotFits
  <2> HIDE DEF top
  <2> QED BY <1>3, <2>1 DEF top
<1>7. /\ c.pc = f.pc /\ c.file = f.file /\ c.img = f.img /\ c.ask = f.ask /\ c.origin = f.origin
      /\ f.pc \in {"choose", "eject"} => c.no \in Drive
  BY <1>2, ChosenFrame, FirstSlot
<1> HIDE DEF c
<1>8. None # Gone
  BY DrivesAndNames DEF None, Gone
<1>9. Below(stack'[2], name') /\ Fit(stack'[2], name', moved')
  BY <1>3, <1>7, <1>8 DEF Below, Fit
<1>10. Named' /\ NoFaultWithoutRcl'
  BY DEF Inv, Named, NoFaultWithoutRcl, remote
<1> QED BY <1>3, <1>5, <1>6, <1>9, <1>10, Built DEF Remote

LEMMA UserKeeps ==
  ASSUME Inv, \/ \E f \in UserFiles : \/ \E d \in Drive : UserMount(d, f) \/ UserDrop(d, f)
                                      \/ UserNew(f) \/ UserSession(f)
              \/ UserMenu \/ \E d \in Drive : UserEject(d)
  PROVE  Inv'
<1>0. 1 \in Drive /\ None # Gone /\ None \notin Drive
  BY DrivesAndNames DEF Drive, None, Gone
<1>1. ASSUME NEW f \in UserFiles, NEW d \in Drive, UserMount(d, f) \/ (d = 1 /\ UserSession(f))
      PROVE  Inv'
  <2> DEFINE h == Frame("open", d, f, "user")
  <2>1. h \in Frames /\ h.pc = "open" /\ h.no = d /\ h.img = None /\ h.origin = "user"
    BY FrameType DEF Frame, File
  <2>2. stack' = <<h>> /\ moved' = FALSE /\ ~fault /\ fault' = fault
    <3>1. CASE UserMount(d, f)
      BY <3>1 DEF UserMount, Idle
    <3>2. CASE d = 1 /\ UserSession(f)
      BY <3>2 DEF UserSession
    <3> QED BY <1>1, <3>1, <3>2
  <2> HIDE DEF h
  <2>3. stack' \in Seq(Frames) /\ Len(stack') = 1 /\ stack'[1] = h
    BY <2>1, <2>2
  <2>4. /\ table' \in [Drive -> File \cup {Empty}]
        /\ unsaved' \subseteq {e \in Drive : table'[e] # Empty}
        /\ ~star' \/ Blank(table')
    BY <1>1 DEF Inv, TypeOK, UserMount, UserSession, Blank
  <2>5. /\ star' \in BOOLEAN /\ name' = name /\ queue' = queue
        /\ atari' \in Asked \cup {Empty} /\ heard' \in {"nothing", "complete", "nak"}
    BY <1>1 DEF Inv, TypeOK, UserMount, UserSession, Idle, Answer
  <2>6. TypeOK'
    <3>1. Len(stack') <= 2
      BY <2>3
    <3>2. moved' \in BOOLEAN /\ fault' \in BOOLEAN
      BY <2>2 DEF Inv, TypeOK
    <3> QED BY <2>3, <2>4, <2>5, <3>1, <3>2 DEF Inv, TypeOK
  <2>7. Fit(h, name', moved') /\ Asks(h, table', star') /\ Spares(h, table', moved')
    BY <1>0, <2>1, <2>4 DEF Fit, Asks, Spares
  <2>8. Named' /\ NoFaultWithoutRcl'
    BY <2>2, <2>5 DEF Inv, Named, NoFaultWithoutRcl
  <2> QED BY <2>3, <2>6, <2>7, <2>8, Built
<1>2. ASSUME NEW f \in UserFiles, NEW d \in Drive, UserDrop(d, f) PROVE Inv'
  <2> DEFINE h == Frame("drop", None, f, "user")
  <2>1. h \in Frames /\ h.pc = "drop" /\ h.img = None /\ h.origin = "user"
    BY FrameType DEF Frame, File
  <2>2. /\ NewSlot(d, FALSE, <<h>>, <<>>) /\ UNCHANGED <<table, unsaved, star, remote, fault>> /\ ~fault
    BY <1>2 DEF UserDrop, UserFind, Idle, remote
  <2> HIDE DEF h
  <2> QED BY <2>1, <2>2, CalledKeeps
<1>3. ASSUME NEW f \in UserFiles, UserNew(f) PROVE Inv'
  <2> DEFINE h == Frame("eject", None, f, "new")
  <2>1. /\ h \in Frames /\ h.pc = "eject" /\ h.img = None /\ h.origin = "new"
        /\ h.ask = TRUE /\ h.file \in File
    BY FrameType DEF Frame, File
  <2>2. /\ NewSlot(1, TRUE, <<h>>, <<>>) /\ UNCHANGED <<table, unsaved, star, remote, fault>> /\ ~fault
    BY <1>3 DEF UserNew, UserFind, Idle, remote
  <2> HIDE DEF h
  <2> QED BY <1>0, <2>1, <2>2, CalledKeeps
<1>4. CASE UserMenu
  <2> DEFINE h == Frame("choose", None, Empty, "user")
  <2>1. h \in Frames /\ h.pc = "choose" /\ h.img = None /\ h.origin = "user"
    BY FrameType DEF Frame
  <2>2. /\ NewSlot(1, TRUE, <<h>>, <<>>) /\ UNCHANGED <<table, unsaved, star, remote, fault>> /\ ~fault
    BY <1>4 DEF UserMenu, UserFind, Idle, remote
  <2> HIDE DEF h
  <2> QED BY <1>0, <2>1, <2>2, CalledKeeps
<1>5. ASSUME NEW d \in Drive, UserEject(d) PROVE Inv'
  <2>1. TypeOK' /\ Named'
    BY <1>5 DEF Inv, TypeOK, Named, UserEject, Idle
  <2>2. \A e \in Drive : table[e] = Empty => table'[e] = Empty
    BY <1>5 DEF Inv, TypeOK, UserEject
  <2>3. Blank(table) => Blank(table')
    BY <1>5 DEF Blank, UserEject
  <2> QED BY <1>5, <2>1, <2>2, <2>3, StackStays DEF UserEject, Idle
<1> QED BY <1>0, <1>1, <1>2, <1>3, <1>4, <1>5

\* A signal is delivered, inside the dialog of another handler or not.
\* The signal of a mount that names no file, in the event loop or above a
\* dialog.
LEMMA NoNameKeeps ==
  ASSUME Inv, ProcessSignal, Head(queue).kind = "mount", Head(queue).file = NoName
  PROVE  Inv'
<1>1. /\ stack' = stack /\ star' = TRUE /\ atari' = Empty /\ heard' = "nak"
      /\ UNCHANGED <<table, unsaved, name, moved, fault>>
      /\ queue # <<>> /\ queue' = Tail(queue) /\ ~fault
      /\ stack = <<>> \/ (Len(stack) = 1 /\ stack[1].pc \in {"ask", "choose"})
  BY DEF ProcessSignal, Answer
<1>2. queue' \in Seq(Signals) /\ Len(queue') <= MaxQueue
  <2>1. queue \in Seq(Signals) /\ Len(queue) <= MaxQueue
    BY DEF Inv, TypeOK
  <2>2. Tail(queue) \in Seq(Signals) /\ Len(Tail(queue)) = Len(queue) - 1 /\ Len(queue) \in Nat
    BY <1>1, <2>1, HeadTailProperties, LenProperties
  <2> QED BY <1>1, <2>1, <2>2, DrivesAndNames
<1>3. TypeOK'
  BY <1>1, <1>2 DEF Inv, TypeOK
<1>4. Named' /\ NoFaultWithoutRcl'
  BY <1>1 DEF Inv, Named, NoFaultWithoutRcl
<1>5. stack # <<>> => Fit(stack[1], name, moved) /\ stack[1].pc \in {"ask", "choose"}
  BY <1>1, StackShape DEF g
<1>6. stack' # <<>> => /\ Fit(stack'[1], name', moved') /\ Asks(stack'[1], table', star')
                       /\ Spares(stack'[1], table', moved')
  BY <1>1, <1>5 DEF Asks, Spares
<1>7. Len(stack') # 2
  <2>1. <<>> \in Seq(Frames) /\ Len(<<>>) = 0
    BY EmptySeq
  <2>2. CASE stack = <<>>
    <3>1. Len(stack') = Len(<<>>)
      BY <1>1, <2>2
    <3> QED BY <2>1, <3>1
  <2>3. CASE Len(stack) = 1
    BY <1>1, <2>3
  <2> QED BY <1>1, <2>2, <2>3
<1> QED BY <1>3, <1>4, <1>6, <1>7, Built

LEMMA SignalKeeps == Inv /\ ProcessSignal => Inv'
<1> SUFFICES ASSUME Inv, ProcessSignal, Head(queue).kind = "mount" => Head(queue).file # NoName
             PROVE Inv'
  BY NoNameKeeps
<1>1. /\ stack \in Seq(Frames) /\ Len(stack) = (IF stack = <<>> THEN 0 ELSE 1)
      /\ stack # <<>> => Len(stack) = 1 /\ g \in Frames /\ g.pc \in {"ask", "choose"}
                         /\ Fit(g, name, moved)
  <2>1. stack \in Seq(Frames) /\ (stack # <<>> => g \in Frames /\ Fit(g, name, moved))
    BY StackShape
  <2>2. stack = <<>> => Len(stack) = 0
    BY <2>1, EmptySeq
  <2> QED BY <2>1, <2>2 DEF ProcessSignal, g
<1>2. /\ queue \in Seq(Signals) /\ Head(queue) \in Signals /\ Tail(queue) \in Seq(Signals)
      /\ Len(Tail(queue)) <= MaxQueue
  <2>1. queue \in Seq(Signals) /\ queue # <<>> /\ Len(queue) <= MaxQueue
    BY DEF Inv, TypeOK, ProcessSignal
  <2>2. /\ Head(queue) \in Signals /\ Tail(queue) \in Seq(Signals)
        /\ Len(Tail(queue)) = Len(queue) - 1
    BY <2>1, HeadTailProperties
  <2>3. Len(queue) \in Nat /\ MaxQueue \in Nat
    BY <2>1, LenProperties, DrivesAndNames
  <2> QED BY <2>1, <2>2, <2>3
<1>3. /\ name # Empty /\ name' = name /\ ~fault /\ fault' = fault
      /\ queue' = Tail(queue) /\ UNCHANGED <<table, unsaved, atari, heard>>
  BY DEF Inv, Named, ProcessSignal, NoFaultWithoutRcl
<1>4. 1 \in Drive /\ TypeOK /\ None # Gone /\ None \notin Drive
  BY DrivesAndNames DEF Inv, Drive, None, Gone
<1>5. PICK h : /\ stack' \in Seq(Frames) /\ Len(stack') = Len(stack) + 1
               /\ stack'[1] = h /\ (Len(stack) = 1 => stack'[2] = g)
               /\ moved' \in BOOLEAN /\ star' \in BOOLEAN
               /\ Fit(h, name, moved') /\ Asks(h, table, star') /\ Spares(h, table, moved')
               /\ h.pc \in {"got", "open"} /\ h.origin \in Remote
  <2>1. CASE Head(queue).kind = "find"
    <3> DEFINE h == Chosen(Got, 1, TRUE)
    <3>1. NewSlot(1, TRUE, <<>>, stack) /\ star' = star
      BY <2>1 DEF ProcessSignal
    <3>2. moved' = FALSE
      BY <3>1 DEF NewSlot
    <3>3. PICK caller : caller = <<>>
      OBVIOUS
    <3>4. caller \in Seq(Frames) /\ Len(caller) = 0 /\ NewSlot(1, TRUE, caller, stack)
      BY <3>1, <3>3, EmptySeq
    <3>5. /\ stack' \in Seq(Frames) /\ Len(stack') = 1 + Len(caller) + Len(stack)
          /\ stack'[1] = h
          /\ \A i \in 1 .. Len(stack) : stack'[i + 1 + Len(caller)] = stack[i]
      BY <1>1, <1>4, <3>4, NewSlotStack
    <3>6. /\ Fit(h, name, moved') /\ Asks(h, table, star') /\ Spares(h, table, moved')
          /\ h.pc = "got" /\ h.origin = "rcl"
      BY <1>4, GotFits
    <3>7. Len(stack') = Len(stack) + 1 /\ (Len(stack) = 1 => stack'[2] = g)
      BY <1>1, <3>4, <3>5 DEF g
    <3>8. star' \in BOOLEAN
      BY <1>4, <3>1 DEF TypeOK
    <3>9. moved' \in BOOLEAN
      BY <3>2
    <3> HIDE DEF h
    <3> QED BY <3>5, <3>6, <3>7, <3>8, <3>9 DEF Remote
  <2>2. CASE Head(queue).kind = "mount"
    <3> DEFINE h == Frame("open", 1, Head(queue).file, "boot")
    <3>1. stack' = <<h>> \o stack /\ star' = TRUE /\ moved' = moved
      BY <2>2 DEF ProcessSignal
    <3>2. Head(queue).file \in File
      BY <1>2, <2>2 DEF Signals, File, Asked
    <3>3. /\ h \in Frames /\ h.pc = "open" /\ h.origin = "boot" /\ h.no = 1 /\ h.img = None
      BY <1>4, <3>2, FrameType DEF Frame
    <3> HIDE DEF h
    <3>4. /\ stack' \in Seq(Frames) /\ Len(stack') = Len(stack) + 1 /\ stack'[1] = h
          /\ \A i \in 1 .. Len(stack) : stack'[i + 1] = stack[i]
      BY <1>1, <3>1, <3>3, Pushed
    <3>5. Fit(h, name, moved') /\ Asks(h, table, star') /\ Spares(h, table, moved')
      BY <1>3, <1>4, <3>3 DEF Fit, Asks, Spares, Remote
    <3>6. moved' \in BOOLEAN
      BY <1>4, <3>1 DEF TypeOK
    <3>7. star' \in BOOLEAN
      BY <3>1
    <3>8. Len(stack) = 1 => stack'[2] = g
      BY <3>4 DEF g
    <3> QED BY <3>3, <3>4, <3>5, <3>6, <3>7, <3>8 DEF Remote
  <2> QED BY <1>2, <2>1, <2>2 DEF Signals
<1>6. TypeOK'
  <2>1. Len(stack') <= 2
    <3>1. Len(stack') = 1 \/ Len(stack') = 2
      BY <1>1, <1>5
    <3>2. 1 <= 2 /\ 2 <= 2
      OBVIOUS
    <3> QED BY <3>1, <3>2, Zenon
  <2> QED BY <1>2, <1>3, <1>4, <1>5, <2>1 DEF TypeOK
<1>7. Len(stack') = 2 => Below(stack'[2], name') /\ Fit(stack'[2], name', moved')
  <2>1. ASSUME Len(stack') = 2 PROVE Len(stack) = 1 /\ stack # <<>> /\ stack'[2] = g
    <3>1. Len(stack) = 1
      <4>1. Len(stack) \in Nat
        BY <1>1, LenProperties
      <4>2. 2 = Len(stack) + 1
        BY <1>5, <2>1
      <4>3. \A n \in Nat : 2 = n + 1 => n = 1
        OBVIOUS
      <4> QED BY <4>1, <4>2, <4>3, Zenon
    <3>2. stack # <<>>
      BY <1>1, <3>1
    <3> QED BY <1>5, <3>1, <3>2
  <2>2. ASSUME stack # <<>> PROVE Below(g, name) /\ Fit(g, name, moved')
    BY <1>1, <1>3, <2>2 DEF Below, Fit
  <2> QED BY <1>3, <2>1, <2>2
<1>8. Named' /\ NoFaultWithoutRcl'
  BY <1>3 DEF Named, NoFaultWithoutRcl
<1> QED BY <1>3, <1>5, <1>6, <1>7, <1>8, Built

\* fileMounted: what the Atari may have heard then.
LEMMA AnswerType ==
  ASSUME Inv, NEW ok \in BOOLEAN, FileMounted(ok)
  PROVE  atari' \in Asked \cup {Empty} /\ heard' \in {"nothing", "complete", "nak"}
BY DEF FileMounted, Answer, Inv, TypeOK

\* Handlers that end.
LEMMA EndKeeps ==
  ASSUME Inv, \/ OpenFails \/ AskCancel \/ Mounted \/ ChooseNone \/ DropRefused
              \/ (GotNewSlot /\ name \in {Empty, NoName})
  PROVE  Inv'
<1>1. /\ stack # <<>> /\ Return /\ UNCHANGED <<table, unsaved, name, queue, moved, fault>>
  BY DEF OpenFails, AskCancel, Mounted, ChooseNone, DropRefused, GotNewSlot, At
<1>2. star' \in BOOLEAN
  <2>1. CASE GotNewSlot
    BY <2>1 DEF GotNewSlot
  <2>2. CASE OpenFails \/ AskCancel \/ Mounted \/ ChooseNone \/ DropRefused
    BY <2>2 DEF OpenFails, AskCancel, Mounted, ChooseNone, DropRefused, Inv, TypeOK
  <2> QED BY <2>1, <2>2
<1>3. atari' \in Asked \cup {Empty} /\ heard' \in {"nothing", "complete", "nak"}
  <2>1. CASE OpenFails \/ AskCancel
    BY <2>1, AnswerType DEF OpenFails, AskCancel
  <2>2. CASE Mounted
    BY <2>2, AnswerType DEF Mounted
  <2>3. CASE ChooseNone \/ DropRefused \/ GotNewSlot
    BY <2>3 DEF ChooseNone, DropRefused, GotNewSlot, Answer, Inv, TypeOK
  <2> QED BY <2>1, <2>2, <2>3
<1> QED BY <1>1, <1>2, <1>3, ReturnKeeps

\* Handlers that go on.
LEMMA GotKeeps == Inv /\ GotNewSlot => Inv'
<1> SUFFICES ASSUME Inv, GotNewSlot, name \notin {Empty, NoName} PROVE Inv'
  BY EndKeeps
<1> DEFINE f == [g EXCEPT !.pc = "open", !.file = name]
<1>1. /\ stack # <<>> /\ g.pc = "got" /\ star' = (name \in Asked)
      /\ UNCHANGED <<table, unsaved, name, queue, atari, heard, moved, fault>>
      /\ stack' = [stack EXCEPT ![1].pc = "open", ![1].file = name]
  BY DEF GotNewSlot, At, g
<1>2. stack' = [stack EXCEPT ![1] = f]
  BY <1>1, StackShape, LenProperties DEF g
<1>3. name \in File \cup {Empty, Raw} /\ star' \in BOOLEAN
  BY <1>1 DEF Inv, TypeOK, File, Asked
<1>4. g \in Frames /\ Fit(g, name, moved) /\ Spares(g, table, moved)
  BY <1>1, StackShape
<1>5. /\ f \in Frames /\ f.pc = "open" /\ f.no = g.no /\ f.img = g.img
      /\ f.origin = g.origin /\ f.full = g.full
  BY <1>3, <1>4 DEF Frames
<1> HIDE DEF f
<1>6. Fit(f, name, moved) /\ Asks(f, table, star') /\ Spares(f, table, moved)
  BY <1>1, <1>4, <1>5 DEF Fit, Asks, Spares, Remote
<1> QED BY <1>1, <1>2, <1>3, <1>5, <1>6, TopKeeps

LEMMA OpenKeeps == Inv /\ Open => Inv'
<1> SUFFICES ASSUME Inv, Open PROVE Inv'
  OBVIOUS
<1> DEFINE f == [g EXCEPT !.pc = "eject", !.ask = ~star]
<1>1. /\ stack # <<>> /\ g.pc = "open" /\ g.no # None /\ g.file \in File /\ star' = star
      /\ UNCHANGED <<table, unsaved, name, queue, atari, heard, moved, fault>>
      /\ stack' = [stack EXCEPT ![1].pc = "eject", ![1].ask = ~star]
  BY DEF Open, At, g
<1>2. stack' = [stack EXCEPT ![1] = f]
  BY <1>1, StackShape, LenProperties DEF g
<1>3. star \in BOOLEAN
  BY DEF Inv, TypeOK
<1>4. g \in Frames /\ Fit(g, name, moved) /\ Asks(g, table, star) /\ Spares(g, table, moved)
  BY <1>1, StackShape
<1>5. /\ f \in Frames /\ f.pc = "eject" /\ f.no = g.no /\ f.img = g.img /\ f.file = g.file
      /\ f.origin = g.origin /\ f.full = g.full /\ f.ask = ~star
  BY <1>3, <1>4 DEF Frames
<1>6. g.no \in Drive
  BY <1>1, <1>4 DEF Frames
<1> HIDE DEF f
<1>7. Fit(f, name, moved) /\ Asks(f, table, star') /\ Spares(f, table, moved)
  BY <1>1, <1>4, <1>5, <1>6 DEF Fit, Asks, Spares
<1> QED BY <1>1, <1>2, <1>3, <1>5, <1>7, TopKeeps

LEMMA AskKeeps == Inv /\ Ask => Inv'
<1> SUFFICES ASSUME Inv, Ask PROVE Inv'
  OBVIOUS
<1> DEFINE f == [g EXCEPT !.pc = "ask", !.img = g.no]
<1>1. /\ stack # <<>> /\ g.pc = "eject" /\ star' = star
      /\ UNCHANGED <<table, unsaved, name, queue, atari, heard, moved, fault>>
      /\ stack' = [stack EXCEPT ![1].pc = "ask", ![1].img = g.no]
  BY DEF Ask, At, g
<1>2. stack' = [stack EXCEPT ![1] = f]
  BY <1>1, StackShape, LenProperties DEF g
<1>3. star \in BOOLEAN /\ None \notin Drive /\ Gone \notin Drive
  BY DrivesAndNames DEF Inv, TypeOK, Drive, None, Gone
<1>4. g \in Frames /\ Fit(g, name, moved)
  BY <1>1, StackShape
<1>5. g.no \in Drive
  BY <1>1, <1>4 DEF Fit
<1>6. /\ f \in Frames /\ f.pc = "ask" /\ f.no = g.no /\ f.img = g.no /\ f.file = g.file
      /\ f.origin = g.origin
  BY <1>4, <1>5 DEF Frames
<1> HIDE DEF f
<1>7. Fit(f, name, moved) /\ Asks(f, table, star') /\ Spares(f, table, moved)
  BY <1>1, <1>3, <1>4, <1>5, <1>6 DEF Fit, Asks, Spares
<1> QED BY <1>1, <1>2, <1>3, <1>6, <1>7, TopKeeps

\* The user's file dialog and dropEvent; only DropOn has drive -1 to refuse.
LEMMA PickKeeps ==
  ASSUME Inv, \/ \E f \in UserFiles : Choose(f)
              \/ DropOn("drop") \/ DropOn("dropLast")
  PROVE  Inv'
<1>1. PICK f : /\ f \in {[g EXCEPT !.pc = "open", !.file = x] : x \in UserFiles}
                          \cup {[g EXCEPT !.pc = "open"]}
               /\ stack' = [stack EXCEPT ![1] = f]
               /\ stack # <<>> /\ g.pc \in {"choose", "drop", "dropLast"}
               /\ g.no \in Drive /\ star' = FALSE
               /\ UNCHANGED <<table, unsaved, name, queue, atari, heard, moved, fault>>
  <2>1. ASSUME stack # <<>> PROVE stack \in Seq(Frames) /\ g \in Frames /\ Fit(g, name, moved)
    BY <2>1, StackShape
  <2>2. ASSUME NEW x \in UserFiles, Choose(x)
        PROVE  /\ stack' = [stack EXCEPT ![1] = [g EXCEPT !.pc = "open", !.file = x]]
               /\ stack # <<>> /\ g.pc = "choose" /\ g.no \in Drive
    <3>1. /\ stack # <<>> /\ g.pc = "choose"
          /\ stack' = [stack EXCEPT ![1].pc = "open", ![1].file = x]
      BY <2>2 DEF Choose, At, g
    <3>2. g.no \in Drive
      BY <2>1, <3>1 DEF Fit
    <3> QED BY <2>1, <3>1, <3>2, LenProperties DEF g
  <2>3. ASSUME NEW l \in {"drop", "dropLast"}, DropOn(l)
        PROVE  /\ stack' = [stack EXCEPT ![1] = [g EXCEPT !.pc = "open"]]
               /\ stack # <<>> /\ g.pc = l /\ g.no \in Drive
    <3>1. /\ stack # <<>> /\ g.pc = l /\ g.no # None
          /\ stack' = [stack EXCEPT ![1].pc = "open"]
      BY <2>3 DEF DropOn, At, g, Goto
    <3>2. g.no \in Drive
      BY <2>1, <3>1 DEF Frames
    <3> QED BY <2>1, <3>1, <3>2, LenProperties DEF g
  <2>4. CASE \E x \in UserFiles : Choose(x)
    <3>1. PICK x \in UserFiles : Choose(x)
      BY <2>4
    <3>2. star' = FALSE /\ UNCHANGED <<table, unsaved, name, queue, atari, heard, moved, fault>>
      BY <3>1 DEF Choose, At
    <3> DEFINE h == [g EXCEPT !.pc = "open", !.file = x]
    <3>3. /\ stack' = [stack EXCEPT ![1] = h]
          /\ stack # <<>> /\ g.pc = "choose" /\ g.no \in Drive
      BY <2>2, <3>1
    <3>4. h \in {[g EXCEPT !.pc = "open", !.file = y] : y \in UserFiles}
                  \cup {[g EXCEPT !.pc = "open"]}
      OBVIOUS
    <3> HIDE DEF h
    <3>5. g.pc \in {"choose", "drop", "dropLast"}
      BY <3>3
    <3> WITNESS h
    <3> QED BY <3>2, <3>3, <3>4, <3>5
  <2>5. CASE DropOn("drop") \/ DropOn("dropLast")
    BY <2>3, <2>5 DEF DropOn, At
  <2> QED BY <2>4, <2>5
<1>2. g \in Frames /\ Fit(g, name, moved)
  BY <1>1, StackShape
<1>3. /\ f \in Frames /\ f.pc = "open" /\ f.no = g.no /\ f.img = g.img /\ f.origin = g.origin
  BY <1>1, <1>2 DEF Frames, File
<1>4. None \notin Drive /\ Len(stack) # 2
  <2>1. None \notin Drive
    BY DrivesAndNames DEF Drive, None
  <2>2. Len(stack) # 2
    BY <1>1 DEF Inv, Nested, g
  <2> QED BY <2>1, <2>2
<1>5. Fit(f, name, moved) /\ Asks(f, table, star') /\ Spares(f, table, moved)
  BY <1>1, <1>2, <1>3, <1>4 DEF Fit, Asks, Spares
<1>6. star' \in BOOLEAN
  BY <1>1
<1> QED BY <1>1, <1>3, <1>4, <1>5, <1>6, TopKeeps

LEMMA DropKeeps == Inv /\ DropAgain => Inv'
<1> SUFFICES ASSUME Inv, DropAgain PROVE Inv'
  OBVIOUS
<1> DEFINE f == [g EXCEPT !.pc = "dropLast"]
<1>1. /\ stack # <<>> /\ g.pc = "drop" /\ ~fault /\ NewSlot(1, FALSE, <<f>>, Tail(stack))
      /\ UNCHANGED <<table, unsaved, star, remote, fault>>
  BY DEF DropAgain, At, g, remote
<1>2. /\ g \in Frames /\ Fit(g, name, moved) /\ stack \in Seq(Frames)
      /\ Len(stack) \in 0 .. 2 /\ 1 \in 1 .. Len(stack)
  BY <1>1, StackShape
<1>3. f \in Frames /\ f.pc = "dropLast" /\ f.origin # "rcl" /\ f.img = None
  BY <1>1, <1>2 DEF Frames, Fit
<1>4. Len(stack) = 1
  <2>1. Len(stack) # 2
    BY <1>1 DEF Inv, Nested, g
  <2> QED BY <1>2, <2>1
<1>5. Tail(stack) = <<>>
  <2>1. Tail(stack) \in Seq(Frames) /\ Len(Tail(stack)) = 0
    BY <1>1, <1>2, <1>4, HeadTailProperties
  <2> QED BY <2>1, EmptySeq
<1>6. 1 \in Drive
  BY DrivesAndNames DEF Drive
<1> HIDE DEF f
<1> QED BY <1>1, <1>3, <1>5, <1>6, CalledKeeps

\* The step that uses what does not exist.
LEMMA FaultKeeps ==
  ASSUME Inv, OpenNowhere \/ (AskEject /\ g.img = Gone /\ Fault)
  PROVE  Inv'
<1>1. /\ stack # <<>> /\ fault' = TRUE
      /\ UNCHANGED <<table, unsaved, name, queue, star, stack, atari, heard, moved>>
  BY DEF OpenNowhere, AskEject, Fault, At
<1>2. name # Empty \/ moved
  BY <1>1, StackShape DEF OpenNowhere, AskEject, At, Fit, g
<1>3. TypeOK'
  BY <1>1 DEF Inv, TypeOK
<1> QED BY <1>1, <1>2, <1>3 DEF Inv, FramesOK, Nested, Named, NoFaultWithoutRcl

LEMMA InitInv == Init => Inv
<1> SUFFICES ASSUME Init PROVE Inv
  OBVIOUS
<1>1. /\ <<>> \in Seq(Frames) /\ <<>> \in Seq(Signals) /\ Len(<<>>) = 0 /\ 0 <= MaxQueue /\ 0 <= 2
  BY EmptySeq, DrivesAndNames
<1>2. TypeOK
  BY <1>1 DEF Init, TypeOK
<1>3. Len(stack) = 0
  BY DEF Init
<1> QED BY <1>2, <1>3 DEF Init, Inv, FramesOK, Nested, Named, NoFaultWithoutRcl

LEMMA NextInv == Inv /\ [Next]_vars => Inv'
<1> SUFFICES ASSUME Inv, [Next]_vars PROVE Inv'
  OBVIOUS
<1>1. CASE Atari
  BY <1>1, CommandKeeps, MoveKeeps DEF Atari
<1>2. CASE User
  <2>1. CASE AskEject
    <3>1. /\ stack # <<>> /\ g.pc = "ask" /\ UNCHANGED <<name, queue>>
      BY <2>1 DEF AskEject, At, g
    <3>2. CASE g.img \in Drive /\ Replace(g.img)
      BY <3>1, <3>2, ReplaceKeeps
    <3> QED BY <2>1, <3>2, FaultKeeps DEF AskEject
  <2> QED BY <1>2, <2>1, UserKeeps, PickKeeps, EndKeeps DEF User
<1>3. CASE Gui
  <2>1. CASE Eject
    <3>1. /\ stack # <<>> /\ g.pc = "eject" /\ UNCHANGED <<name, queue>> /\ Replace(g.no)
      BY <2>1 DEF Eject, At, g
    <3>2. g.no \in Drive
      BY <3>1, StackShape DEF Fit
    <3> QED BY <3>1, <3>2, ReplaceKeeps
  <2> QED BY <1>3, <2>1, SignalKeeps, GotKeeps, EndKeeps, OpenKeeps, FaultKeeps, AskKeeps,
             PickKeeps, DropKeeps DEF Gui
<1>4. CASE UNCHANGED vars
  BY <1>4, StackStays DEF vars, Inv, TypeOK, Named
<1> QED BY <1>1, <1>2, <1>3, <1>4 DEF Next, Crashed

(***************************************************************************)
(* The theorems.                                                           *)
(***************************************************************************)
\* The inductive invariant of the mount handlers.
THEOREM HandlersKept == Spec => []Inv
BY InitInv, NextInv, PTL DEF Spec

THEOREM TypeCorrect == Spec => []TypeOK
<1>1. Inv => TypeOK
  BY DEF Inv
<1> QED BY <1>1, HandlersKept, PTL

\* As long as the Atari has mounted nothing by name, no handler uses drive -1
\* or an image replaced behind its question, however handlers nest.
THEOREM FaultCorrect == Spec => []NoFaultWithoutRcl
<1>1. Inv => NoFaultWithoutRcl
  BY DEF Inv
<1> QED BY <1>1, HandlersKept, PTL

\* An image is replaced without a question only by Eject.
LEMMA EjectsIsEject ==
  ASSUME Inv, [Next]_vars, NEW d \in Drive, Ejects(d)
  PROVE  Eject
<1>1. /\ stack # <<>> /\ g.pc = "eject" /\ stack' # <<>> /\ stack'[1].pc = "answer"
  BY DEF Ejects
<1>2. /\ stack \in Seq(Frames) /\ 1 \in 1 .. Len(stack) /\ g \in Frames
  BY <1>1, StackShape
<1>3. stack'[1].pc # g.pc
  BY <1>1
<1> HIDE DEF g
<1>4. CASE Atari
  <2>1. CASE \E f \in Asked : RclMount(f) \/ RclMountBoot(f)
    BY <1>3, <2>1 DEF RclMount, RclMountBoot, g
  <2>2. CASE RclRefuse \/ GiveUp
    BY <1>3, <2>2 DEF RclRefuse, GiveUp, g
  <2>3. CASE \E a \in Drive : RclSave(a) \/ AtariWrite(a)
    BY <1>3, <2>3 DEF RclSave, AtariWrite, g
  <2>4. ASSUME NEW at, stack' = Follow(stack, at) PROVE FALSE
    <3>1. stack'[1].pc = stack[1].pc
      BY <1>2, <2>4, LenProperties DEF Follow, Frames, g
    <3> QED BY <1>3, <3>1 DEF g
  <2>5. CASE RclUnmountAll \/ \E a \in Drive : RclUnmount(a)
    BY <2>4, <2>5 DEF RclUnmountAll, RclUnmount
  <2>6. CASE \E a, b \in Drive : RclSwap(a, b)
    BY <2>4, <2>6 DEF RclSwap
  <2> QED BY <1>4, <2>1, <2>2, <2>3, <2>5, <2>6 DEF Atari
<1>5. CASE User
  <2>1. ~ \E f \in UserFiles : \/ \E d2 \in Drive : UserMount(d2, f) \/ UserDrop(d2, f)
                               \/ UserNew(f) \/ UserSession(f)
    BY <1>1 DEF UserMount, UserDrop, UserNew, UserSession, UserFind, Idle
  <2>2. ~ UserMenu /\ ~ \E d2 \in Drive : UserEject(d2)
    BY <1>1 DEF UserMenu, UserFind, UserEject, Idle
  <2>3. ~ \E f \in UserFiles : Choose(f)
    BY <1>1 DEF Choose, At, g
  <2>4. ~ AskEject /\ ~ AskCancel /\ ~ ChooseNone
    BY <1>1 DEF AskEject, AskCancel, ChooseNone, At, g
  <2> QED BY <1>5, <2>1, <2>2, <2>3, <2>4 DEF User
<1>6. CASE Gui
  <2>1. ~ ProcessSignal
    BY <1>1 DEF ProcessSignal, g
  <2>2. ~ GotNewSlot /\ ~ OpenFails /\ ~ Open /\ ~ OpenNowhere /\ ~ Mounted
    BY <1>1 DEF GotNewSlot, OpenFails, Open, OpenNowhere, Mounted, At, g
  <2>3. ~ DropOn("drop") /\ ~ DropOn("dropLast") /\ ~ DropAgain /\ ~ DropRefused
    BY <1>1 DEF DropOn, DropAgain, DropRefused, At, g
  <2>4. ~ Ask
    <3> SUFFICES ASSUME Ask PROVE FALSE
      OBVIOUS
    <3>1. stack' = [stack EXCEPT ![1].pc = "ask", ![1].img = g.no]
      BY DEF Ask
    <3>2. stack'[1].pc = "ask"
      BY <1>2, <3>1, LenProperties DEF Frames, g
    <3> QED BY <1>1, <3>2
  <2> QED BY <1>6, <2>1, <2>2, <2>3, <2>4 DEF Gui
<1>7. CASE UNCHANGED vars
  BY <1>3, <1>7 DEF vars, g
<1> QED BY <1>4, <1>5, <1>6, <1>7 DEF Next, Crashed

\* However the commands of the Atari and the handlers interleave, a file that
\* the user chose replaces an image with unsaved changes only after a
\* question, although mountFile learns from a global which mount it serves.
THEOREM AskedCorrect == Spec => AskedBeforeLoss
<1>1. Inv /\ [Next]_vars => \A d \in unsaved : Ejects(d) => g.origin \in {"rcl", "boot"}
  <2> SUFFICES ASSUME Inv, [Next]_vars, NEW d \in unsaved, Ejects(d), g.origin \notin Remote
               PROVE FALSE
    BY DEF Remote
  <2>1. d \in Drive /\ table[d] # Empty
    BY DEF Inv, TypeOK
  <2>2. stack # <<>> /\ g.pc = "eject" /\ ~g.ask
    BY <2>1, EjectsIsEject DEF Eject, Ejects
  <2>3. Blank(table)
    BY <2>2, StackShape DEF Asks
  <2> QED BY <2>1, <2>3 DEF Blank
<1> QED BY <1>1, HandlersKept, PTL DEF Spec, AskedBeforeLoss

\* A mount of 0x96 replaces an image only if the worker moved the images
\* since its drive was chosen, or in the last drive when none was empty then;
\* however the Atari's commands, the menus and their dialogs interleave.
THEOREM SparesCorrect == Spec => SparesImages
<1>1. Inv /\ [Next]_vars =>
        \A d \in Drive : Ejects(d) /\ g.origin = "rcl" /\ table[d] # Empty =>
          moved \/ (g.full /\ d = NDrives)
  <2> SUFFICES ASSUME Inv, NEW d \in Drive, Ejects(d), g.origin = "rcl", table[d] # Empty
               PROVE moved \/ (g.full /\ d = NDrives)
    OBVIOUS
  <2>1. stack # <<>> /\ g.pc = "eject" /\ g.no = d /\ d # None
    BY DrivesAndNames DEF Ejects, Drive, None
  <2> QED BY <2>1, StackShape DEF Spares
<1> QED BY <1>1, HandlersKept, PTL DEF Spec, SparesImages
=============================================================================
