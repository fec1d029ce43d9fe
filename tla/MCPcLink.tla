------------------------------ MODULE MCPcLink ------------------------------
(***************************************************************************)
(* Two units and one descriptor: a second open finds none free.            *)
(***************************************************************************)
EXTENDS PcLink

\* What a later step can tell apart.  Between two calls on a unit, a buffer
\* whose subcommand may come again is overwritten, with its status, before
\* it is read; the end-of-file flag is set by the P of FREAD and read by its
\* R only.
Relevant(u) ==
  IF (cpc = "idle" \/ call.unit # u) /\ parbuf[u].fno \in Repeatable
    THEN ZeroParbuf ELSE [buf |-> parbuf[u], e |-> err[u]]
View ==
  <<on, [u \in Unit |-> Relevant(u)], oldCcom, cpc, call, known, told, history, fault,
    [h \in Handle |-> IF cpc = "idle" THEN [iodesc[h] EXCEPT !.eof = FALSE] ELSE iodesc[h]]>>
=============================================================================
