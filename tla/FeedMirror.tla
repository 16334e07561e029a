------------------------------ MODULE FeedMirror ------------------------------
(***************************************************************************)
(* What a feed promises, without sessions and messages: every client shows *)
(* of each symbol the whole of one state that the publisher was in, never  *)
(* a mixture of several, and it only moves forward.                        *)
(***************************************************************************)
EXTENDS Naturals, Sequences

CONSTANTS
  Clients, Symbols,
  Levels,  \* the places in an array of levels
  Values   \* what a level may hold

VARIABLES
  log,   \* the states of the publisher, by symbol
  at,    \* which of them a client shows
  view   \* what it shows

mirrorVars == <<log, at, view>>

Picture == [Levels -> Values]

MirrorInit ==
  /\ log \in [Symbols -> {<<p>> : p \in Picture}]
  /\ at = [c \in Clients |-> [s \in Symbols |-> 1]]
  /\ view = [c \in Clients |-> [s \in Symbols |-> log[s][1]]]

Publish(s) ==
  \E p \in Picture :
    /\ log' = [log EXCEPT ![s] = Append(@, p)]
    /\ UNCHANGED <<at, view>>

MoveForward(c, s) ==
  \E v \in DOMAIN log[s] :
    /\ v > at[c][s]
    /\ at' = [at EXCEPT ![c][s] = v]
    /\ view' = [view EXCEPT ![c][s] = log[s][v]]
    /\ UNCHANGED log

MirrorNext ==
  \/ \E s \in Symbols : Publish(s)
  \/ \E c \in Clients, s \in Symbols : MoveForward(c, s)

MirrorSpec == MirrorInit /\ [][MirrorNext]_mirrorVars
=============================================================================
