------------------------------ MODULE DepthFeed ------------------------------
(***************************************************************************)
(* The depth feed: DepthFeedPublisher with the sessions of its             *)
(* DepthFeedConnection, and DepthFeedSubscribers with theirs.              *)
(*                                                                         *)
(* Three kinds of threads take steps.  The one that changes the books      *)
(* publishes: it visits the sessions, and every visit is a step.  The      *)
(* io_service thread of the publisher accepts sessions and notes failed    *)
(* sends.  Each subscriber reads, and reconnects.  The visits and the      *)
(* changes of the session list are indivisible here; the code has no lock. *)
(*                                                                         *)
(* A depth is an array of levels that hold opaque values.  That a change   *)
(* names at least the levels that differ is ChangesAreStamped of Depth.    *)
(***************************************************************************)
EXTENDS Naturals, Sequences, FiniteSets

CONSTANTS
  Clients, Symbols, Levels,
  Values,       \* what a level may hold
  Blank,        \* what it holds at first
  MaxSessions,  \* how many connections are made: a bound
  MaxEvents,    \* how many trades and changes of a depth are published: a bound
  MaxRead       \* how many messages one read may return: a bound

Session == 1..MaxSessions
NoSession == 0

ASSUME FeedAssumption ==
  /\ Blank \in Values
  /\ Symbols # {}
  /\ MaxSessions \in Nat /\ MaxEvents \in Nat
  /\ MaxRead \in Nat \ {0}

VARIABLES
  \* the publishing thread
  log,        \* history: the states of the depth of a symbol, the last one current
  events,     \* how many trades and changes of a depth were published
  job,        \* the message it sends
  todo,       \* the sessions its loop has still to visit
  noneNew,    \* none_new
  \* the sessions of the publisher
  sessions,   \* sessions_
  owner,      \* the client of each connection made so far
  connected,  \* connected_
  closed,     \* is its socket closed: the session object is gone
  broken,     \* has the network failed it?
  sent,       \* sent_symbols_
  seqNum,     \* seq_num_
  out,        \* the messages sent so far
  told,       \* history: the state of each symbol a session was last told, 0 for none
  accepting,  \* the session in on_accept(), between push_back and set_connected
  accepted,   \* how many connections were accepted so far
  \* the subscribers
  current,    \* the session a client is connected to
  taken,      \* how many messages of a session its client has taken from the socket
  expected,   \* expected_seq_
  view,       \* depth_map_
  at          \* history: which state of the log a client shows

publisher == <<log, events, job, todo, noneNew>>
server == <<sessions, connected, closed, sent, seqNum, out, told>>
acceptor == <<accepting, accepted>>
network == <<owner, broken>>
client == <<current, taken, expected, view, at>>

vars == <<publisher, server, acceptor, network, client>>

Picture == [Levels -> Values]
Version == Nat \ {0}

-----------------------------------------------------------------------------
(* Messages: levels has the levels that a depth message carries; told is   *)
(* history, what a client shows that has taken all messages up to this.    *)

Message == [seq : Nat, kind : {"full", "incr", "trade"}, symbol : Symbols,
            levels : UNION {[L -> Values] : L \in SUBSET Levels},
            told : [Symbols -> Nat]]

Job == [step : {"idle", "incr", "full", "trade"}, symbol : Symbols,
        changed : SUBSET Levels]

Now(s) == log[s][Len(log[s])]

Only(p, L) == [l \in L |-> p[l]]

(* set_sequence_num() gives a message the next number of the session. *)
NextSeq(i) == seqNum[i] + 1

(* Mutant of IncrMessage: levels that became blank are left out. *)
IncrMessageNoBlank(i) ==
  [seq |-> NextSeq(i), kind |-> "incr", symbol |-> job.symbol,
   levels |-> Only(Now(job.symbol), {l \in job.changed : Now(job.symbol)[l] # Blank}),
   told |-> [told[i] EXCEPT ![job.symbol] = Len(log[job.symbol])]]

IncrMessage(i) ==
  [seq |-> NextSeq(i), kind |-> "incr", symbol |-> job.symbol,
   levels |-> Only(Now(job.symbol), job.changed),
   told |-> [told[i] EXCEPT ![job.symbol] = Len(log[job.symbol])]]

FullMessage(i) ==
  [seq |-> NextSeq(i), kind |-> "full", symbol |-> job.symbol,
   levels |-> Now(job.symbol),
   told |-> [told[i] EXCEPT ![job.symbol] = Len(log[job.symbol])]]

TradeMessage(i) ==
  [seq |-> NextSeq(i), kind |-> "trade", symbol |-> job.symbol,
   levels |-> Only(Now(job.symbol), {}), told |-> told[i]]

Send(i, msg) ==
  /\ seqNum' = [seqNum EXCEPT ![i] = NextSeq(i)]
  /\ out' = [out EXCEPT ![i] = Append(@, msg)]
  /\ told' = [told EXCEPT ![i] = msg.told]

-----------------------------------------------------------------------------
(* The publishing thread *)

NoJob == [step |-> "idle", symbol |-> CHOOSE s \in Symbols : TRUE, changed |-> {}]

Loop(step, s, changed) ==
  /\ job' = [step |-> step, symbol |-> s, changed |-> changed]
  /\ todo' = sessions
  /\ noneNew' = TRUE

(* on_depth_change(): the levels in changed have changed_since(), none of  *)
(* them when only levels beyond the array changed.                         *)
DepthChange(s) ==
  /\ job.step = "idle"
  /\ events < MaxEvents
  /\ events' = events + 1
  /\ \E p \in Picture, changed \in SUBSET Levels :
       /\ {l \in Levels : p[l] # Now(s)[l]} \subseteq changed
       /\ log' = [log EXCEPT ![s] = Append(@, p)]
       /\ Loop("incr", s, changed)
  /\ UNCHANGED <<server, acceptor, network, client>>

(* on_trade() *)
Trade(s) ==
  /\ job.step = "idle"
  /\ events < MaxEvents
  /\ events' = events + 1
  /\ Loop("trade", s, {})
  /\ UNCHANGED <<log, server, acceptor, network, client>>

(* The loops over sessions_: a session that is not connected is erased,    *)
(* and destroyed unless on_accept() still holds it.                        *)
Erase(i) ==
  /\ sessions' = sessions \ {i}
  /\ closed' = IF accepting = i THEN closed ELSE [closed EXCEPT ![i] = TRUE]
  /\ UNCHANGED <<connected, sent, seqNum, out, told, noneNew>>

(* Mutant of VisitIncr: takes a number before it knows whether it sends. *)
VisitIncrNumbered(i) ==
  IF job.symbol \in sent[i]
  THEN Send(i, IncrMessage(i)) /\ UNCHANGED <<sessions, connected, closed, sent, noneNew>>
  ELSE /\ noneNew' = FALSE
       /\ seqNum' = [seqNum EXCEPT ![i] = NextSeq(i)]
       /\ UNCHANGED <<sessions, connected, closed, sent, out, told>>

(* Mutant of VisitIncr: starts the symbol for a session that is new to it. *)
VisitIncrStarts(i) ==
  IF job.symbol \in sent[i]
  THEN Send(i, IncrMessage(i)) /\ UNCHANGED <<sessions, connected, closed, sent, noneNew>>
  ELSE /\ noneNew' = FALSE
       /\ sent' = [sent EXCEPT ![i] = @ \cup {job.symbol}]
       /\ UNCHANGED <<sessions, connected, closed, seqNum, out, told>>

VisitIncr(i) ==
  IF job.symbol \in sent[i]
  THEN Send(i, IncrMessage(i)) /\ UNCHANGED <<sessions, connected, closed, sent, noneNew>>
  ELSE noneNew' = FALSE /\ UNCHANGED server

VisitFull(i) ==
  /\ IF job.symbol \in sent[i] THEN UNCHANGED <<sent, seqNum, out, told>>
     ELSE /\ sent' = [sent EXCEPT ![i] = @ \cup {job.symbol}]
          /\ Send(i, FullMessage(i))
  /\ UNCHANGED <<sessions, connected, closed, noneNew>>

VisitTrade(i) ==
  Send(i, TradeMessage(i)) /\ UNCHANGED <<sessions, connected, closed, sent, noneNew>>

Visit(i) ==
  /\ job.step # "idle"
  /\ i \in todo
  /\ todo' = todo \ {i}
  /\ \/ ~connected[i] /\ Erase(i)
     \/ connected[i] /\ job.step = "incr" /\ VisitIncr(i)
     \/ connected[i] /\ job.step = "full" /\ VisitFull(i)
     \/ connected[i] /\ job.step = "trade" /\ VisitTrade(i)
  /\ UNCHANGED <<log, events, job, acceptor, network, client>>

(* A full message follows when a session was new to the symbol. *)
LoopEnds ==
  /\ job.step # "idle"
  /\ todo = {}
  /\ IF job.step = "incr" /\ ~noneNew
     THEN Loop("full", job.symbol, job.changed)
     ELSE job' = NoJob /\ UNCHANGED <<todo, noneNew>>
  /\ UNCHANGED <<log, events, server, acceptor, network, client>>

PublisherStep == LoopEnds \/ \E i \in Session : Visit(i)

-----------------------------------------------------------------------------
(* The io_service thread of the publisher *)

(* on_accept() adds the session to the list, where a loop that runs will   *)
(* find it at the end, and only then marks it as connected.                *)
AcceptPush ==
  /\ accepting = NoSession
  /\ accepted < Len(owner)
  /\ accepted' = accepted + 1
  /\ accepting' = accepted + 1
  /\ sessions' = sessions \cup {accepted + 1}
  /\ todo' = IF job.step = "idle" THEN todo ELSE todo \cup {accepted + 1}
  /\ UNCHANGED <<log, events, job, noneNew, connected, closed, sent, seqNum, out, told, network, client>>

(* Mutant of AcceptDone: a session that was erased meanwhile stays open. *)
AcceptDoneKeeps ==
  /\ accepting # NoSession
  /\ connected' = [connected EXCEPT ![accepting] = TRUE]
  /\ accepting' = NoSession
  /\ UNCHANGED <<accepted, publisher, sessions, closed, sent, seqNum, out, told, network, client>>

(* When on_accept() returns it drops its reference. *)
AcceptDone ==
  /\ accepting # NoSession
  /\ connected' = [connected EXCEPT ![accepting] = TRUE]
  /\ closed' = IF accepting \in sessions THEN closed ELSE [closed EXCEPT ![accepting] = TRUE]
  /\ accepting' = NoSession
  /\ UNCHANGED <<accepted, publisher, sessions, sent, seqNum, out, told, network, client>>

(* The client's end of a connection is closed. *)
Left(i) == i \in DOMAIN owner /\ current[owner[i]] # i

(* on_send() with an error, some time after a send to a peer that is gone. *)
SendFails(i) ==
  /\ accepting = NoSession
  /\ connected[i]
  /\ ~closed[i]
  /\ Left(i) \/ broken[i]
  /\ out[i] # <<>>
  /\ connected' = [connected EXCEPT ![i] = FALSE]
  /\ UNCHANGED <<publisher, sessions, closed, sent, seqNum, out, told, acceptor, network, client>>

-----------------------------------------------------------------------------
(* The subscribers *)

(* connect() and on_connect(), which resets the expected number; what was  *)
(* shown before stays.                                                     *)
Connect(c) ==
  /\ current[c] = NoSession
  /\ Len(owner) < MaxSessions
  /\ owner' = Append(owner, c)
  /\ current' = [current EXCEPT ![c] = Len(owner) + 1]
  /\ expected' = [expected EXCEPT ![c] = 1]
  /\ UNCHANGED <<publisher, server, acceptor, broken, taken, view, at>>

(* Mutant of Shown: only the levels of the message are kept. *)
ShownOnly(picture, levels) == levels

(* handle_depth_message(): a level that the message has is set. *)
Shown(picture, levels) ==
  [l \in Levels |-> IF l \in DOMAIN levels THEN levels[l] ELSE picture[l]]

HandleMessage(c, msg) ==
  /\ expected' = [expected EXCEPT ![c] = @ + 1]
  /\ IF msg.kind = "trade" THEN UNCHANGED <<view, at>>
     ELSE /\ view' = [view EXCEPT ![c][msg.symbol] = Shown(@, msg.levels)]
          /\ at' = [at EXCEPT ![c][msg.symbol] = msg.told[msg.symbol]]

(* Mutant of InSequence: a number that was skipped is not noticed. *)
NotSeenBefore(c, msg) == msg.seq >= expected[c]

InSequence(c, msg) == msg.seq = expected[c]

(* on_receive(): a read may return several messages, of which only the     *)
(* first is decoded.  One out of sequence makes the client hang up.        *)
Receive(c, count) ==
  LET i == current[c]
      msg == out[i][taken[i] + 1]
  IN  /\ i # NoSession
      /\ taken[i] + count <= Len(out[i])
      /\ taken' = [taken EXCEPT ![i] = @ + count]
      /\ \/ /\ InSequence(c, msg)
            /\ HandleMessage(c, msg)
            /\ UNCHANGED current
         \/ /\ ~InSequence(c, msg)
            /\ current' = [current EXCEPT ![c] = NoSession]
            /\ UNCHANGED <<expected, view, at>>
      /\ UNCHANGED <<publisher, server, acceptor, network>>

(* on_receive() with an error: the network failed, or the publisher closed *)
(* the socket and all it sent was read.                                    *)
ReadFails(c) ==
  LET i == current[c]
  IN  /\ i # NoSession
      /\ broken[i] \/ (closed[i] /\ taken[i] = Len(out[i]))
      /\ current' = [current EXCEPT ![c] = NoSession]
      /\ UNCHANGED <<publisher, server, acceptor, network, taken, expected, view, at>>

(* The network fails a connection: each side may or may not notice. *)
Break(i) ==
  /\ i \in DOMAIN owner
  /\ ~Left(i)
  /\ ~broken[i]
  /\ broken' = [broken EXCEPT ![i] = TRUE]
  /\ UNCHANGED <<publisher, server, acceptor, owner, client>>

-----------------------------------------------------------------------------

Init ==
  /\ log = [s \in Symbols |-> <<[l \in Levels |-> Blank]>>]
  /\ events = 0
  /\ job = NoJob
  /\ todo = {}
  /\ noneNew = TRUE
  /\ sessions = {}
  /\ owner = <<>>
  /\ connected = [i \in Session |-> FALSE]
  /\ closed = [i \in Session |-> FALSE]
  /\ broken = [i \in Session |-> FALSE]
  /\ sent = [i \in Session |-> {}]
  /\ seqNum = [i \in Session |-> 0]
  /\ out = [i \in Session |-> <<>>]
  /\ told = [i \in Session |-> [s \in Symbols |-> 0]]
  /\ accepting = NoSession
  /\ accepted = 0
  /\ current = [c \in Clients |-> NoSession]
  /\ taken = [i \in Session |-> 0]
  /\ expected = [c \in Clients |-> 1]
  /\ view = [c \in Clients |-> [s \in Symbols |-> [l \in Levels |-> Blank]]]
  /\ at = [c \in Clients |-> [s \in Symbols |-> 1]]

ReadSomething(c) == ReadFails(c) \/ \E count \in 1..MaxRead : Receive(c, count)

Next ==
  \/ \E s \in Symbols : DepthChange(s) \/ Trade(s)
  \/ PublisherStep
  \/ AcceptPush \/ AcceptDone
  \/ \E i \in Session : SendFails(i) \/ Break(i)
  \/ \E c \in Clients : Connect(c) \/ ReadSomething(c)

(* The client has a connection that the network carries. *)
Working(c) == current[c] # NoSession /\ ~broken[current[c]]

(* Both threads of the publisher run, and a subscriber reads what its      *)
(* connection carries, the end of it included.  The read has no timeout    *)
(* and the subscriber never writes: of a connection that the network has   *)
(* failed it may never hear again, so no step on one is fair.              *)
Fairness ==
  /\ WF_vars(PublisherStep)
  /\ WF_vars(AcceptPush) /\ WF_vars(AcceptDone)
  /\ \A c \in Clients : WF_vars(Working(c) /\ ReadSomething(c))

Spec == Init /\ [][Next]_vars /\ Fairness

-----------------------------------------------------------------------------
(* Properties *)

FeedTypeOK ==
  /\ log \in [Symbols -> Seq(Picture)] /\ \A s \in Symbols : log[s] # <<>>
  /\ events \in Nat
  /\ job \in Job /\ todo \in SUBSET Session /\ noneNew \in BOOLEAN
  /\ sessions \in SUBSET Session
  /\ owner \in Seq(Clients)
  /\ connected \in [Session -> BOOLEAN] /\ closed \in [Session -> BOOLEAN]
  /\ broken \in [Session -> BOOLEAN]
  /\ sent \in [Session -> SUBSET Symbols]
  /\ seqNum \in [Session -> Nat] /\ out \in [Session -> Seq(Message)]
  /\ told \in [Session -> [Symbols -> Nat]]
  /\ accepting \in Session \cup {NoSession} /\ accepted \in Nat
  /\ current \in [Clients -> Session \cup {NoSession}]
  /\ taken \in [Session -> Nat] /\ expected \in [Clients -> Nat]
  /\ view \in [Clients -> [Symbols -> Picture]]
  /\ at \in [Clients -> [Symbols -> Nat]]

(* What a client shows of a symbol is the whole of one state that was      *)
(* published, never old and new levels together: an incremental message is *)
(* only ever applied to the state it was made from, through new sessions,  *)
(* lost messages and reconnections.                                        *)
ShowsPublishedState ==
  \A c \in Clients, s \in Symbols :
    at[c][s] \in DOMAIN log[s] /\ view[c][s] = log[s][at[c][s]]

(* Nothing was lost of what the client took from its session. *)
Unbroken(c) == current[c] # NoSession /\ expected[c] = taken[current[c]] + 1

(* A client that has read all its session was sent, without a loss, shows  *)
(* the current state of each symbol the session was started for: no change *)
(* passes by a session that is in the list.                                *)
CaughtUp ==
  \A c \in Clients : \A s \in Symbols :
    /\ Unbroken(c)
    /\ taken[current[c]] = Len(out[current[c]])
    /\ job.step = "idle"
    /\ current[c] \in sessions
    /\ s \in sent[current[c]]
    => view[c][s] = Now(s)

(* A client hangs up on a session that works only after it lost a message  *)
(* of that session.                                                        *)
RefusesOnlyLoss ==
  [][\A c \in Clients :
       current[c] # NoSession /\ current'[c] # current[c]
         => \/ ~Unbroken(c)
            \/ broken[current[c]] \/ closed[current[c]]]_vars

(* Every client shows one state after the other, and never goes back, not  *)
(* even when it reconnects.                                                *)
Mirror == INSTANCE FeedMirror
ImplementsMirror == Mirror!MirrorSpec

(* As long as the network carries its connection, no client waits for ever *)
(* on one that the publisher does not serve: the session joins the list,   *)
(* or its socket is closed and the client reads that and hangs up.         *)
NoClientIsOrphaned ==
  \A c \in Clients : Working(c) ~> (~Working(c) \/ current[c] \in sessions)
=============================================================================
