--------------------------- MODULE DepthFeedProofs ---------------------------
(***************************************************************************)
(* The depth feed, for every number of clients, symbols, levels, sessions, *)
(* events and lost messages: what a client shows is a state that the       *)
(* publisher was in, it only moves forward, and a client hangs up only     *)
(* when it lost something.                                                 *)
(***************************************************************************)
EXTENDS DepthFeed, TLAPS

USE FeedAssumption


-----------------------------------------------------------------------------
(* The inductive invariant *)

(* What a client shows that took the first k messages of q: 0 for a symbol *)
(* the session was not started for.                                        *)
NoneTold == [s \in Symbols |-> 0]
After(q, k) == IF k = 0 THEN NoneTold ELSE q[k].told

(* The sessions of the list were accepted, and nothing is sent before.     *)
Listed ==
  /\ accepted <= Len(owner) /\ Len(owner) <= MaxSessions
  /\ accepting <= accepted
  /\ \A i \in sessions : i <= accepted
  /\ todo \subseteq sessions
  /\ \A i \in Session : i > accepted => out[i] = <<>> /\ sent[i] = {}
  /\ \A i \in Session : i > Len(owner) => taken[i] = 0

(* A session belongs to one client, who takes what was sent.               *)
Owned ==
  /\ \A c \in Clients : current[c] # NoSession =>
       /\ current[c] \in DOMAIN owner
       /\ owner[current[c]] = c
       /\ expected[c] <= taken[current[c]] + 1
  /\ \A i \in Session : taken[i] <= Len(out[i])

(* The messages q of a session are numbered without a gap, n is the last.  *)
Numbered(q, n) ==
  /\ n = Len(q)
  /\ \A k \in 1..Len(q) : q[k].seq = k

(* They told of no state to come, and of a state of each symbol that the   *)
(* session was started for.                                                *)
Tracked(l, q, t, started) ==
  /\ t = After(q, Len(q))
  /\ \A s \in Symbols : t[s] <= Len(l[s])
  /\ \A s \in Symbols : s \in started <=> t[s] # 0

(* What a message does to what a client shows that has taken all before.   *)
Continues(l, prev, msg) ==
  LET s == msg.symbol
  IN  \/ msg.kind = "trade" /\ msg.told = prev
      \/ /\ msg.kind = "full"
         /\ msg.told[s] \in 1..Len(l[s])
         /\ msg.told = [prev EXCEPT ![s] = msg.told[s]]
         /\ msg.levels = l[s][msg.told[s]]
      \/ /\ msg.kind = "incr"
         /\ prev[s] # 0
         /\ prev[s] + 1 \in 1..Len(l[s])
         /\ msg.told = [prev EXCEPT ![s] = prev[s] + 1]
         /\ Shown(l[s][prev[s]], msg.levels) = l[s][prev[s] + 1]

Chained(l, q) == \A k \in 1..Len(q) : Continues(l, After(q, k - 1), q[k])

(* A session is never told to go back. *)
Rising(q) ==
  \A k \in 0..Len(q) : \A j \in 0..k : \A s \in Symbols : After(q, j)[s] <= After(q, k)[s]

Record(l, q, n, t, started) ==
  Numbered(q, n) /\ Tracked(l, q, t, started) /\ Chained(l, q) /\ Rising(q)

Recorded == \A i \in Session : Record(log, out[i], seqNum[i], told[i], sent[i])

(* Sessions in the list were told all, but for a change that the loop has  *)
(* still to tell them.                                                     *)
Pending(i, s) == job.step = "incr" /\ s = job.symbol /\ i \in todo

UpToDate ==
  \A i \in sessions : \A s \in sent[i] :
    told[i][s] = IF Pending(i, s) THEN Len(log[s]) - 1 ELSE Len(log[s])

(* While a change is sent, what it changed is. *)
Differing ==
  job.step = "incr" =>
    LET s == job.symbol
    IN  /\ Len(log[s]) >= 2
        /\ \A l \in Levels \ job.changed : Now(s)[l] = log[s][Len(log[s]) - 1][l]

(* A client that lost nothing shows what its session told it so far.       *)
InStep ==
  \A c \in Clients : Unbroken(c) =>
    \A s \in Symbols :
      LET told_ == After(out[current[c]], taken[current[c]])[s]
      IN  told_ # 0 => at[c][s] = told_

(* No message that is still to come would take a client back. *)
NotAhead ==
  \A c \in Clients : current[c] # NoSession =>
    \A k \in taken[current[c]]..Len(out[current[c]]) : \A s \in Symbols :
      LET told_ == After(out[current[c]], k)[s]
      IN  told_ # 0 => at[c][s] <= told_

FInv ==
  /\ FeedTypeOK /\ Listed /\ Owned /\ Recorded
  /\ UpToDate /\ Differing /\ ShowsPublishedState /\ InStep /\ NotAhead

-----------------------------------------------------------------------------
(* Types *)

(* Appending keeps what was there. *)
LEMMA Appended ==
  ASSUME NEW S, NEW q \in Seq(S), NEW x \in S
  PROVE  /\ Append(q, x) \in Seq(S)
         /\ Len(Append(q, x)) = Len(q) + 1 /\ Len(q) \in Nat
         /\ \A k \in 1..Len(q) : Append(q, x)[k] = q[k] /\ q[k] \in S
         /\ Append(q, x)[Len(q) + 1] = x
OBVIOUS

(* The current state of a symbol is one of its states. *)
LEMMA NowIsPicture ==
  ASSUME FeedTypeOK, NEW s \in Symbols
  PROVE  /\ Len(log[s]) \in Nat \ {0}
         /\ Now(s) \in Picture
         /\ \A v \in 1..Len(log[s]) : log[s][v] \in Picture
<1>1. log[s] \in Seq(Picture) /\ log[s] # <<>>
  BY DEF FeedTypeOK
<1> QED
  BY <1>1 DEF Now

(* The levels of a message are some of them. *)
LEMMA SomeLevels ==
  ASSUME NEW p \in Picture, NEW L \in SUBSET Levels
  PROVE  Only(p, L) \in UNION {[K -> Values] : K \in SUBSET Levels}
<1>1. Only(p, L) \in [L -> Values]
  BY DEF Only, Picture
<1> QED
  BY <1>1

LEMMA WholePicture ==
  ASSUME NEW p \in Picture
  PROVE  p \in UNION {[K -> Values] : K \in SUBSET Levels}
<1>1. p \in [Levels -> Values] /\ Levels \in SUBSET Levels
  BY DEF Picture
<1> QED
  BY <1>1

(* Messages are well-formed. *)
LEMMA MessageType ==
  ASSUME FeedTypeOK, NEW i \in Session
  PROVE  IncrMessage(i) \in Message /\ FullMessage(i) \in Message /\ TradeMessage(i) \in Message
<1> DEFINE s == job.symbol
<1>1. s \in Symbols /\ job.changed \in SUBSET Levels
  BY DEF FeedTypeOK, Job
<1>2. Now(s) \in Picture /\ Len(log[s]) \in Nat
  BY <1>1, NowIsPicture
<1>3. NextSeq(i) \in Nat
  BY DEF NextSeq, FeedTypeOK
<1>4. told[i] \in [Symbols -> Nat]
  BY DEF FeedTypeOK
<1>5. [told[i] EXCEPT ![s] = Len(log[s])] \in [Symbols -> Nat]
  BY <1>1, <1>2, <1>4
<1>6. Only(Now(s), job.changed) \in UNION {[K -> Values] : K \in SUBSET Levels}
  BY <1>1, <1>2, SomeLevels
<1>7. Only(Now(s), {}) \in UNION {[K -> Values] : K \in SUBSET Levels}
  BY <1>2, SomeLevels
<1>8. Now(s) \in UNION {[K -> Values] : K \in SUBSET Levels}
  BY <1>2, WholePicture
<1> HIDE DEF s
<1> DEFINE M == UNION {[K -> Values] : K \in SUBSET Levels}
<1> HIDE DEF M
<1>9. ASSUME NEW levels \in M, NEW t \in [Symbols -> Nat], NEW kind \in {"full", "incr", "trade"}
      PROVE  [seq |-> NextSeq(i), kind |-> kind, symbol |-> s, levels |-> levels, told |-> t]
               \in [seq : Nat, kind : {"full", "incr", "trade"}, symbol : Symbols,
                    levels : M, told : [Symbols -> Nat]]
  BY <1>1, <1>3, <1>9
<1> QED
  BY <1>4, <1>5, <1>6, <1>7, <1>8, <1>9 DEF M, s, Message, IncrMessage, FullMessage, TradeMessage

(* A depth message sets levels to values. *)
LEMMA ShownIsPicture ==
  ASSUME NEW p \in Picture,
         NEW levels \in UNION {[K -> Values] : K \in SUBSET Levels}
  PROVE  Shown(p, levels) \in Picture
<1>1. PICK K \in SUBSET Levels : levels \in [K -> Values]
  OBVIOUS
<1> QED
  BY <1>1 DEF Shown, Picture

LEMMA InitTypes == Init => FeedTypeOK
<1> SUFFICES ASSUME Init PROVE FeedTypeOK
  OBVIOUS
<1>1. [l \in Levels |-> Blank] \in Picture
  BY DEF Picture
<1>2. log \in [Symbols -> Seq(Picture)] /\ \A s \in Symbols : log[s] # <<>>
  BY <1>1 DEF Init
<1>3. NoJob \in Job
  BY DEF NoJob, Job
<1>4. view \in [Clients -> [Symbols -> Picture]] /\ at \in [Clients -> [Symbols -> Nat]]
  BY <1>1 DEF Init
<1>5. owner \in Seq(Clients) /\ out \in [Session -> Seq(Message)]
  BY DEF Init
<1>6. connected \in [Session -> BOOLEAN] /\ closed \in [Session -> BOOLEAN]
      /\ broken \in [Session -> BOOLEAN]
  BY DEF Init
<1>7. sent \in [Session -> SUBSET Symbols] /\ told \in [Session -> [Symbols -> Nat]]
  BY DEF Init
<1>8. /\ events \in Nat /\ todo \in SUBSET Session /\ noneNew \in BOOLEAN
      /\ sessions \in SUBSET Session /\ seqNum \in [Session -> Nat]
      /\ accepting \in Session \cup {NoSession} /\ accepted \in Nat
      /\ current \in [Clients -> Session \cup {NoSession}]
      /\ taken \in [Session -> Nat] /\ expected \in [Clients -> Nat]
  BY DEF Init
<1>9. job \in Job
  BY <1>3 DEF Init
<1> QED
  BY <1>2, <1>4, <1>5, <1>6, <1>7, <1>8, <1>9 DEF FeedTypeOK

(* One step of the publishing thread or of the io_service thread that sends *)
(* nothing, or of the network.                                              *)
LEMMA QuietTypes ==
  ASSUME FeedTypeOK,
         UNCHANGED <<log, seqNum, out, told, client>>,
         events' \in Nat, job' \in Job, todo' \in SUBSET Session, noneNew' \in BOOLEAN,
         sessions' \in SUBSET Session, owner' = owner,
         connected' \in [Session -> BOOLEAN], closed' \in [Session -> BOOLEAN],
         broken' \in [Session -> BOOLEAN], sent' \in [Session -> SUBSET Symbols],
         accepting' \in Session \cup {NoSession}, accepted' \in Nat
  PROVE  FeedTypeOK'
BY DEF FeedTypeOK, client

LEMMA DepthChangeTypes ==
  ASSUME FeedTypeOK, NEW s \in Symbols, DepthChange(s)
  PROVE  FeedTypeOK'
<1>1. PICK p \in Picture, changed \in SUBSET Levels :
        /\ log' = [log EXCEPT ![s] = Append(@, p)]
        /\ Loop("incr", s, changed)
  BY DEF DepthChange
<1>2. log \in [Symbols -> Seq(Picture)]
  BY DEF FeedTypeOK
<1>3. Append(log[s], p) \in Seq(Picture) /\ Append(log[s], p) # <<>>
  <2>1. log[s] \in Seq(Picture)
    BY <1>2
  <2> QED
    BY <2>1
<1>4. log' \in [Symbols -> Seq(Picture)] /\ \A t \in Symbols : log'[t] # <<>>
  BY <1>1, <1>2, <1>3 DEF FeedTypeOK
<1>5. job' \in Job /\ todo' \in SUBSET Session /\ noneNew' \in BOOLEAN
  BY <1>1 DEF Loop, Job, FeedTypeOK
<1>6. events' \in Nat
  BY DEF DepthChange, FeedTypeOK
<1>7. UNCHANGED <<server, acceptor, network, client>>
  BY DEF DepthChange
<1> QED
  BY <1>4, <1>5, <1>6, <1>7 DEF FeedTypeOK, server, acceptor, network, client

LEMMA TradeTypes ==
  ASSUME FeedTypeOK, NEW s \in Symbols, Trade(s)
  PROVE  FeedTypeOK'
<1>1. job' \in Job /\ todo' \in SUBSET Session /\ noneNew' \in BOOLEAN
  BY DEF Trade, Loop, Job, FeedTypeOK
<1>2. events' \in Nat /\ UNCHANGED <<log, server, acceptor, network, client>>
  BY DEF Trade, FeedTypeOK
<1> QED
  BY <1>1, <1>2, QuietTypes DEF FeedTypeOK, server, acceptor, network

(* Sending a message. *)
LEMMA SendTypes ==
  ASSUME FeedTypeOK, NEW i \in Session, NEW msg \in Message, Send(i, msg)
  PROVE  seqNum' \in [Session -> Nat] /\ out' \in [Session -> Seq(Message)]
         /\ told' \in [Session -> [Symbols -> Nat]]
<1>1. out \in [Session -> Seq(Message)] /\ seqNum \in [Session -> Nat]
      /\ told \in [Session -> [Symbols -> Nat]]
  BY DEF FeedTypeOK
<1>2. Append(out[i], msg) \in Seq(Message)
  BY <1>1, Appended
<1>3. out' \in [Session -> Seq(Message)]
  BY <1>1, <1>2 DEF Send
<1>4. seqNum' \in [Session -> Nat]
  BY <1>1 DEF Send, NextSeq
<1>5. msg.told \in [Symbols -> Nat]
  BY DEF Message
<1>6. told' \in [Session -> [Symbols -> Nat]]
  BY <1>1, <1>5 DEF Send
<1> QED
  BY <1>3, <1>4, <1>6

LEMMA VisitTypes ==
  ASSUME FeedTypeOK, NEW i \in Session, Visit(i)
  PROVE  FeedTypeOK'
<1>1. UNCHANGED <<log, events, job, acceptor, network, client>> /\ todo' \in SUBSET Session
  BY DEF Visit, FeedTypeOK
<1>2. CASE Erase(i)
  <2>1. sessions' \in SUBSET Session /\ closed' \in [Session -> BOOLEAN]
    BY <1>2 DEF Erase, FeedTypeOK
  <2>2. UNCHANGED <<connected, sent, seqNum, out, told, noneNew>>
    BY <1>2 DEF Erase
  <2> QED
    BY <1>1, <2>1, <2>2, QuietTypes DEF FeedTypeOK, acceptor, network
<1> DEFINE Sends == /\ seqNum' \in [Session -> Nat] /\ out' \in [Session -> Seq(Message)]
                    /\ told' \in [Session -> [Symbols -> Nat]]
                    /\ sent' \in [Session -> SUBSET Symbols]
                    /\ noneNew' \in BOOLEAN
                    /\ UNCHANGED <<sessions, connected, closed>>
<1>3. ASSUME Sends PROVE FeedTypeOK'
  BY <1>1, <1>3 DEF FeedTypeOK, acceptor, network, client
<1>4. job.symbol \in Symbols
  BY DEF FeedTypeOK, Job
<1>5. CASE VisitIncr(i)
  <2>1. CASE job.symbol \in sent[i]
    <3>1. Send(i, IncrMessage(i)) /\ UNCHANGED <<sessions, connected, closed, sent, noneNew>>
      BY <1>5, <2>1 DEF VisitIncr
    <3> QED
      BY <1>3, <3>1, SendTypes, MessageType DEF FeedTypeOK
  <2>2. CASE job.symbol \notin sent[i]
    <3>1. noneNew' = FALSE /\ UNCHANGED server
      BY <1>5, <2>2 DEF VisitIncr
    <3> QED
      BY <1>3, <3>1 DEF FeedTypeOK, server
  <2> QED
    BY <2>1, <2>2
<1>6. CASE VisitFull(i)
  <2>1. UNCHANGED <<sessions, connected, closed, noneNew>>
    BY <1>6 DEF VisitFull
  <2>2. CASE job.symbol \in sent[i]
    <3>1. UNCHANGED <<sent, seqNum, out, told>>
      BY <1>6, <2>2 DEF VisitFull
    <3> QED
      BY <1>3, <2>1, <3>1 DEF FeedTypeOK
  <2>3. CASE job.symbol \notin sent[i]
    <3>1. sent' = [sent EXCEPT ![i] = @ \cup {job.symbol}] /\ Send(i, FullMessage(i))
      BY <1>6, <2>3 DEF VisitFull
    <3>2. sent' \in [Session -> SUBSET Symbols]
      BY <1>4, <3>1 DEF FeedTypeOK
    <3> QED
      BY <1>3, <2>1, <3>1, <3>2, SendTypes, MessageType DEF FeedTypeOK
  <2> QED
    BY <2>2, <2>3
<1>7. CASE VisitTrade(i)
  BY <1>3, <1>7, SendTypes, MessageType DEF VisitTrade, FeedTypeOK
<1> QED
  BY <1>2, <1>5, <1>6, <1>7 DEF Visit

LEMMA LoopEndsTypes ==
  ASSUME FeedTypeOK, LoopEnds
  PROVE  FeedTypeOK'
<1>1. NoJob \in Job
  BY DEF NoJob, Job
<1>2. job' \in Job /\ todo' \in SUBSET Session /\ noneNew' \in BOOLEAN
  <2>1. CASE job.step = "incr" /\ ~noneNew
    <3>1. Loop("full", job.symbol, job.changed)
      BY <2>1 DEF LoopEnds
    <3>2. job.symbol \in Symbols /\ job.changed \in SUBSET Levels /\ sessions \in SUBSET Session
      BY DEF FeedTypeOK, Job
    <3> QED
      BY <3>1, <3>2 DEF Loop, Job
  <2>2. CASE ~(job.step = "incr" /\ ~noneNew)
    <3>1. job' = NoJob /\ UNCHANGED <<todo, noneNew>>
      BY <2>2 DEF LoopEnds
    <3> QED
      BY <1>1, <3>1 DEF FeedTypeOK
  <2> QED
    BY <2>1, <2>2
<1>3. UNCHANGED <<log, events, server, acceptor, network, client>>
  BY DEF LoopEnds
<1> QED
  BY <1>2, <1>3, QuietTypes DEF FeedTypeOK, server, acceptor, network

LEMMA AcceptPushTypes ==
  ASSUME FeedTypeOK, Listed, AcceptPush
  PROVE  FeedTypeOK'
<1>1. accepted + 1 \in Session
  <2>1. Len(owner) \in Nat /\ accepted \in Nat
    BY DEF FeedTypeOK
  <2> QED
    BY <2>1 DEF AcceptPush, Listed, Session
<1>2. /\ sessions' \in SUBSET Session /\ todo' \in SUBSET Session
      /\ accepting' \in Session \cup {NoSession} /\ accepted' \in Nat
  BY <1>1 DEF AcceptPush, FeedTypeOK
<1>3. UNCHANGED <<log, events, job, noneNew, connected, closed, sent, seqNum, out, told, network, client>>
  BY DEF AcceptPush
<1> QED
  BY <1>2, <1>3, QuietTypes DEF FeedTypeOK, network

LEMMA AcceptDoneTypes ==
  ASSUME FeedTypeOK, AcceptDone
  PROVE  FeedTypeOK'
<1>1. /\ connected' \in [Session -> BOOLEAN] /\ closed' \in [Session -> BOOLEAN]
      /\ accepting' \in Session \cup {NoSession}
  BY DEF AcceptDone, FeedTypeOK
<1>2. UNCHANGED <<accepted, publisher, sessions, sent, seqNum, out, told, network, client>>
  BY DEF AcceptDone
<1> QED
  BY <1>1, <1>2, QuietTypes DEF FeedTypeOK, network, publisher

LEMMA NetworkTypes ==
  ASSUME FeedTypeOK, NEW i \in Session, SendFails(i) \/ Break(i)
  PROVE  FeedTypeOK'
<1>1. CASE SendFails(i)
  <2>1. connected' \in [Session -> BOOLEAN]
    BY <1>1 DEF SendFails, FeedTypeOK
  <2> QED
    BY <1>1, <2>1, QuietTypes DEF SendFails, FeedTypeOK, network, publisher, acceptor
<1>2. CASE Break(i)
  <2>1. broken' \in [Session -> BOOLEAN]
    BY <1>2 DEF Break, FeedTypeOK
  <2> QED
    BY <1>2, <2>1, QuietTypes DEF Break, FeedTypeOK, publisher, server, acceptor
<1> QED
  BY <1>1, <1>2

LEMMA ConnectTypes ==
  ASSUME FeedTypeOK, NEW c \in Clients, Connect(c)
  PROVE  FeedTypeOK'
<1>1. owner' \in Seq(Clients) /\ Len(owner) + 1 \in Session
  <2>1. owner \in Seq(Clients) /\ owner' = Append(owner, c) /\ Len(owner) < MaxSessions
    BY DEF Connect, FeedTypeOK
  <2>2. owner' \in Seq(Clients) /\ Len(owner) \in Nat
    BY ONLY <2>1, c \in Clients
  <2>3. Len(owner) + 1 \in Session
    BY <2>1, <2>2 DEF Session
  <2> QED
    BY <2>2, <2>3
<1>2. current' \in [Clients -> Session \cup {NoSession}] /\ expected' \in [Clients -> Nat]
  <2>1. /\ current \in [Clients -> Session \cup {NoSession}]
        /\ current' = [current EXCEPT ![c] = Len(owner) + 1]
    BY DEF Connect, FeedTypeOK
  <2>2. expected \in [Clients -> Nat] /\ expected' = [expected EXCEPT ![c] = 1]
    BY DEF Connect, FeedTypeOK
  <2>3. expected' \in [Clients -> Nat]
    BY ONLY <2>2, c \in Clients
  <2>4. current' \in [Clients -> Session \cup {NoSession}]
    <3>1. Len(owner) + 1 \in Session \cup {NoSession}
      BY <1>1
    <3> QED
      BY ONLY <2>1, <3>1, c \in Clients
  <2> QED
    BY <2>3, <2>4
<1> QED
  BY <1>1, <1>2 DEF Connect, FeedTypeOK, publisher, server, acceptor

LEMMA ReadFailsTypes ==
  ASSUME FeedTypeOK, NEW c \in Clients, ReadFails(c)
  PROVE  FeedTypeOK'
<1>1. current' \in [Clients -> Session \cup {NoSession}]
  BY DEF ReadFails, FeedTypeOK
<1> QED
  BY <1>1 DEF ReadFails, FeedTypeOK, publisher, server, acceptor, network

(* The message that a read returns first. *)
LEMMA ReadMessage ==
  ASSUME FeedTypeOK, NEW c \in Clients, NEW count \in 1..MaxRead, Receive(c, count)
  PROVE  /\ current[c] \in Session
         /\ taken[current[c]] \in Nat
         /\ taken[current[c]] + 1 \in 1..Len(out[current[c]])
         /\ out[current[c]][taken[current[c]] + 1] \in Message
<1> DEFINE i == current[c]
<1>1. i \in Session /\ taken[i] + count <= Len(out[i])
  BY DEF Receive, FeedTypeOK
<1>2. out[i] \in Seq(Message) /\ taken[i] \in Nat
  BY <1>1 DEF FeedTypeOK
<1> QED
  BY <1>1, <1>2

LEMMA ReceiveTypes ==
  ASSUME FeedTypeOK, NEW c \in Clients, NEW count \in 1..MaxRead, Receive(c, count)
  PROVE  FeedTypeOK'
<1> DEFINE i == current[c]
           msg == out[i][taken[i] + 1]
<1>1. i \in Session /\ taken[i] \in Nat /\ msg \in Message
  BY ReadMessage
<1>2. taken' \in [Session -> Nat]
  BY <1>1 DEF Receive, FeedTypeOK
<1>3. current' \in [Clients -> Session \cup {NoSession}]
  <2>1. current' = current \/ current' = [current EXCEPT ![c] = NoSession]
    BY DEF Receive
  <2>2. current \in [Clients -> Session \cup {NoSession}]
    BY DEF FeedTypeOK
  <2> QED
    BY ONLY <2>1, <2>2
<1>4. /\ expected' \in [Clients -> Nat]
      /\ view' \in [Clients -> [Symbols -> Picture]] /\ at' \in [Clients -> [Symbols -> Nat]]
  <2>1. CASE UNCHANGED <<expected, view, at>>
    BY <2>1 DEF FeedTypeOK
  <2>2. CASE HandleMessage(c, msg)
    <3>1. expected' \in [Clients -> Nat]
      <4>1. expected \in [Clients -> Nat] /\ expected' = [expected EXCEPT ![c] = @ + 1]
        BY <2>2 DEF HandleMessage, FeedTypeOK
      <4> QED
        BY ONLY <4>1, c \in Clients
    <3>2. msg.symbol \in Symbols /\ msg.told[msg.symbol] \in Nat
          /\ msg.levels \in UNION {[K -> Values] : K \in SUBSET Levels}
      BY <1>1 DEF Message
    <3>3. view[c][msg.symbol] \in Picture
      <4>1. view \in [Clients -> [Symbols -> Picture]]
        BY DEF FeedTypeOK
      <4> QED
        BY <3>2, <4>1
    <3>4. Shown(view[c][msg.symbol], msg.levels) \in Picture
      BY <3>2, <3>3, ShownIsPicture
    <3> HIDE DEF msg
    <3>5. CASE UNCHANGED <<view, at>>
      BY <3>1, <3>5 DEF FeedTypeOK
    <3>6. CASE /\ view' = [view EXCEPT ![c][msg.symbol] = Shown(@, msg.levels)]
               /\ at' = [at EXCEPT ![c][msg.symbol] = msg.told[msg.symbol]]
      <4>1. view' \in [Clients -> [Symbols -> Picture]]
        BY <3>2, <3>4, <3>6 DEF FeedTypeOK
      <4>2. at' \in [Clients -> [Symbols -> Nat]]
        BY <3>2, <3>6 DEF FeedTypeOK
      <4> QED
        BY <3>1, <4>1, <4>2
    <3> QED
      BY <2>2, <3>5, <3>6 DEF HandleMessage
  <2> QED
    BY <2>1, <2>2 DEF Receive
<1> QED
  BY <1>2, <1>3, <1>4 DEF Receive, FeedTypeOK, publisher, server, acceptor, network

-----------------------------------------------------------------------------
(* What a visit does *)

(* An incremental message leads from the state the session was told last   *)
(* to the current one.                                                     *)
LEMMA IncrContinues ==
  ASSUME FInv, NEW i \in Session, i \in todo, job.step = "incr", job.symbol \in sent[i]
  PROVE  Continues(log, told[i], IncrMessage(i))
<1> DEFINE s == job.symbol
           p == log[s][Len(log[s]) - 1]
           msg == IncrMessage(i)
<1>1. s \in Symbols
  BY DEF FInv, FeedTypeOK, Job
<1>2. Len(log[s]) \in Nat /\ Len(log[s]) >= 2 /\ Now(s) \in Picture /\ p \in Picture
  BY <1>1, NowIsPicture DEF FInv, Differing
<1>3. told[i][s] = Len(log[s]) - 1
  BY DEF FInv, UpToDate, Listed, Pending
<1>4. \A l \in Levels \ job.changed : Now(s)[l] = p[l]
  BY DEF FInv, Differing
<1>5. /\ msg.kind = "incr" /\ msg.symbol = s
      /\ msg.levels = Only(Now(s), job.changed)
      /\ msg.told = [told[i] EXCEPT ![s] = Len(log[s])]
  BY DEF IncrMessage
<1>6. Shown(p, Only(Now(s), job.changed)) = Now(s)
  <2>1. job.changed \subseteq Levels
    BY DEF FInv, FeedTypeOK, Job
  <2>2. Now(s) = [l \in Levels |-> Now(s)[l]]
    BY <1>2 DEF Picture
  <2> HIDE DEF s, p
  <2>3. \A l \in Levels : (IF l \in DOMAIN Only(Now(s), job.changed)
                           THEN Only(Now(s), job.changed)[l] ELSE p[l]) = Now(s)[l]
    BY <1>4, <2>1 DEF Only
  <2> QED
    BY <2>2, <2>3 DEF Shown
<1>7. log[s][told[i][s]] = p /\ log[s][told[i][s] + 1] = Now(s)
  BY <1>2, <1>3 DEF Now
<1>8. DOMAIN log[s] = 1..Len(log[s])
  BY <1>1 DEF FInv, FeedTypeOK
<1>9. told[i][s] # 0 /\ told[i][s] + 1 \in 1..Len(log[s]) /\ told[i][s] + 1 = Len(log[s])
  <2>1. \A n \in Nat, t \in Nat : n >= 2 /\ t = n - 1 => t # 0 /\ t + 1 = n
    OBVIOUS
  <2> HIDE DEF s
  <2>2. told[i][s] \in Nat
    BY <1>1 DEF FInv, FeedTypeOK
  <2>3. told[i][s] # 0 /\ told[i][s] + 1 = Len(log[s])
    BY <1>2, <1>3, <2>1, <2>2
  <2> QED
    BY <1>2, <1>8, <2>3
<1> HIDE DEF s, p, msg
<1> QED
  BY <1>5, <1>6, <1>7, <1>9 DEF Continues, msg

(* A full message leads from any state to the current one. *)
LEMMA FullContinues ==
  ASSUME FInv, NEW i \in Session
  PROVE  Continues(log, told[i], FullMessage(i))
<1> DEFINE s == job.symbol
           msg == FullMessage(i)
<1>1. s \in Symbols /\ told[i] \in [Symbols -> Nat]
  BY DEF FInv, FeedTypeOK, Job
<1>2. /\ msg.kind = "full" /\ msg.symbol = s /\ msg.levels = Now(s)
      /\ msg.told = [told[i] EXCEPT ![s] = Len(log[s])]
  BY DEF FullMessage
<1>3. Len(log[s]) \in 1..Len(log[s])
  BY <1>1, NowIsPicture DEF FInv, FeedTypeOK
<1>4. msg.told[s] = Len(log[s])
  BY <1>1, <1>2
<1> HIDE DEF s, msg
<1> QED
  BY <1>2, <1>3, <1>4 DEF Continues, Now, msg

LEMMA TradeContinues ==
  ASSUME NEW i \in Session
  PROVE  Continues(log, told[i], TradeMessage(i))
BY DEF Continues, TradeMessage

(* A visit removes a session, or has nothing for it, or tells it all that  *)
(* it was not told.                                                        *)
Removes(i) ==
  /\ sessions' = sessions \ {i}
  /\ UNCHANGED <<sent, seqNum, out, told>>

Skips(i) ==
  /\ UNCHANGED <<sessions, sent, seqNum, out, told>>
  /\ \A s \in sent[i] : ~Pending(i, s)

Tells(i, msg) ==
  /\ UNCHANGED sessions
  /\ Send(i, msg)
  /\ msg.seq = NextSeq(i)
  /\ Continues(log, told[i], msg)
  /\ \A s \in Symbols : s \in sent'[i] <=> msg.told[s] # 0
  /\ \A j \in Session \ {i} : sent'[j] = sent[j]
  /\ \A s \in Symbols : msg.told[s] \in {told[i][s], Len(log[s])}
  /\ \A s \in Symbols : msg.told[s] # 0 => msg.told[s] = Len(log[s])

(* What a session was told of a symbol it is not waiting for is current. *)
LEMMA ToldNow ==
  ASSUME FInv, NEW i \in Session, i \in todo, NEW s \in Symbols, told[i][s] # 0, ~Pending(i, s)
  PROVE  told[i][s] = Len(log[s])
<1>1. i \in sessions /\ s \in sent[i]
  BY DEF FInv, Listed, Recorded, Record, Tracked
<1> QED
  BY <1>1 DEF FInv, UpToDate

LEMMA VisitEffect ==
  ASSUME FInv, NEW i \in Session, Visit(i)
  PROVE  \/ Removes(i) \/ Skips(i)
         \/ \E msg \in Message : Tells(i, msg)
<1> DEFINE s == job.symbol
<1>1. /\ s \in Symbols /\ told[i] \in [Symbols -> Nat] /\ sent[i] \subseteq Symbols
      /\ Len(log[s]) \in Nat \ {0} /\ i \in todo
  <2>1. s \in Symbols
    BY DEF FInv, FeedTypeOK, Job
  <2> QED
    BY <2>1, NowIsPicture DEF FInv, FeedTypeOK, Visit
<1>2. \A t \in Symbols : t \in sent[i] <=> told[i][t] # 0
  BY DEF FInv, Recorded, Record, Tracked
<1>3. CASE Erase(i)
  BY <1>3 DEF Erase, Removes
<1>4. CASE job.step = "incr" /\ VisitIncr(i)
  <2>1. CASE s \in sent[i]
    <3> DEFINE msg == IncrMessage(i)
    <3>1. Send(i, msg) /\ UNCHANGED <<sessions, sent>>
      BY <1>4, <2>1 DEF VisitIncr
    <3>2. msg.seq = NextSeq(i) /\ msg.told = [told[i] EXCEPT ![s] = Len(log[s])]
      BY DEF IncrMessage
    <3>3. Continues(log, told[i], msg) /\ msg \in Message
      BY <1>1, <1>4, <2>1, IncrContinues, MessageType DEF FInv
    <3> HIDE DEF msg, s
    <3>4. \A t \in Symbols : msg.told[t] = IF t = s THEN Len(log[s]) ELSE told[i][t]
      BY <1>1, <3>2
    <3>5. \A t \in Symbols : t # s /\ told[i][t] # 0 => told[i][t] = Len(log[t])
      BY <1>1, ToldNow DEF Pending, s
    <3>6. Tells(i, msg)
      BY <1>1, <1>2, <2>1, <3>1, <3>2, <3>3, <3>4, <3>5 DEF Tells
    <3> QED
      BY <3>3, <3>6
  <2>2. CASE s \notin sent[i]
    <3>1. UNCHANGED <<sessions, sent, seqNum, out, told>>
      BY <1>4, <2>2 DEF VisitIncr, server
    <3> QED
      BY <2>2, <3>1 DEF Skips, Pending
  <2> QED
    BY <2>1, <2>2
<1>5. CASE job.step = "full" /\ VisitFull(i)
  <2>1. UNCHANGED sessions
    BY <1>5 DEF VisitFull
  <2>2. CASE s \in sent[i]
    BY <1>5, <2>1, <2>2 DEF VisitFull, Skips, Pending
  <2>3. CASE s \notin sent[i]
    <3> DEFINE msg == FullMessage(i)
    <3>1. Send(i, msg) /\ sent' = [sent EXCEPT ![i] = @ \cup {s}]
      BY <1>5, <2>3 DEF VisitFull
    <3>2. msg.seq = NextSeq(i) /\ msg.told = [told[i] EXCEPT ![s] = Len(log[s])]
      BY DEF FullMessage
    <3>3. Continues(log, told[i], msg) /\ msg \in Message
      BY FullContinues, MessageType DEF FInv
    <3>4. /\ \A t \in Symbols : t \in sent'[i] <=> t \in sent[i] \/ t = s
          /\ \A j \in Session \ {i} : sent'[j] = sent[j]
      BY <1>1, <3>1 DEF FInv, FeedTypeOK
    <3>5. \A t \in Symbols : told[i][t] # 0 => told[i][t] = Len(log[t])
      BY <1>1, <1>5, ToldNow DEF Pending
    <3> HIDE DEF msg, s
    <3>6. \A t \in Symbols : msg.told[t] = IF t = s THEN Len(log[s]) ELSE told[i][t]
      BY <1>1, <3>2
    <3>7. Tells(i, msg)
      BY <1>1, <1>2, <2>1, <3>1, <3>2, <3>3, <3>4, <3>5, <3>6 DEF Tells
    <3> QED
      BY <3>3, <3>7
  <2> QED
    BY <2>2, <2>3
<1>6. CASE job.step = "trade" /\ VisitTrade(i)
  <2> DEFINE msg == TradeMessage(i)
  <2>1. Send(i, msg) /\ UNCHANGED <<sessions, sent>>
    BY <1>6 DEF VisitTrade
  <2>2. msg.seq = NextSeq(i) /\ msg.told = told[i]
    BY DEF TradeMessage
  <2>3. Continues(log, told[i], msg) /\ msg \in Message
    BY TradeContinues, MessageType DEF FInv
  <2>4. \A t \in Symbols : told[i][t] # 0 => told[i][t] = Len(log[t])
    BY <1>1, <1>6, ToldNow DEF Pending
  <2> HIDE DEF msg, s
  <2>5. Tells(i, msg)
    BY <1>1, <1>2, <2>1, <2>2, <2>3, <2>4 DEF Tells
  <2> QED
    BY <2>3, <2>5
<1> QED
  BY <1>3, <1>4, <1>5, <1>6 DEF Visit

-----------------------------------------------------------------------------
(* What was sent *)

(* What a client shows after some messages of a session. *)
LEMMA AfterType ==
  ASSUME NEW q \in Seq(Message), NEW k \in 0..Len(q)
  PROVE  After(q, k) \in [Symbols -> Nat]
<1>1. CASE k = 0
  BY <1>1 DEF After, NoneTold
<1>2. CASE k # 0
  <2>1. q[k] \in Message
    BY <1>2
  <2> QED
    BY <1>2, <2>1 DEF After, Message
<1> QED
  BY <1>1, <1>2

(* A message that leads on from the last one joins the record. *)
LEMMA ToldOneMore ==
  ASSUME NEW l, NEW q \in Seq(Message), NEW n, NEW t \in [Symbols -> Nat], NEW started,
         NEW msg \in Message, NEW started2,
         Record(l, q, n, t, started),
         \A s \in Symbols : Len(l[s]) \in Nat,
         msg.seq = n + 1, Continues(l, t, msg),
         \A s \in Symbols : s \in started2 <=> msg.told[s] # 0,
         \A s \in Symbols : msg.told[s] \in {t[s], Len(l[s])}
  PROVE  Record(l, Append(q, msg), n + 1, msg.told, started2)
<1> DEFINE r == Append(q, msg)
<1>1. /\ Len(r) = Len(q) + 1 /\ Len(q) \in Nat
      /\ \A k \in 1..Len(q) : r[k] = q[k]
      /\ r[Len(q) + 1] = msg
  BY Appended
<1>2. n = Len(q) /\ t = After(q, n)
  BY DEF Record, Numbered, Tracked
<1>3. msg.told \in [Symbols -> Nat]
  BY DEF Message
<1> HIDE DEF r
<1>4. \A k \in 0..n : After(r, k) = After(q, k)
  BY <1>1, <1>2 DEF After
<1>5. After(r, n + 1) = msg.told
  <2>1. n + 1 # 0 /\ r[n + 1] = msg
    BY <1>1, <1>2
  <2> QED
    BY <2>1 DEF After
<1>6. Numbered(r, n + 1)
  <2>1. Len(r) = n + 1 /\ \A k \in 1..n : r[k].seq = k
    BY <1>1, <1>2 DEF Record, Numbered
  <2>2. r[n + 1].seq = n + 1
    BY <1>1, <1>2
  <2>3. \A k \in 1..(n + 1) : k \in 1..n \/ k = n + 1
    BY <1>2
  <2> QED
    BY <2>1, <2>2, <2>3 DEF Numbered
<1>7. \A s \in Symbols : msg.told[s] <= Len(l[s]) /\ t[s] <= msg.told[s]
  BY DEF Record, Tracked
<1>8. Tracked(l, r, msg.told, started2)
  BY <1>1, <1>2, <1>5, <1>7 DEF Tracked
<1>9. Chained(l, r)
  <2> SUFFICES ASSUME NEW k \in 1..(n + 1)
               PROVE  Continues(l, After(r, k - 1), r[k])
    BY <1>1, <1>2 DEF Chained
  <2>1. CASE k \in 1..n
    <3>1. r[k] = q[k] /\ k - 1 \in 0..n
      BY <1>1, <1>2, <2>1
    <3>2. After(r, k - 1) = After(q, k - 1)
      BY <1>4, <3>1
    <3>3. Continues(l, After(q, k - 1), q[k])
      BY <1>2, <2>1 DEF Record, Chained
    <3> QED
      BY <3>1, <3>2, <3>3
  <2>2. CASE k = n + 1
    <3>1. k - 1 = n /\ n \in 0..n
      BY <1>1, <1>2, <2>2
    <3>2. After(r, k - 1) = t
      BY <1>2, <1>4, <3>1
    <3> QED
      BY <1>1, <1>2, <2>2, <3>2
  <2> QED
    BY <1>1, <1>2, <2>1, <2>2
<1>10. Rising(r)
  <2> SUFFICES ASSUME NEW k \in 0..(n + 1), NEW j \in 0..k, NEW s \in Symbols
               PROVE  After(r, j)[s] <= After(r, k)[s]
    BY <1>1, <1>2 DEF Rising
  <2>1. CASE k \in 0..n
    <3>1. j \in 0..n
      BY <1>1, <1>2, <2>1
    <3>2. After(q, j)[s] <= After(q, k)[s]
      BY <1>2, <2>1 DEF Record, Rising
    <3> QED
      BY <1>4, <2>1, <3>1, <3>2
  <2>2. CASE k = n + 1 /\ j = k
    BY <1>3, <1>5, <2>2
  <2>3. CASE k = n + 1 /\ j # k
    <3>1. j \in 0..n /\ n \in 0..n
      BY <1>1, <1>2, <2>3
    <3>2. After(q, j)[s] <= t[s]
      BY <1>2, <3>1 DEF Record, Rising
    <3>3. After(q, j)[s] \in Nat /\ t[s] \in Nat /\ msg.told[s] \in Nat
      BY <1>2, <1>3, <3>1, AfterType
    <3>4. After(q, j)[s] <= msg.told[s]
      BY <1>7, <3>2, <3>3
    <3> QED
      BY <1>4, <1>5, <2>3, <3>1, <3>4
  <2> QED
    BY <1>1, <1>2, <2>1, <2>2, <2>3
<1> QED
  BY <1>6, <1>8, <1>9, <1>10 DEF Record, r

(* States are only ever added behind those of a symbol. *)
Longer(l, l2) ==
  \A s \in Symbols :
    /\ Len(l[s]) \in Nat /\ Len(l2[s]) \in Nat
    /\ Len(l[s]) <= Len(l2[s])
    /\ \A v \in 1..Len(l[s]) : l2[s][v] = l[s][v]

(* What leads on still does when a state is added. *)
LEMMA ContinuesLonger ==
  ASSUME NEW l, NEW l2, NEW prev \in [Symbols -> Nat], NEW msg \in Message,
         Longer(l, l2),
         Continues(l, prev, msg)
  PROVE  Continues(l2, prev, msg)
<1> PICK s : s = msg.symbol
  OBVIOUS
<1>1. s \in Symbols /\ prev[s] \in Nat
  BY DEF Message
<1>2. /\ Len(l[s]) \in Nat /\ Len(l2[s]) \in Nat
      /\ Len(l[s]) <= Len(l2[s])
      /\ \A v \in 1..Len(l[s]) : l2[s][v] = l[s][v]
  BY <1>1 DEF Longer
<1>3. \A v \in 1..Len(l[s]) : v \in 1..Len(l2[s])
  BY <1>2
<1>4. CASE msg.kind = "trade" /\ msg.told = prev
  BY <1>4 DEF Continues
<1>5. CASE /\ msg.kind = "full"
           /\ msg.told[s] \in 1..Len(l[s])
           /\ msg.told = [prev EXCEPT ![s] = msg.told[s]]
           /\ msg.levels = l[s][msg.told[s]]
  <2>1. msg.told[s] \in 1..Len(l2[s]) /\ msg.levels = l2[s][msg.told[s]]
    BY <1>2, <1>3, <1>5
  <2> QED
    BY <1>5, <2>1 DEF Continues
<1>6. CASE /\ msg.kind = "incr"
           /\ prev[s] # 0
           /\ prev[s] + 1 \in 1..Len(l[s])
           /\ msg.told = [prev EXCEPT ![s] = prev[s] + 1]
           /\ Shown(l[s][prev[s]], msg.levels) = l[s][prev[s] + 1]
  <2>1. prev[s] \in 1..Len(l[s])
    BY <1>1, <1>2, <1>6
  <2>2. l2[s][prev[s]] = l[s][prev[s]] /\ l2[s][prev[s] + 1] = l[s][prev[s] + 1]
    BY <1>2, <1>6, <2>1
  <2>3. prev[s] + 1 \in 1..Len(l2[s])
    BY <1>3, <1>6
  <2> QED
    BY <1>6, <2>2, <2>3 DEF Continues
<1> QED
  BY <1>4, <1>5, <1>6 DEF Continues

LEMMA RecordLonger ==
  ASSUME NEW l, NEW l2, NEW q \in Seq(Message), NEW n, NEW t \in [Symbols -> Nat], NEW started,
         Longer(l, l2),
         Record(l, q, n, t, started)
  PROVE  Record(l2, q, n, t, started)
<1>1. Numbered(q, n) /\ Rising(q)
  BY DEF Record
<1>2. Tracked(l2, q, t, started)
  <2>1. ASSUME NEW s \in Symbols
        PROVE  t[s] <= Len(l2[s])
    <3>1. t[s] \in Nat /\ t[s] <= Len(l[s])
      BY DEF Record, Tracked
    <3>2. Len(l[s]) \in Nat /\ Len(l2[s]) \in Nat /\ Len(l[s]) <= Len(l2[s])
      BY DEF Longer
    <3> QED
      BY <3>1, <3>2
  <2> QED
    BY <2>1 DEF Record, Tracked
<1>3. Chained(l2, q)
  <2> SUFFICES ASSUME NEW k \in 1..Len(q)
               PROVE  Continues(l2, After(q, k - 1), q[k])
    BY DEF Chained
  <2>1. After(q, k - 1) \in [Symbols -> Nat] /\ q[k] \in Message
    <3>1. k - 1 \in 0..Len(q)
      OBVIOUS
    <3> QED
      BY <3>1, AfterType
  <2>2. Continues(l, After(q, k - 1), q[k])
    BY DEF Record, Chained
  <2> QED
    BY <2>1, <2>2, ContinuesLonger
<1> QED
  BY <1>1, <1>2, <1>3 DEF Record

(* Steps that neither publish nor send. *)
LEMMA StillRecorded ==
  ASSUME Recorded, UNCHANGED <<log, seqNum, out, told, sent>>
  PROVE  Recorded'
BY DEF Recorded

(* A state that is published comes behind the others of its symbol. *)
LEMMA LogGrows ==
  ASSUME FeedTypeOK, NEW s \in Symbols, DepthChange(s)
  PROVE  /\ \A t \in Symbols :
              /\ Len(log[t]) \in Nat \ {0} /\ Len(log'[t]) \in Nat
              /\ Len(log'[t]) = IF t = s THEN Len(log[t]) + 1 ELSE Len(log[t])
              /\ Len(log[t]) <= Len(log'[t])
              /\ \A v \in 1..Len(log[t]) : log'[t][v] = log[t][v]
         /\ \E p \in Picture, changed \in SUBSET Levels :
              /\ log' = [log EXCEPT ![s] = Append(@, p)]
              /\ log'[s][Len(log[s]) + 1] = p
              /\ {l \in Levels : p[l] # Now(s)[l]} \subseteq changed
              /\ Loop("incr", s, changed)
<1>1. PICK p \in Picture, changed \in SUBSET Levels :
        /\ log' = [log EXCEPT ![s] = Append(@, p)]
        /\ {l \in Levels : p[l] # Now(s)[l]} \subseteq changed
        /\ Loop("incr", s, changed)
  BY DEF DepthChange
<1>2. log \in [Symbols -> Seq(Picture)]
  BY DEF FeedTypeOK
<1>3. log'[s] = Append(log[s], p) /\ \A t \in Symbols \ {s} : log'[t] = log[t]
  BY <1>1, <1>2
<1>4. log'[s][Len(log[s]) + 1] = p
  BY <1>2, <1>3
<1>5. ASSUME NEW t \in Symbols
      PROVE  /\ Len(log[t]) \in Nat \ {0} /\ Len(log'[t]) \in Nat
             /\ Len(log'[t]) = IF t = s THEN Len(log[t]) + 1 ELSE Len(log[t])
             /\ Len(log[t]) <= Len(log'[t])
             /\ \A v \in 1..Len(log[t]) : log'[t][v] = log[t][v]
  <2>1. log[t] \in Seq(Picture) /\ Len(log[t]) \in Nat \ {0}
    BY <1>2, NowIsPicture
  <2>2. CASE t = s
    BY <1>3, <2>1, <2>2
  <2>3. CASE t # s
    BY <1>3, <2>1, <2>3
  <2> QED
    BY <2>2, <2>3
<1> QED
  BY <1>1, <1>4, <1>5

LEMMA DepthChangeRecorded ==
  ASSUME FeedTypeOK, Recorded, NEW s \in Symbols, DepthChange(s)
  PROVE  Recorded'
<1>1. UNCHANGED <<seqNum, out, told, sent>>
  BY DEF DepthChange, server
<1>2. PICK l, l2 : l = log /\ l2 = log'
  OBVIOUS
<1>3. Longer(l, l2)
  <2>1. \A t \in Symbols :
          /\ Len(log[t]) \in Nat /\ Len(log'[t]) \in Nat
          /\ Len(log[t]) <= Len(log'[t])
          /\ \A v \in 1..Len(log[t]) : log'[t][v] = log[t][v]
    BY LogGrows
  <2> QED
    BY <1>2, <2>1 DEF Longer
<1>4. ASSUME NEW i \in Session
      PROVE  Record(l2, out[i], seqNum[i], told[i], sent[i])
  <2> PICK q, n, t, started : q = out[i] /\ n = seqNum[i] /\ t = told[i] /\ started = sent[i]
    OBVIOUS
  <2>1. q \in Seq(Message) /\ t \in [Symbols -> Nat]
    BY DEF FeedTypeOK
  <2>2. Record(l, q, n, t, started)
    BY <1>2 DEF Recorded
  <2>3. Record(l2, q, n, t, started)
    BY <1>3, <2>1, <2>2, RecordLonger
  <2> QED
    BY <2>3
<1> QED
  BY <1>1, <1>2, <1>4 DEF Recorded

LEMMA TellsRecorded ==
  ASSUME FeedTypeOK, Recorded, UNCHANGED log,
         NEW i \in Session, NEW msg \in Message, Tells(i, msg)
  PROVE  Recorded'
<1>1. /\ out \in [Session -> Seq(Message)] /\ told \in [Session -> [Symbols -> Nat]]
      /\ seqNum \in [Session -> Nat]
  BY DEF FeedTypeOK
<1>2. /\ out' = [out EXCEPT ![i] = Append(out[i], msg)]
      /\ told' = [told EXCEPT ![i] = msg.told]
      /\ seqNum' = [seqNum EXCEPT ![i] = seqNum[i] + 1]
  BY DEF Tells, Send, NextSeq
<1>3. \A j \in Session \ {i} : /\ out'[j] = out[j] /\ told'[j] = told[j]
                               /\ seqNum'[j] = seqNum[j] /\ sent'[j] = sent[j]
  BY <1>1, <1>2 DEF Tells
<1>4. out'[i] = Append(out[i], msg) /\ told'[i] = msg.told /\ seqNum'[i] = seqNum[i] + 1
  BY <1>1, <1>2
<1>5. Record(log, Append(out[i], msg), seqNum[i] + 1, msg.told, sent'[i])
  <2>1. \A s \in Symbols : Len(log[s]) \in Nat
    BY NowIsPicture
  <2>2. Record(log, out[i], seqNum[i], told[i], sent[i])
    BY DEF Recorded
  <2>3. /\ msg.seq = seqNum[i] + 1 /\ Continues(log, told[i], msg)
        /\ \A s \in Symbols : s \in sent'[i] <=> msg.told[s] # 0
        /\ \A s \in Symbols : msg.told[s] \in {told[i][s], Len(log[s])}
    BY DEF Tells, NextSeq
  <2>4. out[i] \in Seq(Message) /\ told[i] \in [Symbols -> Nat]
    BY <1>1
  <2> QED
    BY <2>1, <2>2, <2>3, <2>4, ToldOneMore
<1>6. ASSUME NEW j \in Session
      PROVE  Record(log', out'[j], seqNum'[j], told'[j], sent'[j])
  <2>1. CASE j = i
    BY <1>4, <1>5, <2>1
  <2>2. CASE j # i
    BY <1>3, <2>2 DEF Recorded
  <2> QED
    BY <2>1, <2>2
<1> QED
  BY <1>6 DEF Recorded

-----------------------------------------------------------------------------
(* Steps that no subscriber takes *)

(* A step that sends nothing and that no subscriber takes leaves them.     *)
LEMMA SubscribersStill ==
  ASSUME FInv, UNCHANGED <<log, out, owner, client>>
  PROVE  Owned' /\ ShowsPublishedState' /\ InStep' /\ NotAhead'
<1>1. UNCHANGED <<current, taken, expected, view, at>>
  BY DEF client
<1>2. Owned'
  BY <1>1 DEF FInv, Owned
<1>3. ShowsPublishedState'
  BY <1>1 DEF FInv, ShowsPublishedState
<1>4. InStep'
  BY <1>1 DEF FInv, InStep, Unbroken
<1>5. NotAhead'
  BY <1>1 DEF FInv, NotAhead
<1> QED
  BY <1>2, <1>3, <1>4, <1>5

(* A change of a depth is yet to be told to every session of the list. *)
LEMMA DepthChangeKeeps ==
  ASSUME FInv, NEW s \in Symbols, DepthChange(s)
  PROVE  FInv'
<1>1. FeedTypeOK /\ Recorded
  BY DEF FInv
<1>2. FeedTypeOK' /\ Recorded'
  BY <1>1, DepthChangeTypes, DepthChangeRecorded
<1>3. /\ UNCHANGED <<sessions, sent, out, told, accepting, accepted, owner, current, taken,
                     expected, view, at>>
      /\ job.step = "idle"
  BY DEF DepthChange, server, acceptor, network, client
<1>4. \A t \in Symbols :
        /\ Len(log[t]) \in Nat \ {0} /\ Len(log'[t]) \in Nat
        /\ Len(log'[t]) = IF t = s THEN Len(log[t]) + 1 ELSE Len(log[t])
        /\ Len(log[t]) <= Len(log'[t])
        /\ \A v \in 1..Len(log[t]) : log'[t][v] = log[t][v]
  BY <1>1, LogGrows
<1>5. PICK p \in Picture, changed \in SUBSET Levels :
        /\ log' = [log EXCEPT ![s] = Append(@, p)]
        /\ log'[s][Len(log[s]) + 1] = p
        /\ {l \in Levels : p[l] # Now(s)[l]} \subseteq changed
        /\ Loop("incr", s, changed)
  BY <1>1, LogGrows
<1>6. job' = [step |-> "incr", symbol |-> s, changed |-> changed] /\ todo' = sessions
  BY <1>5 DEF Loop
<1>7. Listed'
  BY <1>3, <1>6 DEF FInv, Listed
<1>8. Owned'
  BY <1>3 DEF FInv, Owned
<1>9. UpToDate'
  <2> SUFFICES ASSUME NEW i \in sessions, NEW t \in sent[i]
               PROVE  told[i][t] = IF t = s THEN Len(log'[t]) - 1 ELSE Len(log'[t])
    BY <1>3, <1>6 DEF UpToDate, Pending
  <2>1. told[i][t] = Len(log[t]) /\ t \in Symbols
    BY <1>1, <1>3 DEF FInv, UpToDate, Pending, FeedTypeOK
  <2>2. /\ Len(log[t]) \in Nat
        /\ Len(log'[t]) = IF t = s THEN Len(log[t]) + 1 ELSE Len(log[t])
    BY <1>4, <2>1
  <2> QED
    BY <2>1, <2>2
<1>10. Differing'
  <2>1. job'.symbol = s /\ job'.changed = changed
    BY <1>6
  <2> PICK n \in Nat \ {0} : n = Len(log[s])
    BY <1>4
  <2>2. Len(log'[s]) = n + 1 /\ Now(s) = log[s][n] /\ n \in 1..n
    BY <1>4 DEF Now
  <2>3. log'[s][n + 1] = p /\ log'[s][n] = log[s][n]
    BY <1>4, <1>5, <2>2
  <2>4. \A l \in Levels \ changed : p[l] = Now(s)[l]
    BY <1>5
  <2>5. Len(log'[s]) >= 2 /\ Len(log'[s]) - 1 = n
    BY <2>2
  <2>6. log'[s][Len(log'[s])] = p /\ log'[s][Len(log'[s]) - 1] = Now(s)
    BY <2>2, <2>3, <2>5
  <2> QED
    BY <2>1, <2>4, <2>5, <2>6 DEF Differing, Now
<1>11. ShowsPublishedState'
  <2> SUFFICES ASSUME NEW c \in Clients, NEW t \in Symbols
               PROVE  at[c][t] \in DOMAIN log'[t] /\ view[c][t] = log'[t][at[c][t]]
    BY <1>3 DEF ShowsPublishedState
  <2>1. log[t] \in Seq(Picture) /\ log'[t] \in Seq(Picture)
    BY <1>1, <1>2 DEF FeedTypeOK
  <2>2. at[c][t] \in 1..Len(log[t]) /\ view[c][t] = log[t][at[c][t]]
    BY <2>1 DEF FInv, ShowsPublishedState
  <2>3. DOMAIN log'[t] = 1..Len(log'[t])
    BY <2>1
  <2>4. at[c][t] \in 1..Len(log'[t]) /\ log'[t][at[c][t]] = log[t][at[c][t]]
    BY <1>4, <2>2
  <2> QED
    BY <2>2, <2>3, <2>4
<1>12. InStep' /\ NotAhead'
  BY <1>3 DEF FInv, InStep, NotAhead, Unbroken
<1> QED
  BY <1>2, <1>7, <1>8, <1>9, <1>10, <1>11, <1>12 DEF FInv

LEMMA TradeKeeps ==
  ASSUME FInv, NEW s \in Symbols, Trade(s)
  PROVE  FInv'
<1>1. FeedTypeOK'
  BY TradeTypes DEF FInv
<1>2. /\ UNCHANGED <<log, sessions, seqNum, sent, out, told, accepting, accepted, owner, client>>
      /\ job.step = "idle"
      /\ job' = [step |-> "trade", symbol |-> s, changed |-> {}] /\ todo' = sessions
  BY DEF Trade, Loop, server, acceptor, network
<1>3. Recorded'
  BY <1>2, StillRecorded DEF FInv
<1>4. Owned' /\ ShowsPublishedState' /\ InStep' /\ NotAhead'
  BY <1>2, SubscribersStill
<1>5. Listed'
  BY <1>2 DEF FInv, Listed, client
<1>6. UpToDate'
  BY <1>2 DEF FInv, UpToDate, Pending
<1>7. Differing'
  BY <1>2 DEF Differing
<1> QED
  BY <1>1, <1>3, <1>4, <1>5, <1>6, <1>7 DEF FInv

LEMMA LoopEndsKeeps ==
  ASSUME FInv, LoopEnds
  PROVE  FInv'
<1>1. FeedTypeOK'
  BY LoopEndsTypes DEF FInv
<1>2. /\ UNCHANGED <<log, sessions, seqNum, sent, out, told, accepting, accepted, owner, client>>
      /\ todo = {}
  BY DEF LoopEnds, server, acceptor, network
<1>3. job'.step # "incr" /\ (todo' = sessions \/ todo' = todo)
  BY DEF LoopEnds, Loop, NoJob
<1>4. Recorded'
  BY <1>2, StillRecorded DEF FInv
<1>5. Owned' /\ ShowsPublishedState' /\ InStep' /\ NotAhead'
  BY <1>2, SubscribersStill
<1>6. Listed'
  BY <1>2, <1>3 DEF FInv, Listed, client
<1>7. UpToDate'
  BY <1>2, <1>3 DEF FInv, UpToDate, Pending
<1>8. Differing'
  BY <1>3 DEF Differing
<1> QED
  BY <1>1, <1>4, <1>5, <1>6, <1>7, <1>8 DEF FInv

(* The new session has been sent nothing. *)
LEMMA AcceptPushKeeps ==
  ASSUME FInv, AcceptPush
  PROVE  FInv'
<1>1. FeedTypeOK'
  BY AcceptPushTypes DEF FInv
<1>2. /\ UNCHANGED <<log, job, seqNum, sent, out, told, owner, client>>
      /\ accepted < Len(owner) /\ accepted' = accepted + 1 /\ accepting' = accepted + 1
      /\ sessions' = sessions \cup {accepted + 1}
      /\ todo' = todo \/ todo' = todo \cup {accepted + 1}
  BY DEF AcceptPush, network
<1>3. Recorded'
  BY <1>2, StillRecorded DEF FInv
<1>4. Owned' /\ ShowsPublishedState' /\ InStep' /\ NotAhead'
  BY <1>2, SubscribersStill
<1>5. accepted \in Nat /\ Len(owner) \in Nat /\ accepted <= Len(owner)
      /\ Len(owner) <= MaxSessions
  BY DEF FInv, FeedTypeOK, Listed
<1>6. accepted + 1 \in Session
  BY <1>2, <1>5 DEF Session
<1>7. Listed'
  <2>1. accepted' <= Len(owner') /\ Len(owner') <= MaxSessions /\ accepting' <= accepted'
    BY <1>2, <1>5
  <2>2. \A i \in sessions' : i <= accepted'
    <3>1. \A i \in sessions : i \in Nat /\ i <= accepted
      BY DEF FInv, Listed, FeedTypeOK, Session
    <3> QED
      BY <1>2, <1>5, <3>1
  <2>3. todo' \subseteq sessions'
    BY <1>2 DEF FInv, Listed
  <2>4. \A i \in Session : i > accepted' => out'[i] = <<>> /\ sent'[i] = {}
    <3>1. \A i \in Session : i > accepted + 1 => i > accepted
      BY <1>5 DEF Session
    <3> QED
      BY <1>2, <3>1 DEF FInv, Listed
  <2>5. \A i \in Session : i > Len(owner') => taken'[i] = 0
    BY <1>2 DEF FInv, Listed, client
  <2> QED
    BY <2>1, <2>2, <2>3, <2>4, <2>5 DEF Listed
<1>8. UpToDate'
  <2> SUFFICES ASSUME NEW i \in sessions', NEW s \in sent[i]
               PROVE  told[i][s] = IF Pending(i, s)' THEN Len(log[s]) - 1 ELSE Len(log[s])
    BY <1>2 DEF UpToDate
  <2>1. i # accepted + 1
    <3>1. accepted + 1 > accepted
      BY <1>5
    <3> QED
      BY <1>6, <3>1 DEF FInv, Listed
  <2>2. i \in sessions /\ (Pending(i, s)' <=> Pending(i, s))
    BY <1>2, <2>1 DEF Pending
  <2> QED
    BY <2>2 DEF FInv, UpToDate
<1>9. Differing'
  BY <1>2 DEF FInv, Differing, Now
<1> QED
  BY <1>1, <1>3, <1>4, <1>7, <1>8, <1>9 DEF FInv

(* Steps of the sockets: they touch neither the list nor what was sent. *)
LEMMA SocketsKeep ==
  ASSUME FInv, FeedTypeOK',
         UNCHANGED <<log, job, todo, sessions, seqNum, sent, out, told, accepted, owner, client>>,
         accepting' \in {accepting, NoSession}
  PROVE  FInv'
<1>1. Recorded'
  BY StillRecorded DEF FInv
<1>2. Owned' /\ ShowsPublishedState' /\ InStep' /\ NotAhead'
  BY SubscribersStill
<1>3. Listed'
  <2>1. accepting' <= accepted
    BY DEF FInv, Listed, FeedTypeOK, NoSession
  <2> QED
    BY <2>1 DEF FInv, Listed, client
<1>4. UpToDate' /\ Differing'
  BY DEF FInv, UpToDate, Pending, Differing, Now
<1> QED
  BY <1>1, <1>2, <1>3, <1>4 DEF FInv

(* What a session that is told one more message has been sent before stays. *)
LEMMA TellsSubscribers ==
  ASSUME FInv, NEW i \in Session, NEW msg \in Message, Tells(i, msg),
         UNCHANGED <<log, owner, client>>
  PROVE  Owned' /\ ShowsPublishedState' /\ InStep' /\ NotAhead'
<1>1. UNCHANGED <<current, taken, expected, view, at>>
  BY DEF client
<1>2. out' = [out EXCEPT ![i] = Append(out[i], msg)] /\ out \in [Session -> Seq(Message)]
  BY DEF Tells, Send, FInv, FeedTypeOK
<1>3. \A j \in Session \ {i} : out'[j] = out[j]
  BY <1>2
<1>4. PICK q \in Seq(Message), r \in Seq(Message) :
        q = out[i] /\ r = Append(q, msg) /\ r = out'[i]
  BY <1>2, Appended
<1>5. /\ Len(q) \in Nat /\ Len(r) = Len(q) + 1
      /\ \A k \in 1..Len(q) : r[k] = q[k]
      /\ r[Len(q) + 1] = msg
  <2>1. /\ Len(q) \in Nat /\ Len(Append(q, msg)) = Len(q) + 1
        /\ \A k \in 1..Len(q) : Append(q, msg)[k] = q[k]
        /\ Append(q, msg)[Len(q) + 1] = msg
    BY Appended
  <2>2. r = Append(q, msg)
    BY <1>4
  <2> QED
    BY <2>1, <2>2
<1>6. /\ \A k \in 0..Len(q) : After(r, k) = After(q, k)
      /\ After(r, Len(q) + 1) = msg.told
  BY <1>5 DEF After
<1>7. \A j \in Session : taken[j] \in Nat /\ taken[j] <= Len(out[j])
  BY DEF FInv, FeedTypeOK, Owned
<1>8. Owned'
  <2>1. \A j \in Session : taken[j] <= Len(out'[j])
    <3> SUFFICES ASSUME NEW j \in Session PROVE taken[j] <= Len(out'[j])
      OBVIOUS
    <3>1. CASE j = i
      BY <1>4, <1>5, <1>7, <3>1
    <3>2. CASE j # i
      BY <1>3, <1>7, <3>2
    <3> QED
      BY <3>1, <3>2
  <2> QED
    BY <1>1, <2>1 DEF FInv, Owned
<1>9. ShowsPublishedState'
  BY <1>1 DEF FInv, ShowsPublishedState
<1>10. InStep'
  <2> SUFFICES ASSUME NEW c \in Clients, Unbroken(c), NEW s \in Symbols,
                      After(out'[current[c]], taken[current[c]])[s] # 0
               PROVE  at[c][s] = After(out'[current[c]], taken[current[c]])[s]
    BY <1>1 DEF InStep, Unbroken
  <2> PICK j \in Session : j = current[c]
    BY DEF Unbroken, FInv, FeedTypeOK
  <2>1. After(out'[j], taken[j]) = After(out[j], taken[j])
    <3>1. CASE j = i
      BY <1>4, <1>6, <1>7, <3>1
    <3>2. CASE j # i
      BY <1>3, <3>2
    <3> QED
      BY <3>1, <3>2
  <2> QED
    BY <2>1 DEF FInv, InStep
<1>11. NotAhead'
  <2> SUFFICES ASSUME NEW c \in Clients, current[c] # NoSession,
                      NEW k \in taken[current[c]]..Len(out'[current[c]]), NEW s \in Symbols,
                      After(out'[current[c]], k)[s] # 0
               PROVE  at[c][s] <= After(out'[current[c]], k)[s]
    BY <1>1 DEF NotAhead
  <2> PICK j \in Session : j = current[c]
    BY DEF FInv, FeedTypeOK
  <2>1. ASSUME k \in taken[j]..Len(out[j]), After(out'[j], k) = After(out[j], k)
        PROVE  at[c][s] <= After(out'[j], k)[s]
    BY <2>1 DEF FInv, NotAhead
  <2>2. CASE j # i
    BY <1>3, <2>1, <2>2
  <2>3. CASE j = i
    <3>1. k \in Nat /\ k \in taken[j]..Len(r) /\ taken[j] \in Nat
      BY <1>4, <1>7, <2>3
    <3>2. CASE k = Len(q) + 1
      <4>1. After(out'[j], k) = msg.told
        BY <1>4, <1>6, <2>3, <3>2
      <4>2. msg.told[s] = Len(log[s])
        BY <4>1 DEF Tells
      <4>3. log[s] \in Seq(Picture) /\ at[c][s] \in DOMAIN log[s]
        BY DEF FInv, FeedTypeOK, ShowsPublishedState
      <4>4. at[c][s] <= Len(log[s])
        BY <4>3
      <4> QED
        BY <4>1, <4>2, <4>4
    <3>3. CASE k # Len(q) + 1
      <4>1. k \in taken[j]..Len(q) /\ k \in 0..Len(q)
        BY <1>5, <3>1, <3>3
      <4> QED
        BY <1>4, <1>6, <2>1, <2>3, <4>1
    <3> QED
      BY <3>2, <3>3
  <2> QED
    BY <2>2, <2>3
<1> QED
  BY <1>8, <1>9, <1>10, <1>11

(* A visit tells a session all that it was not told. *)
LEMMA VisitKeeps ==
  ASSUME FInv, NEW i \in Session, Visit(i)
  PROVE  FInv'
<1>1. FeedTypeOK'
  BY VisitTypes DEF FInv
<1>2. /\ UNCHANGED <<log, job, accepting, accepted, owner, client>>
      /\ i \in todo /\ todo' = todo \ {i}
  BY DEF Visit, acceptor, network
<1>3. Differing'
  BY <1>2 DEF FInv, Differing, Now
<1>4. \A j \in Session, s \in Symbols : j # i => (Pending(j, s)' <=> Pending(j, s))
  BY <1>2 DEF Pending
<1>5. \A s : ~Pending(i, s)'
  BY <1>2 DEF Pending
<1>6. CASE UNCHANGED <<seqNum, sent, out, told>> /\ sessions' \in {sessions, sessions \ {i}}
           /\ (i \in sessions' => \A s \in sent[i] : ~Pending(i, s))
  <2>1. Recorded'
    BY <1>2, <1>6, StillRecorded DEF FInv
  <2>2. Owned' /\ ShowsPublishedState' /\ InStep' /\ NotAhead'
    BY <1>2, <1>6, SubscribersStill
  <2>3. UpToDate'
    <3> SUFFICES ASSUME NEW j \in sessions', NEW s \in sent[j]
                 PROVE  told[j][s] = IF Pending(j, s)' THEN Len(log[s]) - 1 ELSE Len(log[s])
      BY <1>2, <1>6 DEF UpToDate
    <3>1. j \in sessions /\ j \in Session /\ s \in Symbols
      BY <1>6 DEF FInv, FeedTypeOK
    <3>2. told[j][s] = IF Pending(j, s) THEN Len(log[s]) - 1 ELSE Len(log[s])
      BY <3>1 DEF FInv, UpToDate
    <3>3. CASE j = i
      BY <1>5, <1>6, <3>2, <3>3
    <3>4. CASE j # i
      BY <1>4, <3>1, <3>2, <3>4
    <3> QED
      BY <3>3, <3>4
  <2>4. todo' \subseteq sessions' /\ sessions' \subseteq sessions
    BY <1>2, <1>6 DEF FInv, Listed
  <2>5. Listed'
    BY <1>2, <1>6, <2>4 DEF FInv, Listed, client
  <2> QED
    BY <1>1, <1>3, <2>1, <2>2, <2>3, <2>5 DEF FInv
<1>7. ASSUME NEW msg \in Message, Tells(i, msg)
      PROVE  FInv'
  <2>1. Recorded'
    BY <1>2, <1>7, TellsRecorded DEF FInv
  <2>2. Owned' /\ ShowsPublishedState' /\ InStep' /\ NotAhead'
    BY <1>2, <1>7, TellsSubscribers
  <2>3. /\ UNCHANGED sessions /\ told'[i] = msg.told
        /\ \A j \in Session \ {i} : out'[j] = out[j] /\ told'[j] = told[j] /\ sent'[j] = sent[j]
        /\ \A s \in Symbols : s \in sent'[i] <=> msg.told[s] # 0
        /\ \A s \in Symbols : msg.told[s] # 0 => msg.told[s] = Len(log[s])
    BY <1>7 DEF Tells, Send, FInv, FeedTypeOK
  <2>4. UpToDate'
    <3> SUFFICES ASSUME NEW j \in sessions, NEW s \in sent'[j]
                 PROVE  told'[j][s] = IF Pending(j, s)' THEN Len(log[s]) - 1 ELSE Len(log[s])
      BY <1>2, <2>3 DEF UpToDate
    <3>1. j \in Session /\ s \in Symbols
      BY <1>1, <2>3 DEF FInv, FeedTypeOK
    <3>2. CASE j = i
      BY <1>5, <2>3, <3>1, <3>2
    <3>3. CASE j # i
      BY <1>4, <2>3, <3>1, <3>3 DEF FInv, UpToDate
    <3> QED
      BY <3>2, <3>3
  <2>5. Listed'
    <3>1. i <= accepted /\ i \in Nat /\ accepted \in Nat
      BY <1>2 DEF FInv, Listed, FeedTypeOK, Session
    <3>2. \A j \in Session : j > accepted => j # i
      BY <3>1
    <3>3. todo' \subseteq sessions'
      BY <1>2, <2>3 DEF FInv, Listed
    <3>4. \A j \in Session : j > accepted => out'[j] = <<>> /\ sent'[j] = {}
      BY <2>3, <3>2 DEF FInv, Listed
    <3> QED
      BY <1>2, <2>3, <3>3, <3>4 DEF FInv, Listed, client
  <2> QED
    BY <1>1, <1>3, <2>1, <2>2, <2>4, <2>5 DEF FInv
<1>8. CASE Removes(i)
  BY <1>6, <1>8 DEF Removes
<1>9. CASE Skips(i)
  BY <1>6, <1>9 DEF Skips
<1> QED
  BY <1>7, <1>8, <1>9, VisitEffect

-----------------------------------------------------------------------------
(* Steps of the subscribers *)

(* Nothing was sent on a connection that is new. *)
LEMMA ConnectKeeps ==
  ASSUME FInv, NEW c \in Clients, Connect(c)
  PROVE  FInv'
<1> PICK n \in Session : n = Len(owner) + 1
  BY DEF Connect, FInv, FeedTypeOK, Session
<1>1. FeedTypeOK'
  BY ConnectTypes DEF FInv
<1>2. /\ UNCHANGED <<log, job, todo, sessions, seqNum, sent, out, told, accepting, accepted,
                     taken, view, at>>
      /\ owner' = Append(owner, c)
      /\ current' = [current EXCEPT ![c] = n]
      /\ expected' = [expected EXCEPT ![c] = 1]
      /\ Len(owner) < MaxSessions
  BY DEF Connect, publisher, server, acceptor
<1>3. /\ owner \in Seq(Clients) /\ Len(owner) \in Nat /\ n \in Nat
      /\ accepted \in Nat /\ accepted <= Len(owner)
  <2>1. owner \in Seq(Clients) /\ accepted \in Nat
    BY DEF FInv, FeedTypeOK
  <2>2. accepted <= Len(owner)
    BY DEF FInv, Listed
  <2> QED
    BY <2>1, <2>2 DEF Session
<1>4. /\ Len(owner') = n /\ DOMAIN owner' = 1..n /\ DOMAIN owner = 1..Len(owner)
      /\ \A k \in DOMAIN owner : k \in DOMAIN owner' /\ owner'[k] = owner[k]
      /\ owner'[n] = c
  BY <1>2, <1>3
<1>5. out[n] = <<>> /\ taken[n] = 0
  <2>1. n > accepted /\ n > Len(owner)
    BY <1>3
  <2> QED
    BY <2>1 DEF FInv, Listed
<1>6. /\ current'[c] = n /\ expected'[c] = 1
      /\ \A d \in Clients \ {c} : current'[d] = current[d] /\ expected'[d] = expected[d]
  BY <1>2 DEF FInv, FeedTypeOK
<1>7. Recorded'
  BY <1>2, StillRecorded DEF FInv
<1>8. Listed'
  <2>1. accepted <= Len(owner') /\ Len(owner') <= MaxSessions
    BY <1>2, <1>3, <1>4
  <2>2. \A i \in Session : i > n => i > Len(owner)
    BY <1>3 DEF Session
  <2> QED
    BY <1>2, <1>4, <2>1, <2>2 DEF FInv, Listed
<1>9. UpToDate' /\ Differing' /\ ShowsPublishedState'
  BY <1>2 DEF FInv, UpToDate, Pending, Differing, Now, ShowsPublishedState
<1>10. Owned'
  <2> SUFFICES ASSUME NEW d \in Clients, current'[d] # NoSession
               PROVE  /\ current'[d] \in DOMAIN owner'
                      /\ owner'[current'[d]] = d
                      /\ expected'[d] <= taken[current'[d]] + 1
    BY <1>2 DEF FInv, Owned
  <2>1. CASE d = c
    BY <1>3, <1>4, <1>5, <1>6, <2>1
  <2>2. CASE d # c
    BY <1>4, <1>6, <2>2 DEF FInv, Owned
  <2> QED
    BY <2>1, <2>2
<1>11. InStep'
  <2> SUFFICES ASSUME NEW d \in Clients, Unbroken(d)', NEW s \in Symbols,
                      After(out[current'[d]], taken[current'[d]])[s] # 0
               PROVE  at[d][s] = After(out[current'[d]], taken[current'[d]])[s]
    BY <1>2 DEF InStep
  <2>1. CASE d = c
    BY <1>5, <1>6, <2>1 DEF After, NoneTold
  <2>2. CASE d # c
    BY <1>2, <1>6, <2>2 DEF FInv, InStep, Unbroken
  <2> QED
    BY <2>1, <2>2
<1>12. NotAhead'
  <2> SUFFICES ASSUME NEW d \in Clients, current'[d] # NoSession,
                      NEW k \in taken[current'[d]]..Len(out[current'[d]]), NEW s \in Symbols,
                      After(out[current'[d]], k)[s] # 0
               PROVE  at[d][s] <= After(out[current'[d]], k)[s]
    BY <1>2 DEF NotAhead
  <2>1. CASE d = c
    <3>1. k = 0
      BY <1>5, <1>6, <2>1
    <3> QED
      BY <3>1 DEF After, NoneTold
  <2>2. CASE d # c
    BY <1>6, <2>2 DEF FInv, NotAhead
  <2> QED
    BY <2>1, <2>2
<1> QED
  BY <1>1, <1>7, <1>8, <1>9, <1>10, <1>11, <1>12 DEF FInv

(* A client that hangs up keeps what it shows. *)
LEMMA HangsUpKeeps ==
  ASSUME FInv, FeedTypeOK', NEW c \in Clients,
         UNCHANGED <<publisher, server, acceptor, network, expected, view, at>>,
         current' = [current EXCEPT ![c] = NoSession],
         \A i \in Session : taken'[i] \in Nat /\ taken'[i] <= Len(out[i]),
         \A i \in Session : i > Len(owner) => taken'[i] = 0,
         \A d \in Clients \ {c} : current[d] # NoSession => taken'[current[d]] = taken[current[d]]
  PROVE  FInv'
<1>1. UNCHANGED <<log, job, todo, sessions, seqNum, sent, out, told, accepting, accepted, owner>>
  BY DEF publisher, server, acceptor, network
<1>2. /\ current'[c] = NoSession
      /\ \A d \in Clients \ {c} : current'[d] = current[d]
  BY DEF FInv, FeedTypeOK
<1>3. Recorded'
  BY <1>1, StillRecorded DEF FInv
<1>4. Listed'
  BY <1>1 DEF FInv, Listed
<1>5. UpToDate' /\ Differing' /\ ShowsPublishedState'
  BY <1>1 DEF FInv, UpToDate, Pending, Differing, Now, ShowsPublishedState
<1>6. Owned'
  <2> SUFFICES ASSUME NEW d \in Clients, current'[d] # NoSession
               PROVE  /\ current'[d] \in DOMAIN owner
                      /\ owner[current'[d]] = d
                      /\ expected[d] <= taken'[current'[d]] + 1
    BY <1>1 DEF Owned
  <2>1. d # c /\ current'[d] = current[d] /\ taken'[current[d]] = taken[current[d]]
    BY <1>2
  <2> QED
    BY <2>1 DEF FInv, Owned
<1>7. InStep'
  <2> SUFFICES ASSUME NEW d \in Clients, Unbroken(d)', NEW s \in Symbols,
                      After(out[current'[d]], taken'[current'[d]])[s] # 0
               PROVE  at[d][s] = After(out[current'[d]], taken'[current'[d]])[s]
    BY <1>1 DEF InStep
  <2>1. d # c /\ current'[d] = current[d] /\ current[d] # NoSession
    BY <1>2 DEF Unbroken
  <2>2. taken'[current[d]] = taken[current[d]]
    BY <2>1
  <2>3. Unbroken(d)
    BY <2>1, <2>2 DEF Unbroken
  <2> QED
    BY <2>1, <2>2, <2>3 DEF FInv, InStep
<1>8. NotAhead'
  <2> SUFFICES ASSUME NEW d \in Clients, current'[d] # NoSession,
                      NEW k \in taken'[current'[d]]..Len(out[current'[d]]), NEW s \in Symbols,
                      After(out[current'[d]], k)[s] # 0
               PROVE  at[d][s] <= After(out[current'[d]], k)[s]
    BY <1>1 DEF NotAhead
  <2>1. d # c /\ current'[d] = current[d]
    BY <1>2
  <2>2. taken'[current[d]] = taken[current[d]]
    BY <2>1
  <2> QED
    BY <2>1, <2>2 DEF FInv, NotAhead
<1> QED
  BY <1>3, <1>4, <1>5, <1>6, <1>7, <1>8 DEF FInv

(* Different clients have different sessions. *)
LEMMA OneClientEach ==
  ASSUME FInv, NEW c \in Clients, NEW d \in Clients, c # d,
         current[c] # NoSession, current[d] # NoSession
  PROVE  current[c] # current[d]
BY DEF FInv, Owned

LEMMA ReadFailsKeeps ==
  ASSUME FInv, NEW c \in Clients, ReadFails(c)
  PROVE  FInv'
<1>1. FeedTypeOK'
  BY ReadFailsTypes DEF FInv
<1>2. /\ UNCHANGED <<publisher, server, acceptor, network, taken, expected, view, at>>
      /\ current' = [current EXCEPT ![c] = NoSession]
  BY DEF ReadFails
<1>3. /\ \A i \in Session : taken[i] \in Nat /\ taken[i] <= Len(out[i])
      /\ \A i \in Session : i > Len(owner) => taken[i] = 0
  BY DEF FInv, FeedTypeOK, Owned, Listed
<1> QED
  BY <1>1, <1>2, <1>3, HangsUpKeeps

(* What a read takes from the socket of a session. *)
LEMMA ReadTakes ==
  ASSUME FInv, NEW c \in Clients, NEW count \in 1..MaxRead, Receive(c, count)
  PROVE  /\ current[c] \in Session
         /\ taken'[current[c]] = taken[current[c]] + count
         /\ \A j \in Session \ {current[c]} : taken'[j] = taken[j]
         /\ \A j \in Session : taken'[j] \in Nat /\ taken'[j] <= Len(out[j])
         /\ \A j \in Session : j > Len(owner) => taken'[j] = 0
         /\ \A d \in Clients \ {c} :
              current[d] # NoSession => taken'[current[d]] = taken[current[d]]
<1> PICK i : i = current[c]
  OBVIOUS
<1>1. /\ i \in Session /\ i # NoSession /\ taken[i] + count <= Len(out[i])
      /\ taken' = [taken EXCEPT ![i] = taken[i] + count]
      /\ taken \in [Session -> Nat] /\ count \in Nat
  BY DEF Receive, FInv, FeedTypeOK
<1>2. taken'[i] = taken[i] + count /\ \A j \in Session \ {i} : taken'[j] = taken[j]
  BY <1>1
<1>3. \A j \in Session : taken[j] \in Nat /\ taken[j] <= Len(out[j])
  BY <1>1 DEF FInv, Owned
<1>4. ASSUME NEW j \in Session
      PROVE  taken'[j] \in Nat /\ taken'[j] <= Len(out[j])
  BY <1>1, <1>2, <1>3
<1>5. ASSUME NEW j \in Session, j > Len(owner)
      PROVE  taken'[j] = 0
  <2>1. i \in DOMAIN owner /\ owner \in Seq(Clients)
    BY <1>1 DEF FInv, Owned, FeedTypeOK
  <2>2. i <= Len(owner) /\ Len(owner) \in Nat
    BY <2>1
  <2>3. j # i
    BY <1>1, <1>5, <2>2 DEF Session
  <2> QED
    BY <1>2, <1>5, <2>3 DEF FInv, Listed
<1>6. ASSUME NEW d \in Clients \ {c}, current[d] # NoSession
      PROVE  taken'[current[d]] = taken[current[d]]
  <2>1. current[d] # i /\ current[d] \in Session
    BY <1>1, <1>6, OneClientEach DEF FInv, FeedTypeOK
  <2> QED
    BY <1>2, <2>1
<1> QED
  BY <1>1, <1>2, <1>4, <1>5, <1>6

(* A message in sequence leads from the state the client shows to a state  *)
(* that is not older.                                                      *)
LEMMA HandledMessage ==
  ASSUME FInv, NEW c \in Clients, NEW count \in 1..MaxRead, Receive(c, count),
         NEW i \in Session, i = current[c],
         NEW msg, msg = out[i][taken[i] + 1], InSequence(c, msg)
  PROVE  /\ msg \in Message /\ Unbroken(c)
         /\ taken[i] + 1 \in 1..Len(out[i])
         /\ After(out[i], taken[i] + 1) = msg.told
         /\ Continues(log, After(out[i], taken[i]), msg)
         /\ \A s \in Symbols : msg.told[s] # 0 => at[c][s] <= msg.told[s]
<1> PICK n \in Nat, q \in Seq(Message) : n = taken[i] /\ q = out[i]
  BY DEF FInv, FeedTypeOK
<1>1. n + 1 \in 1..Len(q) /\ msg \in Message
  BY ReadMessage DEF FInv
<1>2. msg = q[n + 1] /\ (n + 1) - 1 = n /\ n + 1 # 0
  OBVIOUS
<1>3. Record(log, q, seqNum[i], told[i], sent[i])
  BY DEF FInv, Recorded
<1>4. msg.seq = n + 1
  BY <1>1, <1>2, <1>3 DEF Record, Numbered
<1>5. Unbroken(c)
  BY <1>4 DEF Unbroken, InSequence, Session, NoSession
<1>6. After(q, n + 1) = msg.told
  BY <1>2 DEF After
<1>7. Continues(log, After(q, n), msg)
  <2>1. Continues(log, After(q, (n + 1) - 1), q[n + 1])
    BY <1>1, <1>3 DEF Record, Chained
  <2> QED
    BY <1>2, <2>1
<1>8. ASSUME NEW s \in Symbols, msg.told[s] # 0
      PROVE  at[c][s] <= msg.told[s]
  <2>1. n + 1 \in n..Len(q)
    BY <1>1
  <2>2. i # NoSession
    BY DEF Session, NoSession
  <2> QED
    BY <1>6, <1>8, <2>1, <2>2 DEF FInv, NotAhead
<1> QED
  BY <1>1, <1>5, <1>6, <1>7, <1>8

(* A client that lost nothing handles a message that continues what it     *)
(* took before.                                                            *)
Handles(c, i, msg) ==
  /\ i = current[c]
  /\ Unbroken(c)
  /\ HandleMessage(c, msg)
  /\ Continues(log, After(out[i], taken[i]), msg)

(* What the client shows then. *)
HandledEffect(c, msg) ==
  /\ \A d \in Clients \ {c} : at'[d] = at[d] /\ view'[d] = view[d]
  /\ \A s \in Symbols \ {msg.symbol} : at'[c][s] = at[c][s] /\ view'[c][s] = view[c][s]
  /\ \A s \in Symbols : \/ at'[c][s] = at[c][s]
                        \/ at'[c][s] = msg.told[s] /\ msg.told[s] # 0
  /\ \A s \in Symbols : at'[c][s] \in 1..Len(log[s]) /\ view'[c][s] = log[s][at'[c][s]]
  /\ \A s \in Symbols : msg.told[s] # 0 => at'[c][s] = msg.told[s]

(* A client takes a message. *)
LEMMA HandledShows ==
  ASSUME FInv, NEW c \in Clients, NEW i \in Session, NEW msg \in Message,
         Handles(c, i, msg)
  PROVE  HandledEffect(c, msg)
<1>0. /\ i = current[c] /\ Unbroken(c) /\ HandleMessage(c, msg)
      /\ Continues(log, After(out[i], taken[i]), msg)
  BY DEF Handles
<1> PICK s \in Symbols : s = msg.symbol
  BY DEF Message
<1> PICK prev : prev = After(out[i], taken[i])
  OBVIOUS
<1>1. prev \in [Symbols -> Nat] /\ msg.told \in [Symbols -> Nat]
  <2>1. out[i] \in Seq(Message) /\ taken[i] \in 0..Len(out[i])
    BY DEF FInv, FeedTypeOK, Owned
  <2> QED
    BY <2>1, AfterType DEF Message
<1>2. \A t \in Symbols : prev[t] # 0 => at[c][t] = prev[t]
  BY <1>0 DEF FInv, InStep
<1>3. \A t \in Symbols : at[c][t] \in 1..Len(log[t]) /\ view[c][t] = log[t][at[c][t]]
  <2>1. \A t \in Symbols : DOMAIN log[t] = 1..Len(log[t])
    BY DEF FInv, FeedTypeOK
  <2> QED
    BY <2>1 DEF FInv, ShowsPublishedState
<1>4. view \in [Clients -> [Symbols -> Picture]] /\ at \in [Clients -> [Symbols -> Nat]]
  BY DEF FInv, FeedTypeOK
<1>5. CASE msg.kind = "trade"
  <2>1. UNCHANGED <<view, at>>
    BY <1>0, <1>5 DEF HandleMessage
  <2>2. msg.told = prev
    BY <1>0, <1>5 DEF Continues
  <2> QED
    BY <1>2, <1>3, <2>1, <2>2 DEF HandledEffect
<1>6. CASE msg.kind # "trade"
  <2>1. /\ view' = [view EXCEPT ![c][s] = Shown(view[c][s], msg.levels)]
        /\ at' = [at EXCEPT ![c][s] = msg.told[s]]
    BY <1>0, <1>6 DEF HandleMessage
  <2>2. /\ \A d \in Clients \ {c} : at'[d] = at[d] /\ view'[d] = view[d]
        /\ \A t \in Symbols \ {s} : at'[c][t] = at[c][t] /\ view'[c][t] = view[c][t]
        /\ at'[c][s] = msg.told[s] /\ view'[c][s] = Shown(view[c][s], msg.levels)
    BY <1>4, <2>1
  <2>3. /\ msg.told[s] \in 1..Len(log[s])
        /\ Shown(view[c][s], msg.levels) = log[s][msg.told[s]]
        /\ \A t \in Symbols \ {s} : msg.told[t] = prev[t]
    <3>1. CASE /\ msg.kind = "full"
               /\ msg.told[s] \in 1..Len(log[s])
               /\ msg.told = [prev EXCEPT ![s] = msg.told[s]]
               /\ msg.levels = log[s][msg.told[s]]
      <4>1. log[s][msg.told[s]] \in Picture
        BY <3>1, NowIsPicture DEF FInv
      <4>2. Shown(view[c][s], msg.levels) = msg.levels
        BY <3>1, <4>1 DEF Shown, Picture
      <4> QED
        BY <1>1, <3>1, <4>2
    <3>2. CASE /\ msg.kind = "incr"
               /\ prev[s] # 0
               /\ prev[s] + 1 \in 1..Len(log[s])
               /\ msg.told = [prev EXCEPT ![s] = prev[s] + 1]
               /\ Shown(log[s][prev[s]], msg.levels) = log[s][prev[s] + 1]
      <4>1. view[c][s] = log[s][prev[s]]
        BY <1>2, <1>3, <3>2
      <4>2. msg.told[s] = prev[s] + 1 /\ \A t \in Symbols \ {s} : msg.told[t] = prev[t]
        BY <1>1, <3>2
      <4> QED
        BY <3>2, <4>1, <4>2
    <3> QED
      BY <1>0, <1>6, <3>1, <3>2 DEF Continues
  <2>4. msg.told[s] # 0
    <3>1. msg.told[s] \in Nat /\ Len(log[s]) \in Nat
      BY <1>1, NowIsPicture DEF FInv
    <3> QED
      BY <2>3, <3>1
  <2>5. ASSUME NEW t \in Symbols
        PROVE  /\ \/ at'[c][t] = at[c][t]
                  \/ at'[c][t] = msg.told[t] /\ msg.told[t] # 0
               /\ at'[c][t] \in 1..Len(log[t]) /\ view'[c][t] = log[t][at'[c][t]]
               /\ msg.told[t] # 0 => at'[c][t] = msg.told[t]
    <3>1. CASE t = s
      BY <2>2, <2>3, <2>4, <3>1
    <3>2. CASE t # s
      BY <1>2, <1>3, <2>2, <2>3, <3>2
    <3> QED
      BY <3>1, <3>2
  <2> QED
    BY <2>2, <2>5 DEF HandledEffect
<1> QED
  BY <1>5, <1>6

LEMMA ReceiveKeeps ==
  ASSUME FInv, NEW c \in Clients, NEW count \in 1..MaxRead, Receive(c, count)
  PROVE  FInv'
<1> PICK i \in Session : i = current[c]
  BY ReadTakes
<1> PICK msg : msg = out[i][taken[i] + 1]
  OBVIOUS
<1>1. FeedTypeOK'
  BY ReceiveTypes DEF FInv
<1>2. UNCHANGED <<publisher, server, acceptor, network>>
  BY DEF Receive
<1>3. /\ taken'[i] = taken[i] + count /\ taken[i] \in Nat
      /\ \A j \in Session : taken'[j] \in Nat /\ taken'[j] <= Len(out[j])
      /\ \A j \in Session : j > Len(owner) => taken'[j] = 0
      /\ \A d \in Clients \ {c} :
           current[d] # NoSession => taken'[current[d]] = taken[current[d]]
  BY ReadTakes DEF FInv, FeedTypeOK
<1>4. CASE ~InSequence(c, msg)
  <2>1. current' = [current EXCEPT ![c] = NoSession] /\ UNCHANGED <<expected, view, at>>
    BY <1>4 DEF Receive
  <2> QED
    BY <1>1, <1>2, <1>3, <2>1, HangsUpKeeps
<1>5. CASE InSequence(c, msg)
  <2>1. HandleMessage(c, msg) /\ UNCHANGED current
    BY <1>5 DEF Receive
  <2>2. /\ msg \in Message /\ Unbroken(c)
        /\ taken[i] + 1 \in 1..Len(out[i])
        /\ After(out[i], taken[i] + 1) = msg.told
        /\ Continues(log, After(out[i], taken[i]), msg)
        /\ \A s \in Symbols : msg.told[s] # 0 => at[c][s] <= msg.told[s]
    BY <1>5, HandledMessage
  <2>3. /\ \A d \in Clients \ {c} : at'[d] = at[d] /\ view'[d] = view[d]
        /\ \A s \in Symbols : \/ at'[c][s] = at[c][s]
                              \/ at'[c][s] = msg.told[s] /\ msg.told[s] # 0
        /\ \A s \in Symbols : at'[c][s] \in 1..Len(log[s]) /\ view'[c][s] = log[s][at'[c][s]]
        /\ \A s \in Symbols : msg.told[s] # 0 => at'[c][s] = msg.told[s]
    <3>1. Handles(c, i, msg)
      BY <2>1, <2>2 DEF Handles
    <3>2. msg \in Message
      BY <2>2
    <3>3. HandledEffect(c, msg)
      BY <3>1, <3>2, HandledShows
    <3> QED
      BY <3>3 DEF HandledEffect
  <2>4. UNCHANGED <<log, job, todo, sessions, seqNum, sent, out, told, accepting, accepted,
                    owner, current>>
    BY <1>2, <2>1 DEF publisher, server, acceptor, network
  <2>5. /\ expected'[c] = expected[c] + 1 /\ expected[c] \in Nat
        /\ \A d \in Clients \ {c} : expected'[d] = expected[d]
    <3>1. expected' = [expected EXCEPT ![c] = @ + 1]
      BY <2>1 DEF HandleMessage
    <3>2. expected \in [Clients -> Nat]
      BY DEF FInv, FeedTypeOK
    <3> QED
      BY ONLY <3>1, <3>2, c \in Clients
  <2>6. expected[c] = taken[i] + 1 /\ count \in Nat /\ count >= 1
    <3>1. expected[c] = taken[i] + 1
      BY <2>2 DEF Unbroken
    <3> QED
      BY <3>1
  <2>7. Recorded'
    BY <2>4, StillRecorded DEF FInv
  <2>8. Listed'
    BY <1>3, <2>4 DEF FInv, Listed
  <2>9. UpToDate' /\ Differing'
    BY <2>4 DEF FInv, UpToDate, Pending, Differing, Now
  <2>10. ShowsPublishedState'
    <3> SUFFICES ASSUME NEW d \in Clients, NEW s \in Symbols
                 PROVE  at'[d][s] \in DOMAIN log[s] /\ view'[d][s] = log[s][at'[d][s]]
      BY <2>4 DEF ShowsPublishedState
    <3>1. CASE d = c
      <4>1. DOMAIN log[s] = 1..Len(log[s])
        BY DEF FInv, FeedTypeOK
      <4> QED
        BY <2>3, <3>1, <4>1
    <3>2. CASE d # c
      BY <2>3, <3>2 DEF FInv, ShowsPublishedState
    <3> QED
      BY <3>1, <3>2
  <2>11. Owned'
    <3> SUFFICES ASSUME NEW d \in Clients, current[d] # NoSession
                 PROVE  /\ current[d] \in DOMAIN owner
                        /\ owner[current[d]] = d
                        /\ expected'[d] <= taken'[current[d]] + 1
      BY <1>3, <2>4 DEF Owned
    <3>1. CASE d = c
      <4>1. expected'[c] <= taken'[i] + 1
        BY <1>3, <2>5, <2>6
      <4> QED
        BY <3>1, <4>1 DEF FInv, Owned
    <3>2. CASE d # c
      BY <1>3, <2>5, <3>2 DEF FInv, Owned
    <3> QED
      BY <3>1, <3>2
  <2>12. InStep'
    <3> SUFFICES ASSUME NEW d \in Clients, Unbroken(d)', NEW s \in Symbols,
                        After(out[current[d]], taken'[current[d]])[s] # 0
                 PROVE  at'[d][s] = After(out[current[d]], taken'[current[d]])[s]
      BY <2>4 DEF InStep
    <3>1. CASE d = c
      <4>1. expected'[c] = taken'[i] + 1
        BY <2>4, <3>1 DEF Unbroken
      <4>2. taken'[i] = taken[i] + 1
        BY <1>3, <2>5, <2>6, <4>1
      <4>3. After(out[current[d]], taken'[current[d]]) = msg.told
        BY <2>2, <3>1, <4>2
      <4>4. msg.told[s] # 0
        BY <4>3
      <4>5. at'[c][s] = msg.told[s]
        BY <2>3, <4>4
      <4> QED
        BY <3>1, <4>3, <4>5
    <3>2. CASE d # c
      <4>1. current[d] # NoSession /\ expected[d] = taken'[current[d]] + 1
        BY <2>4, <2>5, <3>2 DEF Unbroken
      <4>2. Unbroken(d) /\ taken'[current[d]] = taken[current[d]]
        BY <1>3, <3>2, <4>1 DEF Unbroken
      <4> QED
        BY <2>3, <3>2, <4>2 DEF FInv, InStep
    <3> QED
      BY <3>1, <3>2
  <2>13. NotAhead'
    <3> SUFFICES ASSUME NEW d \in Clients, current[d] # NoSession,
                        NEW k \in taken'[current[d]]..Len(out[current[d]]), NEW s \in Symbols,
                        After(out[current[d]], k)[s] # 0
                 PROVE  at'[d][s] <= After(out[current[d]], k)[s]
      BY <2>4 DEF NotAhead
    <3>1. CASE d = c
      <4>1. k \in Nat /\ taken[i] + 1 <= k /\ k <= Len(out[i]) /\ Len(out[i]) \in Nat
        <5>1. out[i] \in Seq(Message)
          BY DEF FInv, FeedTypeOK
        <5> QED
          BY <1>3, <2>6, <3>1, <5>1
      <4>2. CASE at'[c][s] = at[c][s]
        <5>1. k \in taken[i]..Len(out[i])
          BY <1>3, <4>1
        <5> QED
          BY <3>1, <4>2, <5>1 DEF FInv, NotAhead
      <4>3. CASE at'[c][s] = msg.told[s]
        <5>1. taken[i] + 1 \in 0..k /\ k \in 0..Len(out[i])
          BY <1>3, <4>1
        <5>2. Rising(out[i])
          BY DEF FInv, Recorded, Record
        <5>3. After(out[i], taken[i] + 1)[s] <= After(out[i], k)[s]
          BY <5>1, <5>2 DEF Rising
        <5> QED
          BY <2>2, <3>1, <4>3, <5>3
      <4> QED
        BY <2>3, <4>2, <4>3
    <3>2. CASE d # c
      BY <1>3, <2>3, <3>2 DEF FInv, NotAhead
    <3> QED
      BY <3>1, <3>2
  <2> QED
    BY <1>1, <2>7, <2>8, <2>9, <2>10, <2>11, <2>12, <2>13 DEF FInv
<1> QED
  BY <1>4, <1>5

-----------------------------------------------------------------------------
(* The invariant holds in every state *)

LEMMA InitFInv == Init => FInv
<1> SUFFICES ASSUME Init PROVE FInv
  OBVIOUS
<1>1. FeedTypeOK
  BY InitTypes
<1>2. Listed
  BY DEF Init, Listed, NoSession
<1>3. Owned
  BY DEF Init, Owned
<1>4. Recorded
  <2> SUFFICES ASSUME NEW i \in Session
               PROVE  Record(log, out[i], seqNum[i], told[i], sent[i])
    BY DEF Recorded
  <2>1. out[i] = <<>> /\ seqNum[i] = 0 /\ told[i] = NoneTold /\ sent[i] = {} /\ Len(out[i]) = 0
    BY DEF Init, NoneTold
  <2>2. \A s \in Symbols : Len(log[s]) \in Nat
    BY <1>1, NowIsPicture
  <2>3. Numbered(out[i], seqNum[i])
    BY <2>1 DEF Numbered
  <2>4. Tracked(log, out[i], told[i], sent[i])
    BY <2>1, <2>2 DEF Tracked, After, NoneTold
  <2>5. Chained(log, out[i])
    BY <2>1 DEF Chained
  <2>6. Rising(out[i])
    BY <2>1 DEF Rising, After, NoneTold
  <2> QED
    BY <2>3, <2>4, <2>5, <2>6 DEF Record
<1>5. UpToDate /\ Differing
  BY DEF Init, UpToDate, Differing, NoJob
<1>6. ShowsPublishedState
  BY DEF Init, ShowsPublishedState
<1>7. InStep /\ NotAhead
  BY DEF Init, InStep, NotAhead, Unbroken
<1> QED
  BY <1>1, <1>2, <1>3, <1>4, <1>5, <1>6, <1>7 DEF FInv

LEMMA NextKeepsFInv ==
  ASSUME FInv, [Next]_vars
  PROVE  FInv'
<1>1. ASSUME NEW s \in Symbols, DepthChange(s) PROVE FInv'
  BY <1>1, DepthChangeKeeps
<1>2. ASSUME NEW s \in Symbols, Trade(s) PROVE FInv'
  BY <1>2, TradeKeeps
<1>3. CASE PublisherStep
  BY <1>3, LoopEndsKeeps, VisitKeeps DEF PublisherStep
<1>4. CASE AcceptPush
  BY <1>4, AcceptPushKeeps
<1>5. CASE AcceptDone
  <2>1. FeedTypeOK'
    BY <1>5, AcceptDoneTypes DEF FInv
  <2>2. /\ UNCHANGED <<log, job, todo, sessions, seqNum, sent, out, told, accepted, owner, client>>
        /\ accepting' = NoSession
    BY <1>5 DEF AcceptDone, publisher, network
  <2> QED
    BY <2>1, <2>2, SocketsKeep
<1>6. ASSUME NEW i \in Session, SendFails(i) \/ Break(i) PROVE FInv'
  <2>1. FeedTypeOK'
    BY <1>6, NetworkTypes DEF FInv
  <2>2. UNCHANGED <<log, job, todo, sessions, seqNum, sent, out, told, accepting, accepted,
                    owner, client>>
    BY <1>6 DEF SendFails, Break, publisher, server, acceptor, network
  <2> QED
    BY <2>1, <2>2, SocketsKeep
<1>7. ASSUME NEW c \in Clients, Connect(c) PROVE FInv'
  BY <1>7, ConnectKeeps
<1>8. ASSUME NEW c \in Clients, ReadSomething(c) PROVE FInv'
  BY <1>8, ReadFailsKeeps, ReceiveKeeps DEF ReadSomething
<1>9. CASE UNCHANGED vars
  <2>1. FeedTypeOK'
    BY <1>9 DEF FInv, FeedTypeOK, vars, publisher, server, acceptor, network, client
  <2>2. UNCHANGED <<log, job, todo, sessions, seqNum, sent, out, told, accepting, accepted,
                    owner, client>>
    BY <1>9 DEF vars, publisher, server, acceptor, network
  <2> QED
    BY <2>1, <2>2, SocketsKeep
<1> QED
  BY <1>1, <1>2, <1>3, <1>4, <1>5, <1>6, <1>7, <1>8, <1>9 DEF Next

(* The invariant is one of every behaviour. *)
LEMMA FInvAlways == Spec => []FInv
<1>1. Init => FInv
  BY InitFInv
<1>2. FInv /\ [Next]_vars => FInv'
  BY NextKeepsFInv
<1> QED
  BY <1>1, <1>2, PTL DEF Spec

-----------------------------------------------------------------------------
(* Theorems *)

(* Every variable of the feed keeps its type: sessions, messages, pictures *)
(* and numbers stay what on_accept(), send_incr_update(), send_full_update *)
(* and on_receive() take them to be, whatever is lost on the way.          *)
THEOREM FeedIsTyped == Spec => []FeedTypeOK
<1>1. FInv => FeedTypeOK
  BY DEF FInv
<1> QED
  BY <1>1, FInvAlways, PTL

(* What handle_depth_message() leaves in depth_map_ is the whole of one    *)
(* state the publisher was in, for every number of clients, symbols,       *)
(* sessions, events and lost messages.                                     *)
THEOREM ShowsPublished == Spec => []ShowsPublishedState
<1>1. FInv => ShowsPublishedState
  BY DEF FInv
<1> QED
  BY <1>1, FInvAlways, PTL

(* A client that took all its session was sent shows what on_depth_change  *)
(* published last of every symbol the session was started for.             *)
THEOREM ReadersCatchUp == Spec => []CaughtUp
<1>1. FInv => CaughtUp
  <2> SUFFICES ASSUME FInv, NEW c \in Clients, NEW s \in Symbols,
                      Unbroken(c), taken[current[c]] = Len(out[current[c]]),
                      job.step = "idle", current[c] \in sessions, s \in sent[current[c]]
               PROVE  view[c][s] = Now(s)
    BY DEF CaughtUp
  <2> PICK i \in Session : i = current[c]
    BY DEF FInv, FeedTypeOK, Unbroken
  <2>1. told[i][s] = Len(log[s])
    BY DEF FInv, UpToDate, Pending
  <2>2. After(out[i], taken[i])[s] = told[i][s] /\ told[i][s] # 0
    BY DEF FInv, Recorded, Record, Tracked
  <2>3. at[c][s] = Len(log[s])
    BY <2>1, <2>2 DEF FInv, InStep
  <2> QED
    BY <2>3 DEF FInv, ShowsPublishedState, Now
<1> QED
  BY <1>1, FInvAlways, PTL

(* on_receive() closes a session that works only when a number is missing: *)
(* the numbers that set_sequence_num() gives have no gap of their own.     *)
THEOREM HangsUpOnlyOnLoss == Spec => RefusesOnlyLoss
<1> DEFINE Refuses ==
      \A c \in Clients :
        current[c] # NoSession /\ current'[c] # current[c]
          => \/ ~Unbroken(c)
             \/ broken[current[c]] \/ closed[current[c]]
<1>1. ASSUME FInv, [Next]_vars
      PROVE  [Refuses]_vars
  <2> SUFFICES ASSUME Next PROVE Refuses
    BY <1>1
  <2> SUFFICES ASSUME NEW c \in Clients, current[c] # NoSession, current'[c] # current[c],
                      Unbroken(c), ~broken[current[c]], ~closed[current[c]]
               PROVE  FALSE
    OBVIOUS
  <2>1. CASE UNCHANGED current
    BY <2>1
  <2>2. ASSUME NEW d \in Clients, Connect(d) PROVE FALSE
    <3>1. d # c
      BY <2>2 DEF Connect
    <3> QED
      BY <1>1, <2>2, <3>1 DEF Connect, FInv, FeedTypeOK
  <2>3. ASSUME NEW d \in Clients, ReadFails(d) PROVE FALSE
    <3>1. d # c
      BY <2>3 DEF ReadFails
    <3> QED
      BY <1>1, <2>3, <3>1 DEF ReadFails, FInv, FeedTypeOK
  <2>4. ASSUME NEW d \in Clients, NEW count \in 1..MaxRead, Receive(d, count) PROVE FALSE
    <3>1. current' = [current EXCEPT ![d] = NoSession]
          /\ ~InSequence(d, out[current[d]][taken[current[d]] + 1])
      BY <2>1, <2>4 DEF Receive
    <3>2. d = c
      BY <1>1, <3>1 DEF FInv, FeedTypeOK
    <3> PICK i \in Session : i = current[c]
      BY <1>1 DEF FInv, FeedTypeOK
    <3>3. taken[i] + 1 \in 1..Len(out[i])
      BY <1>1, <2>4, <3>2, ReadMessage DEF FInv
    <3>4. out[i][taken[i] + 1].seq = taken[i] + 1
      BY <1>1, <3>3 DEF FInv, Recorded, Record, Numbered
    <3> QED
      BY <3>1, <3>2, <3>4 DEF Unbroken, InSequence
  <2>5. CASE \/ \E s \in Symbols : DepthChange(s) \/ Trade(s)
             \/ PublisherStep \/ AcceptPush \/ AcceptDone
             \/ \E i \in Session : SendFails(i) \/ Break(i)
    <3>1. UNCHANGED client
      BY <2>5 DEF DepthChange, Trade, PublisherStep, LoopEnds, Visit, AcceptPush, AcceptDone,
                  SendFails, Break
    <3> QED
      BY <2>1, <3>1 DEF client
  <2> QED
    BY <2>2, <2>3, <2>4, <2>5 DEF Next, ReadSomething
<1>2. (FInv /\ [Next]_vars) => [Refuses]_vars
  BY <1>1
<1> QED
  BY <1>2, FInvAlways, PTL DEF Spec, RefusesOnlyLoss

(* Setting a symbol of a client to what it is changes nothing. *)
LEMMA SetToTheSame ==
  ASSUME NEW X, NEW f \in [Clients -> [Symbols -> X]], NEW c \in Clients, NEW s \in Symbols,
         NEW x, x = f[c][s]
  PROVE  [f EXCEPT ![c][s] = x] = f
OBVIOUS

(* No state the message brings is older than what the client shows. *)
NotOlder(c, msg) == \A s \in Symbols : msg.told[s] # 0 => at[c][s] <= msg.told[s]

(* A message that changes what a client shows moves one symbol forward. *)
LEMMA HandledMovesForward ==
  ASSUME FInv, NEW c \in Clients, NEW i \in Session, NEW msg \in Message,
         Handles(c, i, msg), NotOlder(c, msg), UNCHANGED log, ~UNCHANGED <<at, view>>
  PROVE  \E s \in Symbols : Mirror!MoveForward(c, s)
<1>1. HandleMessage(c, msg)
  BY DEF Handles
<1>2. \A s \in Symbols : msg.told[s] # 0 => at[c][s] <= msg.told[s]
  BY DEF NotOlder
<1> PICK s \in Symbols : s = msg.symbol
  BY DEF Message
<1>3. /\ \A t \in Symbols : \/ at'[c][t] = at[c][t]
                            \/ at'[c][t] = msg.told[t] /\ msg.told[t] # 0
      /\ at'[c][s] \in 1..Len(log[s]) /\ view'[c][s] = log[s][at'[c][s]]
  <2>1. HandledEffect(c, msg)
    BY HandledShows
  <2> QED
    BY <2>1 DEF HandledEffect
<1>4. /\ at' = [at EXCEPT ![c][s] = at'[c][s]]
      /\ view' = [view EXCEPT ![c][s] = view'[c][s]]
  <2>1. /\ at' = [at EXCEPT ![c][s] = msg.told[s]]
        /\ view' = [view EXCEPT ![c][s] = Shown(view[c][s], msg.levels)]
    BY <1>1 DEF HandleMessage
  <2>2. at'[c][s] = msg.told[s] /\ view'[c][s] = Shown(view[c][s], msg.levels)
    BY <2>1 DEF FInv, FeedTypeOK
  <2> QED
    BY <2>1, <2>2
<1>5. at[c][s] \in Nat /\ view[c][s] = log[s][at[c][s]] /\ DOMAIN log[s] = 1..Len(log[s])
  <2>1. at[c][s] \in Nat /\ DOMAIN log[s] = 1..Len(log[s])
    <3>1. FeedTypeOK
      BY DEF FInv
    <3>2. log[s] \in Seq(Picture) /\ at[c][s] \in Nat
      BY <3>1 DEF FeedTypeOK
    <3> QED
      BY <3>2
  <2>2. view[c][s] = log[s][at[c][s]]
    BY DEF FInv, ShowsPublishedState
  <2> QED
    BY <2>1, <2>2
<1>6. at'[c][s] \in DOMAIN log[s]
  BY <1>3, <1>5
<1>7. at'[c][s] # at[c][s]
  <2> SUFFICES ASSUME at'[c][s] = at[c][s] PROVE FALSE
    OBVIOUS
  <2>1. view'[c][s] = view[c][s]
    BY <1>3, <1>5
  <2>2. at' = at /\ view' = view
    <3>1. /\ at \in [Clients -> [Symbols -> Nat]]
          /\ view \in [Clients -> [Symbols -> Picture]]
      BY DEF FInv, FeedTypeOK
    <3> PICK a, v : a = at'[c][s] /\ v = view'[c][s]
      OBVIOUS
    <3>2. a = at[c][s] /\ v = view[c][s]
      BY <2>1
    <3>3. [at EXCEPT ![c][s] = a] = at
      BY <3>1, <3>2, SetToTheSame
    <3>4. [view EXCEPT ![c][s] = v] = view
      BY <3>1, <3>2, SetToTheSame
    <3> QED
      BY <1>4, <3>3, <3>4
  <2> QED
    BY <2>2
<1>8. at'[c][s] > at[c][s]
  <2> PICK v, w : v = at'[c][s] /\ w = at[c][s]
    OBVIOUS
  <2>1. v = msg.told[s] /\ msg.told[s] # 0
    BY <1>3, <1>7
  <2>2. msg.told[s] \in Nat
    BY DEF Message
  <2>3. w <= v /\ w # v /\ v \in Nat /\ w \in Nat
    BY <1>2, <1>5, <1>7, <2>1, <2>2
  <2>4. v > w
    BY ONLY <2>3
  <2> QED
    BY <2>4
<1>9. Mirror!MoveForward(c, s)
  <2> PICK v \in DOMAIN log[s] : v = at'[c][s]
    BY <1>6
  <2>1. /\ v > at[c][s]
        /\ at' = [at EXCEPT ![c][s] = v]
        /\ view' = [view EXCEPT ![c][s] = log[s][v]]
    BY <1>3, <1>4, <1>8
  <2> QED
    BY <2>1 DEF Mirror!MoveForward
<1> QED
  BY <1>9

(* The feed implements FeedMirror: a change of a depth publishes a state,  *)
(* a message a client takes moves one symbol forward or changes nothing,   *)
(* and no other step of publisher, network or subscriber is visible.       *)
THEOREM FeedImplementsMirror == Spec => ImplementsMirror
<1>1. Init => Mirror!MirrorInit
  <2> SUFFICES ASSUME Init PROVE Mirror!MirrorInit
    OBVIOUS
  <2>1. [l \in Levels |-> Blank] \in Mirror!Picture
    BY DEF Mirror!Picture
  <2> QED
    BY <2>1 DEF Init, Mirror!MirrorInit
<1>2. ASSUME FInv, [Next]_vars
      PROVE  [Mirror!MirrorNext]_(Mirror!mirrorVars)
  <2>1. CASE UNCHANGED <<log, at, view>>
    BY <2>1 DEF Mirror!mirrorVars
  <2>2. ASSUME NEW s \in Symbols, DepthChange(s) PROVE Mirror!MirrorNext
    <3>1. PICK p \in Picture : log' = [log EXCEPT ![s] = Append(@, p)]
      BY <2>2 DEF DepthChange
    <3>2. UNCHANGED <<at, view>>
      BY <2>2 DEF DepthChange, client
    <3>3. Mirror!Publish(s)
      BY <3>1, <3>2 DEF Mirror!Publish, Mirror!Picture, Picture
    <3> QED
      BY <3>3 DEF Mirror!MirrorNext
  <2>3. ASSUME NEW c \in Clients, NEW count \in 1..MaxRead, Receive(c, count)
        PROVE  [Mirror!MirrorNext]_(Mirror!mirrorVars)
    <3> PICK i \in Session : i = current[c]
      BY <1>2, <2>3, ReadTakes
    <3> PICK msg : msg = out[i][taken[i] + 1]
      OBVIOUS
    <3>1. UNCHANGED log
      BY <2>3 DEF Receive, publisher
    <3>2. CASE UNCHANGED <<at, view>>
      BY <2>1, <3>1, <3>2
    <3>3. CASE ~UNCHANGED <<at, view>>
      <4>1. HandleMessage(c, msg) /\ InSequence(c, msg)
        BY <2>3, <3>3 DEF Receive
      <4>2. /\ Unbroken(c)
            /\ Continues(log, After(out[i], taken[i]), msg)
            /\ msg \in Message
            /\ \A t \in Symbols : msg.told[t] # 0 => at[c][t] <= msg.told[t]
        BY <1>2, <2>3, <4>1, HandledMessage
      <4>3. Handles(c, i, msg)
        BY <4>1, <4>2 DEF Handles
      <4>4. NotOlder(c, msg)
        BY <4>2 DEF NotOlder
      <4>5. msg \in Message /\ FInv
        BY <1>2, <4>2
      <4>6. \E s \in Symbols : Mirror!MoveForward(c, s)
        BY <3>1, <3>3, <4>3, <4>4, <4>5, HandledMovesForward
      <4> QED
        BY <4>6 DEF Mirror!MirrorNext
    <3> QED
      BY <3>2, <3>3
  <2>4. CASE \/ \E s \in Symbols : Trade(s)
             \/ PublisherStep \/ AcceptPush \/ AcceptDone
             \/ \E i \in Session : SendFails(i) \/ Break(i)
             \/ \E c \in Clients : Connect(c) \/ ReadFails(c)
    <3>1. UNCHANGED <<log, at, view>>
      BY <2>4 DEF Trade, PublisherStep, LoopEnds, Visit, AcceptPush, AcceptDone,
                  SendFails, Break, Connect, ReadFails, client, publisher
    <3> QED
      BY <2>1, <3>1
  <2>5. CASE UNCHANGED vars
    BY <2>1, <2>5 DEF vars, publisher, client
  <2> QED
    BY <1>2, <2>2, <2>3, <2>4, <2>5 DEF Next, ReadSomething
<1>3. FInv /\ [Next]_vars => [Mirror!MirrorNext]_(Mirror!mirrorVars)
  BY <1>2
<1> QED
  BY <1>1, <1>3, FInvAlways, PTL DEF Spec, ImplementsMirror, Mirror!MirrorSpec
=============================================================================
