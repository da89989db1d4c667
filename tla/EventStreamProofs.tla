-------------------------- MODULE EventStreamProofs --------------------------
(***************************************************************************)
(* The consumer of a live stream implements EventFeed, for every number of *)
(* events and of broken connections: in order, once, and no gap between    *)
(* two events that is not told.                                            *)
(***************************************************************************)
EXTENDS EventStream, SequenceTheorems, TLAPS

USE StreamBounds

----------------------------------------------------------------------------
(* What a connection may hold: where the reader is in the frame that is on *)
(* its way, with what the parser has assembled of it.                      *)

Assembled(id, event, data) == [id |-> id, event |-> event, data |-> data]

\* A reset frame that has not been dispatched.
ResetUnderWay(p, ls) ==
    \/ p = EmptyParser /\ ls = ResetFrame
    \/ p = Assembled(None, "stream.reset", <<>>) /\ ls = <<Data(None), Blank>>
    \/ p = Assembled(None, "stream.reset", <<None>>) /\ ls = <<Blank>>

\* The frame of event n, or noise before it.
EventUnderWay(p, ls, n) ==
    \/ p = EmptyParser
         /\ ls = <<Comment, Blank, Id(n), Event("changed"), Data(n), Blank>>
    \/ p = EmptyParser
         /\ ls = <<Event("control"), Blank, Id(n), Event("changed"), Data(n), Blank>>
    \/ p \in {EmptyParser, Assembled(None, "control", <<>>)}
         /\ ls = <<Blank, Id(n), Event("changed"), Data(n), Blank>>
    \/ p = EmptyParser /\ ls = EventFrame(n)
    \/ p = Assembled(n, "none", <<>>) /\ ls = <<Event("changed"), Data(n), Blank>>
    \/ p = Assembled(n, "changed", <<>>) /\ ls = <<Data(n), Blank>>
    \/ p = Assembled(n, "changed", <<n>>) /\ ls = <<Blank>>

\* Event n is one that the consumer may get next.
MayCome(n) == IF gap THEN n > last ELSE n = last + 1

Connected ==
    /\ upcoming \in 1..published + 1
    /\ ~alive => drops < MaxDrops
    /\ \/ parser = EmptyParser /\ lines = <<>> /\ MayCome(upcoming)
       \/ /\ upcoming > 1 /\ MayCome(upcoming - 1)
          /\ EventUnderWay(parser, lines, upcoming - 1)
       \/ ResetUnderWay(parser, lines) /\ upcoming > last

Parsers == [id : 0..MaxEvents, event : {"none", "control", "changed", "stream.reset"},
            data : Seq(0..MaxEvents)]

Typed ==
    /\ published \in 0..MaxEvents
    /\ oldest \in 1..published + 1
    /\ reconnect \in BOOLEAN
    /\ pc \in {"connecting", "open", "backoff", "ended", "raised"}
    /\ cause \in {"none", "http", "transport", "overflow"}
    /\ cursor \in 0..MaxEvents
    /\ attempt \in Nat
    /\ parser \in Parsers
    /\ Len(lines) <= 6
    /\ upcoming \in 1..MaxEvents + 1
    /\ alive \in BOOLEAN
    /\ drops \in 0..MaxDrops
    /\ last \in 0..published
    /\ gap \in BOOLEAN
    /\ due \in 0..MaxEvents + 1

\* The cursor names the last event, or there is a gap and no cursor.
Cursors == IF gap THEN cursor = None ELSE cursor = last /\ last > 0

Inv == Typed /\ Cursors /\ (pc = "open" => Connected)

----------------------------------------------------------------------------
(* Lines.                                                                  *)

LEMMA Behind ==
    ASSUME NEW a, NEW b, NEW c, NEW d, NEW e, NEW f
    PROVE  <<a, b>> \o <<c, d, e, f>> = <<a, b, c, d, e, f>>
<1> DEFINE S == {a, b, c, d, e, f}
           s == <<a, b>>
           t == <<c, d, e, f>>
           u == <<a, b, c, d, e, f>>
           v == s \o t
<1>1. s \in Seq(S) /\ t \in Seq(S) /\ u \in Seq(S)
    OBVIOUS
<1>2. Len(s) = 2 /\ Len(t) = 4 /\ Len(u) = 6
    OBVIOUS
<1>3. /\ v \in Seq(S)
      /\ Len(v) = Len(s) + Len(t)
      /\ \A i \in 1..Len(s) + Len(t) :
            v[i] = IF i <= Len(s) THEN s[i] ELSE t[i - Len(s)]
    BY <1>1, ConcatProperties, Zenon
<1>4. s[1] = a /\ s[2] = b /\ t[1] = c /\ t[2] = d /\ t[3] = e /\ t[4] = f
    OBVIOUS
<1>5. \A i \in 1..6 : u[i] = IF i <= 2 THEN s[i] ELSE t[i - 2]
    OBVIOUS
<1>6. v \in Seq(S) /\ Len(v) = 6
    <2> HIDE DEF s, t, v
    <2> QED
      BY <1>2, <1>3
<1>7. \A i \in 1..6 : v[i] = u[i]
    <2> HIDE DEF s, t, u, v
    <2> QED
      BY <1>2, <1>3, <1>5
<1>8. v = u
    <2> HIDE DEF v, u, S
    <2> QED
      BY <1>1, <1>2, <1>6, <1>7, SeqEqual
<1> QED
    BY <1>8

\* What Send puts on the connection.
LEMMA SentIsUnderWay ==
    ASSUME NEW n, NEW noise \in Noise
    PROVE  /\ EventUnderWay(EmptyParser, noise \o EventFrame(n), n)
           /\ Len(noise \o EventFrame(n)) <= 6
<1> DEFINE sent == noise \o EventFrame(n)
<1>1. CASE noise = <<>>
    <2>1. sent = EventFrame(n)
        BY <1>1 DEF EventFrame
    <2>2. Len(EventFrame(n)) = 4
        BY DEF EventFrame
    <2>3. EventUnderWay(EmptyParser, sent, n) /\ Len(sent) <= 6
        <3> HIDE DEF sent
        <3> QED
            BY <2>1, <2>2 DEF EventUnderWay
    <2> QED
        BY <2>3
<1>2. CASE noise = <<Comment, Blank>>
    <2>1. <<Comment, Blank>> \o <<Id(n), Event("changed"), Data(n), Blank>>
            = <<Comment, Blank, Id(n), Event("changed"), Data(n), Blank>>
        BY Behind
    <2>2. sent = <<Comment, Blank, Id(n), Event("changed"), Data(n), Blank>>
        BY <1>2, <2>1, Zenon DEF EventFrame
    <2>3. EventUnderWay(EmptyParser, sent, n)
        <3> HIDE DEF sent
        <3> QED
            BY <2>2 DEF EventUnderWay
    <2>4. Len(sent) = 6
        <3> HIDE DEF sent
        <3> QED
            BY <2>2
    <2> QED
        BY <2>3, <2>4
<1>3. CASE noise = <<Event("control"), Blank>>
    <2>1. <<Event("control"), Blank>> \o <<Id(n), Event("changed"), Data(n), Blank>>
            = <<Event("control"), Blank, Id(n), Event("changed"), Data(n), Blank>>
        BY Behind
    <2>2. sent = <<Event("control"), Blank, Id(n), Event("changed"), Data(n), Blank>>
        BY <1>3, <2>1, Zenon DEF EventFrame
    <2>3. EventUnderWay(EmptyParser, sent, n)
        <3> HIDE DEF sent
        <3> QED
            BY <2>2 DEF EventUnderWay
    <2>4. Len(sent) = 6
        <3> HIDE DEF sent
        <3> QED
            BY <2>2
    <2> QED
        BY <2>3, <2>4
<1> QED
    BY <1>1, <1>2, <1>3 DEF Noise

\* The model that a line yields.
Yielded(p, line) == IF Dispatches(p, line) THEN ToModel(p) ELSE NoModel

\* A reset frame yields a reset at its last line, and nothing before.
LEMMA ReadsReset ==
    ASSUME NEW p, NEW ls, ResetUnderWay(p, ls)
    PROVE  \/ /\ Yielded(p, Head(ls)) = NoModel
              /\ ResetUnderWay(Fed(p, Head(ls)), Tail(ls))
           \/ /\ Yielded(p, Head(ls)).kind = "reset"
              /\ Yielded(p, Head(ls)) # NoModel
              /\ Fed(p, Head(ls)) = EmptyParser /\ Tail(ls) = <<>>
<1>1. CASE p = EmptyParser /\ ls = ResetFrame
    <2>1. Head(ls) = Event("stream.reset") /\ Tail(ls) = <<Data(None), Blank>>
        BY <1>1 DEF ResetFrame
    <2>2. Fed(p, Head(ls)) = Assembled(None, "stream.reset", <<>>)
        BY <1>1, <2>1 DEF Fed, Event, EmptyParser, Assembled
    <2> QED
        BY <2>1, <2>2 DEF ResetUnderWay, Yielded, Dispatches, Event
<1>2. CASE p = Assembled(None, "stream.reset", <<>>) /\ ls = <<Data(None), Blank>>
    <2>1. Head(ls) = Data(None) /\ Tail(ls) = <<Blank>>
        BY <1>2
    <2>2. Fed(p, Head(ls)) = Assembled(None, "stream.reset", <<None>>)
        BY <1>2, <2>1 DEF Fed, Data, Assembled
    <2> QED
        BY <2>1, <2>2 DEF ResetUnderWay, Yielded, Dispatches, Data
<1>3. CASE p = Assembled(None, "stream.reset", <<None>>) /\ ls = <<Blank>>
    <2>1. Head(ls) = Blank /\ Tail(ls) = <<>>
        BY <1>3
    <2>2. p.event = "stream.reset" /\ p # EmptyParser
        BY <1>3 DEF Assembled, EmptyParser
    <2>3. Fed(p, Blank) = EmptyParser /\ Dispatches(p, Blank)
        BY <2>2 DEF Fed, Blank, Dispatches
    <2>4. Yielded(p, Blank) = [kind |-> "reset", id |-> None, data |-> <<>>]
        BY <2>2, <2>3 DEF Yielded, ToModel
    <2> QED
        BY <2>1, <2>3, <2>4 DEF NoModel
<1> QED
    BY <1>1, <1>2, <1>3 DEF ResetUnderWay

\* The frame of an event yields the event at its last line, and nothing before.
LEMMA ReadsEvent ==
    ASSUME NEW n \in Nat \ {0}, NEW p, NEW ls, EventUnderWay(p, ls, n)
    PROVE  \/ /\ Yielded(p, Head(ls)) = NoModel
              /\ EventUnderWay(Fed(p, Head(ls)), Tail(ls), n)
           \/ /\ Yielded(p, Head(ls)).kind = "event"
              /\ Yielded(p, Head(ls)).id = n
              /\ Yielded(p, Head(ls)) # NoModel
              /\ Fed(p, Head(ls)) = EmptyParser /\ Tail(ls) = <<>>
<1> DEFINE frame == <<Id(n), Event("changed"), Data(n), Blank>>
<1>1. CASE p = EmptyParser
             /\ ls = <<Comment, Blank, Id(n), Event("changed"), Data(n), Blank>>
    <2>1. /\ Head(ls) = Comment
          /\ Tail(ls) = <<Blank, Id(n), Event("changed"), Data(n), Blank>>
        BY <1>1
    <2>2. Fed(p, Comment) = EmptyParser /\ ~Dispatches(p, Comment)
        BY <1>1 DEF Fed, Comment, Dispatches
    <2> QED
        BY <2>1, <2>2 DEF EventUnderWay, Yielded
<1>2. CASE p = EmptyParser
             /\ ls = <<Event("control"), Blank, Id(n), Event("changed"), Data(n), Blank>>
    <2>1. /\ Head(ls) = Event("control")
          /\ Tail(ls) = <<Blank, Id(n), Event("changed"), Data(n), Blank>>
        BY <1>2
    <2>2. /\ Fed(p, Event("control")) = Assembled(None, "control", <<>>)
          /\ ~Dispatches(p, Event("control"))
        BY <1>2 DEF Fed, Event, Dispatches, EmptyParser, Assembled
    <2> QED
        BY <2>1, <2>2 DEF EventUnderWay, Yielded
<1>3. CASE p \in {EmptyParser, Assembled(None, "control", <<>>)}
             /\ ls = <<Blank, Id(n), Event("changed"), Data(n), Blank>>
    <2>1. Head(ls) = Blank /\ Tail(ls) = EventFrame(n)
        BY <1>3 DEF EventFrame
    <2>2. Fed(p, Blank) = EmptyParser
        BY DEF Fed, Blank
    <2>3. Yielded(p, Blank) = NoModel
        BY <1>3 DEF Yielded, Dispatches, ToModel, Assembled, NoModel
    <2> QED
        BY <2>1, <2>2, <2>3 DEF EventUnderWay
<1>4. CASE p = EmptyParser /\ ls = EventFrame(n)
    <2>1. Head(ls) = Id(n) /\ Tail(ls) = <<Event("changed"), Data(n), Blank>>
        BY <1>4 DEF EventFrame
    <2>2. Fed(p, Id(n)) = Assembled(n, "none", <<>>) /\ ~Dispatches(p, Id(n))
        BY <1>4 DEF Fed, Id, Dispatches, EmptyParser, Assembled
    <2> QED
        BY <2>1, <2>2 DEF EventUnderWay, Yielded
<1>5. CASE p = Assembled(n, "none", <<>>) /\ ls = <<Event("changed"), Data(n), Blank>>
    <2>1. Head(ls) = Event("changed") /\ Tail(ls) = <<Data(n), Blank>>
        BY <1>5
    <2>2. /\ Fed(p, Event("changed")) = Assembled(n, "changed", <<>>)
          /\ ~Dispatches(p, Event("changed"))
        BY <1>5 DEF Fed, Event, Dispatches, Assembled
    <2> QED
        BY <2>1, <2>2 DEF EventUnderWay, Yielded
<1>6. CASE p = Assembled(n, "changed", <<>>) /\ ls = <<Data(n), Blank>>
    <2>1. Head(ls) = Data(n) /\ Tail(ls) = <<Blank>>
        BY <1>6
    <2>2. /\ Fed(p, Data(n)) = Assembled(n, "changed", <<n>>)
          /\ ~Dispatches(p, Data(n))
        BY <1>6 DEF Fed, Data, Dispatches, Assembled
    <2> QED
        BY <2>1, <2>2 DEF EventUnderWay, Yielded
<1>7. CASE p = Assembled(n, "changed", <<n>>) /\ ls = <<Blank>>
    <2>1. Head(ls) = Blank /\ Tail(ls) = <<>>
        BY <1>7
    <2>2. p.id = n /\ p.event = "changed" /\ Len(p.data) = 1 /\ p # EmptyParser
        BY <1>7 DEF Assembled, EmptyParser
    <2>3. Fed(p, Blank) = EmptyParser /\ Dispatches(p, Blank)
        BY <2>2 DEF Fed, Blank, Dispatches
    <2>4. Yielded(p, Blank) = [kind |-> "event", id |-> n, data |-> p.data]
        BY <2>2, <2>3 DEF Yielded, ToModel, None
    <2> QED
        BY <2>1, <2>3, <2>4 DEF NoModel
<1> QED
    BY <1>1, <1>2, <1>3, <1>4, <1>5, <1>6, <1>7 DEF EventUnderWay

----------------------------------------------------------------------------
(* Each action keeps the invariant.                                        *)

LEMMA InitInv == Init => Inv
<1> SUFFICES ASSUME Init PROVE Inv
    OBVIOUS
<1>1. parser \in Parsers
    BY DEF Init, EmptyParser, Parsers, None
<1>2. /\ cursor \in 0..published /\ published \in 0..MaxEvents /\ last = cursor
      /\ oldest \in 1..published + 1 /\ upcoming = published + 1
    BY DEF Init
<1>3. gap \in BOOLEAN /\ (gap <=> cursor = 0)
    BY DEF Init, None
<1>4. Typed
    <2>1. due \in 0..MaxEvents + 1
        <3>1. due = IF cursor = 0 THEN 0 ELSE cursor + 1
            BY DEF Init, None
        <3> QED
            BY <1>2, <3>1
    <2>2. /\ cursor \in 0..MaxEvents /\ last \in 0..published
          /\ upcoming \in 1..MaxEvents + 1
        BY <1>2
    <2>3. /\ reconnect \in BOOLEAN /\ pc = "connecting" /\ cause = "none"
          /\ attempt = 0 /\ alive = FALSE /\ drops = 0
        BY DEF Init
    <2>4. Len(lines) <= 6
        BY DEF Init
    <2>5. drops \in 0..MaxDrops
        BY <2>3
    <2> QED
        BY <1>1, <1>2, <1>3, <2>1, <2>2, <2>3, <2>4, <2>5 DEF Typed
<1>5. Cursors /\ pc # "open"
    BY <1>2, <1>3 DEF Init, Cursors, None
<1> QED
    BY <1>4, <1>5 DEF Inv

LEMMA PublishStep == Inv /\ Publish => Inv'
<1> SUFFICES ASSUME Inv, Publish PROVE Inv'
    OBVIOUS
<1>1. Typed'
    BY DEF Inv, Typed, Publish, conn, feed
<1>2. Cursors'
    BY DEF Inv, Cursors, Publish, feed
<1>3. pc = "open" => Connected'
    BY DEF Inv, Typed, Connected, MayCome, Publish, conn, feed
<1> QED
    BY <1>1, <1>2, <1>3 DEF Inv, Publish

LEMMA ExpireStep == Inv /\ Expire => Inv'
BY DEF Inv, Typed, Cursors, Connected, MayCome, Expire, conn, feed

LEMMA SendStep == Inv /\ Send => Inv'
<1> SUFFICES ASSUME Inv, Send PROVE Inv'
    OBVIOUS
<1>1. PICK noise \in Noise : lines' = noise \o EventFrame(upcoming)
    BY DEF Send
<1>2. EventUnderWay(EmptyParser, lines', upcoming) /\ Len(lines') <= 6
    BY <1>1, SentIsUnderWay
<1>3. parser = EmptyParser /\ MayCome(upcoming)
    BY DEF Inv, Connected, Send, EventUnderWay, ResetUnderWay, EventFrame, ResetFrame
<1>4. Typed'
    BY <1>2 DEF Inv, Typed, Send, feed
<1>5. Cursors'
    BY DEF Inv, Cursors, Send, feed
<1>6. Connected'
    <2>1. upcoming' = upcoming + 1 /\ upcoming \in 1..published
        BY DEF Inv, Typed, Send
    <2>2. /\ parser' = EmptyParser
          /\ UNCHANGED <<alive, drops, published, last, gap>>
        BY <1>3 DEF Send, feed
    <2>3. MayCome(upcoming - 1)'
        BY <1>3, <2>1, <2>2 DEF MayCome
    <2>4. EventUnderWay(parser, lines, upcoming - 1)'
        BY <1>2, <2>1, <2>2
    <2>5. alive' /\ upcoming' > 1 /\ upcoming' \in 1..published' + 1
        BY <2>1, <2>2 DEF Send, Inv, Typed
    <2> QED
        BY <2>3, <2>4, <2>5 DEF Connected
<1> QED
    BY <1>4, <1>5, <1>6 DEF Inv

LEMMA DieStep == Inv /\ Die => Inv'
<1> SUFFICES ASSUME Inv, Die PROVE Inv'
    OBVIOUS
<1>1. Typed' /\ Cursors'
    BY DEF Inv, Typed, Cursors, Die, feed
<1>2. UNCHANGED <<published, parser, lines, upcoming, drops, last, gap>>
    BY DEF Die, feed
<1>3. drops < MaxDrops /\ Connected
    BY DEF Inv, Die
<1>4. Connected'
    BY <1>2, <1>3 DEF Connected, MayCome
<1> QED
    BY <1>1, <1>4 DEF Inv

LEMMA OpenStep == Inv /\ Open => Inv'
<1> SUFFICES ASSUME Inv, Open PROVE Inv'
    OBVIOUS
<1>1. Typed /\ Cursors
    BY DEF Inv
<1>2. parser' = EmptyParser /\ parser' \in Parsers
    BY DEF Open, EmptyParser, Parsers, None
<1>3. upcoming' \in 1..published + 1
    BY <1>1 DEF Typed, Cursors, Open, None
<1>4. Len(lines') <= 6
    BY DEF Open, ResetFrame
<1>5. Typed'
    BY <1>1, <1>2, <1>3, <1>4 DEF Typed, Open
<1>6. Cursors'
    BY <1>1 DEF Cursors, Open
<1>7. Connected'
    <2>1. CASE cursor # None /\ ~CanReplay
        <3>1. lines' = ResetFrame /\ upcoming' = published + 1
            BY <2>1 DEF Open
        <3>2. ResetUnderWay(EmptyParser, lines') /\ upcoming' > last'
            BY <1>1, <3>1 DEF ResetUnderWay, Open, Typed
        <3> QED
            BY <1>2, <1>3, <3>2 DEF Connected, Open
    <2>2. CASE cursor = None \/ CanReplay
        <3>1. lines' = <<>> /\ UNCHANGED <<last, gap, published>> /\ alive'
            BY <2>2 DEF Open
        <3>2. upcoming' = IF cursor = None THEN published + 1 ELSE cursor + 1
            BY <2>2 DEF Open
        <3>3. MayCome(upcoming)'
            BY <1>1, <3>1, <3>2 DEF MayCome, Typed, Cursors, None
        <3> QED
            BY <1>2, <1>3, <3>1, <3>3 DEF Connected
    <2> QED
        BY <2>1, <2>2
<1> QED
    BY <1>5, <1>6, <1>7 DEF Inv

LEMMA RefuseStep == Inv /\ Refuse => Inv'
BY DEF Inv, Typed, Cursors, Refuse, conn, feed

\* The ways in which a connection ends.
LEMMA OverStep ==
    ASSUME Inv, drops' = drops + 1, drops < MaxDrops,
           NEW to \in {"backoff", "ended", "raised"}, NEW why \in {"none", "transport"},
           Over(to, why)
    PROVE  Inv'
<1>1. pc' \in {"backoff", "ended", "raised"} /\ cause' \in {"none", "transport"}
    BY DEF Over
<1>2. Len(lines') <= 6
    BY DEF Over
<1>3. /\ UNCHANGED <<published, oldest, reconnect, cursor, attempt, parser, upcoming,
                       last, gap, due>>
      /\ alive' = FALSE
    BY DEF Over, feed
<1>4. drops' \in 0..MaxDrops
    BY DEF Inv, Typed
<1>5. Typed'
    BY <1>1, <1>2, <1>3, <1>4 DEF Inv, Typed
<1>6. Cursors'
    BY <1>3 DEF Inv, Cursors
<1> QED
    BY <1>1, <1>5, <1>6 DEF Inv

LEMMA BreakStep == Inv /\ Break => Inv'
BY OverStep DEF Break

LEMMA TimeOutStep == Inv /\ TimeOut => Inv'
<1> SUFFICES ASSUME Inv, TimeOut PROVE Inv'
    OBVIOUS
<1>1. drops < MaxDrops
    BY DEF Inv, Connected, TimeOut
<1> QED
    BY <1>1, OverStep DEF TimeOut

LEMMA CloseStep == Inv /\ Close => Inv'
BY OverStep DEF Close

LEMMA BackOffStep == Inv /\ BackOff => Inv'
BY DEF Inv, Typed, Cursors, BackOff, conn, feed

LEMMA LengthsOfFrames ==
    /\ Len(ResetFrame) = 3 /\ \A n : Len(EventFrame(n)) = 4
    /\ \A a : Len(<<a>>) = 1
    /\ \A a, b : Len(<<a, b>>) = 2
    /\ \A a, b, c : Len(<<a, b, c>>) = 3
    /\ \A a, b, c, d, e : Len(<<a, b, c, d, e>>) = 5
    /\ \A a, b, c, d, e, f : Len(<<a, b, c, d, e, f>>) = 6
BY DEF ResetFrame, EventFrame

LEMMA ParsersTyped ==
    ASSUME Inv, ReadLine
    PROVE  parser' \in Parsers /\ Len(lines') <= 6
<1>1. parser' = Fed(parser, Head(lines)) /\ lines' = Tail(lines) /\ Len(lines) <= 6
    BY DEF Inv, Typed, ReadLine
<1>2. ASSUME ResetUnderWay(parser', lines')
      PROVE  parser' \in Parsers /\ Len(lines') <= 6
    <2>1. <<>> \in Seq(0..MaxEvents) /\ <<0>> \in Seq(0..MaxEvents)
        OBVIOUS
    <2>2. \A d \in Seq(0..MaxEvents), e \in {"none", "stream.reset"} :
             Assembled(0, e, d) \in Parsers
        BY DEF Assembled, Parsers
    <2>3. EmptyParser = Assembled(0, "none", <<>>)
        BY DEF EmptyParser, Assembled, None
    <2>4. parser' \in Parsers
        BY <1>2, <2>1, <2>2, <2>3 DEF ResetUnderWay, None
    <2>5. Len(lines') <= 6
        BY <1>2, LengthsOfFrames DEF ResetUnderWay
    <2> QED
        BY <2>4, <2>5
<1>3. ASSUME NEW n \in 0..MaxEvents, EventUnderWay(parser', lines', n)
      PROVE  parser' \in Parsers /\ Len(lines') <= 6
    <2>1. EmptyParser \in Parsers
        BY DEF EmptyParser, Parsers, None
    <2>2. \A d \in Seq(0..MaxEvents), e \in {"none", "control", "changed"}, i \in {None, n} :
            Assembled(i, e, d) \in Parsers
        BY <1>3 DEF Assembled, Parsers, None
    <2>3. <<>> \in Seq(0..MaxEvents) /\ <<n>> \in Seq(0..MaxEvents)
        BY <1>3
    <2>4. parser' \in Parsers
        BY <1>3, <2>1, <2>2, <2>3 DEF EventUnderWay
    <2>5. Len(lines') <= 6
        <3> DEFINE k == Len(lines')
        <3>1. k = 6 \/ k = 5 \/ k = 4 \/ k = 3 \/ k = 2 \/ k = 1
            BY <1>3, LengthsOfFrames, Zenon DEF EventUnderWay
        <3> HIDE DEF k
        <3>2. k <= 6
            BY <3>1
        <3> QED
            BY <3>2 DEF k
    <2> QED
        BY <2>4, <2>5
<1>4. parser' = EmptyParser /\ lines' = <<>> => parser' \in Parsers /\ Len(lines') <= 6
    BY DEF EmptyParser, Parsers, None
<1>5. Connected /\ lines # <<>> /\ Typed
    BY DEF Inv, ReadLine
<1>6. CASE ResetUnderWay(parser, lines)
    BY <1>1, <1>2, <1>4, <1>6, ReadsReset
<1>7. CASE upcoming > 1 /\ EventUnderWay(parser, lines, upcoming - 1)
    <2>1. upcoming - 1 \in 0..MaxEvents /\ upcoming - 1 \in Nat \ {0}
        BY <1>5, <1>7 DEF Typed
    <2> QED
        BY <1>1, <1>3, <1>4, <1>7, <2>1, ReadsEvent
<1> QED
    BY <1>5, <1>6, <1>7 DEF Connected

\* A line: nothing is yielded and the frame is under way; or a reset; or the
\* event that may come.
LEMMA LineRead ==
    ASSUME Inv, ReadLine
    PROVE  \/ /\ UNCHANGED <<attempt, cursor, feed>>
              /\ Connected'
           \/ /\ attempt' = 0 /\ cursor' = None /\ last' = last /\ gap' = TRUE
              /\ due' = upcoming
              /\ Connected'
           \/ \E n \in 1..published :
                /\ MayCome(n)
                /\ attempt' = 0 /\ cursor' = n /\ last' = n /\ gap' = FALSE
                /\ due' = n + 1
                /\ Connected'
<1> DEFINE m == Yielded(parser, Head(lines))
<1>1. /\ Connected /\ lines # <<>> /\ Typed
      /\ parser' = Fed(parser, Head(lines)) /\ lines' = Tail(lines)
      /\ UNCHANGED <<published, upcoming, alive, drops>>
    BY DEF Inv, ReadLine
<1>2. IF m = NoModel THEN UNCHANGED <<attempt, cursor, feed>> ELSE Yield(m)
    BY DEF ReadLine, Yielded
<1> HIDE DEF m
<1>3. CASE ResetUnderWay(parser, lines) /\ upcoming > last
    <2>1. CASE m = NoModel /\ ResetUnderWay(parser', lines')
        <3>1. UNCHANGED <<attempt, cursor, last, gap, due>>
            BY <1>2, <2>1 DEF feed
        <3> QED
            BY <1>1, <1>3, <2>1, <3>1 DEF Connected, feed
    <2>2. CASE /\ m.kind = "reset" /\ m # NoModel
               /\ parser' = EmptyParser /\ lines' = <<>>
        <3>1. /\ attempt' = 0 /\ cursor' = None /\ last' = last /\ gap' = TRUE
              /\ due' = upcoming
            BY <1>2, <2>2 DEF Yield
        <3>2. MayCome(upcoming)'
            BY <1>1, <1>3, <3>1 DEF MayCome
        <3> QED
            BY <1>1, <2>2, <3>1, <3>2 DEF Connected
    <2> QED
        BY <1>1, <1>3, <2>1, <2>2, ReadsReset DEF m
<1>4. CASE /\ upcoming > 1 /\ MayCome(upcoming - 1)
           /\ EventUnderWay(parser, lines, upcoming - 1)
    <2> DEFINE n == upcoming - 1
    <2>1. n \in 1..published /\ n \in Nat \ {0} /\ upcoming = n + 1
        BY <1>1, <1>4 DEF Typed, Connected
    <2>2. CASE m = NoModel /\ EventUnderWay(parser', lines', n)
        <3>1. UNCHANGED <<attempt, cursor, last, gap, due>>
            BY <1>2, <2>2 DEF feed
        <3>2. MayCome(n)'
            BY <1>1, <1>4, <3>1 DEF MayCome
        <3> QED
            BY <1>1, <1>4, <2>2, <3>1, <3>2 DEF Connected, feed
    <2>3. CASE /\ m.kind = "event" /\ m.id = n /\ m # NoModel
               /\ parser' = EmptyParser /\ lines' = <<>>
        <3>1. /\ attempt' = 0 /\ cursor' = n /\ last' = n /\ gap' = FALSE
              /\ due' = n + 1
            BY <1>2, <2>3 DEF Yield
        <3>2. MayCome(upcoming)'
            BY <1>1, <2>1, <3>1 DEF MayCome
        <3> QED
            BY <1>1, <1>4, <2>1, <2>3, <3>1, <3>2 DEF Connected
    <2>4. \/ /\ Yielded(parser, Head(lines)) = NoModel
             /\ EventUnderWay(Fed(parser, Head(lines)), Tail(lines), n)
          \/ /\ Yielded(parser, Head(lines)).kind = "event"
             /\ Yielded(parser, Head(lines)).id = n
             /\ Yielded(parser, Head(lines)) # NoModel
             /\ Fed(parser, Head(lines)) = EmptyParser /\ Tail(lines) = <<>>
        <3> HIDE DEF n
        <3> QED
            BY <1>4, <2>1, ReadsEvent DEF n
    <2> QED
        BY <1>1, <2>2, <2>3, <2>4 DEF m
<1> QED
    BY <1>1, <1>3, <1>4 DEF Connected

LEMMA ReadLineStep == Inv /\ ReadLine => Inv'
<1> SUFFICES ASSUME Inv, ReadLine PROVE Inv'
    OBVIOUS
<1>1. /\ Typed /\ Cursors
      /\ UNCHANGED <<published, oldest, reconnect, pc, cause, upcoming, alive, drops>>
    BY DEF Inv, ReadLine
<1>2. parser' \in Parsers /\ Len(lines') <= 6
    BY ParsersTyped
<1>3. CASE UNCHANGED <<attempt, cursor, feed>> /\ Connected'
    BY <1>1, <1>2, <1>3 DEF Inv, Typed, Cursors, feed
<1>4. CASE /\ attempt' = 0 /\ cursor' = None /\ last' = last /\ gap' = TRUE
           /\ due' = upcoming /\ Connected'
    BY <1>1, <1>2, <1>4 DEF Inv, Typed, Cursors, None
<1>5. CASE \E n \in 1..published :
             /\ MayCome(n)
             /\ attempt' = 0 /\ cursor' = n /\ last' = n /\ gap' = FALSE
             /\ due' = n + 1 /\ Connected'
    <2>1. PICK n \in 1..published :
             /\ attempt' = 0 /\ cursor' = n /\ last' = n /\ gap' = FALSE
             /\ due' = n + 1 /\ Connected'
        BY <1>5
    <2>2. n \in 1..MaxEvents
        BY <1>1 DEF Typed
    <2>3. Typed'
        <3>1. published' = published /\ published \in Nat
            BY <1>1 DEF Typed
        <3>2. cursor' \in 0..MaxEvents /\ due' \in 0..MaxEvents + 1 /\ attempt' \in Nat
            BY <2>1, <2>2
        <3>3. last' \in 0..published'
            BY <2>1, <3>1
        <3>4. gap' \in BOOLEAN
            BY <2>1
        <3> QED
            BY <1>1, <1>2, <3>2, <3>3, <3>4 DEF Typed
    <2>4. Cursors'
        BY <2>1, <2>2 DEF Cursors
    <2> QED
        BY <2>1, <2>3, <2>4 DEF Inv
<1> QED
    BY <1>3, <1>4, <1>5, LineRead

LEMMA NextInv ==
    ASSUME Inv, [Next]_vars
    PROVE  Inv'
<1>1. CASE UNCHANGED vars
    BY <1>1 DEF Inv, Typed, Cursors, Connected, MayCome, vars, conn, feed
<1> QED
    BY <1>1, PublishStep, ExpireStep, SendStep, DieStep, OpenStep, RefuseStep,
       BreakStep, TimeOutStep, CloseStep, BackOffStep, ReadLineStep DEF Next

THEOREM InvHolds == Spec => []Inv
<1>1. Init => Inv
    BY InitInv
<1>2. Inv /\ [Next]_vars => Inv'
    BY NextInv
<1> QED
    BY <1>1, <1>2, PTL DEF Spec

\* The types of the consumer, the connection and the server, for all bounds.
THEOREM TypeCorrect == Spec => []TypeOK
<1>1. Inv => TypeOK
    BY DEF Inv, Typed, TypeOK, Parsers
<1> QED
    BY <1>1, InvHolds, PTL

\* What the consumer resumes from is what it got last, through every reset.
THEOREM CursorFollows == Spec => []CursorIsLastEvent
<1>1. Inv => CursorIsLastEvent
    BY DEF Inv, Cursors, CursorIsLastEvent
<1> QED
    BY <1>1, InvHolds, PTL

\* The consumer implements EventFeed: events in order, each once, and none is
\* skipped between two events without a StreamReset.
THEOREM Honest == Spec => FeedIsHonest
<1>1. ASSUME Init
      PROVE  Promise!Init
    <2>0. /\ published \in 0..MaxEvents /\ cursor \in 0..published /\ last = cursor
          /\ gap \in BOOLEAN /\ (gap <=> cursor = 0)
        BY <1>1 DEF Init, None
    <2>1. CASE cursor = 0
        BY <2>0, <2>1 DEF Promise!Init
    <2>2. CASE cursor # 0
        BY <2>0, <2>2 DEF Promise!Init
    <2> QED
        BY <2>1, <2>2
<1>2. ASSUME Inv, [Next]_vars
      PROVE  [Promise!Next]_(Promise!vars)
    <2>1. CASE ReadLine
        <3>1. UNCHANGED published /\ Typed
            BY <1>2, <2>1 DEF ReadLine, Inv
        <3>2. CASE UNCHANGED <<attempt, cursor, feed>>
            BY <3>1, <3>2 DEF feed, Promise!vars
        <3>3. CASE last' = last /\ gap' = TRUE
            BY <3>1, <3>3 DEF Promise!Next, Promise!Reset
        <3>4. CASE \E n \in 1..published : MayCome(n) /\ last' = n /\ gap' = FALSE
            <4>1. PICK n \in 1..published : MayCome(n) /\ last' = n /\ gap' = FALSE
                BY <3>4
            <4>2. n \in 1..MaxEvents /\ Promise!Deliver(n)
                BY <3>1, <4>1 DEF Typed, MayCome, Promise!Deliver
            <4> QED
                BY <4>2 DEF Promise!Next
        <3> QED
            BY <1>2, <2>1, <3>2, <3>3, <3>4, LineRead
    <2>2. CASE Publish
        BY <2>2 DEF Publish, feed, Promise!Next, Promise!Publish
    <2>3. CASE \/ Expire \/ Send \/ Die \/ Open \/ Refuse \/ Break \/ TimeOut \/ Close
               \/ BackOff \/ UNCHANGED vars
        BY <2>3 DEF Expire, Send, Die, Open, Refuse, Break, TimeOut, Close, BackOff, Over,
                    vars, conn, feed, Promise!vars
    <2> QED
        BY <1>2, <2>1, <2>2, <2>3 DEF Next
<1>3. Inv /\ [Next]_vars => [Promise!Next]_(Promise!vars)
    BY <1>2
<1> QED
    BY <1>1, <1>3, InvHolds, PTL DEF Spec, FeedIsHonest, Promise!Spec
=============================================================================
