----------------------------- MODULE EventStream -----------------------------
(***************************************************************************)
(* The consumer of a live event stream: _stream of the sync and the async  *)
(* client, the line parser under it (_sse.py), and the server it talks to. *)
(*                                                                         *)
(* Program counter of the consumer's loop:                                 *)
(*   connecting  the GET is sent                                           *)
(*   open        the response is 200 and lines are read from it            *)
(*   backoff     the stream ended or broke and the loop goes on            *)
(*   ended       the iterator returned                                     *)
(*   raised      the iterator raised                                       *)
(*                                                                         *)
(* External: the server.  It numbers the events it publishes, can replay   *)
(* those from `oldest` on, resumes a stream after the last_event_id it is  *)
(* given, sends a stream.reset control frame if it cannot, and starts a    *)
(* stream without last_event_id at whatever is published next.             *)
(***************************************************************************)
EXTENDS Integers, Sequences

CONSTANTS
    MaxEvents,    \* bound: events ever published
    MaxDrops,     \* bound: connections that end before the consumer does
    MaxExponent   \* largest n such that 2 ** n converts to a float

ASSUME StreamBounds ==
    MaxEvents \in Nat /\ MaxDrops \in Nat /\ MaxExponent \in Nat

VARIABLES
    published,  \* server: number of the latest event
    oldest,     \* server: number of the oldest event it can replay
    reconnect,  \* the reconnect argument
    pc,
    cause,      \* why the iterator raised
    cursor,     \* id of the event to resume after, None (0) if there is none
    attempt,
    parser,     \* the SSEParser of this connection
    lines,      \* connection: lines of the frames sent and not read yet
    upcoming,   \* connection: number of the next event to send on it
    alive,      \* connection: FALSE once it is dead and nobody was told
    drops,      \* history: connections that ended
    last, gap,  \* what the consumer got: see EventFeed
    due         \* history: the first event the consumer is owed, 0 before
                \* the first connection of a stream that resumes nothing

conn == <<parser, lines, upcoming, alive>>
feed == <<last, gap, due>>
vars == <<published, oldest, reconnect, pc, cause, cursor, attempt, conn,
          drops, feed>>

None == 0

----------------------------------------------------------------------------
(* Lines, frames and models (_sse.py).                                     *)

Blank == [field |-> "blank", value |-> None]
Comment == [field |-> "comment", value |-> None]
Id(n) == [field |-> "id", value |-> n]
Event(e) == [field |-> "event", value |-> e]
Data(n) == [field |-> "data", value |-> n]

\* The frames of the server.  The data of event n is that of no other event.
EventFrame(n) == <<Id(n), Event("changed"), Data(n), Blank>>
ResetFrame == <<Event("stream.reset"), Data(None), Blank>>

\* What may stand before a frame: nothing, a heartbeat, or a control frame
\* this version of the client does not know.
Noise == {<<>>, <<Comment, Blank>>, <<Event("control"), Blank>>}

EmptyParser == [id |-> None, event |-> "none", data |-> <<>>]

\* SSEParser.feed: the parser after a line.
Fed(p, line) ==
    CASE line.field = "blank" -> EmptyParser
      [] line.field = "comment" -> p
      [] line.field = "id" -> [p EXCEPT !.id = line.value]
      [] line.field = "event" -> [p EXCEPT !.event = line.value]
      [] line.field = "data" -> [p EXCEPT !.data = Append(@, line.value)]

\* A blank line dispatches what has been assembled, unless that is nothing.
Dispatches(p, line) == line.field = "blank" /\ p # EmptyParser

NoModel == [kind |-> "none", id |-> None, data |-> <<>>]

\* frame_to_model: the data lines of two events joined are no JSON document.
ToModel(f) ==
    IF f.event = "stream.reset" THEN [kind |-> "reset", id |-> None, data |-> <<>>]
    ELSE IF f.id = None \/ f.event = "none" \/ Len(f.data) > 1 THEN NoModel
    ELSE [kind |-> "event", id |-> f.id, data |-> f.data]

----------------------------------------------------------------------------

Init ==
    /\ published \in 0..MaxEvents
    /\ oldest \in 1..published + 1
    /\ reconnect \in BOOLEAN
    /\ pc = "connecting"
    /\ cause = "none"
    /\ cursor \in 0..published
    /\ attempt = 0
    /\ parser = EmptyParser
    /\ lines = <<>>
    /\ upcoming = published + 1
    /\ alive = FALSE
    /\ drops = 0
    /\ last = cursor
    /\ gap = (cursor = None)
    /\ due = IF cursor = None THEN 0 ELSE cursor + 1

----------------------------------------------------------------------------
(* The server.                                                             *)

Publish ==
    /\ published < MaxEvents
    /\ published' = published + 1
    /\ UNCHANGED <<oldest, reconnect, pc, cause, cursor, attempt, conn, drops,
                   feed>>

\* Retention: the oldest event can no longer be replayed.
Expire ==
    /\ oldest <= published
    /\ oldest' = oldest + 1
    /\ UNCHANGED <<published, reconnect, pc, cause, cursor, attempt, conn,
                   drops, feed>>

\* The next event is on its way, behind whatever noise.
Send ==
    /\ pc = "open" /\ alive
    /\ lines = <<>>
    /\ upcoming <= published
    /\ \E noise \in Noise : lines' = noise \o EventFrame(upcoming)
    /\ upcoming' = upcoming + 1
    /\ UNCHANGED <<published, oldest, reconnect, pc, cause, cursor, attempt,
                   parser, alive, drops, feed>>

\* The peer is gone and no FIN or RST says so: nothing more will arrive.
Die ==
    /\ pc = "open" /\ alive
    /\ drops < MaxDrops
    /\ alive' = FALSE
    /\ UNCHANGED <<published, oldest, reconnect, pc, cause, cursor, attempt,
                   parser, lines, upcoming, drops, feed>>

----------------------------------------------------------------------------
(* The consumer: _stream.                                                  *)

\* The server can replay everything after the cursor.
CanReplay == cursor + 1 >= oldest

\* Mutant of Open: the assembler of the broken connection goes on.
OpenWithOldParser ==
    /\ pc = "connecting"
    /\ pc' = "open"
    /\ alive' = TRUE
    /\ lines' = IF cursor # None /\ ~CanReplay THEN ResetFrame ELSE <<>>
    /\ upcoming' = IF cursor # None /\ CanReplay THEN cursor + 1
                   ELSE published + 1
    /\ due' = IF due = 0 THEN published + 1 ELSE due
    /\ UNCHANGED <<published, oldest, reconnect, cause, cursor, attempt, parser,
                   drops, last, gap>>

\* The GET is answered 200; stream_params sends the cursor if there is one.
Open ==
    /\ pc = "connecting"
    /\ pc' = "open"
    /\ parser' = EmptyParser
    /\ alive' = TRUE
    /\ lines' = IF cursor # None /\ ~CanReplay THEN ResetFrame ELSE <<>>
    /\ upcoming' = IF cursor # None /\ CanReplay THEN cursor + 1
                   ELSE published + 1
    /\ due' = IF due = 0 THEN published + 1 ELSE due
    /\ UNCHANGED <<published, oldest, reconnect, cause, cursor, attempt, drops,
                   last, gap>>

\* Any other status: _parse raises, whatever `reconnect` says.
Refuse ==
    /\ pc = "connecting"
    /\ pc' = "raised"
    /\ cause' = "http"
    /\ UNCHANGED <<published, oldest, reconnect, cursor, attempt, conn, drops,
                   feed>>

\* The connection is over, and what was read of a frame goes with it.
Over(to, why) ==
    /\ pc' = to
    /\ cause' = why
    /\ alive' = FALSE
    /\ lines' = <<>>
    /\ UNCHANGED <<published, oldest, reconnect, cursor, attempt, parser,
                   upcoming, feed>>

\* TimeoutException or another HTTPError, while connecting or reading.
Break ==
    /\ pc = "connecting" \/ (pc = "open" /\ alive)
    /\ drops < MaxDrops
    /\ drops' = drops + 1
    /\ IF reconnect THEN Over("backoff", "none") ELSE Over("raised", "transport")

\* Mutant of TimeOut: reads wait for ever.
NoTimeOut == pc = "open" /\ ~alive /\ FALSE /\ UNCHANGED vars

\* STREAM_READ_TIMEOUT ends the wait on a dead connection.
TimeOut ==
    /\ pc = "open" /\ ~alive
    /\ drops' = drops + 1
    /\ IF reconnect THEN Over("backoff", "none") ELSE Over("raised", "transport")

\* The server closes the stream: iter_lines ends.
Close ==
    /\ pc = "open" /\ alive
    /\ drops < MaxDrops
    /\ drops' = drops + 1
    /\ Over(IF reconnect THEN "backoff" ELSE "ended", "none")

\* time.sleep(backoff_delay(attempt)); attempt += 1.  RECONNECT_BACKOFF_BASE
\* is a float, so that an attempt beyond MaxExponent raises OverflowError.
BackOff ==
    /\ pc = "backoff"
    /\ IF attempt > MaxExponent
       THEN pc' = "raised" /\ cause' = "overflow" /\ UNCHANGED attempt
       ELSE pc' = "connecting" /\ attempt' = attempt + 1 /\ UNCHANGED cause
    /\ UNCHANGED <<published, oldest, reconnect, cursor, conn, drops, feed>>

\* Mutants of Yield: a reset leaves the cursor where it was; the cursor is
\* one ahead of the event.
YieldKeepingCursor(m) ==
    /\ attempt' = 0
    /\ cursor' = IF m.kind = "reset" THEN cursor ELSE m.id
    /\ last' = IF m.kind = "reset" THEN last ELSE m.id
    /\ gap' = (m.kind = "reset")
    /\ due' = IF m.kind = "reset" THEN upcoming ELSE m.id + 1

YieldOneAhead(m) ==
    /\ attempt' = 0
    /\ cursor' = IF m.kind = "reset" THEN None ELSE m.id + 1
    /\ last' = IF m.kind = "reset" THEN last ELSE m.id
    /\ gap' = (m.kind = "reset")
    /\ due' = IF m.kind = "reset" THEN upcoming ELSE m.id + 1

\* What the loop does with a model: the cursor follows the events, and is
\* dropped by a reset.
Yield(m) ==
    /\ attempt' = 0
    /\ cursor' = IF m.kind = "reset" THEN None ELSE m.id
    /\ last' = IF m.kind = "reset" THEN last ELSE m.id
    /\ gap' = (m.kind = "reset")
    /\ due' = IF m.kind = "reset" THEN upcoming ELSE m.id + 1

\* One line from iter_lines, fed to the parser; a model is yielded.
ReadLine ==
    /\ pc = "open" /\ alive
    /\ lines # <<>>
    /\ lines' = Tail(lines)
    /\ parser' = Fed(parser, Head(lines))
    /\ LET m == IF Dispatches(parser, Head(lines)) THEN ToModel(parser)
                ELSE NoModel
       IN  IF m = NoModel THEN UNCHANGED <<attempt, cursor, feed>> ELSE Yield(m)
    /\ UNCHANGED <<published, oldest, reconnect, pc, cause, upcoming, alive, drops>>

Next ==
    \/ Publish \/ Expire \/ Send \/ Die
    \/ Open \/ Refuse \/ Break \/ TimeOut \/ Close \/ BackOff \/ ReadLine

Spec == Init /\ [][Next]_vars

\* The consumer's loop runs, the server sends what it has and answers a GET
\* somehow, and httpx's read timeout fires.
Fairness ==
    /\ WF_vars(Open \/ Refuse) /\ WF_vars(Send) /\ WF_vars(ReadLine)
    /\ WF_vars(BackOff) /\ WF_vars(TimeOut)

FairSpec == Spec /\ Fairness

----------------------------------------------------------------------------
(* Properties.                                                             *)

TypeOK ==
    /\ published \in 0..MaxEvents
    /\ oldest \in 1..MaxEvents + 1
    /\ reconnect \in BOOLEAN
    /\ pc \in {"connecting", "open", "backoff", "ended", "raised"}
    /\ cause \in {"none", "http", "transport", "overflow"}
    /\ cursor \in 0..MaxEvents
    /\ attempt \in Nat
    /\ parser.id \in 0..MaxEvents
    /\ parser.data \in Seq(0..MaxEvents)
    /\ Len(lines) <= 6
    /\ upcoming \in 1..MaxEvents + 1
    /\ alive \in BOOLEAN
    /\ drops \in 0..MaxDrops
    /\ last \in 0..MaxEvents
    /\ gap \in BOOLEAN
    /\ due \in 0..MaxEvents + 1

\* Events reach the consumer in order, once each, and none is skipped between
\* two events without a StreamReset between them, wherever connections break:
\* in the middle of a frame, before the first event, twice in a row.
Promise == INSTANCE EventFeed

FeedIsHonest == Promise!Spec

\* What the consumer resumes from is exactly what it got last.
CursorIsLastEvent == IF gap THEN cursor = None ELSE cursor = last

\* With reconnect=True and no HTTP error, an event that is published while
\* the consumer follows the stream reaches it, or a reset does.
EventsArrive ==
    \A n \in 1..MaxEvents :
        (reconnect /\ ~gap /\ published >= n)
            ~> (last >= n \/ gap \/ cause = "http")

\* "With reconnect=True dropped connections re-open with exponential backoff
\* and resume ... HTTP errors always raise" (_sync.py, stream_events): nothing
\* but an HTTP error ends a stream that reconnects.
OnlyHttpErrorsEndIt == reconnect => cause \in {"none", "http"}

\* "StreamReset means a gap could not be replayed" (_sync.py, stream_events):
\* the next event the consumer gets is the next one published after its last
\* event, after the reset, or after its first connection.
GapsAreTold == [][last' # last => last' = due]_vars

============================================================================
