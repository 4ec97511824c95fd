------------------------------- MODULE Console -------------------------------
(***************************************************************************)
(* The console reader of one container (the stdout task of Container::new, *)
(* server/container.rs): it reads the attached output stream in chunks,    *)
(* cuts it into lines of at most Piece bytes, looks for the startup marker *)
(* in them and sends them on, unless the output is throttled.              *)
(*                                                                         *)
(* A step is one round of the inner loop (it ends at the await in          *)
(* allow_ratelimit) or one read.  Bytes are symbols: the line feed, white  *)
(* space, and the rest.  Escape sequences and bytes that are no UTF-8 are  *)
(* left out.                                                               *)
(***************************************************************************)
EXTENDS Naturals, Sequences, FiniteSets, FiniteSetsExt

CONSTANTS
  Newline, Blank,   \* the line feed; other white space
  Char,             \* all other bytes
  Done,             \* startup.done, one string
  Piece,            \* 512, the longest line that is sent in one piece
  Compact,          \* 1024, from where on the buffer is drained
  Lines,            \* throttles.lines
  Interval,         \* throttles.line_reset_interval in ticks; 0: no throttling
  MaxReceived       \* bound: bytes the container writes

Byte == Char \cup {Newline, Blank}

ASSUME ConsoleAssumption ==
  /\ Newline # Blank /\ {Newline, Blank} \cap Char = {}
  /\ Done \in Seq(Char) /\ Done # <<>>
  /\ Piece \in Nat \ {0}
  /\ Compact \in Nat /\ Compact >= Piece
  /\ Lines \in Nat \ {0}
  /\ Interval \in Nat
  /\ MaxReceived \in Nat

VARIABLES
  phase,              \* "read" (the stream), "scan" (the buffer), "closed"
  buffer, line_start, \* line_start counts from 0, as in the code
  ratelimit_counter,
  elapsed,            \* ticks since ratelimit_start, up to Interval
  state,              \* the server's state, "starting" when the reader begins
  output,             \* every line cut so far, and whether it was sent
  received,           \* history: all bytes read
  recent,             \* history: lines sent in each of the last Interval ticks
  warned              \* history: the warning was sent since the last reset

streamVars   == <<buffer, line_start, received>>
throttleVars == <<ratelimit_counter, elapsed, recent, warned>>

consoleVars == <<phase, buffer, line_start, ratelimit_counter, elapsed, state, output,
                 received, recent, warned>>

Line == [text : Seq(Byte), ended : BOOLEAN, sent : BOOLEAN]

ConsoleTypeOK ==
  /\ phase \in {"read", "scan", "closed"}
  /\ buffer \in Seq(Byte)
  /\ line_start \in 0..Len(buffer)
  /\ ratelimit_counter \in Nat
  /\ elapsed \in 0..Interval
  /\ state \in {"starting", "running"}
  /\ output \in Seq(Line)
  /\ received \in Seq(Byte)
  /\ recent \in [1..Interval -> Nat]
  /\ warned \in BOOLEAN

ConsoleInit ==
  /\ phase = "read"
  /\ buffer = <<>>
  /\ line_start = 0
  /\ ratelimit_counter = 0
  /\ elapsed = 0
  /\ state = "starting"
  /\ output = <<>>
  /\ received = <<>>
  /\ recent = [i \in 1..Interval |-> 0]
  /\ warned = FALSE

\* The line feeds not yet passed, and the bytes, counted from line_start.
Breaks == {i \in 1..(Len(buffer) - line_start) : buffer[line_start + i] = Newline}
Ahead(n) == SubSeq(buffer, line_start + 1, line_start + n)
Left == Len(buffer) - line_start

\* str::trim
Trimmed(s) ==
  LET ink == {i \in DOMAIN s : s[i] # Blank}
  IN  IF ink = {} THEN <<>> ELSE SubSeq(s, Min(ink), Max(ink))

Shows(s, t) == \E i \in 0..(Len(s) - Len(t)) : SubSeq(s, i + 1, i + Len(t)) = t

(***************************************************************************)
(* allow_ratelimit                                                         *)
(***************************************************************************)
OverLimit == Interval > 0 /\ ratelimit_counter + 1 >= Lines
Throttled == OverLimit /\ elapsed < Interval

\* Mutant of CountLine: the counter restarts without its interval.
CountNoRestart ==
  /\ ratelimit_counter' = IF OverLimit /\ ~Throttled THEN 0 ELSE ratelimit_counter + 1
  /\ warned' = (warned \/ (Throttled /\ ratelimit_counter + 1 = Lines))
  /\ UNCHANGED elapsed

CountLine ==
  IF OverLimit /\ ~Throttled
  THEN /\ ratelimit_counter' = 0
       /\ elapsed' = 0
       /\ warned' = FALSE
  ELSE /\ ratelimit_counter' = ratelimit_counter + 1
       /\ warned' = (warned \/ (Throttled /\ ratelimit_counter + 1 = Lines))
       /\ UNCHANGED elapsed

Deliver(text, ended) ==
  /\ CountLine
  /\ output' = Append(output, [text |-> text, ended |-> ended, sent |-> ~Throttled])
  /\ recent' = IF Throttled \/ Interval = 0 THEN recent
               ELSE [recent EXCEPT ![1] = @ + 1]

\* Mutant of CheckStartup: only lines that are sent are looked at.
CheckSent(text) ==
  state' = IF state = "starting" /\ ~Throttled /\ Shows(text, Done)
           THEN "running" ELSE state

\* check_startup
CheckStartup(text) ==
  state' = IF state = "starting" /\ Shows(text, Done) THEN "running" ELSE state

(***************************************************************************)
(* Actions                                                                 *)
(***************************************************************************)

\* A chunk is appended to the buffer.
Read(data) ==
  /\ phase = "read"
  /\ phase' = "scan"
  /\ buffer' = buffer \o data
  /\ received' = received \o data
  /\ UNCHANGED <<line_start, throttleVars, state, output>>

\* A line that ends within Piece bytes: the line feed is skipped.
CutLine ==
  /\ phase = "scan"
  /\ Breaks # {}
  /\ LET n == Min(Breaks) - 1 IN
       /\ n <= Piece
       /\ CheckStartup(Trimmed(Ahead(n)))
       /\ Deliver(Trimmed(Ahead(n)), TRUE)
       /\ line_start' = line_start + n + 1
  /\ UNCHANGED <<phase, buffer, received>>

\* Mutant of CutPiece: a line of exactly Piece bytes is cut before its line feed.
CutPieceEarly ==
  /\ phase = "scan"
  /\ Breaks # {}
  /\ Min(Breaks) - 1 >= Piece
  /\ CheckStartup(Trimmed(Ahead(Piece)))
  /\ Deliver(Trimmed(Ahead(Piece)), FALSE)
  /\ line_start' = line_start + Piece
  /\ UNCHANGED <<phase, buffer, received>>

\* A longer line whose end is in the buffer loses its first Piece bytes ...
CutPiece ==
  /\ phase = "scan"
  /\ Breaks # {}
  /\ Min(Breaks) - 1 > Piece
  /\ CheckStartup(Trimmed(Ahead(Piece)))
  /\ Deliver(Trimmed(Ahead(Piece)), FALSE)
  /\ line_start' = line_start + Piece
  /\ UNCHANGED <<phase, buffer, received>>

\* ... and so does one whose end is not, but then nobody looks for the marker.
CutUnended ==
  /\ phase = "scan"
  /\ Breaks = {}
  /\ Left > Piece
  /\ Deliver(Trimmed(Ahead(Piece)), FALSE)
  /\ line_start' = line_start + Piece
  /\ UNCHANGED <<phase, buffer, received, state>>

\* Mutant of EndScan: nothing is ever drained.
NeverDrain ==
  /\ phase = "scan"
  /\ Breaks = {} /\ Left <= Piece
  /\ phase' = "read"
  /\ UNCHANGED <<streamVars, throttleVars, state, output>>

\* What is left waits for more; bytes already cut are drained once there are
\* enough of them.
EndScan ==
  /\ phase = "scan"
  /\ Breaks = {} /\ Left <= Piece
  /\ phase' = "read"
  /\ IF line_start > Compact /\ line_start > Len(buffer) \div 2
     THEN /\ buffer' = Ahead(Left)
          /\ line_start' = 0
     ELSE UNCHANGED <<buffer, line_start>>
  /\ UNCHANGED <<received, throttleVars, state, output>>

\* The stream ends: what is left is sent unthrottled and unchecked.
Close ==
  /\ phase = "read"
  /\ phase' = "closed"
  /\ output' = IF Left = 0 THEN output
               ELSE Append(output, [text |-> Trimmed(Ahead(Left)), ended |-> FALSE,
                                    sent |-> TRUE])
  /\ UNCHANGED <<streamVars, throttleVars, state>>

\* Time passes.
Tick ==
  /\ phase # "closed"
  /\ Interval > 0
  /\ elapsed' = Min({elapsed + 1, Interval})
  /\ recent' = [i \in 1..Interval |-> IF i = 1 THEN 0 ELSE recent[i - 1]]
  /\ UNCHANGED <<phase, streamVars, ratelimit_counter, warned, state, output>>

Chunks == UNION {[1..n -> Byte] : n \in 1..(MaxReceived - Len(received))}

ConsoleNext ==
  \/ \E data \in Chunks : Read(data)
  \/ CutLine \/ CutPiece \/ CutUnended \/ EndScan
  \/ Close
  \/ Tick

ConsoleSpec == ConsoleInit /\ [][ConsoleNext]_consoleVars

(***************************************************************************)
(* Properties                                                              *)
(***************************************************************************)

\* The lines of a text and the rest of it that has no end yet, one byte after the other: a
\* line feed ends what is taken, and a byte for which a piece has no room begins the next.
Taking(t, byte) ==
  IF byte # Newline /\ Len(t.rest) < Piece
  THEN [lines |-> t.lines, rest |-> Append(t.rest, byte)]
  ELSE [lines |-> Append(t.lines, Trimmed(t.rest)),
        rest  |-> IF byte = Newline THEN <<>> ELSE <<byte>>]

Taken(s, n) ==
  LET taken[i \in 0..Len(s)] == IF i = 0 THEN [lines |-> <<>>, rest |-> <<>>]
                                ELSE Taking(taken[i - 1], s[i])
  IN  taken[n]

Texts == [i \in DOMAIN output |-> output[i].text]

\* The lines the reader cuts depend on the bytes it has read and on nothing
\* else: chunks, compaction and throttling do not change, lose or repeat any.
LinesFaithful ==
  LET all == Taken(received, Len(received))
  IN  /\ phase = "read" => Texts = all.lines
      /\ phase = "closed" => Texts = all.lines \o (IF all.rest = <<>> THEN <<>>
                                                   ELSE <<Trimmed(all.rest)>>)

\* What recent says was sent in the last n ticks.
Within(counts, n) ==
  LET sum[i \in 0..Interval] == IF i = 0 THEN 0 ELSE sum[i - 1] + counts[i] IN sum[n]

\* However the stream is cut into chunks, clients never get more than this many
\* lines within an interval: a full allowance at the end of one rate window
\* and the next one right after it; and while the line counter is over the limit they
\* have been told that lines are held back.
BurstBound ==
  phase # "closed" /\ Interval > 0 =>
    /\ Within(recent, Interval) <= 2 * Lines - 1
    /\ ratelimit_counter >= Lines => warned

\* A line of at most Piece bytes with the marker marks the server as running,
\* in whatever chunks it arrives and whether or not it is throttled.
StartupNoticed ==
  \A i \in DOMAIN output :
    output[i].ended /\ Shows(output[i].text, Done) => state = "running"

\* Between two reads the buffer holds at most what waits for its line feed and
\* what is not yet worth draining; and all values have their types.
BufferBounded == ConsoleTypeOK /\ (phase = "read" => Len(buffer) <= Compact + Piece)
=============================================================================
