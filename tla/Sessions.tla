------------------------------ MODULE Sessions ------------------------------
(***************************************************************************)
(* What users of one server reach it by: a websocket with its five tasks   *)
(* (server/websocket/handler.rs, jwt.rs and message_handler.rs), the log   *)
(* of what they did (server/activity.rs), and the one-time tokens of the   *)
(* download and upload routes (remote/jwt.rs).                             *)
(*                                                                         *)
(* The tasks of a socket share the token in force, behind a fair read-     *)
(* write lock, and the sending half, behind a fair mutex.  A token is      *)
(* good, about to expire, or over; one of another server is answered like  *)
(* one that is over.  What the messages say is left out.                   *)
(***************************************************************************)
EXTENDS Integers, Sequences, FiniteSets, SequencesExt

CONSTANTS
  Token,         \* tokens of the users of a socket
  Connect,       \* those with the permission to connect,
  Control,       \* to control the server,
  Install,       \* to see the output of an installation
  Logger,        \* others who log activities: SFTP sessions, uploads
  SendCount,     \* activity_send_count
  Request,       \* requests that present one download token
  None,          \* no token
  MaxMessages,   \* bound: messages of the client
  MaxActivities, \* bound: activities
  MaxRestarts    \* bound: restarts of the daemon

ASSUME SessionsAssumption ==
  /\ Connect \subseteq Token /\ Control \subseteq Token /\ Install \subseteq Token
  /\ None \notin Token
  /\ SendCount \in Nat \ {0}
  /\ MaxMessages \in Nat /\ MaxActivities \in Nat /\ MaxRestarts \in Nat

VARIABLES
  life,       \* life[t]: "good", "ending", "over"
  open,       \* the socket is
  jwt,        \* socket_jwt
  readers,    \* the tasks that hold it for reading
  line,       \* the tasks at the mutex of sender, the first holds it
  client,     \* the task that handles what the client sends
  listener,   \* listener[k]: the tasks "events", "stdout", "expiry" and "ping"
  messages,   \* how many the client sent
  queue,      \* activities
  batch,      \* those being sent; the mutex of the queue is held meanwhile
  waiting,    \* the callers of log_activity, in order
  seen,       \* seen_jtoken_ids has the id
  request,    \* request[r]: "none", "checked", "served", "refused"
  restarts,
  told,       \* history: the tokens of which the client was told that they are over
  leaked,     \* history: the client was sent what its token does not grant
  logged,     \* history: how many activities there were
  arrived,    \* history: those that arrived at the panel
  failed,     \* history: those whose sending failed
  raced       \* history: a request was checked while another was, or before a restart

socket == <<open, jwt, readers, line, client, listener, messages, told, leaked>>
log == <<queue, batch, waiting, logged, arrived, failed>>
tickets == <<seen, request, raced>>
vars == <<life, socket, log, tickets, restarts>>

Listener == {"events", "stdout", "expiry", "ping"}
Task == Listener \cup {"client"}

\* What a task does: pc, the token it has to do with, and what it is about.
TaskRecord == [pc : {"idle", "wait", "send", "write", "handle", "log"},
               token : Token \cup {None}, what : {"none", "success", "expired", "lines",
                                                  "install", "status", "output", "expiring", "ping"}]
Rest == [pc |-> "idle", token |-> None, what |-> "none"]

TypeOK ==
  /\ life \in [Token -> {"good", "ending", "over"}]
  /\ open \in BOOLEAN /\ jwt \in Token \cup {None}
  /\ readers \subseteq Listener
  /\ \A i \in 1..Len(line) : line[i] \in Task
  /\ client \in TaskRecord /\ listener \in [Listener -> TaskRecord]
  /\ \A i \in 1..Len(waiting) : waiting[i] \in Logger \cup {"client"}
  /\ request \in [Request -> {"none", "checked", "served", "refused"}]
  /\ told \subseteq Token /\ failed \subseteq 1..logged

Init ==
  /\ life = [t \in Token |-> "good"]
  /\ open = TRUE /\ jwt = None /\ readers = {} /\ line = <<>>
  /\ client = Rest /\ listener = [k \in Listener |-> Rest] /\ messages = 0
  /\ queue = <<>> /\ batch = <<>> /\ waiting = <<>>
  /\ seen = FALSE /\ request = [r \in Request |-> "none"] /\ restarts = 0
  /\ told = {} /\ leaked = FALSE
  /\ logged = 0 /\ arrived = <<>> /\ failed = {} /\ raced = FALSE

\* validate: nothing can be denied, as it were a denial that is in the past.
Valid(t) == life[t] # "over"

Age(t) ==
  /\ life[t] # "over"
  /\ life' = [life EXCEPT ![t] = IF @ = "good" THEN "ending" ELSE "over"]
  /\ UNCHANGED <<socket, log, tickets, restarts>>

(***************************************************************************)
(* handle_jwt and handle_message                                           *)
(***************************************************************************)
OffSocket == UNCHANGED <<life, log, tickets, restarts>>

\* select! drops all tasks of the socket, and what they hold.
Closes ==
  /\ open' = FALSE
  /\ readers' = {} /\ line' = <<>>
  /\ client' = Rest /\ listener' = [k \in Listener |-> Rest]
  /\ UNCHANGED <<jwt, messages, told, leaked>>

\* A writer that waits for the token keeps new readers from it.
MayRead == client.pc # "write"

\* The client is being sent what, by task k.
Sends(k) == line' = Append(line, k)
Becomes(pc, t, what) == client' = [pc |-> pc, token |-> t, what |-> what]

Receives == open /\ client.pc = "idle" /\ messages < MaxMessages /\ messages' = messages + 1

\* The client authenticates.  One whose token is of no use is told that it is over.
Authenticate(t) ==
  /\ Receives
  /\ \/ /\ Valid(t) /\ t \in Connect
        /\ Becomes("send", t, "success") /\ Sends("client")
        /\ UNCHANGED <<open, readers, jwt, listener, told, leaked>>
     \/ /\ ~Valid(t) /\ t \in Connect
        /\ Becomes("send", t, "expired") /\ Sends("client")
        /\ UNCHANGED <<open, readers, jwt, listener, told, leaked>>
  /\ OffSocket

\* A token without the permission, or one that cannot be verified, ends the session,
\* and so do the end of the stream and other messages without a token in force.
CloseSocket ==
  /\ open /\ client.pc = "idle"
  /\ Closes
  /\ OffSocket

Admitted == jwt # None /\ Valid(jwt) /\ jwt \in Connect

\* send stats and send logs: some messages, whatever the token grants.
AskForLines ==
  /\ Receives /\ Admitted
  /\ Becomes("send", jwt, "lines") /\ Sends("client")
  /\ UNCHANGED <<open, jwt, readers, listener, told, leaked>> /\ OffSocket

\* set state and send command are carried out with the token there was.
Command ==
  /\ Receives /\ Admitted
  /\ client' = IF jwt \in Control THEN [pc |-> "handle", token |-> jwt, what |-> "none"] ELSE Rest
  /\ UNCHANGED <<open, jwt, readers, line, listener, told, leaked>> /\ OffSocket

Kept == UNCHANGED <<open, jwt, readers, line, listener, messages, told, leaked, life,
                    tickets, restarts>>

\* What has been done is logged, what failed is not.
Handled ==
  /\ client.pc = "handle"
  /\ \/ /\ Becomes("log", client.token, "none")
        /\ waiting' = Append(waiting, "client")
     \/ client' = Rest /\ UNCHANGED waiting
  /\ UNCHANGED <<queue, batch, logged, arrived, failed>> /\ Kept

\* The client has read what it was sent.
ClientSent ==
  /\ client.pc = "send" /\ line # <<>> /\ Head(line) = "client"
  /\ told' = IF client.what = "expired" THEN told \cup {client.token} ELSE told
  /\ \/ /\ line' = Tail(line)
        /\ client' = IF client.what = "success" THEN [client EXCEPT !.pc = "write"] ELSE Rest
     \/ client.what = "lines" /\ line' = Append(Tail(line), "client") /\ UNCHANGED client
  /\ UNCHANGED <<open, jwt, readers, listener, messages, leaked>> /\ OffSocket

\* The token comes into force when nobody reads the one before.
Replace ==
  /\ client.pc = "write" /\ readers = {}
  /\ jwt' = client.token
  /\ client' = Rest
  /\ UNCHANGED <<open, readers, line, listener, messages, told, leaked>> /\ OffSocket

(***************************************************************************)
(* The listeners.  They hold the token for reading until the client has    *)
(* what it grants.                                                         *)
(***************************************************************************)
Turn(k, what) ==
  /\ listener' = [listener EXCEPT ![k] = [pc |-> "send", token |-> jwt, what |-> what]]
  /\ Sends(k)

\* Mutants of Hear: what is seen is not held; of Announce: only what is about to expire
\* is announced.
HearLoose ==
  /\ open /\ listener["events"].pc = "idle" /\ MayRead /\ jwt # None
  /\ \E what \in {"status"} \cup (IF jwt \in Install THEN {"install"} ELSE {}) :
       Turn("events", what)
  /\ UNCHANGED <<open, jwt, readers, client, messages, told, leaked>> /\ OffSocket

AnnounceEnding ==
  /\ open /\ listener["expiry"].pc = "idle" /\ MayRead /\ jwt # None
  /\ life[jwt] = "ending" /\ Turn("expiry", "expiring")
  /\ readers' = readers \cup {"expiry"}
  /\ UNCHANGED <<open, jwt, client, messages, told, leaked>> /\ OffSocket

\* Events of the server; whether the token has expired is not looked at.
Hear ==
  /\ open /\ listener["events"].pc = "idle" /\ MayRead /\ jwt # None
  /\ \E what \in {"status"} \cup (IF jwt \in Install THEN {"install"} ELSE {}) :
       Turn("events", what)
  /\ readers' = readers \cup {"events"}
  /\ UNCHANGED <<open, jwt, client, messages, told, leaked>> /\ OffSocket

\* A line of the console goes to who has a valid token.
Output ==
  /\ open /\ listener["stdout"].pc = "idle" /\ MayRead /\ jwt # None /\ Valid(jwt)
  /\ Turn("stdout", "output")
  /\ readers' = readers \cup {"stdout"}
  /\ UNCHANGED <<open, jwt, client, messages, told, leaked>> /\ OffSocket

\* Every 30 seconds.
Announce ==
  /\ open /\ listener["expiry"].pc = "idle" /\ MayRead /\ jwt # None
  /\ \/ life[jwt] = "over" /\ Turn("expiry", "expired")
     \/ life[jwt] = "ending" /\ Turn("expiry", "expiring")
  /\ readers' = readers \cup {"expiry"}
  /\ UNCHANGED <<open, jwt, client, messages, told, leaked>> /\ OffSocket

Ping ==
  /\ open /\ listener["ping"].pc = "idle"
  /\ Turn("ping", "ping")
  /\ UNCHANGED <<open, jwt, readers, client, messages, told, leaked>> /\ OffSocket

ListenerSent(k) ==
  LET what == listener[k].what IN
  /\ listener[k].pc = "send" /\ line # <<>> /\ Head(line) = k
  /\ line' = Tail(line)
  /\ listener' = [listener EXCEPT ![k] = Rest]
  /\ readers' = readers \ {k}
  /\ told' = IF what = "expired" THEN told \cup {listener[k].token} ELSE told
  /\ leaked' = (leaked \/ (what = "install" /\ jwt \notin Install))
  /\ UNCHANGED <<open, jwt, client, messages>> /\ OffSocket

(***************************************************************************)
(* ActivityManager                                                         *)
(***************************************************************************)
OffLog == UNCHANGED <<life, open, jwt, readers, line, listener, messages, told, leaked,
                      tickets, restarts>>

LogActivity(c) ==
  /\ logged + Len(waiting) < MaxActivities
  /\ \A i \in 1..Len(waiting) : waiting[i] # c
  /\ waiting' = Append(waiting, c)
  /\ UNCHANGED <<queue, batch, logged, arrived, failed, client>> /\ OffLog

\* The mutex of the queue is fair; a caller that does not get it waits.
Push ==
  /\ batch = <<>> /\ waiting # <<>>
  /\ logged' = logged + 1
  /\ queue' = Append(queue, logged + 1)
  /\ client' = IF Head(waiting) = "client" THEN Rest ELSE client
  /\ waiting' = Tail(waiting)
  /\ UNCHANGED <<batch, arrived, failed>> /\ OffLog

Count == IF Len(queue) < SendCount THEN Len(queue) ELSE SendCount

\* Mutant: what is sent stays in the queue until the panel has answered.
DrainCopy ==
  /\ batch = <<>> /\ queue # <<>>
  /\ batch' = SubSeq(queue, 1, Count)
  /\ UNCHANGED <<queue, waiting, logged, arrived, failed, client>> /\ OffLog

Drain ==
  /\ batch = <<>> /\ queue # <<>>
  /\ batch' = SubSeq(queue, 1, Count)
  /\ queue' = SubSeq(queue, Count + 1, Len(queue))
  /\ UNCHANGED <<waiting, logged, arrived, failed, client>> /\ OffLog

\* The answer comes, or it does not and the batch is gone, arrived or not.  An answer with
\* an error status, which the code takes for a success, is one of those.
Answer(fails, arrives) ==
  /\ batch # <<>> /\ (fails \/ arrives)
  /\ batch' = <<>>
  /\ arrived' = IF arrives THEN arrived \o batch ELSE arrived
  /\ failed' = IF fails THEN failed \cup ToSet(batch) ELSE failed
  /\ UNCHANGED <<queue, waiting, logged, client>> /\ OffLog

(***************************************************************************)
(* one_time_id                                                             *)
(***************************************************************************)
OffTickets == UNCHANGED <<life, socket, log, restarts>>

\* verify, validate and a first look under the read lock.
CheckId(r) ==
  /\ request[r] = "none"
  /\ request' = [request EXCEPT ![r] = IF seen THEN "refused" ELSE "checked"]
  /\ raced' = (raced \/ \E q \in Request : request[q] = "checked")
  /\ UNCHANGED seen /\ OffTickets

\* Mutant of Insert: the id is forgotten.
InsertNot(r) ==
  /\ request[r] = "checked"
  /\ request' = [request EXCEPT ![r] = "served"]
  /\ UNCHANGED <<seen, raced>> /\ OffTickets

\* The id is added under another lock, and the request is served.
Insert(r) ==
  /\ request[r] = "checked"
  /\ seen' = TRUE
  /\ request' = [request EXCEPT ![r] = "served"]
  /\ UNCHANGED raced /\ OffTickets

\* The ids, the queue and the sockets are in memory only.
Restart ==
  /\ restarts < MaxRestarts
  /\ restarts' = restarts + 1
  /\ Closes
  /\ queue' = <<>> /\ batch' = <<>> /\ waiting' = <<>>
  /\ failed' = failed \cup ToSet(queue) \cup ToSet(batch)
  /\ seen' = FALSE
  /\ request' = [r \in Request |-> IF request[r] = "checked" THEN "refused" ELSE request[r]]
  /\ raced' = TRUE
  /\ UNCHANGED <<life, logged, arrived>>

ClientSteps == Handled \/ ClientSent \/ Replace
ListenerSteps == \E k \in Listener : ListenerSent(k)
LogSteps == Push \/ Drain \/ \E fails, arrives \in BOOLEAN : Answer(fails, arrives)

SocketNext ==
  \/ \E t \in Token : Age(t) \/ Authenticate(t)
  \/ CloseSocket \/ AskForLines \/ Command
  \/ ClientSteps \/ Hear \/ Output \/ Announce \/ Ping \/ ListenerSteps
  \/ LogSteps

LogNext == (\E c \in Logger : LogActivity(c)) \/ LogSteps

TicketNext == (\E r \in Request : CheckId(r) \/ Insert(r)) \/ Restart

Next == SocketNext \/ LogNext \/ TicketNext

Spec == Init /\ [][Next]_vars

\* A client reads what it is sent, the panel answers or the request times out, and
\* every 30 seconds the token is looked at.
Fairness == WF_vars(ClientSteps) /\ WF_vars(ListenerSteps) /\ WF_vars(LogSteps) /\ WF_vars(Announce)

LiveSpec == Spec /\ Fairness

(***************************************************************************)
(* Properties                                                              *)
(***************************************************************************)

\* The output of an installation reaches only a client whose token grants it when it
\* is sent, even if the client changes to a token that grants less; and all values
\* have their types.
GrantHolds == TypeOK /\ ~leaked

\* Of all activities, in the order in which they were logged, first come those that
\* were sent, then those being sent, then those in the queue; none arrives twice or out
\* of order, and those that did not arrive are of a batch that failed or were lost in
\* a restart.
ActivityFaithful ==
  /\ \A i \in 1..(Len(arrived) - 1) : arrived[i] < arrived[i + 1]
  /\ IsSuffix(batch \o queue, [i \in 1..logged |-> i])
  /\ \A n \in 1..logged : n \in ToSet(arrived) \cup failed \cup ToSet(batch \o queue)

\* A one-time token serves one request, unless another was checked at the same time or
\* the daemon was restarted.
OneUse == ~raced => Cardinality({r \in Request : request[r] = "served"}) <= 1

\* A token that was accepted comes into force, however much the tasks that hold the one
\* before have to send; a client is told when its token is over; and who logs an
\* activity does not wait for ever.
TokenSettles ==
  /\ client.pc = "write" ~> client.pc # "write"
  /\ \A t \in Token : (open /\ jwt = t /\ life[t] = "over") ~> (~open \/ jwt # t \/ t \in told)
  /\ client.pc = "log" ~> client.pc # "log"
=============================================================================
