-------------------------------- MODULE Pulls --------------------------------
(***************************************************************************)
(* Remote downloads into a server's files: the pulls map of Filesystem     *)
(* with its read-write lock (server/filesystem/mod.rs, pull.rs) and the    *)
(* request handlers that list, begin and cancel downloads                  *)
(* (routes/.../files/pull).                                                *)
(*                                                                         *)
(* A step is the code between two await points.  The lock is tokio's:      *)
(* first come, first served, so that readers wait behind a waiting writer. *)
(* The locks of the single downloads are held for one step at most and are *)
(* left out.  What a download transfers is left out too.                   *)
(***************************************************************************)
EXTENDS Naturals, Sequences, SequencesExt, FiniteSets

CONSTANTS
  Handler,     \* concurrent requests
  Download,    \* identifiers; one is reused once nothing refers to it
  NoDownload,
  Ops,         \* the requests clients send, a part of {"get", "post", "delete"}
  MaxPulls     \* 3, the number of downloads at which a request is refused

ASSUME PullsAssumption ==
  /\ IsFiniteSet(Handler) /\ NoDownload \notin Download
  /\ Ops \subseteq {"get", "post", "delete"}
  /\ MaxPulls \in Nat \ {0}

VARIABLES
  pulls,      \* the map: identifiers of the downloads it holds
  readers,    \* handlers that hold the read lock
  queue,      \* handlers that wait for the lock, in order
  task,       \* the task of each download
  handler,    \* the requests
  early       \* history: downloads swept before their task was started

vars == <<pulls, readers, queue, task, handler, early>>

Tasks == {"none", "running", "ended"}

\* Where a request stands: about to sweep the map, waiting for the read lock,
\* holding it, downloading the headers, waiting for the write lock, about to
\* start the task, waiting for it.
PC == {"idle", "pulls", "wait_read", "read", "fetch", "wait_write", "start",
       "foreground"}
HandlerRecord == [op : {"get", "post", "delete"}, pc : PC,
                  download : Download \cup {NoDownload}]
Idle == [op |-> "get", pc |-> "idle", download |-> NoDownload]

TypeOK ==
  /\ pulls \subseteq Download
  /\ readers \subseteq Handler
  /\ queue \in Seq(Handler) /\ IsInjective(queue)
  /\ task \in [Download -> Tasks]
  /\ handler \in [Handler -> HandlerRecord]
  /\ early \subseteq Download

Init ==
  /\ pulls = {}
  /\ readers = {}
  /\ queue = <<>>
  /\ task = [d \in Download |-> "none"]
  /\ handler = [h \in Handler |-> Idle]
  /\ early = {}

At(h, pc)   == handler[h].pc = pc
Goto(h, pc) == handler' = [handler EXCEPT ![h].pc = pc]
Return(h)   == handler' = [handler EXCEPT ![h] = Idle]
Referenced  == pulls \cup {handler[h].download : h \in Handler}
                     \cup {d \in Download : task[d] = "running"}

\* A request arrives; only the identifiers in the map are worth deleting.
Begin(h, o, d) ==
  /\ At(h, "idle")
  /\ (o = "delete") = (d # NoDownload)
  /\ handler' = [handler EXCEPT ![h] = [op |-> o, pc |-> "pulls", download |-> d]]
  /\ UNCHANGED <<pulls, readers, queue, task, early>>

(***************************************************************************)
(* Filesystem::pulls                                                       *)
(***************************************************************************)

\* Mutant of Swept: every download goes.
SweptAll == pulls

\* A download is dropped from the map once its task has ended, and also while
\* it has none.
Swept == {d \in pulls : task[d] # "running"}

\* try_write: only when nobody holds the lock or waits for it.
Sweep(h) ==
  /\ At(h, "pulls")
  /\ IF readers = {} /\ queue = <<>>
     THEN /\ pulls' = pulls \ Swept
          /\ early' = early \cup {d \in Swept : task[d] = "none"}
     ELSE UNCHANGED <<pulls, early>>
  /\ queue' = Append(queue, h)
  /\ Goto(h, "wait_read")
  /\ UNCHANGED <<readers, task>>

\* The read lock is granted in turn.
GrantRead(h) ==
  /\ queue # <<>> /\ Head(queue) = h
  /\ At(h, "wait_read")
  /\ readers' = readers \cup {h}
  /\ queue' = Tail(queue)
  /\ Goto(h, "read")
  /\ UNCHANGED <<pulls, task, early>>

(***************************************************************************)
(* The requests                                                            *)
(***************************************************************************)
List(h) ==
  /\ At(h, "read")
  /\ handler[h].op = "get"
  /\ readers' = readers \ {h}
  /\ Return(h)
  /\ UNCHANGED <<pulls, queue, task, early>>

\* Mutant of CheckLimit: the limit itself is still let through.
CheckLimitOff(h) ==
  /\ At(h, "read")
  /\ handler[h].op = "post"
  /\ readers' = readers \ {h}
  /\ IF Cardinality(pulls) > MaxPulls THEN Return(h) ELSE Goto(h, "fetch")
  /\ UNCHANGED <<pulls, queue, task, early>>

\* The limit is checked here, long before the download is in the map.
CheckLimit(h) ==
  /\ At(h, "read")
  /\ handler[h].op = "post"
  /\ readers' = readers \ {h}
  /\ IF Cardinality(pulls) >= MaxPulls THEN Return(h) ELSE Goto(h, "fetch")
  /\ UNCHANGED <<pulls, queue, task, early>>

\* Download::new has the response, and the insert asks for the write lock ...
Fetched(h) ==
  /\ At(h, "fetch")
  /\ \E d \in Download \ Referenced :
       /\ handler' = [handler EXCEPT ![h].pc = "wait_write", ![h].download = d]
       /\ task' = [task EXCEPT ![d] = "none"]
       /\ early' = early \ {d}
  /\ queue' = Append(queue, h)
  /\ UNCHANGED <<pulls, readers>>

\* ... or the request to the remote host fails, and the handler with it.
FetchFails(h) ==
  /\ At(h, "fetch")
  /\ Return(h)
  /\ UNCHANGED <<pulls, readers, queue, task, early>>

\* The write lock is granted, and released at the end of the statement: a new
\* download is inserted, a cancelled one removed.
GrantWrite(h) ==
  /\ queue # <<>> /\ Head(queue) = h
  /\ At(h, "wait_write")
  /\ readers = {}
  /\ queue' = Tail(queue)
  /\ IF handler[h].op = "post"
     THEN pulls' = pulls \cup {handler[h].download} /\ Goto(h, "start")
     ELSE pulls' = pulls \ {handler[h].download} /\ Return(h)
  /\ UNCHANGED <<readers, task, early>>

\* The handler answers at once or, in the foreground, when the task has ended.
Start(h) ==
  /\ At(h, "start")
  /\ task' = [task EXCEPT ![handler[h].download] = "running"]
  /\ \/ Goto(h, "foreground")
     \/ Return(h)
  /\ UNCHANGED <<pulls, readers, queue, early>>

\* Mutant of Finish: it waits for the download to leave the map.
FinishUnlisted(h) ==
  /\ At(h, "foreground")
  /\ handler[h].download \notin pulls
  /\ Return(h)
  /\ UNCHANGED <<pulls, readers, queue, task, early>>

Finish(h) ==
  /\ At(h, "foreground")
  /\ task[handler[h].download] # "running"
  /\ Return(h)
  /\ UNCHANGED <<pulls, readers, queue, task, early>>

NotFound(h) ==
  /\ At(h, "read")
  /\ handler[h].op = "delete"
  /\ handler[h].download \notin pulls
  /\ readers' = readers \ {h}
  /\ Return(h)
  /\ UNCHANGED <<pulls, queue, task, early>>

\* The task is aborted; the write lock is asked for with the read lock in hand.
Abort(h) ==
  /\ At(h, "read")
  /\ handler[h].op = "delete"
  /\ handler[h].download \in pulls
  /\ task' = [task EXCEPT ![handler[h].download] =
                IF @ = "running" THEN "ended" ELSE @]
  /\ queue' = Append(queue, h)
  /\ Goto(h, "wait_write")
  /\ UNCHANGED <<pulls, readers, early>>

\* The client closes the connection: the handler is dropped where it waits, and
\* its lock or its place in the queue with it.
Disconnect(h) ==
  /\ handler[h].pc \in {"wait_read", "read", "fetch", "wait_write", "start", "foreground"}
  /\ readers' = readers \ {h}
  /\ queue' = RemoveFirst(queue, h)
  /\ Return(h)
  /\ UNCHANGED <<pulls, task, early>>

\* A download ends, well or not.
TaskEnds(d) ==
  /\ task[d] = "running"
  /\ task' = [task EXCEPT ![d] = "ended"]
  /\ UNCHANGED <<pulls, readers, queue, handler, early>>

Steps(h) ==
  \/ Sweep(h) \/ GrantRead(h) \/ List(h)
  \/ CheckLimit(h) \/ Fetched(h) \/ FetchFails(h) \/ GrantWrite(h) \/ Start(h)
  \/ Finish(h)
  \/ NotFound(h) \/ Abort(h)

Next ==
  \/ \E h \in Handler :
       \/ \E o \in Ops, d \in pulls \cup {NoDownload} : Begin(h, o, d)
       \/ Steps(h)
       \/ Disconnect(h)
  \/ \E d \in Download : TaskEnds(d)

Spec == Init /\ [][Next]_vars

\* The executor runs ready handlers and downloads end; nobody has to hang up.
Fairness ==
  /\ \A h \in Handler : WF_vars(Steps(h))
  /\ \A d \in Download : WF_vars(TaskEnds(d))

LiveSpec == Spec /\ Fairness

(***************************************************************************)
(* Properties                                                              *)
(***************************************************************************)

\* A download that runs can be listed and cancelled, unless another request
\* swept the map in the moment between its insertion and its start; and all values
\* have their types.
RunningListed ==
  TypeOK /\ \A d \in Download : task[d] = "running" => d \in pulls \cup early

\* The limit is checked before the remote host is asked and the download is
\* inserted after it answered: the map outgrows the limit by as many downloads
\* as there are requests under way, and no further.
LimitHeld == Cardinality(pulls) + 1 <= MaxPulls + Cardinality(Handler)

\* A handler that waits for itself: it has the read lock and wants the write lock.
Stuck(h) == h \in readers /\ At(h, "wait_write")

\* Every request is answered, in the foreground when its download has ended,
\* however many others wait for the lock, unless some request is stuck.
RequestsReturn ==
  \A h \in Handler : ~At(h, "idle") ~> At(h, "idle") \/ \E g \in Handler : Stuck(g)

\* A request to cancel a download is answered, as the route's description says.
DeleteReturns ==
  \A h \in Handler :
    handler[h].op = "delete" /\ ~At(h, "idle") ~> At(h, "idle")
=============================================================================
