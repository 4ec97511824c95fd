-------------------------------- MODULE Files --------------------------------
(***************************************************************************)
(* The files of one server and the usage the daemon keeps of them: the     *)
(* usage per directory and in all (server/filesystem/usage.rs and mod.rs), *)
(* the checker thread that recomputes both, SFTP sessions with their       *)
(* handles (sftp/mod.rs, sftp/auth.rs), the routes that change files       *)
(* (routes/api/servers/_server_/files), and a maintenance that locks the   *)
(* server and may empty it.                                                *)
(*                                                                         *)
(* A request is checked and then leaves a queue of steps, each the code    *)
(* between two awaits; a failing step drops the rest of the queue.  An     *)
(* allocation is one step and the tree of directories another: the races   *)
(* inside an allocation are in DiskQuota.  Symbolic links, permissions,    *)
(* modes, ignored files and the sizes of directories themselves are left   *)
(* out; the checker reads one directory in a step.                         *)
(***************************************************************************)
EXTENDS Integers, Sequences, FiniteSets, SequencesExt, FiniteSetsExt

CONSTANTS
  Session,      \* SFTP sessions
  Route,        \* requests over HTTP
  Folder,       \* names in the base directory
  File,         \* names one level below
  Home,         \* the directory there is at the start
  MaxSize,      \* bound: size of a file
  DiskLimit,    \* disk_limit, 0 for none
  HandleLimit,  \* HANDLE_LIMIT
  EntryLimit,   \* sftp.directory_entry_limit
  SendAmount,   \* sftp.directory_entry_send_amount
  ReadOnly,     \* sftp.read_only
  MaxRequests   \* bound: requests and maintenances, all together

ASSUME FilesAssumption ==
  /\ Session \cap Route = {} /\ "maintenance" \notin Session \cup Route
  /\ Home \in Folder /\ IsFiniteSet(Folder) /\ IsFiniteSet(File)
  /\ MaxSize \in Nat \ {0} /\ DiskLimit \in Nat
  /\ HandleLimit \in Nat \ {0} /\ EntryLimit \in Nat \ {0} /\ SendAmount \in Nat \ {0}
  /\ ReadOnly \in BOOLEAN /\ MaxRequests \in Nat

VARIABLES
  files,     \* the size of each file
  dirs,      \* the directories
  tree,      \* disk_usage: the usage of each directory that has an entry
  cached,    \* disk_usage_cached
  scanner,   \* the checker thread
  session,   \* session[s]: "none", "auth", "open", "closed"
  handles,   \* handles[s]: the handles by their id
  handle_id, \* handle_id[s]: the next id
  todo,      \* todo[c]: the steps left of the request of client c
  requests,  \* how many there were
  locked,    \* is_locked_state
  excused,   \* history: the session's request was under way when the server was locked
  intruded   \* history: another request of a session changed files under a lock

usage == <<tree, cached>>
disk == <<files, dirs>>
sftp == <<session, handles, handle_id>>
history == <<excused, intruded>>
filesVars == <<disk, usage, scanner, sftp, todo, requests, locked, history>>

Path == {<<x>> : x \in Folder} \cup (Folder \X File)
Client == Session \cup Route \cup {"maintenance"}
Root == <<>>

IsFile(p) == p \in DOMAIN files
IsDir(p) == p = Root \/ p \in dirs
Exists(p) == IsFile(p) \/ IsDir(p)
Parent(p) == Front(p)
Below(p) == {q \in DOMAIN files \cup dirs : IsStrictPrefix(p, q)}
Positive(n) == Max({n, 0})

StepRecord == [do : {"count", "tree", "forget", "rehang", "unlink", "rmtree", "clear", "zero",
                     "mkdir", "mkdirs", "move", "put", "copy", "open", "write"},
               at : Path \cup {Root}, to : Path \cup {Root}, n : Int, id : Nat,
               how : SUBSET {"strict", "write", "create", "truncate"}]

\* at: where the file is now, if it is linked still.
HandleRecord == [kind : {"file", "dir"}, path : Path \cup {Root}, at : Path \cup {Root},
                 linked : BOOLEAN, write : BOOLEAN, consumed : Nat, size : Nat]

FilesTypeOK ==
  /\ DOMAIN files \subseteq Path /\ \A p \in DOMAIN files : files[p] \in 0..MaxSize
  /\ dirs \subseteq Path
  /\ \A p \in DOMAIN tree : p \in Path /\ tree[p] \in Nat
  /\ cached \in Nat
  /\ session \in [Session -> {"none", "auth", "open", "closed"}]
  /\ \A s \in Session : \A id \in DOMAIN handles[s] : handles[s][id] \in HandleRecord
  /\ handle_id \in [Session -> Nat]
  /\ \A c \in Client : \A i \in 1..Len(todo[c]) : todo[c][i] \in StepRecord
  /\ locked \in BOOLEAN
  /\ excused \in [Session -> BOOLEAN] /\ intruded \in BOOLEAN

(***************************************************************************)
(* DiskUsage                                                               *)
(***************************************************************************)
get_size(t, p) == IF p \in DOMAIN t THEN t[p] ELSE 0

OnPath(p) == {SubSeq(p, 1, n) : n \in 1..Len(p)}

\* Every directory on the way gets an entry.
update_size(t, p, delta) ==
  [q \in DOMAIN t \cup OnPath(p) |->
     IF q \in OnPath(p) THEN Positive(get_size(t, q) + delta) ELSE t[q]]

remove_path(t, p) ==
  IF p \notin DOMAIN t THEN t
  ELSE [q \in {q \in DOMAIN t : ~IsPrefix(p, q)} |->
          IF IsPrefix(q, p) THEN Positive(t[q] - t[p]) ELSE t[q]]

\* What a directory holds directly, and all it holds.
Local(p) == MapThenSumSet(LAMBDA q : files[q], {q \in DOMAIN files : Parent(q) = p})
Held(p) == MapThenSumSet(LAMBDA q : files[q], {q \in DOMAIN files : IsStrictPrefix(p, q)})

\* A server that was found on the disk when the daemon started: nothing is known of
\* its usage before the first check.
NewScan == [pc |-> "read", unread |-> {Root}, found |-> <<>>, root |-> 0]

FilesInit ==
  /\ dirs = {<<Home>>}
  /\ files = [p \in {Home} \X File |-> MaxSize]
  /\ tree = [p \in {} |-> 0] /\ cached = 0
  /\ scanner = NewScan
  /\ session = [s \in Session |-> "none"]
  /\ handles = [s \in Session |-> <<>>]
  /\ handle_id = [s \in Session |-> 0]
  /\ todo = [c \in Client |-> <<>>]
  /\ requests = 0
  /\ locked = FALSE
  /\ excused = [s \in Session |-> FALSE] /\ intruded = FALSE

(***************************************************************************)
(* The checker thread                                                      *)
(***************************************************************************)
ScanKeeps == UNCHANGED <<disk, sftp, todo, requests, locked, history>>

\* recursive_size of a directory: what it holds directly is added to it and to all
\* above it.  One that is gone adds nothing, but gets its entry.
ScanReads ==
  /\ scanner.pc = "read"
  /\ \E p \in scanner.unread :
       scanner' = [scanner EXCEPT
         !.unread = (@ \ {p}) \cup {q \in dirs : Parent(q) = p},
         !.found = update_size(@, p, Local(p)),
         !.root = IF p = Root THEN Local(p) ELSE @]
  /\ UNCHANGED usage /\ ScanKeeps

ScanReplaces ==
  /\ scanner.pc = "read" /\ scanner.unread = {}
  /\ tree' = scanner.found
  /\ scanner' = [scanner EXCEPT !.pc = "store"]
  /\ UNCHANGED cached /\ ScanKeeps

\* Mutant of ScanStores: the usage is computed once, when the server is loaded.
ScanOnce ==
  /\ scanner.pc = "store"
  /\ cached' = scanner.root + MapThenSumSet(LAMBDA p : scanner.found[p],
                                            {p \in DOMAIN scanner.found : Len(p) = 1})
  /\ scanner' = [NewScan EXCEPT !.pc = "over"]
  /\ UNCHANGED tree /\ ScanKeeps

\* Then the checker sleeps, and begins anew.
ScanStores ==
  /\ scanner.pc = "store"
  /\ cached' = scanner.root + MapThenSumSet(LAMBDA p : scanner.found[p],
                                            {p \in DOMAIN scanner.found : Len(p) = 1})
  /\ scanner' = NewScan
  /\ UNCHANGED tree /\ ScanKeeps

Scan == ScanReads \/ ScanReplaces \/ ScanStores


(***************************************************************************)
(* The steps a request leaves                                              *)
(***************************************************************************)
Step(do, at) == [do |-> do, at |-> at, to |-> Root, n |-> 0, id |-> 0, how |-> {}]
Charge(p, n) == <<[Step("count", p) EXCEPT !.n = n]>>
ChargeOrFail(p, n) == <<[Step("count", p) EXCEPT !.n = n, !.how = {"strict"}]>>

\* A directory gives back what the tree says of it, a file its size.
TruncatePath(p) ==
  IF IsDir(p)
  THEN LET size == get_size(tree, p)
       IN  Charge(p, -size) \o (IF size > 0 THEN <<Step("forget", p)>> ELSE <<>>)
             \o <<Step("rmtree", p)>>
  ELSE Charge(p, -files[p]) \o <<Step("unlink", p)>>

RenamePath(p, q) ==
  <<Step("mkdirs", Parent(q))>>
    \o (IF IsDir(p) THEN <<Step("rehang", p)>>
                    ELSE Charge(Parent(p), -files[p]) \o Charge(Parent(q), files[p]))
    \o <<[Step("move", p) EXCEPT !.to = q]>>

TruncateRoot == <<Step("clear", Root), Step("zero", Root), Step("rmtree", Root)>>

CopyFile(p, q) == ChargeOrFail(Parent(q), files[p]) \o <<[Step("copy", p) EXCEPT !.to = q]>>

Doing(c, do) == todo[c] # <<>> /\ Head(todo[c]).do = do
Now(c) == Head(todo[c])
Done(c) == todo' = [todo EXCEPT ![c] = Tail(@)]
Drop(c) == todo' = [todo EXCEPT ![c] = <<>>]
StepKeeps == UNCHANGED <<scanner, requests, locked, session, handle_id, excused>>

\* Whether a step changes files of a locked server for a session, unexcused.
Marked(c) == intruded \/ (locked /\ c \in Session /\ disk' # disk /\ ~excused[c])

\* What became of the files behind the handles.
Handles(F(_)) == [s \in Session |-> [id \in DOMAIN handles[s] |-> F(handles[s][id])]]
Unlinked(h, p) == IF h.linked /\ h.at = p THEN [h EXCEPT !.linked = FALSE] ELSE h
Moved(h, p, q) ==
  IF h.linked /\ IsPrefix(p, h.at)
  THEN [h EXCEPT !.at = q \o SubSeq(@, Len(p) + 1, Len(@))] ELSE Unlinked(h, q)

\* allocate_in_path_raw: the total first.
Allocate(c) ==
  LET n == Now(c).n
      fits == n <= 0 \/ DiskLimit = 0 \/ cached + n <= DiskLimit
  IN
  /\ Doing(c, "count")
  /\ IF n = 0 \/ ~fits
     THEN /\ IF fits \/ "strict" \notin Now(c).how THEN Done(c) ELSE Drop(c)
          /\ UNCHANGED cached
     ELSE /\ cached' = Positive(cached + n)
          /\ todo' = [todo EXCEPT ![c] = <<[Now(c) EXCEPT !.do = "tree"]>> \o Tail(@)]
  /\ UNCHANGED <<disk, tree, handles, intruded>> /\ StepKeeps

\* ... then the directories on the path, and the file name where that is in it.
AllocateTree(c) ==
  /\ Doing(c, "tree")
  /\ tree' = update_size(tree, Now(c).at, Now(c).n)
  /\ Done(c)
  /\ UNCHANGED <<disk, cached, handles, intruded>> /\ StepKeeps

Forget(c) ==
  /\ Doing(c, "forget")
  /\ tree' = remove_path(tree, Now(c).at)
  /\ Done(c)
  /\ UNCHANGED <<disk, cached, handles, intruded>> /\ StepKeeps

\* rename_path of a directory takes its entry out of the tree and then expects an
\* absolute path where it has a relative one: with an entry the task panics, and a
\* session with it.
Rehang(c) ==
  /\ Doing(c, "rehang")
  /\ tree' = remove_path(tree, Now(c).at)
  /\ IF Now(c).at \in DOMAIN tree
     THEN /\ Drop(c)
          /\ session' = IF c \in Session THEN [session EXCEPT ![c] = "closed"] ELSE session
          /\ handles' = IF c \in Session THEN [handles EXCEPT ![c] = <<>>] ELSE handles
     ELSE Done(c) /\ UNCHANGED <<session, handles>>
  /\ UNCHANGED <<disk, cached, scanner, requests, locked, handle_id, history>>

Clear(c) ==
  /\ Doing(c, "clear")
  /\ tree' = <<>>
  /\ Done(c)
  /\ UNCHANGED <<disk, cached, handles, intruded>> /\ StepKeeps

Zero(c) ==
  /\ Doing(c, "zero")
  /\ cached' = 0
  /\ Done(c)
  /\ UNCHANGED <<disk, tree, handles, intruded>> /\ StepKeeps

Unlink(c) ==
  LET p == Now(c).at IN
  /\ Doing(c, "unlink") /\ IsFile(p)
  /\ files' = [q \in DOMAIN files \ {p} |-> files[q]]
  /\ handles' = Handles(LAMBDA h : Unlinked(h, p))
  /\ Done(c)
  /\ UNCHANGED <<dirs, usage>> /\ StepKeeps
  /\ intruded' = Marked(c)

\* remove_dir_all, one entry after the other.  The base directory itself stays.
RemoveDirAll(c) ==
  LET p == Now(c).at IN
  /\ Doing(c, "rmtree") /\ IsDir(p)
  /\ \/ \E q \in Below(p) :
          /\ Below(q) = {}
          /\ files' = [r \in DOMAIN files \ {q} |-> files[r]]
          /\ dirs' = dirs \ {q}
          /\ handles' = Handles(LAMBDA h : Unlinked(h, q))
          /\ UNCHANGED todo
     \/ /\ Below(p) = {}
        /\ dirs' = dirs \ {p}
        /\ Done(c)
        /\ UNCHANGED <<files, handles>>
  /\ UNCHANGED usage /\ StepKeeps
  /\ intruded' = Marked(c)

\* create_dir wants a name that is free, create_dir_all does not.
MakeDir(c) ==
  LET p == Now(c).at IN
  /\ Doing(c, "mkdir") \/ Doing(c, "mkdirs")
  /\ ~IsFile(p)
  /\ Doing(c, "mkdir") => ~Exists(p) /\ IsDir(Parent(p))
  /\ \A q \in OnPath(p) : ~IsFile(q)
  /\ dirs' = dirs \cup OnPath(p)
  /\ Done(c)
  /\ UNCHANGED <<files, usage, handles>> /\ StepKeeps
  /\ intruded' = Marked(c)

\* rename(2): a file or an empty directory in the way is replaced by its like.
Move(c) ==
  LET p == Now(c).at
      q == Now(c).to
      From(r) == p \o SubSeq(r, Len(q) + 1, Len(r))
      Onto(r) == q \o SubSeq(r, Len(p) + 1, Len(r))
  IN
  /\ Doing(c, "move") /\ Exists(p) /\ IsDir(Parent(q)) /\ ~IsPrefix(p, q)
  /\ Exists(q) => (IsFile(p) <=> IsFile(q)) /\ Below(q) = {}
  /\ \A r \in Below(p) : Onto(r) \in Path
  /\ files' = [r \in {r \in DOMAIN files : ~IsPrefix(p, r) /\ r # q}
                     \cup {Onto(r) : r \in {r \in DOMAIN files : IsPrefix(p, r)}} |->
                 IF IsPrefix(q, r) THEN files[From(r)] ELSE files[r]]
  /\ dirs' = {r \in dirs : ~IsPrefix(p, r)} \cup {Onto(r) : r \in {r \in dirs : IsPrefix(p, r)}}
  /\ handles' = Handles(LAMBDA h : Moved(h, p, q))
  /\ Done(c)
  /\ UNCHANGED usage /\ StepKeeps
  /\ intruded' = Marked(c)

Copy(c) ==
  LET p == Now(c).at
      q == Now(c).to
  IN
  /\ Doing(c, "copy") /\ IsFile(p) /\ ~IsDir(q) /\ IsDir(Parent(q))
  /\ files' = [r \in DOMAIN files \cup {q} |-> IF r = q THEN files[p] ELSE files[r]]
  /\ Done(c)
  /\ UNCHANGED <<dirs, usage, handles>> /\ StepKeeps
  /\ intruded' = Marked(c)

\* A file is created or truncated and written.
Put(c) ==
  LET p == Now(c).at IN
  /\ Doing(c, "put") /\ ~IsDir(p) /\ IsDir(Parent(p))
  /\ files' = [r \in DOMAIN files \cup {p} |-> IF r = p THEN Now(c).n ELSE files[r]]
  /\ Done(c)
  /\ UNCHANGED <<dirs, usage, handles, intruded>> /\ StepKeeps

\* A panic or an error answer.
Fails(c) ==
  /\ todo[c] # <<>>
  /\ Now(c).do \in {"unlink", "rmtree", "mkdir", "mkdirs", "move", "copy", "put", "open", "write"}
  /\ Drop(c)
  /\ UNCHANGED <<disk, usage, handles, intruded>> /\ StepKeeps

(***************************************************************************)
(* SFTP                                                                    *)
(***************************************************************************)
SessionKeeps == UNCHANGED <<disk, usage, scanner, locked>>

\* The panel accepts the user, and the server is not locked.
Authenticate(s) ==
  /\ session[s] = "none" /\ ~locked
  /\ session' = [session EXCEPT ![s] = "auth"]
  /\ UNCHANGED <<handles, handle_id, todo, requests, history>> /\ SessionKeeps

\* The subsystem is opened without another look at the lock.
SubsystemRequest(s) ==
  /\ session[s] = "auth"
  /\ session' = [session EXCEPT ![s] = "open"]
  /\ handle_id' = [handle_id EXCEPT ![s] = 0]
  /\ handles' = [handles EXCEPT ![s] = <<>>]
  /\ UNCHANGED <<todo, requests, history>> /\ SessionKeeps

allow_action == ~locked

\* A session handles one request after the other; when its client goes, the one under
\* way is still handled.
Ready(s) == session[s] = "open" /\ todo[s] = <<>> /\ requests < MaxRequests

Answers(s) ==
  /\ requests' = requests + 1
  /\ excused' = [excused EXCEPT ![s] = FALSE]
  /\ UNCHANGED <<session, intruded>> /\ SessionKeeps

Queues(s, steps) ==
  /\ todo' = [todo EXCEPT ![s] = steps]
  /\ Answers(s)
  /\ UNCHANGED <<handles, handle_id>>

\* Mutant of RemoveFile: the lock is not looked at.
RemoveLocked(s, p) ==
  /\ Ready(s) /\ ~ReadOnly /\ IsFile(p)
  /\ Queues(s, TruncatePath(p) \o Charge(Parent(p), -files[p]))

\* truncate_path gives the size back, and remove gives it back again.
RemoveFile(s, p) ==
  /\ Ready(s) /\ allow_action /\ ~ReadOnly /\ IsFile(p)
  /\ Queues(s, TruncatePath(p) \o Charge(Parent(p), -files[p]))

Rmdir(s, p) ==
  /\ Ready(s) /\ allow_action /\ ~ReadOnly /\ p \in dirs
  /\ Queues(s, TruncatePath(p))

Mkdir(s, p) ==
  /\ Ready(s) /\ allow_action /\ ~ReadOnly /\ ~Exists(p)
  /\ Queues(s, <<Step("mkdir", p)>>)

Rename(s, p, q) ==
  /\ Ready(s) /\ allow_action /\ ~ReadOnly /\ Exists(p) /\ ~Exists(q)
  /\ Queues(s, RenamePath(p, q))

\* The extension looks neither at sftp.read_only nor at overwrite for a file.
CopyFileRequest(s, p, q) ==
  /\ Ready(s) /\ allow_action /\ IsFile(p) /\ p # q
  /\ Queues(s, CopyFile(p, q))

OpenFile(s, p, how) ==
  /\ Ready(s) /\ allow_action /\ Cardinality(DOMAIN handles[s]) < HandleLimit
  /\ IsFile(p) \/ (~Exists(p) /\ "create" \in how)
  /\ Queues(s, <<[Step("open", p) EXCEPT !.how = how]>>)

Insert(s, id, handle) ==
  /\ handle_id' = [handle_id EXCEPT ![s] = @ + 1]
  /\ handles' = [handles EXCEPT ![s] = [i \in DOMAIN @ \cup {id} |->
                                          IF i = id THEN handle ELSE @[i]]]

FileHandle(p, how, size) ==
  [kind |-> "file", path |-> p, at |-> p, linked |-> TRUE, write |-> "write" \in how,
   consumed |-> 0, size |-> size]

\* What an open directory lists is looked up under its path.
DirHandle(p) ==
  [kind |-> "dir", path |-> p, at |-> p, linked |-> FALSE, write |-> FALSE,
   consumed |-> 0, size |-> 0]

next_handle_id(s) == handle_id[s]

\* Creating and truncating need a file opened for writing.  What is truncated is not
\* given back.
OpenWith(s) ==
  LET p == Now(s).at
      how == Now(s).how
      size == IF IsFile(p) /\ "truncate" \notin how THEN files[p] ELSE 0
  IN
  /\ Doing(s, "open")
  /\ IsFile(p) \/ (~Exists(p) /\ IsDir(Parent(p)) /\ "create" \in how)
  /\ how \cap {"create", "truncate"} # {} => "write" \in how
  /\ files' = [q \in DOMAIN files \cup {p} |-> IF q = p THEN size ELSE files[q]]
  /\ Insert(s, next_handle_id(s), FileHandle(p, how, size))
  /\ Done(s)
  /\ UNCHANGED <<dirs, usage, scanner, requests, locked, session, excused>>
  /\ intruded' = Marked(s)

Opendir(s, p) ==
  /\ Ready(s) /\ allow_action /\ Cardinality(DOMAIN handles[s]) < HandleLimit
  /\ IsDir(p)
  /\ Insert(s, next_handle_id(s), DirHandle(p))
  /\ Answers(s) /\ UNCHANGED todo

Close(s, id) ==
  /\ Ready(s) /\ id \in DOMAIN handles[s]
  /\ handles' = [handles EXCEPT ![s] = [i \in DOMAIN @ \ {id} |-> @[i]]]
  /\ Answers(s) /\ UNCHANGED <<handle_id, todo>>

Is(s, id, kind) == id \in DOMAIN handles[s] /\ handles[s][id].kind = kind

\* At most send_amount names at once, and entry_limit in all; those that are gone or
\* ignored are not counted.
Readdir(s, id) ==
  LET h == handles[s][id] IN
  /\ Ready(s) /\ allow_action /\ Is(s, id, "dir")
  /\ h.consumed < EntryLimit
  /\ \E n \in 0..Min({SendAmount, EntryLimit - h.consumed,
                      Cardinality({q \in DOMAIN files \cup dirs : Parent(q) = h.path})}) :
       handles' = [handles EXCEPT ![s][id].consumed = @ + n]
  /\ Answers(s) /\ UNCHANGED <<handle_id, todo>>

\* As many bytes as the file had when it was opened, however often which are read.
Read(s, id) ==
  LET h == handles[s][id] IN
  /\ Ready(s) /\ allow_action /\ Is(s, id, "file")
  /\ h.consumed < h.size
  /\ \E n \in 0..(IF h.linked THEN files[h.at] ELSE MaxSize) :
       handles' = [handles EXCEPT ![s][id].consumed = @ + n]
  /\ Answers(s) /\ UNCHANGED <<handle_id, todo>>

\* What is overwritten is counted again; what is counted stays so when the handle
\* was not opened for writing.
WriteData(s, id, n, end) ==
  /\ Ready(s) /\ allow_action /\ Is(s, id, "file") /\ ~ReadOnly
  /\ Queues(s, ChargeOrFail(Parent(handles[s][id].path), n)
                 \o <<[Step("write", Root) EXCEPT !.id = id, !.n = end]>>)

WriteAt(s) ==
  LET h == handles[s][Now(s).id] IN
  /\ Doing(s, "write")
  /\ h.write
  /\ files' = IF h.linked THEN [files EXCEPT ![h.at] = Max({@, Now(s).n})] ELSE files
  /\ Done(s)
  /\ UNCHANGED <<dirs, usage, handles>> /\ StepKeeps
  /\ intruded' = Marked(s)

(***************************************************************************)
(* The routes, which do not look at the lock                               *)
(***************************************************************************)
Called(r, steps) ==
  /\ todo[r] = <<>> /\ requests < MaxRequests
  /\ todo' = [todo EXCEPT ![r] = steps]
  /\ requests' = requests + 1
  /\ UNCHANGED <<sftp, history>> /\ SessionKeeps

DeleteFile(r, p) == Exists(p) /\ Called(r, TruncatePath(p))

RenameFile(r, p, q) == Exists(p) /\ ~Exists(q) /\ Called(r, RenamePath(p, q))

\* In the same directory, under a name that is free or one that was asked for.
CopyInPlace(r, p, q) ==
  /\ IsFile(p) /\ Parent(p) = Parent(q) /\ p # q
  /\ Called(r, CopyFile(p, q))

\* Counted is what Content-Length says, or nothing without it, less what is there.
WriteFile(r, p, n, length) ==
  /\ ~IsDir(p)
  /\ length = 0 \/ n <= length
  /\ Called(r, <<Step("mkdirs", Parent(p))>>
                 \o ChargeOrFail(Parent(p), length - (IF IsFile(p) THEN files[p] ELSE 0))
                 \o <<[Step("put", p) EXCEPT !.n = n]>>)

CreateDirectory(r, p) ==
  /\ IsDir(Parent(p)) \/ ~Exists(Parent(p))
  /\ Called(r, <<Step("mkdirs", p)>>)

(***************************************************************************)
(* A reinstallation, a restore or a transfer                               *)
(***************************************************************************)
Lock ==
  /\ ~locked /\ requests < MaxRequests
  /\ locked' = TRUE /\ requests' = requests + 1
  /\ \E steps \in {<<>>, TruncateRoot} : todo' = [todo EXCEPT !["maintenance"] = steps]
  /\ excused' = [s \in Session |-> todo[s] # <<>>]
  /\ UNCHANGED <<disk, usage, scanner, sftp, intruded>>

Unlock ==
  /\ locked /\ todo["maintenance"] = <<>>
  /\ locked' = FALSE
  /\ UNCHANGED <<disk, usage, scanner, sftp, todo, requests, history>>

TakesStep(c) ==
  \/ Allocate(c) \/ AllocateTree(c) \/ Forget(c) \/ Rehang(c) \/ Clear(c) \/ Zero(c)
  \/ Unlink(c) \/ RemoveDirAll(c) \/ MakeDir(c) \/ Move(c) \/ Copy(c) \/ Put(c)
  \/ (c \in Session /\ (OpenWith(c) \/ WriteAt(c))) \/ Fails(c)

SftpRequests(s) ==
  \/ Authenticate(s) \/ SubsystemRequest(s)
  \/ \E p \in Path :
       \/ RemoveFile(s, p) \/ Rmdir(s, p) \/ Mkdir(s, p) \/ Opendir(s, p)
       \/ \E q \in Path : Rename(s, p, q) \/ CopyFileRequest(s, p, q)
       \/ \E how \in {{}, {"write"}, {"write", "create"}, {"write", "truncate"}} : OpenFile(s, p, how)
  \/ \E id \in DOMAIN handles[s] :
       \/ Close(s, id) \/ Readdir(s, id) \/ Read(s, id)
       \/ \E end \in 1..MaxSize : \E n \in 1..end : WriteData(s, id, n, end)

RouteRequests(r) ==
  \E p \in Path :
    \/ DeleteFile(r, p) \/ CreateDirectory(r, p)
    \/ \E q \in Path : RenameFile(r, p, q) \/ CopyInPlace(r, p, q)
    \/ \E n \in 1..MaxSize : \E length \in {0, n} : WriteFile(r, p, n, length)

FilesNext ==
  \/ Scan \/ Lock \/ Unlock
  \/ \E c \in Client : TakesStep(c)
  \/ \E s \in Session : SftpRequests(s)
  \/ \E r \in Route : RouteRequests(r)

FilesSpec == FilesInit /\ [][FilesNext]_filesVars

\* The checker sleeps and goes on; the awaits of a request end.
LiveFiles == FilesSpec /\ WF_filesVars(Scan) /\ \A c \in Client : WF_filesVars(TakesStep(c))

(***************************************************************************)
(* Properties                                                              *)
(***************************************************************************)
Exact ==
  /\ tree = [p \in dirs |-> Held(p)]
  /\ cached = Held(Root)

\* Requests that fail half way, give space back twice, allocate for files that are
\* gone or take entries out of the tree leave the usage wrong for a time only: after
\* the last request (there is one, as MaxRequests bounds them) the usage of every
\* directory and of the whole server becomes what is on the disk, and stays so.
UsageSettles == <>[]Exact

\* From the moment a server is locked a session changes none of its files any more,
\* but by the one request that was under way; a session that was let in before the lock
\* and opened under it changes none at all.  All values have their types, and no session
\* has more handles than HANDLE_LIMIT.
LockKeepsOut ==
  /\ FilesTypeOK
  /\ ~intruded
  /\ \A s \in Session : Cardinality(DOMAIN handles[s]) <= HandleLimit
=============================================================================
