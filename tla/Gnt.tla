-------------------------------- MODULE Gnt --------------------------------
(***************************************************************************)
(* The Global Node Tree, the namespace of the processes in it, and the     *)
(* handles processes hold to its nodes (strata/gnt, strata/process,        *)
(* strata/handle).                                                         *)
(*                                                                         *)
(* A node is in the tree by one reference; handles and calls in progress   *)
(* hold further ones.  The nodes below /System/Processes come into being   *)
(* when a path is resolved.  Each operation on the tree is one step: the   *)
(* code takes no lock for it.  A system call is cut where the code has     *)
(* given up what protected it: between StGnt_ResolvePath, which acquires   *)
(* nothing, and the handle; between leaving the table and the release;     *)
(* between marking a process dying and removing its node.                  *)
(*                                                                         *)
(* A name is a sequence of characters or words, all strings, so that       *)
(* process ids are parsed as the code does.                                *)
(***************************************************************************)
EXTENDS Integers, Sequences, FiniteSets, FiniteSetsExt

CONSTANTS
    LastNode,    \* nodes are 1 .. LastNode: the static ones, then the pool
    LastPid,     \* processes are created in order of their ids, 1 .. LastPid
    HandleSpan,  \* number of StHandle_Id values
    IntMax,      \* INT_MAX, one less than a power of two
    Budgets,     \* how many pool allocations of one resolution may succeed
    Ending,      \* processes that may exit
    Capacities,  \* sizes of a listing buffer, in entries
    PathsOf(_)   \* paths a process may open: [root, tokens]

VARIABLES nodes, procs, lister

gntVars == <<nodes, procs, lister>>

Net == 1
Localhost == 2
Root == 3
System == 4
Processes == 5
StaticNodes == 1 .. 5
NodeRefs == 1 .. LastNode
Pids == 1 .. LastPid

Absent == [name |-> <<>>, type |-> "leaf", parent |-> 0, children |-> <<>>, link |-> 0,
           module |-> FALSE, data |-> "none", ifs |-> <<>>, refs |-> 0]
LiveNode(x) == nodes[x].refs > 0

Elems(s) == {s[i] : i \in DOMAIN s}
Without(s, x) == SelectSeq(s, LAMBDA e : e # x)

-----------------------------------------------------------------------------
(* Results: the world w = [n : nodes, p : processes, k : allocations that   *)
(* will still succeed], a status and a node.                               *)

Done(w, x) == [w |-> w, st |-> "success", x |-> x]
Fails(w, st) == [w |-> w, st |-> st, x |-> 0]
Succeeded(r) == r.st = "success"

Directory == <<"Directory", 11>>
FileInfo == <<"FileInfo", 2>>
DirectoryIfs == <<Directory, FileInfo>>
ProcessIfs == <<<<"Process", 21>>, Directory, FileInfo>>
ThreadIfs == <<<<"Thread", 8>>, FileInfo>>
StdioIfs == <<<<"ByteStream", 6>>, FileInfo>>

\* The tree StGnt_Init leaves, but for the static directories beside System/
\* Processes, which differ from it in having no module.
InitialNodes ==
    [x \in NodeRefs |->
        CASE x = Net -> [Absent EXCEPT !.type = "dir", !.children = <<Localhost>>,
                                       !.ifs = DirectoryIfs, !.refs = 1]
          [] x = Localhost -> [Absent EXCEPT !.type = "link", !.name = <<"Localhost">>,
                                             !.parent = Net, !.link = Root, !.refs = 1]
          [] x = Root -> [Absent EXCEPT !.type = "dir", !.children = <<System>>,
                                        !.ifs = DirectoryIfs, !.refs = 1]
          [] x = System -> [Absent EXCEPT !.type = "dir", !.name = <<"System">>, !.parent = Root,
                                !.children = <<Processes>>, !.ifs = DirectoryIfs, !.refs = 1]
          [] x = Processes -> [Absent EXCEPT !.type = "dir", !.name = <<"Processes">>,
                                !.parent = System, !.module = TRUE, !.ifs = DirectoryIfs,
                                !.refs = 1]
          [] OTHER -> Absent]

-----------------------------------------------------------------------------
(* Nodes.                                                                  *)

\* StGnt_ReleaseNode and, with the last reference, StGnt_FinalizeNode: the
\* children lose their parent and the reference of the tree.
RECURSIVE StGnt_ReleaseNode(_, _), ReleaseAll(_, _)
StGnt_ReleaseNode(n, x) ==
    IF n[x].refs > 1 THEN [n EXCEPT ![x].refs = @ - 1]
    ELSE ReleaseAll([n EXCEPT ![x] = Absent], n[x].children)
ReleaseAll(n, s) ==
    IF s = <<>> THEN n
    ELSE ReleaseAll(StGnt_ReleaseNode([n EXCEPT ![Head(s)].parent = 0], Head(s)), Tail(s))

StGnt_AcquireNode(n, x) == [n EXCEPT ![x].refs = @ + 1]

\* Links: NODELINK_MAX guards against loops, which no code makes.
LinkTarget(n, x) == IF n[x].type = "link" THEN n[x].link ELSE x

StGnt_AddNode(w, parent, name) ==
    LET spare == {x \in NodeRefs : w.n[x].refs = 0} IN
    IF w.k = 0 \/ spare = {} THEN Fails(w, "no_memory")
    ELSE LET x == Min(spare) IN
         Done([w EXCEPT !.k = @ - 1,
                 !.n = [@ EXCEPT ![x] = [Absent EXCEPT !.name = name, !.parent = parent, !.refs = 1],
                                 ![LinkTarget(w.n, parent)].children = Append(@, x)]], x)

\* A node without a parent is not in the tree any more.
StGnt_RemoveNode(n, x) ==
    IF n[x].parent = 0 THEN n
    ELSE StGnt_ReleaseNode([n EXCEPT ![n[x].parent].children = Without(@, x),
                                     ![x].parent = 0], x)

\* Every caller registers ABI version 0 with the same span for an interface.
RECURSIVE RegisterInterfaces(_, _, _)
RegisterInterfaces(w, x, ifs) ==
    CASE ifs = <<>> -> Done(w, x)
      [] ifs # <<>> /\ Head(ifs) \in Elems(w.n[x].ifs) -> RegisterInterfaces(w, x, Tail(ifs))
      [] ifs # <<>> /\ Head(ifs) \notin Elems(w.n[x].ifs) /\ w.k = 0 -> Fails(w, "no_memory")
      [] OTHER -> RegisterInterfaces([w EXCEPT !.k = @ - 1, !.n[x].ifs = Append(@, Head(ifs))],
                                     x, Tail(ifs))

\* The function id base of the interface, -1 when the node does not have it.
StGnt_QueryInterface(n, x, name) ==
    LET ifs == n[x].ifs
        at == {i \in DOMAIN ifs : ifs[i][1] = name}
    IN  IF at = {} THEN -1 ELSE MapThenSumSet(LAMBDA i : ifs[i][2], 1 .. Min(at) - 1)

FindChild(n, x, name) ==
    LET at == {i \in DOMAIN n[x].children : n[n[x].children[i]].name = name}
    IN  IF at = {} THEN 0 ELSE n[x].children[Min(at)]

-----------------------------------------------------------------------------
(* The processes in the tree.                                              *)

Digits == <<"0", "1", "2", "3", "4", "5", "6", "7", "8", "9">>

RECURSIVE format_id_name(_)
format_id_name(id) ==
    IF id < 10 THEN <<Digits[id + 1]>>
    ELSE Append(format_id_name(id \div 10), Digits[(id % 10) + 1])

RECURSIVE ParseDigits_Wrapping(_, _)
ParseDigits_Wrapping(value, name) ==
    IF name = <<>> THEN value
    ELSE IF Head(name) \notin Elems(Digits) THEN -1
    ELSE LET digit == (CHOOSE i \in 1 .. 10 : Digits[i] = Head(name)) - 1
         IN  ParseDigits_Wrapping((value * 10 + digit) % (IntMax + 1), Tail(name))

\* The value of the digits, -1 for a name that is no int.
RECURSIVE ParseDigits(_, _)
ParseDigits(value, name) ==
    IF name = <<>> THEN value
    ELSE IF Head(name) \notin Elems(Digits) THEN -1
    ELSE LET digit == (CHOOSE i \in 1 .. 10 : Digits[i] = Head(name)) - 1
         IN  IF value > (IntMax - digit) \div 10 THEN -1
             ELSE ParseDigits((value * 10 + digit) % (IntMax + 1), Tail(name))
StProcessGnt_ParseProcessId(name) == IF name = <<>> THEN -1 ELSE ParseDigits(0, name)

\* The process is in the list and not marked dying.
Listed(p, pid) == p[pid].st \in {"live", "exited", "reaped"}
StProcess_FindById(p, id) == IF id \in Pids /\ Listed(p, id) THEN id ELSE 0

\* The process whose directory x is; 0 where the code says ENTRY_NOT_FOUND,
\* -1 where it says INVALID_HANDLE.
StProcessGnt_GetProcessFromNode(w, x) ==
    IF x = 0 \/ w.n[x].parent # Processes THEN -1
    ELSE LET of == {pid \in Pids : Listed(w.p, pid) /\ w.p[pid].node = x}
         IN  IF of = {} THEN 0 ELSE Min(of)

\* The node is set up anew whether it was found or added.
Kind(w, x, type, data) ==
    [w EXCEPT !.n[x] = [@ EXCEPT !.type = type, !.module = TRUE, !.data = data]]

\* find_registered_child or StGnt_AddNode, then the interfaces.
Register(w, parent, name, type, data, ifs) ==
    LET found == FindChild(w.n, parent, name)
        r == IF found # 0 THEN Done(w, found) ELSE StGnt_AddNode(w, parent, name)
    IN  IF Succeeded(r) THEN RegisterInterfaces(Kind(r.w, r.x, type, data), r.x, ifs) ELSE r

register_process_node(w, pid) ==
    LET known == w.p[pid].node
        r == IF known # 0 THEN RegisterInterfaces(w, known, ProcessIfs)
             ELSE Register(w, Processes, format_id_name(pid), "dir", "none", ProcessIfs)
    IN  IF Succeeded(r) THEN Done([r.w EXCEPT !.p[pid].node = r.x], r.x) ELSE r

\* me is the process of the current thread, 0 for a kernel thread.
resolve_process_root(w, me, token) ==
    LET pid == IF token = <<"Current">> THEN me
               ELSE StProcess_FindById(w.p, StProcessGnt_ParseProcessId(token))
    IN  IF pid = 0 THEN Fails(w, "not_found") ELSE register_process_node(w, pid)

StdioNames == {<<"Stdin">>, <<"Stdout">>, <<"Stderr">>}
resolve_process_directory(w, x, token) ==
    CASE token = <<"Threads">> -> Register(w, x, token, "dir", "none", DirectoryIfs)
      [] token \in StdioNames -> Register(w, x, token, "leaf", token[1], StdioIfs)
      [] OTHER -> Fails(w, "not_found")

\* The main thread is marked dying before its process is.
resolve_threads_directory(w, x, token) ==
    LET pid == StProcessGnt_GetProcessFromNode(w, w.n[x].parent)
    IN  IF pid > 0 /\ token = <<"Main">> /\ w.p[pid].st # "reaped"
        THEN Register(w, x, token, "leaf", "none", ThreadIfs)
        ELSE Fails(w, "not_found")

StProcessGnt_Resolve(w, me, x, token) ==
    CASE x = Processes -> resolve_process_root(w, me, token)
      [] x # Processes /\ StProcessGnt_GetProcessFromNode(w, x) > 0 ->
           resolve_process_directory(w, x, token)
      [] x # Processes /\ StProcessGnt_GetProcessFromNode(w, x) <= 0 /\ w.n[x].parent # 0
            /\ w.n[x].name = <<"Threads">> -> resolve_threads_directory(w, x, token)
      [] OTHER -> Fails(w, "not_found")

\* The loop of StGnt_ResolvePath, from node x with the tokens left.
RECURSIVE WalkPath(_, _, _, _)
WalkPath(w, me, x, tokens) ==
    LET token == Head(tokens)
        dir == LinkTarget(w.n, x)
        child == FindChild(w.n, dir, token)
        r == IF child # 0 THEN Done(w, child) ELSE StProcessGnt_Resolve(w, me, dir, token)
    IN  CASE tokens = <<>> -> Done(w, LinkTarget(w.n, x))
          [] tokens # <<>> /\ token = <<".">> -> WalkPath(w, me, x, Tail(tokens))
          [] tokens # <<>> /\ token = <<"..">> ->
               WalkPath(w, me, IF w.n[x].parent # 0 THEN w.n[x].parent ELSE x, Tail(tokens))
          [] tokens # <<>> /\ token \notin {<<".">>, <<"..">>} /\ child = 0 /\ ~w.n[dir].module ->
               Fails(w, "not_found")
          [] OTHER -> IF Succeeded(r) THEN WalkPath(r.w, me, r.x, Tail(tokens)) ELSE r

StGnt_ResolvePath(w, me, path) == WalkPath(w, me, path.root, path.tokens)

-----------------------------------------------------------------------------
(* Listing a directory.  A static child's cookie is its address, a module's *)
(* cookie is marked as such; the buffer takes cap entries.                 *)

Taken(s, cap) == SubSeq(s, 1, IF Len(s) < cap THEN Len(s) ELSE cap)
Listing(st, names, next) == [st |-> st, names |-> names, next |-> next]

\* What a module lists: cookie and name of the entries it still has, and the
\* cookie that ends the list for good (0 where only the last entry does).
ModuleEntries(w, x) ==
    CASE x = Processes ->
           SelectSeq([pid \in Pids |-> <<pid, format_id_name(pid)>>],
                     LAMBDA e : Listed(w.p, e[1]) /\ w.p[e[1]].node = 0)
      [] x # Processes /\ w.n[x].parent = Processes ->
           SelectSeq(<<<<1, <<"Threads">>>>, <<2, <<"Stdin">>>>, <<3, <<"Stdout">>>>,
                       <<4, <<"Stderr">>>>>>, LAMBDA e : FindChild(w.n, x, e[2]) = 0)
      [] OTHER ->
           LET pid == StProcessGnt_GetProcessFromNode(w, w.n[x].parent)
           IN  IF w.p[pid].st # "reaped" /\ FindChild(w.n, x, <<"Main">>) = 0
               THEN <<<<1, <<"Main">>>>>> ELSE <<>>

\* The process a listed directory belongs to; 0 when it is gone.
ListedFor(w, x) ==
    IF w.n[x].parent = Processes THEN StProcessGnt_GetProcessFromNode(w, x)
    ELSE StProcessGnt_GetProcessFromNode(w, w.n[x].parent)

StProcessGnt_Iterate(w, x, cookie, cap) ==
    LET left == SelectSeq(ModuleEntries(w, x), LAMBDA e : e[1] > cookie)
        got == Taken(left, cap)
        last == got[Len(got)][1]
        ends == got = left /\ (w.n[x].parent = Processes => last = 4)
    IN  CASE x # Processes /\ ListedFor(w, x) <= 0 -> Listing("not_found", <<>>, cookie)
          [] left = <<>> -> Listing("end", <<>>, cookie)
          [] left # <<>> /\ got = <<>> -> Listing("too_small", <<>>, cookie)
          [] OTHER -> Listing(IF ends THEN "end" ELSE "success",
                              [i \in DOMAIN got |-> got[i][2]], last)

FirstCookie == [module |-> FALSE, at |-> 0]

StGnt_Iterate_NoSwitch(w, x, cookie, cap) ==
    LET children == w.n[x].children
        from == {i \in DOMAIN children : children[i] = cookie.at}
        left == IF cookie = FirstCookie THEN children
                ELSE SubSeq(children, Min(from) + 1, Len(children))
        got == Taken(left, cap)
        names == [i \in DOMAIN got |-> w.n[got[i]].name]
        here == IF got = <<>> THEN cookie ELSE [module |-> FALSE, at |-> got[Len(got)]]
        m == StProcessGnt_Iterate(w, x, IF cookie.module THEN cookie.at ELSE 0,
                                  IF cookie.module THEN cap ELSE cap - Len(got))
        next == IF m.names = <<>> THEN here ELSE [module |-> TRUE, at |-> m.next]
    IN  CASE cookie.module ->
               Listing(m.st, m.names, IF m.names = <<>> THEN cookie ELSE next)
          [] ~cookie.module /\ cookie # FirstCookie /\ from = {} ->
               Listing("not_found", <<>>, cookie)
          [] ~cookie.module /\ (cookie = FirstCookie \/ from # {}) /\ got # left ->
               Listing(IF got = <<>> THEN "too_small" ELSE "success", names, here)
          [] OTHER -> Listing(m.st, names \o m.names, next)

StGnt_Iterate(w, x, cookie, cap) ==
    LET children == w.n[x].children
        from == {i \in DOMAIN children : children[i] = cookie.at}
        left == IF cookie = FirstCookie THEN children
                ELSE SubSeq(children, Min(from) + 1, Len(children))
        got == Taken(left, cap)
        names == [i \in DOMAIN got |-> w.n[got[i]].name]
        here == IF got = <<>> THEN cookie ELSE [module |-> FALSE, at |-> got[Len(got)]]
        m == StProcessGnt_Iterate(w, x, IF cookie.module THEN cookie.at ELSE 0,
                                  IF cookie.module THEN cap ELSE cap - Len(got))
        next == IF m.names = <<>> THEN here ELSE [module |-> TRUE, at |-> m.next]
    IN  CASE cookie.module ->
               Listing(m.st, m.names, IF m.names = <<>> THEN cookie ELSE next)
          [] ~cookie.module /\ cookie # FirstCookie /\ from = {} ->
               Listing("not_found", <<>>, cookie)
          [] ~cookie.module /\ (cookie = FirstCookie \/ from # {}) /\ got # left ->
               Listing(IF got = <<>> THEN "too_small" ELSE "success", names, here)
          [] ~cookie.module /\ got = left /\ m.st = "too_small" /\ names # <<>> ->
               Listing("success", names, [module |-> TRUE, at |-> 0])
          [] OTHER -> Listing(m.st, names \o m.names, next)

-----------------------------------------------------------------------------
(* System calls of a process, by its one thread.                           *)

NoOp == [at |-> "none", node |-> 0, path |-> 0]
NoProcess == [st |-> "none", node |-> 0, table |-> <<>>, next |-> 0, op |-> NoOp]
NoLister == [dir |-> 0, cookie |-> FirstCookie, names |-> <<>>, quiet |-> TRUE, whole |-> TRUE,
             st |-> "none"]
World(k) == [n |-> nodes, p |-> procs, k |-> k]

GntInit ==
    /\ nodes = InitialNodes
    /\ procs = [pid \in Pids |-> NoProcess]
    /\ lister = NoLister

\* Every child of Processes is the node of a process.
Whole(n, p) == \A x \in Elems(n[Processes].children) : \E pid \in Pids : p[pid].node = x

\* The listing notes whether others have worked on the tree since it began, and
\* whether a node could not be registered for lack of memory.
Disturb ==
    lister' = IF lister.dir = 0 THEN lister
              ELSE [lister EXCEPT !.quiet = FALSE, !.whole = @ /\ Whole(nodes', procs')]
Ready(pid) == procs[pid].st = "live" /\ procs[pid].op = NoOp
Pending(pid, at) == procs[pid].op.at = at
Op(at, x) == [NoOp EXCEPT !.at = at, !.node = x]

\* StProcess_CreateUser; ids are never given twice.
StProcess_CreateUser(pid) ==
    /\ procs[pid].st = "none"
    /\ pid > 1 => procs[pid - 1].st # "none"
    /\ procs' = [procs EXCEPT ![pid].st = "live"]
    /\ UNCHANGED nodes /\ Disturb

\* StHandle_Open up to the resolved node, to which it holds no reference.
StHandle_Open(pid) ==
    /\ Ready(pid)
    /\ \E path \in PathsOf(pid), k \in Budgets :
         \E r \in {StGnt_ResolvePath(World(k), pid, path)} :
            /\ nodes' = r.w.n
            /\ procs' = IF Succeeded(r)
                        THEN [r.w.p EXCEPT ![pid].op = [Op("create", r.x) EXCEPT !.path = path]]
                        ELSE r.w.p
    /\ Disturb

Ids(table) == {table[i].id : i \in DOMAIN table}

\* The first id from next on that the table does not have; -1 for none.
FreeId(table, next) ==
    LET free == {d \in 0 .. HandleSpan - 1 : (next + d) % HandleSpan \notin Ids(table)}
    IN  IF free = {} THEN -1 ELSE (next + Min(free)) % HandleSpan

\* The allocation of the entry may fail; a full table releases the node again.
StHandle_TableCreate(pid) ==
    /\ Pending(pid, "create")
    /\ LET x == procs[pid].op.node
           id == FreeId(procs[pid].table, procs[pid].next)
       IN  \/ /\ id # -1
              /\ nodes' = StGnt_AcquireNode(nodes, x)
              /\ procs' = [procs EXCEPT ![pid] = [@ EXCEPT !.op = NoOp,
                               !.table = Append(@, [id |-> id, node |-> x]),
                               !.next = (id + 1) % HandleSpan]]
           \/ /\ nodes' = IF id = -1 THEN StGnt_ReleaseNode(StGnt_AcquireNode(nodes, x), x)
                          ELSE nodes
              /\ procs' = [procs EXCEPT ![pid].op = NoOp]
    /\ Disturb

\* The entry leaves the table under the lock, the release comes after it.
StHandle_TableClose(pid) ==
    /\ Ready(pid)
    /\ \E e \in Elems(procs[pid].table) :
          procs' = [procs EXCEPT ![pid].table = Without(@, e), ![pid].op = Op("release", e.node)]
    /\ UNCHANGED nodes /\ Disturb

\* Query and both calls: the node is found and retained under the lock.
get_node_from_handle(pid) ==
    /\ Ready(pid)
    /\ \E e \in Elems(procs[pid].table) :
          /\ nodes' = StGnt_AcquireNode(nodes, e.node)
          /\ procs' = [procs EXCEPT ![pid].op = Op("call", e.node)]
    /\ Disturb

\* Which interface of the process module serves a node.
Dispatch(w, x) ==
    LET process == StProcessGnt_GetProcessFromNode(w, x)
        up == w.n[x].parent
        thread == IF w.n[x].name # <<"Main">> \/ up = 0 \/ w.n[up].name # <<"Threads">>
                  THEN -1 ELSE StProcessGnt_GetProcessFromNode(w, w.n[up].parent)
        stdio == IF up = 0 THEN -1 ELSE StProcessGnt_GetProcessFromNode(w, up)
    IN  CASE process > 0 -> "Process"
          [] process < 0 /\ thread > 0 /\ w.p[thread].st # "reaped" -> "Thread"
          [] process < 0 /\ thread < 0 /\ stdio > 0 /\ w.n[x].data # "none" -> "ByteStream"
          [] OTHER -> "none"

\* prc_terminate, which is for the caller's own process, releases the node and
\* does not return; the other functions leave nodes and handles alone.
Call(pid) ==
    /\ Pending(pid, "call")
    /\ LET x == procs[pid].op.node IN
       \/ /\ procs' = [procs EXCEPT ![pid].op = Op("release", x)]
          /\ UNCHANGED nodes
       \/ /\ Dispatch(World(0), x) = "Process"
          /\ StProcessGnt_GetProcessFromNode(World(0), x) = pid
          /\ nodes' = StGnt_ReleaseNode(nodes, x)
          /\ procs' = [procs EXCEPT ![pid].op = NoOp, ![pid].st = "exited"]
    /\ Disturb

ReleaseHeld(pid) ==
    /\ Pending(pid, "release")
    /\ nodes' = StGnt_ReleaseNode(nodes, procs[pid].op.node)
    /\ procs' = [procs EXCEPT ![pid].op = NoOp]
    /\ Disturb

-----------------------------------------------------------------------------
(* The end of a process.                                                   *)

\* A fault, or the exit of the thread, ends the process between calls.
Exit(pid) ==
    /\ Ready(pid) /\ pid \in Ending
    /\ procs' = [procs EXCEPT ![pid].st = "exited"]
    /\ UNCHANGED nodes /\ Disturb

\* StThread_Remove marks the main thread dying, before BeginRemove.
RemoveThread(pid) ==
    /\ procs[pid].st = "exited"
    /\ procs' = [procs EXCEPT ![pid].st = "reaped"]
    /\ UNCHANGED nodes /\ Disturb

StProcess_BeginRemove(pid) ==
    /\ procs[pid].st = "reaped"
    /\ procs' = [procs EXCEPT ![pid].st = "dying", ![pid].op = Op("remove", procs[pid].node)]
    /\ UNCHANGED nodes /\ Disturb

RemoveProcessNode(pid) ==
    /\ Pending(pid, "remove")
    /\ nodes' = IF procs[pid].op.node = 0 THEN nodes ELSE StGnt_RemoveNode(nodes, procs[pid].op.node)
    /\ procs' = [procs EXCEPT ![pid].node = 0, ![pid].op = NoOp]
    /\ Disturb

\* The table is emptied under the lock and the entries are released after it;
\* nobody else has access to them.
RECURSIVE StHandle_TableClear(_, _)
StHandle_TableClear(n, table) ==
    IF table = <<>> THEN n ELSE StHandle_TableClear(StGnt_ReleaseNode(n, Head(table).node), Tail(table))

StProcess_FinalizeRemove(pid) ==
    /\ procs[pid].st = "dying" /\ procs[pid].op = NoOp
    /\ nodes' = StHandle_TableClear(nodes, procs[pid].table)
    /\ procs' = [procs EXCEPT ![pid] = [NoProcess EXCEPT !.st = "gone"]]
    /\ Disturb

-----------------------------------------------------------------------------
(* A caller of StGnt_Iterate, with the loop of dump_gnt_materialize_children: *)
(* it resolves every entry the tree does not have yet.  dump_gnt itself runs *)
(* before the first process; this caller may run at any time, and so holds  *)
(* the directory, as a handle would.                                        *)

Directories == {Processes} \cup
    {x \in NodeRefs : LiveNode(x) /\ nodes[x].type = "dir" /\ nodes[x].parent \notin {0, Root, System}}

StartListing ==
    /\ lister = NoLister
    /\ \E x \in Directories :
          /\ lister' = [NoLister EXCEPT !.dir = x, !.st = "success",
                                               !.whole = Whole(nodes, procs)]
          /\ nodes' = StGnt_AcquireNode(nodes, x)
    /\ UNCHANGED procs

\* StGnt_ResolvePath of one name below the directory, by a kernel thread.
RECURSIVE Materialize(_, _, _)
Materialize(w, x, names) ==
    IF names = <<>> THEN w
    ELSE Materialize(StGnt_ResolvePath(w, 0, [root |-> x, tokens |-> <<Head(names)>>]).w,
                     x, Tail(names))

ListNext ==
    /\ lister.st = "success"
    /\ \E cap \in Capacities, k \in Budgets :
         \E l \in {StGnt_Iterate(World(k), lister.dir, lister.cookie, cap)} :
         \E w \in {Materialize(World(k), lister.dir, l.names)} :
            /\ nodes' = w.n /\ procs' = w.p
            /\ lister' = [lister EXCEPT !.names = @ \o l.names, !.cookie = l.next,
                 !.st = IF l.st = "success" /\ (l.names = <<>> \/ l.next = lister.cookie)
                        THEN "stopped" ELSE l.st]

EndListing ==
    /\ lister.st \notin {"none", "success"}
    /\ nodes' = StGnt_ReleaseNode(nodes, lister.dir)
    /\ lister' = NoLister
    /\ UNCHANGED procs

GntNext ==
    \/ \E pid \in Pids :
          \/ StProcess_CreateUser(pid) \/ StHandle_Open(pid) \/ StHandle_TableCreate(pid)
          \/ StHandle_TableClose(pid) \/ get_node_from_handle(pid) \/ Call(pid)
          \/ ReleaseHeld(pid) \/ Exit(pid) \/ RemoveThread(pid) \/ StProcess_BeginRemove(pid)
          \/ RemoveProcessNode(pid) \/ StProcess_FinalizeRemove(pid)
    \/ StartListing \/ ListNext \/ EndListing

GntSpec == GntInit /\ [][GntNext]_gntVars

-----------------------------------------------------------------------------
(* Properties.                                                             *)

HandleRefs(x) ==
    MapThenSumSet(LAMBDA pid :
        Cardinality({i \in DOMAIN procs[pid].table : procs[pid].table[i].node = x}) +
        (IF procs[pid].op.at \in {"call", "release"} /\ procs[pid].op.node = x THEN 1 ELSE 0), Pids)

\* Every reference count is what the tree, the handles, the calls in progress
\* and the listing hold, however system calls, exits and removals interleave:
\* a closed or dead process leaves nothing behind and takes nothing away.
NodeRefsExact ==
    \A x \in NodeRefs :
        nodes[x].refs = HandleRefs(x) + (IF lister.dir = x THEN 1 ELSE 0)
                        + (IF x \in {Net, Root} \/ nodes[x].parent # 0 THEN 1 ELSE 0)

\* The links agree in both directions, siblings have different names, and a
\* handle id stands for one node.
TreeShape ==
    /\ \A x \in NodeRefs : nodes[x].parent # 0 => x \in Elems(nodes[nodes[x].parent].children)
    /\ \A x \in NodeRefs : \A i \in DOMAIN nodes[x].children :
          /\ nodes[nodes[x].children[i]].parent = x
          /\ \A j \in DOMAIN nodes[x].children :
                nodes[nodes[x].children[i]].name = nodes[nodes[x].children[j]].name => i = j
    /\ \A pid \in Pids : Cardinality(Ids(procs[pid].table)) = Len(procs[pid].table)

\* A process's node carries its id, and a node left below Processes without a
\* process is one whose interfaces could not all be allocated.
ProcessNodes ==
    /\ \A pid \in Pids : procs[pid].node # 0 =>
          nodes[procs[pid].node].parent = Processes
          /\ nodes[procs[pid].node].name = format_id_name(pid)
    /\ \A x \in Elems(nodes[Processes].children) :
          (\E pid \in Pids : procs[pid].node = x) \/ Len(nodes[x].ifs) < Len(ProcessIfs)

\* The interface that calls on a node reach is the one whose function ids
\* StGnt_QueryInterface starts at 0.
ServedFromZero ==
    \A x \in NodeRefs : LiveNode(x) /\ Dispatch(World(0), x) # "none" /\ nodes[x].ifs # <<>> =>
        StGnt_QueryInterface(nodes, x, Dispatch(World(0), x)) = 0

\* The absolute name a path denotes for a process, by its tokens alone.
RECURSIVE Denotes(_, _, _)
Denotes(pid, at, tokens) ==
    CASE tokens = <<>> -> at
      [] tokens # <<>> /\ Head(tokens) \in {<<".">>, <<"Localhost">>} -> Denotes(pid, at, Tail(tokens))
      [] tokens # <<>> /\ Head(tokens) = <<"..">> ->
           Denotes(pid, IF at = <<>> THEN at ELSE SubSeq(at, 1, Len(at) - 1), Tail(tokens))
      [] OTHER -> Denotes(pid, Append(at, IF Head(tokens) \in {<<"Current">>, <<"0">> \o format_id_name(pid)}
                                          THEN format_id_name(pid) ELSE Head(tokens)), Tail(tokens))

RECURSIVE NameOf(_)
NameOf(x) == IF nodes[x].parent = 0 THEN <<>> ELSE Append(NameOf(nodes[x].parent), nodes[x].name)

\* A path leads to the node it names, and that node is still in the tree when
\* the handle to it is created.
ResolvesRight ==
    \A pid \in Pids : procs[pid].op.at = "create" =>
        NameOf(procs[pid].op.node) = Denotes(pid, <<>>, procs[pid].op.path.tokens)

\* The counts, the tree, the handles and what paths lead to are exact.
GntExact == NodeRefsExact /\ TreeShape /\ ProcessNodes /\ ServedFromZero /\ ResolvesRight

\* What can be found below a directory.
Entries(x) ==
    {nodes[c].name : c \in Elems(nodes[x].children)} \cup
    {ModuleEntries(World(0), x)[i][2] : i \in DOMAIN ModuleEntries(World(0), x)}

\* A listing names nothing twice, unless a process has a node whose registration
\* failed half way; one that reached its end undisturbed has
\* named every entry, in the two phases, with any buffer that holds one.
ListingExact ==
    /\ lister.whole =>
          \A i, j \in DOMAIN lister.names : lister.names[i] = lister.names[j] => i = j
    /\ lister.st \notin {"stopped", "too_small"}
    /\ lister.st = "end" /\ lister.quiet => Elems(lister.names) = Entries(lister.dir)
=============================================================================
