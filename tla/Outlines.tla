------------------------------- MODULE Outlines --------------------------------
(* Proof outlines of the programs that Harness runs: what a thread may rely   *)
(* on at each place of its code, found from the text of the program alone.  A *)
(* thread learns from the branch it takes: from the flag, from a look at the  *)
(* queue, from a join or from a count; and what it has learned stays true.    *)
EXTENDS Harness

----------------------------------------------------------------------------
(* Codes as graphs *)

WorkersOf(p) == 1..Len(Programs[p].workers)
ThreadsOf(p) == WorkersOf(p) \cup {Main}
CodeOf(p, t) == IF t = Main THEN Programs[p].main ELSE Programs[p].workers[t].code
End(p, t) == Len(CodeOf(p, t)) + 1
OpAt(p, t, i) == IF i = End(p, t) THEN "done" ELSE CodeOf(p, t)[i].op

Puts == {"put", "prefill", "either"}
Forking == Puts \cup {"take", "takes", "misses", "count last", "running", "nonempty", "missing",
                      "few", "unmade", "bursts", "checked", "chance", "enough"}

\* The branches of a code, each an instruction and whether its test holds, and
\* where they lead.
Branches(p, t) ==
    {e \in (1..Len(CodeOf(p, t))) \X BOOLEAN : e[2] \/ OpAt(p, t, e[1]) \in Forking}
Target(p, t, e) == e[1] + (IF e[2] THEN CodeOf(p, t)[e[1]].yes ELSE CodeOf(p, t)[e[1]].no)

\* Every branch of every thread.
ForBranches(p, Ok(_, _, _, _, _)) ==
    \A t \in ThreadsOf(p) : \A e \in Branches(p, t) :
        Ok(t, e[1], e[2], OpAt(p, t, e[1]), Target(p, t, e))

----------------------------------------------------------------------------
(* What is still to come, and what has gone by *)

\* How many instructions that put something a thread may still come to.
Ahead(p, t, i) ==
    {j \in 1..Len(CodeOf(p, t)) :
        i <= j \/ \E e \in Branches(p, t) : i <= e[1] /\ Target(p, t, e) <= j}
Left ==
    [p \in DOMAIN Programs |-> [t \in ThreadsOf(p) |-> [i \in 1..End(p, t) |->
        Cardinality({j \in Ahead(p, t, i) : OpAt(p, t, j) \in Puts})]]]

\* How often the main thread has done op when it is at i.
Past(p, op, i) == Cardinality({j \in 1..(i - 1) : OpAt(p, Main, j) = op})
SpawnsBefore(p, i) == Past(p, "spawn", i)
BurstsBefore(p, i) == Past(p, "next burst", i)

\* From there on it never raises the flag.
Settled(p) ==
    {i \in 1..End(p, Main) : \A j \in i..Len(CodeOf(p, Main)) : OpAt(p, Main, j) # "run"}

\* What a thread has put and not yet taken, if nobody else takes it.
Credit ==
    [p \in DOMAIN Programs |-> [t \in ThreadsOf(p) |->
        LET credit[i \in 1..End(p, t)] ==
                IF i = 1 THEN 0
                ELSE LET before == credit[i - 1]
                         op == OpAt(p, t, i - 1)
                     IN CASE op \in {"put", "prefill"} -> before + 1
                          [] op \in {"take", "takes"} /\ before > 0 -> before - 1
                          [] OTHER -> before
        IN credit]]

Places(p) ==
    /\ \A t \in ThreadsOf(p) : \A i \in 1..End(p, t) : Left[p][t][i] \in Nat
    /\ \A t \in ThreadsOf(p) : Left[p][t][End(p, t)] = 0
    /\ ForBranches(p, LAMBDA t, i, b, op, j :
          /\ Left[p][t][j] <= Left[p][t][i]
          /\ op \in Puts => Left[p][t][i] # 0
          /\ t # Main => op \notin {"run", "next burst"}
          /\ t = Main =>
                /\ \/ SpawnsBefore(p, j) <= SpawnsBefore(p, i)
                   \/ op = "spawn" /\ SpawnsBefore(p, j) <= SpawnsBefore(p, i) + 1
                /\ \/ op = "next burst" /\ BurstsBefore(p, j) > BurstsBefore(p, i)
                   \/ op # "next burst" /\ BurstsBefore(p, j) >= BurstsBefore(p, i)
                /\ i \in Settled(p) => op # "run" /\ j \in Settled(p))

----------------------------------------------------------------------------
(* Rules that some programs follow *)

\* Each instruction puts once, so that there is a budget of messages.
Frugal(p) ==
    ForBranches(p, LAMBDA t, i, b, op, j : op \in Puts => Left[p][t][j] < Left[p][t][i])
Budget(p) == UNION {{t} \X (1..Left[p][t][1]) : t \in ThreadsOf(p)}

\* A thread looks at the flag right before it puts something.
Careful(p) ==
    /\ \A t \in ThreadsOf(p) : OpAt(p, t, 1) \notin Puts
    /\ ForBranches(p, LAMBDA t, i, b, op, j :
          OpAt(p, t, j) \in Puts => b /\ op \in {"running", "checked"})

\* Each thread takes as much as it has put.
Alone(p) == WorkersOf(p) = {}
Balanced(p) ==
    /\ \A t \in ThreadsOf(p) :
          /\ \A i \in 1..End(p, t) : Credit[p][t][i] \in Nat
          /\ Credit[p][t][1] = 0 /\ Credit[p][t][End(p, t)] = 0
    /\ ForBranches(p, LAMBDA t, i, b, op, j :
          LET before == Credit[p][t][i]
              after == Credit[p][t][j]
          IN /\ op \notin {"either", "misses"}
             /\ op \in {"put", "prefill"} =>
                   IF b THEN after = before + 1
                        ELSE after = before \/ (Alone(p) /\ before < Programs[p].capacity)
             /\ op \in {"take", "takes"} =>
                   IF b THEN after = before - 1 \/ (Alone(p) /\ before = 0)
                        ELSE before > 0 \/ after = 0
             /\ op \notin {"put", "prefill", "take", "takes"} => after = before)

\* The counters: what each counts, and by which instructions.
Making == [does |-> {"put", "prefill"}, counts |-> {"count made"}, publishes |-> "publish made"]
Taking == [does |-> {"take", "takes", "misses"}, counts |-> {"count taken", "count last"},
           publishes |-> "publish taken"]

\* How much of what t has done when it is at i has been counted: everything,
\* everything but the last, or nothing.
Tally(p, t, i, k) ==
    IF \E j \in i..Len(CodeOf(p, t)) : OpAt(p, t, j) = k.publishes THEN "none"
    ELSE IF OpAt(p, t, i) \in k.counts THEN "last" ELSE "all"

Succeeds(op, b) == b = (op # "misses")
Counts(p, k) ==
    /\ \A t \in WorkersOf(p) : Tally(p, t, 1, k) # "last" /\ Tally(p, t, End(p, t), k) = "all"
    /\ ForBranches(p, LAMBDA t, i, b, op, j :
          /\ op # "either"
          /\ t = Main => op \notin k.counts \cup {k.publishes}
          /\ t # Main =>
                LET tally == Tally(p, t, i, k)
                IN /\ op \in k.does => tally # "last"
                   /\ op \in k.counts => tally = "last"
                   /\ op = k.publishes => tally = "none"
                   /\ Tally(p, t, j, k) =
                         IF op \in k.does /\ Succeeds(op, b) /\ tally = "all" THEN "last"
                         ELSE IF op \in k.counts \cup {k.publishes} THEN "all" ELSE tally)

----------------------------------------------------------------------------
(* What a thread learns *)

\* All workers have ended; nobody puts any more; and the queue is empty; the
\* flag is down for good; and each thread leaves at most one message.
Facts == {"joined", "quiet", "empty", "stopped", "late"}

\* The main thread at i waits for worker u, which exists by then.
Joins(p, t, i, u) ==
    /\ t = Main
    /\ Programs[p].workers[u].spawn \in 0..SpawnsBefore(p, i)
    /\ \/ OpAt(p, t, i) = "join" /\ Programs[p].workers[u].kind \in {"producer", "consumer", "worker"}
       \/ OpAt(p, t, i) = "join producers" /\ Programs[p].workers[u].kind = "producer"

LearnsByJoin(p, known, t, i, b, f) ==
    \/ f = "joined" /\ \A u \in WorkersOf(p) : Joins(p, t, i, u)
    \/ \E u \in WorkersOf(p) : Joins(p, t, i, u) /\ <<u, End(p, u), f>> \in known
    \/ /\ f = "quiet"
       /\ Left[p][t][Target(p, t, <<i, b>>)] = 0
       /\ \A u \in ThreadsOf(p) \ {t} : Left[p][u][1] = 0 \/ (u # Main /\ Joins(p, t, i, u))

\* From the queue, which it finds empty.
FindsNothing(op, b) == (op \in {"nonempty", "take", "takes"} /\ ~b) \/ (op = "misses" /\ b)
LearnsByLooking(p, known, t, i, b, f) ==
    /\ FindsNothing(OpAt(p, t, i), b)
    /\ \/ f = "empty" /\ <<t, i, "quiet">> \in known
       \/ f = "late" /\ <<t, i, "stopped">> \in known /\ Careful(p)

\* From a counter that has come to the number of all messages.
LearnsByCounting(p, t, i, b, f) ==
    /\ f = "empty" /\ Frugal(p)
    /\ \E n \in {Cardinality(Budget(p))} :
       \/ OpAt(p, t, i) = "misses" /\ ~b /\ n <= 1
       \/ /\ "taken" \in Programs[p].counts
          /\ \/ /\ OpAt(p, t, i) = "missing" /\ ~b
                /\ CodeOf(p, t)[i].limit \in Nat /\ n <= CodeOf(p, t)[i].limit
             \/ OpAt(p, t, i) = "count last" /\ b /\ n <= Programs[p].total

\* From the number of the burst: what the main thread knows at that time.
LearnsByBurst(p, known, t, i, b, f) ==
    /\ OpAt(p, t, i) = "bursts" /\ ~b /\ CodeOf(p, t)[i].limit \in Nat
    /\ \A k \in 1..End(p, Main) :
          BurstsBefore(p, k) >= CodeOf(p, t)[i].limit => <<Main, k, f>> \in known

\* Who lowers the flag knows that it is down.
LearnsByStopping(p, t, i, b, f) ==
    /\ f = "stopped" /\ OpAt(p, t, i) = "stop"
    /\ \/ t = Main /\ Target(p, t, <<i, b>>) \in Settled(p)
       \/ Settled(p) = 1..End(p, Main)

\* A queue that has room for all messages refuses none: the branch is not taken.
IsNeverRefused(p, t, i, b) ==
    /\ OpAt(p, t, i) \in Puts \ {"either"} /\ ~b
    /\ Frugal(p) /\ Cardinality(Budget(p)) <= Programs[p].capacity

Learns(p, known, t, i, b, f) ==
    \/ <<t, i, f>> \in known
    \/ IsNeverRefused(p, t, i, b)
    \/ LearnsByJoin(p, known, t, i, b, f)
    \/ LearnsByLooking(p, known, t, i, b, f)
    \/ LearnsByCounting(p, t, i, b, f)
    \/ LearnsByBurst(p, known, t, i, b, f)
    \/ LearnsByStopping(p, t, i, b, f)

\* From the flag: what everybody knows who lowers it.
LearnsFromFlag(p, known, t, i, b, f) ==
    /\ OpAt(p, t, i) = "running" /\ ~b
    /\ Programs[p].running
    /\ \A u \in ThreadsOf(p) : \A k \in 1..Len(CodeOf(p, u)) :
          OpAt(p, u, k) = "stop" => Learns(p, known, u, k, TRUE, f)

\* A set of <<thread, place, fact>> in which every fact has been learned.
Justified(p, known, t, j, f) ==
    /\ j # 1
    /\ \A e \in Branches(p, t) : Target(p, t, e) = j =>
          \/ Learns(p, known, t, e[1], e[2], f)
          \/ LearnsFromFlag(p, known, t, e[1], e[2], f)

\* The largest one: facts that are not are dropped until all are.
Passes == 40
AnyKnowledge(p) ==
    LET longest == Max({End(p, t) : t \in ThreadsOf(p)})
    IN {k \in {<<t, i, f>> : t \in ThreadsOf(p), i \in 1..longest, f \in Facts} : k[2] <= End(p, k[1])}
Known ==
    [p \in DOMAIN Programs |->
        FoldSet(LAMBDA n, known : {k \in known : Justified(p, known, k[1], k[2], k[3])},
                AnyKnowledge(p), 1..Passes)]

Knows(p, t, i, f) == <<t, i, f>> \in Known[p]

\* A program whose text shows that what it says of itself is so.
Follows(p) ==
    /\ Places(p)
    /\ \A k \in Known[p] : Justified(p, Known[p], k[1], k[2], k[3])
    /\ "made" \in Programs[p].counts => Counts(p, Making)
    /\ "taken" \in Programs[p].counts => Counts(p, Taking)
    /\ Programs[p].counts # {} => Knows(p, Main, End(p, Main), "joined")
    /\ Programs[p].expects = "all" =>
          \/ Knows(p, Main, End(p, Main), "empty")
          \/ Balanced(p) /\ Knows(p, Main, End(p, Main), "joined")
    /\ Programs[p].expects = "late" =>
          Knows(p, Main, End(p, Main), "late") \/ Knows(p, Main, End(p, Main), "empty")

Disciplined == [p \in DOMAIN Programs |-> Follows(p)]

----------------------------------------------------------------------------
(* What the facts say *)

Queued == {queue[i] : i \in DOMAIN queue}
Quiet == \A u \in Threads : Left[program][u][at[u]] = 0
Stopped == ~running /\ at[Main] \in Settled(program)
LeavesOne(u) ==
    /\ \A m, n \in Queued : m[1] = u /\ n[1] = u => m = n
    /\ Now(u) \in Puts => \A m \in Queued : m[1] # u

Holds(f) ==
    /\ f = "joined" => \A u \in Workers : Done(u)
    /\ f = "quiet" => Quiet
    /\ f = "empty" => Quiet /\ queue = <<>>
    /\ f = "stopped" => Stopped
    /\ f = "late" => Stopped /\ \A u \in Threads : LeavesOne(u)

\* Every program of the repository follows the rules, and whatever a thread can
\* know at its place is so.
Outlined ==
    /\ Disciplined[program]
    /\ \A t \in Threads : \A f \in Facts : Knows(program, t, at[t], f) => Holds(f)

\* It is so at first, and no step takes from another thread what it relies on.
NoInterference == Outlined /\ [][Outlined']_vars

=============================================================================
