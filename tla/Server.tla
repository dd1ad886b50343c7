------------------------------- MODULE Server -------------------------------
(***************************************************************************)
(* The connections of a MuonCache server (server.rs, handle_client): one   *)
(* task per connection reads pipelined commands, runs them against the     *)
(* shared databases, script cache and pub/sub registry, and writes the     *)
(* replies through a buffer that is flushed when no input is waiting.      *)
(*                                                                         *)
(* A frame is a tuple <<name, argument, ...>>.  A command is a sequence of *)
(* work items, one per call that takes a lock: between two of them every   *)
(* other connection may run, also in the middle of an EXEC or of a script. *)
(* A script is the sequence of redis.call and redis.pcall it makes; it     *)
(* returns the value of the last one.                                      *)
(***************************************************************************)
EXTENDS Integers, Sequences, FiniteSets, SequencesExt, FiniteSetsExt

CONSTANTS Conns,       \* client connections
          Programs,    \* the command sequences the clients may send, as functions of Conns
          Keys,        \* keys of a database
          DbCount,     \* number of databases
          Channels,    \* pub/sub channels
          Capacity,    \* PUBSUB_CHANNEL_CAPACITY
          Body,        \* Body[s]: [calls, compiled, cost] of script s
          MemTotal,    \* bytes of a script runtime
          MemBase,     \* bytes used by a runtime that has run nothing
          Threshold,   \* reset_threshold_pct
          Persist      \* an append-only file is configured

Scripts == DOMAIN Body
Dbs == 0..(DbCount - 1)

\* What a string key holds: a number, or one of these.
Absent == -1
Text == -2
Empty == -3
Fraction == -4    \* only as a script's argument
Bytes == Nat \union {Text, Empty}

\* The frames clients send, with the arguments the handlers accept; what they
\* refuse is UNKNOWN, and what is no RESP value JUNK.
Some(S) == Seq(S) \ {<<>>}
Frames ==
    ({"GET", "INCR"} \X Keys) \union ({"SET", "GETSET"} \X Keys \X Bytes)
    \union ({"MSET"} \X Some(Keys \X Bytes)) \union ({"MGET", "DEL"} \X Some(Keys))
    \union ({"SELECT"} \X Int) \union ({"SUBSCRIBE", "PUBLISH"} \X Channels)
    \union ({"SCRIPT LOAD", "EVAL", "EVALSHA"} \X Scripts)
    \union {<<name>> : name \in {"FLUSHALL", "SCRIPT FLUSH", "PING", "QUIT", "MULTI", "EXEC",
                                 "DISCARD", "UNKNOWN", "JUNK"}}
\* What a script may call: one key, or SELECT.
ScriptCalls ==
    ({"get", "incr", "del"} \X Keys) \union ({"put"} \X Keys \X (Bytes \union {Fraction}))
    \union ({"select"} \X Int)

ASSUME ServerAssumption ==
    /\ DbCount \in Nat \ {0} /\ Capacity \in Nat \ {0} /\ Persist \in BOOLEAN
    /\ MemTotal \in Nat /\ MemBase \in 0..MemTotal /\ Threshold \in Nat
    /\ Programs \subseteq [Conns -> Seq(Frames)]
    /\ \A s \in Scripts :
          /\ Body[s].compiled \in BOOLEAN /\ Body[s].cost \in Nat
          /\ Body[s].calls \in Seq([do : ScriptCalls, pcall : BOOLEAN])

\* Replies (RespValue).
Simple(s) == [simple |-> s]
Error(s) == [error |-> s]
Integer(n) == [int |-> n]
Blob(v) == IF v = Absent THEN [null |-> TRUE] ELSE [blob |-> v]
Array(s) == [array |-> s]
IsError(r) == "error" \in DOMAIN r

VARIABLES wire,    \* wire[c]: frames the client has still to send
          buf,     \* buf[c]: whole frames in the reader's buffer
          half,    \* half[c]: the buffer ends with the beginning of a frame
          conn,    \* conn[c]: the locals of handle_client
          out,     \* out[c]: written to the BufWriter, not yet flushed
          sent,    \* sent[c]: flushed to the client
          inq,     \* inq[c]: the connection's bounded pub/sub channel
          mem,     \* mem[c]: bytes used in its script runtime, Absent before EVAL
          data,    \* data[d][k]
          subs,    \* subs[ch]: the senders registered for a channel
          cache,   \* the scripts in the script cache
          aof      \* commands handed to the append-only file

vars == <<wire, buf, half, conn, out, sent, inq, mem, data, subs, cache, aof>>
input == <<wire, buf, half>>
shared == <<data, subs, cache, aof>>

Idle == [at |-> "read", db |-> 0, multi |-> FALSE, queue |-> <<>>, n |-> 0,
         cur |-> <<"NONE">>, work |-> <<>>, got |-> <<>>, exec |-> FALSE,
         batch |-> <<>>, results |-> <<>>, held |-> 0, reply |-> Simple("OK"), why |-> ""]

Init == /\ wire \in Programs
        /\ buf = [c \in Conns |-> <<>>] /\ half = [c \in Conns |-> FALSE]
        /\ conn = [c \in Conns |-> Idle]
        /\ out = [c \in Conns |-> <<>>] /\ sent = [c \in Conns |-> <<>>]
        /\ inq = [c \in Conns |-> <<>>] /\ mem = [c \in Conns |-> Absent]
        /\ data = [d \in Dbs |-> [k \in Keys |-> Absent]]
        /\ subs = [ch \in Channels |-> <<>>] /\ cache = {} /\ aof = <<>>

-----------------------------------------------------------------------------
\* Input.  BufReader reads from the socket only when its buffer is empty, and
\* then takes what has arrived: some frames and perhaps a piece of the next.
Fill(c) ==
    /\ conn[c].at = "read" /\ buf[c] = <<>>
    /\ \E n \in 1..Len(wire[c]), h \in BOOLEAN :
          /\ h => n < Len(wire[c])
          /\ buf' = [buf EXCEPT ![c] = SubSeq(wire[c], 1, n)]
          /\ wire' = [wire EXCEPT ![c] = SubSeq(@, n + 1, Len(@))]
          /\ half' = [half EXCEPT ![c] = h]
    /\ UNCHANGED <<conn, out, sent, inq, mem, shared>>

Closed(cn, reason) == [cn EXCEPT !.at = "closed", !.why = reason]

\* The client closes: read_value gives None between two frames, an error inside one.
Hangup(c) ==
    /\ conn[c].at = "read" /\ buf[c] = <<>>
    /\ conn' = [conn EXCEPT ![c] = Closed(@, IF half[c] THEN "error" ELSE "eof")]
    /\ UNCHANGED <<input, out, sent, inq, mem, shared>>

\* Mutant: the frame being answered still counts as buffered.
NothingBufferedAtAll(b, c) == buf[c] = <<>> /\ ~half[c]
\* Nothing is waiting in the reader's buffer once frame Head(buf[c]) is taken.
NothingBuffered(b, c) == b = <<>> /\ ~half[c]

\* Write what is in o, and flush if no pipelined input is buffered.
Write(c, o) ==
    IF NothingBuffered(Tail(buf[c]), c)
      THEN sent' = [sent EXCEPT ![c] = @ \o out[c] \o o] /\ out' = [out EXCEPT ![c] = <<>>]
      ELSE out' = [out EXCEPT ![c] = @ \o o] /\ UNCHANGED sent

\* A reply as the history keeps it: to which command of the connection it is.
Reply(cn, f, r) == [n |-> cn.n, r |-> r, multi |-> f[1] = "MULTI", pub |-> f[1] = "PUBLISH",
                    exec |-> f[1] = "EXEC" /\ ~IsError(r)]

-----------------------------------------------------------------------------
\* The work items of a command, in the order of its locked calls.
Item(what) == [do |-> what, in |-> "cmd"]
Items(whats) == [i \in DOMAIN whats |-> Item(whats[i])]

ScriptItems(s) ==
    [i \in DOMAIN Body[s].calls |->
        LET call == Body[s].calls[i] IN
        [do |-> call.do,
         in |-> IF call.pcall THEN "pcall" ELSE IF Body[s].compiled THEN "compiled" ELSE "call"]]

Calls(f) ==
    IF f[1] = "GET" THEN <<Item(<<"get", f[2]>>)>>
    ELSE IF f[1] = "SET" THEN <<Item(<<"put", f[2], f[3]>>)>>
    ELSE IF f[1] = "INCR" THEN <<Item(<<"incr", f[2]>>)>>
    ELSE IF f[1] = "GETSET" THEN <<Item(<<"get", f[2]>>), Item(<<"put", f[2], f[3]>>)>>
    ELSE IF f[1] = "MSET" THEN Items([i \in DOMAIN f[2] |-> <<"put", f[2][i][1], f[2][i][2]>>])
    ELSE IF f[1] = "MGET" THEN Items([i \in DOMAIN f[2] |-> <<"get", f[2][i]>>])
    ELSE IF f[1] = "DEL" THEN Items([i \in DOMAIN f[2] |-> <<"del", f[2][i]>>])
    ELSE IF f[1] = "FLUSHALL" THEN Items([i \in 1..DbCount |-> <<"flush", i - 1>>])
    ELSE IF f[1] = "SELECT" THEN <<Item(<<"select", f[2]>>)>>
    ELSE IF f[1] = "SCRIPT LOAD" THEN <<Item(<<"load", f[2]>>)>>
    ELSE IF f[1] = "SCRIPT FLUSH" THEN <<Item(<<"forget">>)>>
    ELSE IF f[1] = "EVAL" THEN <<Item(<<"load", f[2]>>), Item(<<"enter", f[2]>>)>>
    ELSE IF f[1] = "EVALSHA" THEN <<Item(<<"lookup", f[2]>>)>>
    ELSE <<Item(<<"nop">>)>>     \* PING, ECHO, INFO, QUIT, ...

IsScript(f) == f[1] \in {"EVAL", "EVALSHA"}
IsWrite(f) == f[1] \in {"SET", "INCR", "GETSET", "MSET", "DEL", "FLUSHALL"}

Work(f) == Calls(f) \o (IF Persist /\ IsWrite(f) THEN <<Item(<<"log">>)>> ELSE <<>>)

\* resp_to_js then js_to_resp: a status becomes a string on its way through JS.
ThroughJs(r) == IF "simple" \in DOMAIN r THEN [blob |-> r.simple] ELSE r

Answer(f, got) ==
    IF f[1] \in {"GET", "INCR", "GETSET", "SELECT"} THEN got[1]
    ELSE IF f[1] \in {"SET", "MSET", "FLUSHALL", "SCRIPT FLUSH", "QUIT"} THEN Simple("OK")
    ELSE IF f[1] = "MGET" THEN Array(got)
    ELSE IF f[1] \in {"DEL", "PUBLISH"}
    THEN Integer(Cardinality({i \in DOMAIN got : got[i] = Integer(1)}))
    ELSE IF f[1] = "SCRIPT LOAD" THEN [sha |-> f[2]]
    ELSE IF IsScript(f) THEN ThroughJs(Last(got))
    ELSE Simple("PONG")

-----------------------------------------------------------------------------
\* A connection begins a command.
Start(cn, f) == [cn EXCEPT !.at = "run", !.cur = f, !.work = Work(f), !.got = <<>>]

\* ... has its answer: the next queued command of an EXEC, or the reply.
Done(cn, r) ==
    IF ~cn.exec THEN [cn EXCEPT !.at = "reply", !.work = <<>>, !.reply = r]
    ELSE LET res == Append(cn.results, r) IN
         IF cn.batch = <<>>
           THEN [cn EXCEPT !.at = "reply", !.work = <<>>, !.exec = FALSE, !.results = <<>>,
                           !.reply = Array(res)]
           ELSE [Start(cn, Head(cn.batch)) EXCEPT !.batch = Tail(@), !.results = res]

\* ... gets result r from its first work item and goes on with rest.
Proceed(cn, r, rest) ==
    LET got == Append(cn.got, r) IN
    IF rest = <<>> THEN Done(cn, Answer(cn.cur, got))
                   ELSE [cn EXCEPT !.work = rest, !.got = got]

\* Mutant: SELECT, which touches no data, is not queued.
QueuesAllButSelect(cn, f) == cn.multi /\ f[1] \notin {"EXEC", "DISCARD", "MULTI", "SELECT"}
\* The test for MULTI, after SUBSCRIBE and PUBLISH and before everything else.
Queues(cn, f) == cn.multi /\ f[1] \notin {"EXEC", "DISCARD", "MULTI"}

BeginMulti(cn) == [cn EXCEPT !.multi = TRUE, !.queue = <<>>]
\* Mutant: a nested MULTI starts the transaction again.
NestedMultiRestarts(cn) == BeginMulti(cn)
NestedMulti(cn) == cn

Answered(cn, r) == [cn EXCEPT !.at = "reply", !.reply = r]

Discard(cn) ==
    IF cn.multi THEN Answered([cn EXCEPT !.multi = FALSE, !.queue = <<>>], Simple("OK"))
    ELSE Answered(cn, Error("DISCARD without MULTI"))

Exec(cn) ==
    IF ~cn.multi THEN Answered(cn, Error("EXEC without MULTI"))
    ELSE IF cn.queue = <<>> THEN Answered([cn EXCEPT !.multi = FALSE], Array(<<>>))
    ELSE [Start(cn, Head(cn.queue)) EXCEPT !.multi = FALSE, !.queue = <<>>, !.exec = TRUE,
                                           !.batch = Tail(cn.queue), !.results = <<>>]

Dispatch(cn, f) ==
    IF Queues(cn, f) THEN Answered([cn EXCEPT !.queue = Append(@, f)], Simple("QUEUED"))
    ELSE IF f[1] = "MULTI" THEN IF cn.multi THEN Answered(NestedMulti(cn), Error("nested"))
                                ELSE Answered(BeginMulti(cn), Simple("OK"))
    ELSE IF f[1] = "DISCARD" THEN Discard(cn)
    ELSE IF f[1] = "EXEC" THEN Exec(cn)
    ELSE Start(cn, f)

\* handle_publish copies the receivers under the lock and sends after it.
Sends(f) == LET to == subs[f[2]] IN Items([i \in DOMAIN to |-> <<"send", f[2], to[i]>>])

\* handle_client from read_value to the dispatch on the command's name.
Take(c) ==
    LET f  == Head(buf[c])
        cn == [conn[c] EXCEPT !.n = @ + 1] IN
    /\ conn[c].at = "read" /\ buf[c] # <<>>
    /\ \/ /\ f[1] = "JUNK"       \* not a RESP value: `?` leaves the task
          /\ conn' = [conn EXCEPT ![c] = Closed(cn, "error")]
          /\ UNCHANGED <<out, sent, subs, buf>>
       \/ /\ f[1] = "UNKNOWN"    \* bad array item, empty command, unknown command
          /\ conn' = [conn EXCEPT ![c] = cn]
          /\ Write(c, <<Reply(cn, f, Error("unknown command"))>>)
          /\ buf' = [buf EXCEPT ![c] = Tail(@)] /\ UNCHANGED subs
       \/ /\ f[1] = "SUBSCRIBE"
          /\ subs' = [subs EXCEPT ![f[2]] = Append(@, c)]
          /\ conn' = [conn EXCEPT ![c] = Answered(cn, Array(<<Integer(1)>>))]
          /\ UNCHANGED <<out, sent, buf>>
       \/ /\ f[1] = "PUBLISH"
          /\ conn' = [conn EXCEPT ![c] =
                IF Sends(f) = <<>> THEN Answered(cn, Integer(0))
                ELSE [Start(cn, f) EXCEPT !.work = Sends(f)]]
          /\ UNCHANGED <<out, sent, subs, buf>>
       \/ /\ f[1] \notin {"JUNK", "UNKNOWN", "SUBSCRIBE", "PUBLISH"}
          /\ conn' = [conn EXCEPT ![c] = Dispatch(cn, f)]
          /\ UNCHANGED <<out, sent, subs, buf>>
    /\ UNCHANGED <<wire, half, inq, mem, data, cache, aof>>

\* The reply, then the pub/sub messages that are waiting, then the flush; QUIT
\* ends the task, also when MULTI only queued it.
Respond(c) ==
    LET cn == conn[c] IN
    /\ cn.at = "reply"
    /\ Write(c, <<Reply(cn, Head(buf[c]), cn.reply)>> \o inq[c])
    /\ inq' = [inq EXCEPT ![c] = <<>>]
    /\ buf' = [buf EXCEPT ![c] = Tail(@)]
    /\ conn' = [conn EXCEPT ![c] = IF Head(buf[c])[1] = "QUIT" THEN Closed(cn, "quit")
                                   ELSE [cn EXCEPT !.at = "read"]]
    /\ UNCHANGED <<wire, half, mem, shared>>

-----------------------------------------------------------------------------
\* One work item each.  at run, Head(work) is what is done next.
Doing(c, what) == conn[c].at = "run" /\ Head(conn[c].work).do[1] = what
Arg(c, i) == Head(conn[c].work).do[i]

\* A command that fails is not logged; a failed redis.call ends an interpreted
\* script, while compiled code, like a pcall, goes on.
Rest(c, r) == IF Head(conn[c].work).in \in {"cmd", "call"} /\ IsError(r)
                THEN <<>> ELSE Tail(conn[c].work)

\* The database of a call: a script keeps a pointer to the one it began with.
\* Mutant: the pointer is used whatever database is selected.
HeldDbStale(cn) == cn.held
HeldDb(cn) == IF cn.db = cn.held THEN cn.held ELSE cn.db
TargetDb(cn) == IF IsScript(cn.cur) THEN HeldDb(cn) ELSE cn.db

\* js_value_as_bytes on the fast path gives no bytes for a fraction; the slow
\* path formats it.  From a client every argument is bytes already.
Stored(cn, v) == IF v = Fraction THEN (IF cn.db = cn.held THEN Empty ELSE Text) ELSE v

\* log_cmd: after the last shard is unlocked, before the reply.
LogCommand(c) ==
    LET cn == conn[c] IN
    /\ Doing(c, "log")
    /\ aof' = Append(aof, [db |-> IF cn.cur[1] = "FLUSHALL" THEN 0 ELSE cn.db, cmd |-> cn.cur])
    /\ conn' = [conn EXCEPT ![c] = Proceed(@, Simple("OK"), Tail(@.work))]
    /\ UNCHANGED <<input, out, sent, inq, mem, data, subs, cache>>

DbResult(old, what) ==
    IF what = "get" THEN Blob(old)
    ELSE IF what = "put" THEN Simple("OK")
    ELSE IF what = "del" THEN Integer(IF old = Absent THEN 0 ELSE 1)
    ELSE IF old \in {Text, Empty} THEN Error("not an integer")     \* incr
    ELSE Integer(IF old = Absent THEN 1 ELSE old + 1)

\* What the key holds after the call, of which v is the argument and r the result.
DbNew(cn, old, what, v, r) ==
    IF what = "put" THEN Stored(cn, v)
    ELSE IF what = "del" THEN Absent
    ELSE IF what = "incr" /\ ~IsError(r) THEN r.int
    ELSE old

DbCall(c) ==
    /\ \E what \in {"get", "put", "incr", "del"} :
          LET cn  == conn[c]
              d   == TargetDb(cn)
              k   == Arg(c, 2)
              r   == DbResult(data[d][k], what) IN
          /\ Doing(c, what)
          /\ data' = [data EXCEPT ![d][k] = DbNew(cn, data[d][k], what, Arg(c, 3), r)]
          /\ conn' = [conn EXCEPT ![c] = Proceed(cn, r, Rest(c, r))]
    /\ UNCHANGED <<input, out, sent, inq, mem, subs, cache, aof>>

FlushDb(c) ==
    /\ Doing(c, "flush")
    /\ data' = [data EXCEPT ![Arg(c, 2)] = [k \in Keys |-> Absent]]
    /\ conn' = [conn EXCEPT ![c] = Proceed(@, Simple("OK"), Tail(@.work))]
    /\ UNCHANGED <<input, out, sent, inq, mem, subs, cache, aof>>

\* PING and its like, SELECT, and QUIT inside an EXEC, which does not quit.
NoDb(c) ==
    /\ \/ /\ Doing(c, "nop")
          /\ conn' = [conn EXCEPT ![c] = Proceed(@, Simple("PONG"), Tail(@.work))]
       \/ /\ Doing(c, "select")
          /\ LET ok == Arg(c, 2) \in Dbs
                 r  == IF ok THEN Simple("OK") ELSE Error("invalid DB index") IN
             conn' = [conn EXCEPT ![c] =
                        Proceed(IF ok THEN [@ EXCEPT !.db = Arg(c, 2)] ELSE @, r, Rest(c, r))]
    /\ UNCHANGED <<input, out, sent, inq, mem, shared>>

ScriptCache(c) ==
    /\ \/ /\ Doing(c, "load")
          /\ cache' = cache \union {Arg(c, 2)}
          /\ conn' = [conn EXCEPT ![c] = Proceed(@, [sha |-> Arg(c, 2)], Tail(@.work))]
       \/ /\ Doing(c, "forget")
          /\ cache' = {}
          /\ conn' = [conn EXCEPT ![c] = Proceed(@, Simple("OK"), Tail(@.work))]
       \/ /\ Doing(c, "lookup")          \* the text is cloned, then the lock dropped
          /\ conn' = [conn EXCEPT ![c] =
                IF Arg(c, 2) \in cache
                  THEN Proceed(@, Simple("OK"), <<Item(<<"enter", Arg(c, 2)>>)>>)
                  ELSE Proceed(@, Error("NOSCRIPT"), <<>>)]
          /\ UNCHANGED cache
    /\ UNCHANGED <<input, out, sent, inq, mem, data, subs, aof>>

Percent == IF Threshold > 100 THEN 100 ELSE IF Threshold < 1 THEN 1 ELSE Threshold
\* Mutant: only a runtime that is full is replaced.
ResetWhenFull(used) == IF used >= MemTotal THEN MemBase ELSE used
\* maybe_reset, before each script: a runtime used up to the threshold is replaced.
MaybeReset(used) == IF used * 100 >= MemTotal * Percent THEN MemBase ELSE used

\* handle_eval_command and eval_wrapped_script up to JS_Eval: the runtime, KEYS
\* and ARGV, the pointer to the selected database.  What the script allocates
\* (Body[s].cost) either fits or ends it with an error.
EnterScript(c) ==
    LET s     == Arg(c, 2)
        used  == MaybeReset(IF mem[c] = Absent THEN MemBase ELSE mem[c])
        fits  == used + Body[s].cost <= MemTotal IN
    /\ Doing(c, "enter")
    /\ mem' = [mem EXCEPT ![c] = IF fits THEN used + Body[s].cost ELSE MemTotal]
    /\ conn' = [conn EXCEPT ![c] =
          Proceed([@ EXCEPT !.held = conn[c].db], IF fits THEN Blob(Absent) ELSE Error("out of memory"),
                  IF fits THEN ScriptItems(s) ELSE <<>>)]
    /\ UNCHANGED <<input, out, sent, inq, shared>>

\* Mutants: the channel takes one message more; a message lost is counted too;
\* the publisher waits for room.
HasRoomForOneMore(q) == Len(q) <= Capacity
HasRoom(q) == Len(q) < Capacity
CountedAlways(ok) == Integer(1)
Counted(ok) == Integer(IF ok THEN 1 ELSE 0)
MaySendIntoRoom(q) == HasRoom(q)
MaySend(q) == TRUE

\* try_send: a full channel, or one whose connection is gone, loses the message.
Send(c) ==
    LET to == Arg(c, 3)
        ok == HasRoom(inq[to]) /\ conn[to].at # "closed" IN
    /\ Doing(c, "send") /\ MaySend(inq[to])
    /\ inq' = IF ok THEN [inq EXCEPT ![to] = Append(@, [by |-> c, n |-> conn[c].n])] ELSE inq
    /\ conn' = [conn EXCEPT ![c] = Proceed(@, Counted(ok), Tail(@.work))]
    /\ UNCHANGED <<input, out, sent, mem, shared>>

Serve(c) == \/ Take(c) \/ Respond(c) \/ DbCall(c) \/ FlushDb(c) \/ LogCommand(c) \/ NoDb(c)
            \/ ScriptCache(c) \/ EnterScript(c) \/ Send(c)
Client(c) == Fill(c) \/ Hangup(c)

Next == \E c \in Conns : Serve(c) \/ Client(c)

\* The runtime polls every task that is ready.  Clients owe nothing.
Fairness == \A c \in Conns : WF_vars(Serve(c))

Spec == Init /\ [][Next]_vars /\ Fairness
-----------------------------------------------------------------------------
TypeOK ==
    /\ \A c \in Conns :
          /\ conn[c].at \in {"read", "run", "reply", "closed"} /\ conn[c].db \in Dbs
          /\ conn[c].multi \in BOOLEAN /\ half[c] \in BOOLEAN
          /\ conn[c].at = "run" => conn[c].work # <<>>
          /\ conn[c].at \in {"run", "reply"} => buf[c] # <<>>
          /\ Len(inq[c]) <= Capacity /\ mem[c] \in {Absent} \union MemBase..MemTotal
    /\ \A d \in Dbs, k \in Keys : data[d][k] \in Bytes \union {Absent}
    /\ cache \subseteq Scripts
    /\ \A ch \in Channels : \A i \in DOMAIN subs[ch] : subs[ch][i] \in Conns

History(c) == sent[c] \o out[c]
IsMessage(e) == "by" \in DOMAIN e
\* The positions of the replies in it, and the replies.
Answers(c) == {i \in DOMAIN History(c) : ~IsMessage(History(c)[i])}
Replies(c) == {History(c)[i] : i \in Answers(c)}

\* A client that has sent whole frames only has every reply: when the task waits
\* for input (or has ended because the client closed, or said QUIT and sent
\* nothing after it), nothing is left in the BufWriter.  The flush depends on
\* the reader's buffer at three places of handle_client.
NoReplyHeldBack ==
    \A c \in Conns :
        (buf[c] = <<>> /\ ~half[c] /\ conn[c].at \in {"read", "closed"}) => out[c] = <<>>

\* The commands before the n-th that replies R say are queued, counted from the
\* MULTI that was accepted last.
Begins(e) == e.multi /\ e.r = Simple("OK")
QueuedBefore(R, n) ==
    {m \in 1..(n - 1) :
        /\ \E e \in R : e.n = m /\ e.r = Simple("QUEUED")
        /\ \A e \in R : Begins(e) /\ e.n < n => e.n < m}

\* Pipelined commands are answered one by one and in order, and what EXEC
\* answers has one result for every QUEUED since its MULTI, no more and no less:
\* unknown commands, nested MULTIs and DISCARD in between do not disturb it.
OneReplyEach ==
    \A c \in Conns :
        LET h == History(c)
            n == conn[c].n
        IN  /\ \A i, j \in Answers(c) : i < j => h[i].n < h[j].n
            /\ \E m \in {n - 1, n} :
                  /\ {e.n : e \in Replies(c)} = 1..m
                  /\ conn[c].at = "read" => m = n
                  /\ conn[c].at \in {"run", "reply"} => m = n - 1
            /\ conn[c].multi /\ conn[c].at = "read" =>
                   Len(conn[c].queue) = Cardinality(QueuedBefore(Replies(c), n + 1))
            /\ \A e \in Replies(c) :
                  e.exec => Len(e.r.array) = Cardinality(QueuedBefore(Replies(c), e.n))

\* Between MULTI and EXEC a connection changes no data, no script cache, no
\* append-only file and no selected database: all of that waits for EXEC.
NothingRunsInMulti ==
    [][\A c \in Conns : conn[c].multi /\ conn'[c] # conn[c] =>
          UNCHANGED <<data, cache, aof>> /\ conn'[c].db = conn[c].db]_vars

\* A command writes only to the database its connection has selected at that
\* moment, also after a SELECT inside an EXEC or inside a script that began with
\* a pointer to another one.  Only FLUSHALL reaches the others.
WritesSelectedDb ==
    [][\A c \in Conns : conn'[c] # conn[c] /\ conn[c].at = "run" /\ conn[c].cur[1] # "FLUSHALL" =>
          \A d \in Dbs \ {conn[c].db} : data'[d] = data[d]]_vars

\* Messages a subscriber has from one publisher come in the order published,
\* though sends run outside the registry's lock and full channels lose some; and
\* the number PUBLISH answers is the number of copies that entered a channel.
Stream(s) == History(s) \o inq[s]
Message(p, n) == [by |-> p, n |-> n]
CopiesFor(s, p, n) == {<<s, i>> : i \in {j \in DOMAIN Stream(s) : Stream(s)[j] = Message(p, n)}}
Copies(p, n) == UNION {CopiesFor(s, p, n) : s \in Conns}
InOrder(q) ==
    \A i, j \in DOMAIN q :
        (i < j /\ IsMessage(q[i]) /\ IsMessage(q[j]) /\ q[i].by = q[j].by) => q[i].n <= q[j].n
PublishKept ==
    /\ \A s \in Conns : InOrder(Stream(s))
    /\ \A p \in Conns : \A e \in Replies(p) :
          e.pub => e.r = Integer(Cardinality(Copies(p, e.n)))

\* A script that needs no more than what the threshold leaves free never runs
\* out of memory, however many scripts the connection's runtime has run before.
SmallScriptsFit ==
    \A c \in Conns : \A i \in DOMAIN History(c) :
        (~IsMessage(History(c)[i]) /\ History(c)[i].r = Error("out of memory")) =>
            \E s \in Scripts : Body[s].cost * 100 > MemTotal * (100 - Percent)

\* Every frame that is in a connection's buffer is served, unless the connection
\* ends before it (QUIT, or input that is not RESP): no command waits for
\* another connection, a publisher not for a subscriber that does not read.
EveryFrameServed == \A c \in Conns : (buf[c] # <<>>) ~> (buf[c] = <<>> \/ conn[c].at = "closed")
=============================================================================
