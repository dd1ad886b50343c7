------------------------------ MODULE MCServer ------------------------------
(* Two connections whose clients choose among a few pipelines each: every    *)
(* pairing, every way the bytes may arrive, every interleaving.              *)
EXTENDS Server, TLC

MCBody ==
    [sel |-> [compiled |-> FALSE, cost |-> 2, calls |->
                <<[do |-> <<"put", "x", 1>>, pcall |-> FALSE],
                  [do |-> <<"select", 1>>, pcall |-> FALSE],
                  [do |-> <<"put", "x", Fraction>>, pcall |-> FALSE],
                  [do |-> <<"incr", "x">>, pcall |-> FALSE],
                  [do |-> <<"put", "y", 7>>, pcall |-> FALSE]>>],
     run |-> [compiled |-> TRUE, cost |-> 4, calls |->
                <<[do |-> <<"put", "x", Fraction>>, pcall |-> FALSE],
                  [do |-> <<"incr", "x">>, pcall |-> FALSE],
                  [do |-> <<"incr", "y">>, pcall |-> TRUE]>>]]

Transaction == <<<<"MULTI">>, <<"INCR", "x">>, <<"SELECT", 1>>, <<"SET", "x", 5>>, <<"EXEC">>>>
Confused    == <<<<"MULTI">>, <<"PING">>, <<"UNKNOWN">>, <<"MULTI">>, <<"EXEC">>, <<"EXEC">>>>
Discarding  == <<<<"MULTI">>, <<"GET", "x">>, <<"DISCARD">>, <<"MULTI">>, <<"EXEC">>, <<"DISCARD">>>>
Listening   == <<<<"SUBSCRIBE", "n">>, <<"SUBSCRIBE", "n">>, <<"PING">>, <<"QUIT">>>>
Publishing  == <<<<"PUBLISH", "n">>, <<"PUBLISH", "n">>>>
Chatting    == <<<<"SUBSCRIBE", "n">>, <<"MULTI">>, <<"PUBLISH", "n">>, <<"QUIT">>, <<"PING">>>>
Scripting   == <<<<"EVAL", "run">>, <<"EVALSHA", "run">>, <<"EVAL", "run">>>>
Moving      == <<<<"EVAL", "sel">>, <<"GET", "x">>>>
Loading     == <<<<"SCRIPT LOAD", "run">>, <<"SCRIPT FLUSH">>>>
Setting     == <<<<"MSET", <<<<"x", 3>>, <<"y", 4>>>>>>, <<"MGET", <<"x", "y">>>>>>
Breaking    == <<<<"GETSET", "x", 6>>, <<"JUNK">>>>
Clearing    == <<<<"FLUSHALL">>, <<"DEL", <<"x", "y">>>>, <<"SELECT", 2>>>>

Clients(p, q) == "a" :> p @@ "b" :> q
MCPrograms == { Clients(Transaction, Setting), Clients(Confused, Breaking),
                Clients(Discarding, Setting), Clients(Listening, Publishing),
                Clients(Publishing, Chatting), Clients(Listening, Chatting),
                Clients(Scripting, Loading), Clients(Moving, Setting),
                Clients(Moving, Clearing), Clients(Transaction, Clearing) }
=============================================================================
