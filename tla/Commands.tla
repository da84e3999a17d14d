------------------------------ MODULE Commands ------------------------------
(***************************************************************************)
(* The command handlers (server_tcp.c) composed with the cache they call.  *)
(* A handler makes one or two calls of pod_cache.c, whose steps are those  *)
(* of PodCache, and turns what they return into a reply.                   *)
(*                                                                         *)
(* Values are numerals (the integers of a long), the empty string or other *)
(* text.  A reply is a pair: its kind and what it carries.                 *)
(*                                                                         *)
(* The copy of a value that pod_cache_get hands out has no terminating     *)
(* zero, and the handlers use it as a C string: unless a zero happens to   *)
(* follow, strlen, printf and strtol read on behind it.                    *)
(***************************************************************************)
EXTENDS PodCache

CONSTANTS
  Empty,         \* the empty string
  LONG_MAX,      \* the largest long
  ReplyLimit,    \* the longest value whose reply fits BUFFER_SIZE
  CommandNames,  \* the commands the clients send
  ClientValues   \* ClientValues[k]: the values they SET k to

LONG_MIN == - LONG_MAX - 1
Numerals == LONG_MIN .. LONG_MAX
Text == Values \ (Numerals \cup {Empty})

ASSUME CommandsAssumption ==
  /\ LONG_MAX \in Nat \ {0}
  /\ Numerals \subseteq Values
  /\ Empty \in Values \ Numerals
  /\ ClientValues \in [Keys -> SUBSET Values]
  /\ ReplyLimit \in Nat
  /\ CommandNames \subseteq {"SET", "GET", "DEL", "INCR", "PING", "CLIENT", "QUIT"}

VARIABLES
  handler,    \* handler[t]: the handler t is in, and at which of its calls
  out_value,  \* out_value[t]: the copy pod_cache_get handed out
  ended,      \* ended[t]: a zero byte follows that copy
  number,     \* number[t]: the local val of handle_incr
  reply,      \* reply[t]: the last reply sent, NoReply while there is none
  connected,  \* connected[t]: the client's connection is open
  before      \* history: what the command's key held when the command began

handlerVars == <<handler, out_value, ended, number, reply, connected, before>>
allVars == <<vars, handlerVars>>

Handlers == {"ready", "set", "get", "del", "incr_get", "incr_put"}

NoReply == <<"none", 0>>
Nil     == <<"nil", 0>>
Status  == <<"status", 0>>   \* +OK, +PONG, +BYE
Error   == <<"error", 0>>    \* whatever its text
Bulk(v) == <<"bulk", v>>
Overread(v) == <<"overread", v>>   \* a bulk string: v and the bytes behind it
Integer(n) == <<"integer", n>>

\* An integer is printed as unsigned.
Replies ==
  {"none", "nil", "status", "error", "bulk", "overread", "integer"} \X
    (Contents \cup {NULL} \cup Nat)

\* The cache, the handlers' locals and what they answer keep their types: no
\* sequence of commands makes a number leave the range of a long.
CommandsTypeOK ==
  /\ TypeOK
  /\ handler \in [Threads -> Handlers]
  /\ out_value \in [Threads -> Contents \cup {NULL}]
  /\ ended \in [Threads -> BOOLEAN]
  /\ number \in [Threads -> Numerals]
  /\ reply \in [Threads -> Replies]
  /\ connected \in [Threads -> BOOLEAN]
  /\ before \in [Threads -> Contents \cup {NULL}]

CommandsInit ==
  /\ Init
  /\ handler = [t \in Threads |-> "ready"]
  /\ out_value = [t \in Threads |-> NULL]
  /\ ended = [t \in Threads |-> TRUE]
  /\ number = [t \in Threads |-> 0]
  /\ reply = [t \in Threads |-> NoReply]
  /\ connected = [t \in Threads |-> TRUE]
  /\ before = [t \in Threads |-> NULL]

-----------------------------------------------------------------------------
(* Replies.                                                                *)

\* "%lu" prints a long as if it were unsigned.
AsUnsigned(n) == IF n >= 0 THEN n ELSE n + 2 * (LONG_MAX + 1)

\* val++, wrapping as two's complement does
Increment(n) == IF n = LONG_MAX THEN LONG_MIN ELSE n + 1

\* What follows the copy that t is handed is not known.
Copied(t) == \E z \in BOOLEAN : ended' = [ended EXCEPT ![t] = z]

\* The numbers strtol may read from v; the empty string reads as 0.  What a
\* truncated value spells is not known, nor is one that is read past its end.
strtol(v, z) ==
  IF v = Torn \/ ~ z THEN Numerals ELSE IF v = Empty THEN {0} ELSE {v} \cap Numerals

Reply(t, r) ==
  /\ reply' = [reply EXCEPT ![t] = r]
  /\ handler' = [handler EXCEPT ![t] = "ready"]
  /\ out_value' = [out_value EXCEPT ![t] = NULL]
  /\ ended' = [ended EXCEPT ![t] = TRUE]
  /\ number' = [number EXCEPT ![t] = 0]
  /\ before' = [before EXCEPT ![t] = NULL]

\* The handler of t begins: it waits for the calls it makes.
Enter(t, h, k) ==
  /\ handler[t] = "ready" /\ connected[t]
  /\ handler' = [handler EXCEPT ![t] = h]
  /\ reply' = [reply EXCEPT ![t] = NoReply]
  /\ before' = [before EXCEPT ![t] = Lookup(k)]
  /\ UNCHANGED <<number, connected>>

\* The handler of t goes on: its call has returned.
Returned(t, h) == handler[t] = h /\ pc[t] = "idle"

-----------------------------------------------------------------------------
(* Commands.                                                               *)

\* PING, CLIENT and QUIT, names resp_decode_command does not know (UNLINK, which
\* only the table of handlers has, among them), and commands with too few
\* arguments, use no key.
Simple(t) ==
  /\ handler[t] = "ready" /\ connected[t]
  /\ \/ /\ CommandNames \cap {"PING", "CLIENT"} # {}
        /\ Reply(t, Status)
        /\ UNCHANGED connected
     \/ /\ "QUIT" \in CommandNames
        /\ Reply(t, Status)
        /\ connected' = [connected EXCEPT ![t] = FALSE]
     \/ Reply(t, Error) /\ UNCHANGED connected
  /\ UNCHANGED vars

handle_set(t, k, v) ==
  /\ "SET" \in CommandNames
  /\ Enter(t, "set", k)
  /\ PutFirst(t, k, v)
  /\ UNCHANGED <<out_value, ended>>

\* Mutant: partition 0 is taken for an error.
EndSetZeroFails(t) ==
  /\ Returned(t, "set")
  /\ Reply(t, IF result[t] <= 0 THEN Error ELSE Status)
  /\ UNCHANGED <<vars, connected>>

EndSet(t) ==
  /\ Returned(t, "set")
  /\ Reply(t, IF result[t] < 0 THEN Error ELSE Status)
  /\ UNCHANGED <<vars, connected>>

\* pod_cache_get for GET and INCR; a hit in memory hands out its copy at once.
CallGet(t, k, h) ==
  /\ Enter(t, h, k)
  /\ GetMemory(t, k)
  /\ out_value' = [out_value EXCEPT ![t] = IF Resident(k) THEN val[k] ELSE NULL]
  /\ IF Resident(k) THEN Copied(t) ELSE UNCHANGED ended

handle_get(t, k) == "GET" \in CommandNames /\ CallGet(t, k, "get")

\* Any result but 0 is a miss.  A reply that does not fit is not sent, and the
\* connection is closed.
EndGet(t) ==
  /\ Returned(t, "get")
  /\ \/ result[t] # 0 /\ Reply(t, Nil) /\ UNCHANGED connected
     \/ /\ result[t] = 0 /\ SizeOf[out_value[t]] <= ReplyLimit
        /\ Reply(t, IF ended[t] THEN Bulk(out_value[t]) ELSE Overread(out_value[t]))
        /\ UNCHANGED connected
     \/ /\ result[t] = 0 /\ (SizeOf[out_value[t]] > ReplyLimit \/ ~ ended[t])
        /\ Reply(t, NoReply)
        /\ connected' = [connected EXCEPT ![t] = FALSE]
  /\ UNCHANGED vars

handle_del(t, k) ==
  /\ "DEL" \in CommandNames
  /\ Enter(t, "del", k)
  /\ EvictMemory(t, k)
  /\ UNCHANGED <<out_value, ended>>

EndDel(t) ==
  /\ Returned(t, "del")
  /\ Reply(t, IF result[t] = FAIL THEN Error ELSE Integer(AsUnsigned(result[t])))
  /\ UNCHANGED <<vars, connected>>

handle_incr(t, k) ==
  /\ "INCR" \in CommandNames
  /\ CallGet(t, k, "incr_get")

\* The second call of handle_incr stores n.
IncrStore(t, n) ==
  /\ number' = [number EXCEPT ![t] = n]
  /\ handler' = [handler EXCEPT ![t] = "incr_put"]
  /\ PutFirst(t, arg[t], n)
  /\ UNCHANGED <<out_value, ended, reply, connected, before>>

\* Mutant: a key that is not there starts at 0.
EndIncrGetFromZero(t) ==
  /\ Returned(t, "incr_get")
  /\ \/ result[t] # 0 /\ IncrStore(t, 0)
     \/ \E n \in strtol(out_value[t], ended[t]) : result[t] = 0 /\ IncrStore(t, Increment(n))
     \/ /\ result[t] = 0 /\ (out_value[t] \in Text \cup {Torn} \/ ~ ended[t])
        /\ Reply(t, Error)
        /\ UNCHANGED <<vars, connected>>

\* A miss starts the counter at 1; a numeral, or nothing at all, is incremented;
\* other text is refused.
EndIncrGet(t) ==
  /\ Returned(t, "incr_get")
  /\ \/ result[t] # 0 /\ IncrStore(t, 1)
     \/ \E n \in strtol(out_value[t], ended[t]) : result[t] = 0 /\ IncrStore(t, Increment(n))
     \/ /\ result[t] = 0 /\ (out_value[t] \in Text \cup {Torn} \/ ~ ended[t])
        /\ Reply(t, Error)
        /\ UNCHANGED <<vars, connected>>

\* Whether the value was stored is not looked at.
EndIncr(t) ==
  /\ Returned(t, "incr_put")
  /\ Reply(t, Integer(AsUnsigned(number[t])))
  /\ UNCHANGED <<vars, connected>>

\* The next step of the pod_cache call t is in.
InCall(t) ==
  /\ \/ GetTail(t) \/ Spill(t) \/ Register(t) \/ DropTail(t) \/ PutRetry(t)
     \/ ReadDisk(t) \/ Promote(t) \/ Unspill(t)
     \/ EvictDisk(t)
  /\ IF pc[t] = "read_disk"
       THEN out_value' = [out_value EXCEPT ![t] = data'[t]] /\ Copied(t)
       ELSE UNCHANGED <<out_value, ended>>
  /\ UNCHANGED <<handler, number, reply, connected, before>>

HandlerStep(t) ==
  \/ Simple(t)
  \/ \E k \in Keys : \/ \E v \in ClientValues[k] : handle_set(t, k, v)
                     \/ handle_get(t, k) \/ handle_del(t, k) \/ handle_incr(t, k)
  \/ EndSet(t) \/ EndGet(t) \/ EndDel(t) \/ EndIncrGet(t) \/ EndIncr(t)
  \/ InCall(t)

\* The process is gone, or every client is.
Over == (crashed \/ \A t \in Threads : ~ connected[t]) /\ UNCHANGED allVars

CommandsNext == (~ crashed /\ \E t \in Threads : HandlerStep(t)) \/ Over

CommandsSpec == CommandsInit /\ [][CommandsNext]_allVars
-----------------------------------------------------------------------------
(* What must hold.                                                         *)

Done(t) == handler[t] # "ready" /\ handler'[t] = "ready"

\* A GET never answers another value than the one its key held in memory or on
\* disk when the command began, through every spill and promotion, nor nil for a
\* key that is there, with these exceptions: a hit in memory of a partition other
\* than 0 is answered nil; a copy that no zero follows is sent with what is behind
\* it; and a reply that outgrows the buffer is not sent.
GetAnswersItsKey ==
  [][\A t \in Threads : handler[t] = "get" /\ Done(t) =>
       \/ before[t] = NULL /\ reply'[t] = Nil
       \/ before[t] # NULL /\ PartOf[arg[t]] # 0 /\ reply'[t] = Nil
       \/ before[t] # NULL /\ ended[t] /\ reply'[t] = Bulk(before[t])
       \/ before[t] # NULL /\ ~ ended[t] /\ reply'[t] = Overread(before[t])
       \/ /\ before[t] # NULL /\ (SizeOf[before[t]] > ReplyLimit \/ ~ ended[t])
          /\ reply'[t] = NoReply]_allVars

\* INCR answers the successor of what its key held when the command began, as a
\* long wraps and as "%lu" prints it; 1 for a key that was not there or was empty;
\* and an error exactly for other text.  The exceptions: a hit in memory of a
\* partition other than 0 starts again at 1, and a copy that no zero follows, or
\* that the disk truncated, may read as any number or none.
IncrCountsItsKey ==
  [][\A t \in Threads : handler[t] \in {"incr_get", "incr_put"} /\ Done(t) =>
       \/ before[t] \in {NULL, Empty} /\ reply'[t] = Integer(1)
       \/ PartOf[arg[t]] # 0 /\ reply'[t] = Integer(1)
       \/ before[t] # NULL /\ (~ ended[t] \/ before[t] = Torn)
       \/ before[t] \in Text /\ reply'[t] = Error
       \/ /\ before[t] \in Numerals
          /\ reply'[t] = Integer(AsUnsigned(Increment(before[t])))]_allVars

\* A SET that is refused leaves its key as it was, also when making room moved
\* the old value of that very key to disk.  (A write the disk truncates without
\* an error from fwrite is the exception.)
RefusedSetChangesNothing ==
  [][\A t \in Threads : handler[t] = "set" /\ Done(t) /\ reply'[t][1] = "error" =>
       Lookup(arg[t]) \in {before[t]} \cup (IF IoMayFail THEN {Torn} ELSE {})]_allVars

\* When INCR has answered, its key holds the new number.  If pod_cache_put refused
\* it, which the reply does not tell, the key holds what it held before, or nothing
\* if it was read from disk and could not be promoted: never another number.
IncrStoresOrKeeps ==
  [][\A t \in Threads : handler[t] = "incr_put" /\ Done(t) =>
       \/ result[t] >= 0 /\ Lookup(arg[t]) = number[t]
       \/ result[t] < 0 /\ Lookup(arg[t]) \in {before[t], NULL}]_allVars
=============================================================================
