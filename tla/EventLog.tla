------------------------------ MODULE EventLog ------------------------------
(***************************************************************************)
(* What the event store promises to the command handlers of one service:  *)
(* commands on an aggregate take effect one at a time.  Each command sees  *)
(* the whole history of its aggregate and appends, in one step, the events *)
(* it raises on exactly that history.                                      *)
(*                                                                         *)
(* AggregateStore is the detailed specification; it implements this one    *)
(* with log <- events.                                                     *)
(***************************************************************************)
EXTENDS Sequences

CONSTANTS Aggregates,     \* the aggregate identifiers
          Commands,       \* the commands a handler can execute
          Raises(_, _)    \* Raises(history, command): the batches of events
                          \* the domain method may raise; {} if it throws

VARIABLE log              \* log[a]: the history of aggregate a

Init == log = [a \in Aggregates |-> <<>>]

Execute(a, c) ==
  \E batch \in Raises(log[a], c) :
    log' = [log EXCEPT ![a] = @ \o batch]

(* A command that raises nothing leaves no trace.                          *)
Next ==
  \E a \in Aggregates :
    /\ log'[a] # log[a]
    /\ \E c \in Commands : Execute(a, c)

Spec == Init /\ [][Next]_log
=============================================================================
