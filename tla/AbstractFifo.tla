---------------------------- MODULE AbstractFifo ----------------------------
(***************************************************************************)
(* What a message queue and a mailbox promise: a bounded queue of values.  *)
(* A value leaves it once, in the order of arrival except that an urgent   *)
(* one goes before all others, and what a client takes does not change in  *)
(* its hands.                                                              *)
(***************************************************************************)
EXTENDS Naturals, Sequences

CONSTANTS
  Client, Capacity,
  Value, NoValue,
  Urgent   \* the values that are sent as urgent ones

VARIABLES
  items,   \* the values in the queue
  taken    \* the value that each client has taken and is receiving

Init == items = <<>> /\ taken = [c \in Client |-> NoValue]

PutLast(v) ==
  /\ Len(items) < Capacity
  /\ items' = Append(items, v)
  /\ UNCHANGED taken

PutFirst(v) ==
  /\ Len(items) < Capacity
  /\ items' = <<v>> \o items
  /\ UNCHANGED taken

(* A client takes the first value, and has received it a little later. *)
Get(c) ==
  /\ items # <<>> /\ taken[c] = NoValue
  /\ taken' = [taken EXCEPT ![c] = Head(items)]
  /\ items' = Tail(items)

Received(c) ==
  /\ taken[c] # NoValue
  /\ taken' = [taken EXCEPT ![c] = NoValue]
  /\ UNCHANGED items

(* A client takes the first value at once. *)
GetAtOnce == items # <<>> /\ items' = Tail(items) /\ UNCHANGED taken

Clear == items' = <<>> /\ UNCHANGED taken

(* Messages may be urgent and are copied out by the client; mails neither. *)
NextMessage ==
  \/ Clear
  \/ \E v \in Value \ Urgent : PutLast(v)
  \/ \E v \in Urgent : PutFirst(v)
  \/ \E c \in Client : Get(c) \/ Received(c)
NextMail == Clear \/ GetAtOnce \/ \E v \in Value : PutLast(v)

MessageSpec == Init /\ [][NextMessage]_<<items, taken>>
MailSpec == Init /\ [][NextMail]_<<items, taken>>
=============================================================================
