--------------------------- MODULE CommandService ---------------------------
(***************************************************************************)
(* What a client command manager promises to the controllers that send     *)
(* commands through it (src/src/lib/client/CommandManager.hpp and the      *)
(* comments of SendCommand): the commands of a client are concluded in the *)
(* order they were sent, each by at most one call of one of its two        *)
(* handlers, or forgotten together when the connection ends.               *)
(***************************************************************************)
EXTENDS Sequences

CONSTANTS Clients, Commands, Owner, Results

VARIABLES
  submitted,  \* commands given to the service
  pending,    \* pending[k]: the commands of k without a conclusion, in order
  calls       \* calls[c]: the handler invocations of c

vars == <<submitted, pending, calls>>

Init ==
  /\ submitted = {}
  /\ pending = [k \in Clients |-> <<>>]
  /\ calls = [c \in Commands |-> <<>>]

\* A controller sends command c.
Submit(k, c) ==
  /\ Owner[c] = k
  /\ c \notin submitted
  /\ submitted' = submitted \cup {c}
  /\ pending' = [pending EXCEPT ![k] = Append(@, c)]
  /\ UNCHANGED calls

\* The oldest command is answered; its handler may end the connection.
Answer(k, r) ==
  /\ pending[k] # <<>>
  /\ calls' = [calls EXCEPT ![Head(pending[k])] = Append(@, r)]
  /\ \/ pending' = [pending EXCEPT ![k] = Tail(@)]
     \/ pending' = [pending EXCEPT ![k] = <<>>]
  /\ UNCHANGED submitted

\* The connection ends: nothing pending will ever be answered.
Abandon(k) ==
  /\ pending' = [pending EXCEPT ![k] = <<>>]
  /\ UNCHANGED <<submitted, calls>>

Next ==
  \E k \in Clients :
    \/ \E c \in Commands : Submit(k, c)
    \/ \E r \in Results : Answer(k, r)
    \/ Abandon(k)

Spec == Init /\ [][Next]_vars

=============================================================================
