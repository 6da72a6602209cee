----------------------------- MODULE EventStream -----------------------------
(***************************************************************************)
(* What the event stream of a run promises to its clients: a client that   *)
(* attaches is told every event of the run, from the first, in the order   *)
(* of publication, each once.                                              *)
(***************************************************************************)
EXTENDS Sequences, Naturals

CONSTANTS Clients, Events

VARIABLES
  published,    \* the events of the run
  open,         \* the clients that are attached
  told          \* what each client has been told since it last attached

vars == <<published, open, told>>

Init ==
  /\ published = <<>>
  /\ open = {}
  /\ told = [c \in Clients |-> <<>>]

Publish ==
  /\ published' \in Seq(Events)
  /\ Len(published') >= Len(published)
  /\ SubSeq(published', 1, Len(published)) = published
  /\ UNCHANGED <<open, told>>

Attach(c) ==
  /\ open' = open \cup {c}
  /\ told' = [told EXCEPT ![c] = <<>>]
  /\ UNCHANGED published

\* The stream may end with an event, and it may end without one.
Tell(c) ==
  /\ c \in open
  /\ Len(told[c]) < Len(published)
  /\ told' = [told EXCEPT ![c] = Append(@, published[Len(@) + 1])]
  /\ open' \in {open, open \ {c}}
  /\ UNCHANGED published

Detach(c) ==
  /\ open' = open \ {c}
  /\ told' = [told EXCEPT ![c] = <<>>]
  /\ UNCHANGED published

Next == Publish \/ \E c \in Clients : Attach(c) \/ Tell(c) \/ Detach(c)

Spec == Init /\ [][Next]_vars

==============================================================================
