---------------------------- MODULE OrderedFeed ----------------------------
(***************************************************************************)
(* What the message path promises a reader, without Redis, without the     *)
(* broker and without poll requests: one log that grows at its end, and    *)
(* for every window a part of that log which grows at its end too and      *)
(* jumps over nothing that can still be read.                              *)
(***************************************************************************)
EXTENDS Integers

CONSTANT Clients

VARIABLES
    length,   \* messages posted so far; message n is the n-th one
    hidden,   \* messages deleted since
    open,     \* clients whose window is open
    window    \* messages each client has been given

vars == <<length, hidden, open, window>>

Readable == (1..length) \ hidden

Init ==
    /\ length = 0
    /\ hidden = {}
    /\ open = {}
    /\ window = [c \in Clients |-> {}]

Post == length' = length + 1 /\ UNCHANGED <<hidden, open, window>>

Hide ==
    /\ \E n \in 1..length : hidden' = hidden \cup {n}
    /\ UNCHANGED <<length, open, window>>

\* A window opens on the newest readable messages.
Open(c) ==
    /\ c \notin open
    /\ open' = open \cup {c}
    /\ \E S \in SUBSET Readable :
          /\ \A n \in S, r \in Readable : n <= r => r \in S
          /\ window' = [window EXCEPT ![c] = S]
    /\ UNCHANGED <<length, hidden>>

\* S extends w at its end and leaves out nothing readable on the way.
Extends(w, S) ==
    /\ \A n \in S, m \in w : m < n
    /\ \A n \in S, r \in Readable :
          r <= n /\ (\A m \in w : m < r) => r \in S

\* A message may be hidden between the read and the delivery.
Deliver(c) ==
    /\ c \in open
    /\ \E S \in SUBSET (1..length) :
          /\ Extends(window[c], S)
          /\ window' = [window EXCEPT ![c] = @ \cup S]
    /\ UNCHANGED <<length, hidden, open>>

Next == Post \/ Hide \/ \E c \in Clients : Open(c) \/ Deliver(c)

Spec == Init /\ [][Next]_vars
=============================================================================
