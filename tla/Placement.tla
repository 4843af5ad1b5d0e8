------------------------------ MODULE Placement ------------------------------
(***************************************************************************)
(* What federation promises, without handler, secrets, workers or feature  *)
(* flags: messages are published in order, and each namespace of the       *)
(* subscribing cluster serves the instance at the URL of some message, or  *)
(* does not serve it.  A placement carries the position of the newest      *)
(* message it has seen; only a newer message ends it.                      *)
(***************************************************************************)
EXTENDS Integers, Sequences

CONSTANTS
    Places,                  \* namespaces of the cluster
    Nowhere,                 \* no placement
    Puts(_, _),              \* the message asks for the instance in the namespace
    Takes(_, _)              \* the message asks that the namespace does without

VARIABLES log, placed

Init ==
    /\ log = <<>>
    /\ \A p \in Places : placed[p] # Nowhere => placed[p].stamp = 0

Say ==
    /\ Len(log') = Len(log) + 1
    /\ \A i \in 1 .. Len(log) : log'[i] = log[i]
    /\ UNCHANGED placed

\* Any number of namespaces at a time.  What is there keeps its URL, and its stamp
\* only moves forward, never past the end of the log.
Put(i) ==
    /\ \A p \in Places : placed'[p] # placed[p] =>
          /\ Puts(log[i], p)
          /\ placed'[p] # Nowhere
          /\ placed'[p].url = log[i].url
          /\ placed'[p].stamp \in i .. Len(log)
          /\ placed[p] # Nowhere => placed[p].url = log[i].url /\ placed[p].stamp <= placed'[p].stamp
    /\ UNCHANGED log

TakeAway(i) ==
    /\ \A p \in Places : placed'[p] # placed[p] =>
          /\ Takes(log[i], p)
          /\ placed'[p] = Nowhere
          /\ placed[p].url = log[i].url
          /\ placed[p].stamp < i
    /\ UNCHANGED log

Next ==
    \/ Say
    \/ \E i \in 1 .. Len(log) : Put(i) \/ TakeAway(i)

Spec == Init /\ [][Next]_<<log, placed>>
=============================================================================
